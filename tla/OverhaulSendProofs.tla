------------------------- MODULE OverhaulSendProofs -------------------------
(***************************************************************************)
(* Proofs about OverhaulSend, for every value of its constants.            *)
(*                                                                         *)
(* TypeStep keeps the types.  AttemptStep, RemoteStep and LossStep say     *)
(* what a step may do to one attempt, to one offer at the provider, and to *)
(* the seller's assets; SenderStep, RefresherMoves and ReporterMoves what  *)
(* it may do to one thread.  Each part of the invariant IInv follows from  *)
(* these without looking at the actions again.                             *)
(*                                                                         *)
(* On IInv rest four parts: no reservation is left behind (OrphanInv); no  *)
(* live attempt loses its reservation as long as no claim overtakes a      *)
(* release (SpareInv), which holds where a package has one offer           *)
(* (FreerInv); nothing is written or promised twice; and the refinement of *)
(* OfferLedger, where OneChange says that a step changes either the store  *)
(* or the provider.                                                        *)
(***************************************************************************)
EXTENDS OverhaulSend, TLAPS

USE DEF rows, stored, memory, sender, refresher, provider, vars

\* A transition only changes the attempt it names.
LEMMA CASEffect ==
    ASSUME TypeRows, NEW x, x.attempt \in Attempts, x.to \in Live \cup Terminal, CAS(x)
    PROVE  /\ TypeRows' /\ aged' \subseteq aged
           /\ x.attempt \notin aged'
           /\ StateOf(x.attempt) = x.from /\ CanTransition(x.from, x.to)
           /\ \A a \in Attempts : StateOf(a)' = IF a = x.attempt THEN x.to ELSE StateOf(a)
<1>1. PICK s \in Sends, o \in Offers : x.attempt = <<s, o>>
  BY DEF Attempts
<1>2. state' = [state EXCEPT ![s][o] = x.to]
  BY <1>1 DEF CAS
<1>3. TypeRows'
  BY <1>2 DEF TypeRows, CAS, Attempts
<1>4. \A a \in Attempts : StateOf(a)' = IF a = x.attempt THEN x.to ELSE StateOf(a)
  <2> SUFFICES ASSUME NEW t \in Sends, NEW q \in Offers
               PROVE  state'[t][q] = IF <<t, q>> = <<s, o>> THEN x.to ELSE state[t][q]
    BY <1>1 DEF Attempts, StateOf
  <2> QED  BY <1>2 DEF TypeRows
<1> QED  BY <1>3, <1>4 DEF CAS, Swaps

LEMMA TransitionType ==
    ASSUME NEW x \in Transition
    PROVE  x.attempt \in Attempts /\ x.to \in Live \cup Terminal /\ x.from \in Live
BY DEF Transition

LEMMA TypeStep ==
    ASSUME TypeOK, WorkerInv, EvidenceInv, [Next]_vars
    PROVE  TypeOK'
<1> USE DEF TypeOK
<1>1. ASSUME NEW t \in Tokens, NEW S \in Selections, Prepare(t, S) PROVE TypeOK'
  <2>1. snapshot' \subseteq Assets
    BY <1>1 DEF Prepare, PickReads, Players, TypeStore, TypeProvider
  <2> QED
    BY <1>1, <2>1 DEF Prepare, TypeRows, TypeStore, TypeThreads, TypeSender, TypeRefresher, TypeProvider
<1>2. ASSUME NEW t \in Tokens, Expire(t) PROVE TypeOK'
  BY <1>2 DEF Expire, TypeRows, TypeStore, TypeThreads, TypeSender, TypeRefresher, TypeProvider, Goto, Threads, Resting, Counters
<1>3. ASSUME NEW s \in Sends, NEW t \in Tokens, NEW k \in Keys, Lookup(s, t, k) PROVE TypeOK'
  <2>1. TypeRows'
    BY <1>3 DEF Lookup, TypeRows
  <2>2. TypeStore'
    BY <1>3 DEF Lookup, TypeStore
  <2>3. TypeThreads'
    BY <1>3 DEF Lookup, TypeThreads, Goto, Answer, Threads, Resting, Counters
  <2>4. TypeSender'
    <3>1. CASE BatchesOf(k) # {}
      BY <1>3, <3>1 DEF Lookup, Answer, TypeSender
    <3>2. CASE BatchesOf(k) = {}
      BY <1>3, <3>2 DEF Lookup, TypeSender, TypeStore
    <3> QED  BY <3>1, <3>2
  <2>5. TypeRefresher'
    BY <1>3 DEF Lookup, TypeRefresher
  <2>6. TypeProvider'
    BY <1>3 DEF Lookup, TypeProvider
  <2> QED  BY <2>1, <2>2, <2>3, <2>4, <2>5, <2>6
<1>4. ASSUME NEW r \in Refreshers, NEW live \in BOOLEAN, StartRefresh(r, live) PROVE TypeOK'
  <2>1. TypeRows'
    BY <1>4 DEF StartRefresh, TypeRows
  <2>2. TypeStore'
    BY <1>4 DEF StartRefresh, TypeStore, TypeProvider
  <2>3. TypeThreads'
    BY <1>4 DEF StartRefresh, TypeThreads, Goto, Answer, Threads, Resting, Counters
  <2>4. TypeSender'
    BY <1>4 DEF StartRefresh, TypeSender, Answer
  <2>5. TypeRefresher'
    BY <1>4 DEF StartRefresh, Players, TypeRefresher, TypeStore, TypeProvider
  <2>6. TypeProvider'
    BY <1>4 DEF StartRefresh, TypeProvider
  <2> QED  BY <2>1, <2>2, <2>3, <2>4, <2>5, <2>6
<1>5. ASSUME NEW u \in Reporters, NEW a \in Attempts, NEW to \in Reportable, ReadAttempt(u, a, to) PROVE TypeOK'
  <2>1. TypeRows'
    BY <1>5 DEF ReadAttempt, TypeRows
  <2>2. TypeStore'
    BY <1>5 DEF ReadAttempt, TypeStore
  <2>3. TypeThreads'
    <3>1. [attempt |-> a, from |-> StateOf(a), to |-> to] \in Transition
      BY <1>5, BoundsAssumption DEF ReadAttempt, Transition, Live, Terminal, Settled
    <3> QED
      BY <1>5, <3>1 DEF ReadAttempt, Goto, TypeThreads, Threads, Resting, Counters
  <2>4. TypeSender'
    BY <1>5 DEF ReadAttempt, TypeSender, Answer
  <2>5. TypeRefresher'
    BY <1>5 DEF ReadAttempt, TypeRefresher
  <2>6. TypeProvider'
    BY <1>5 DEF ReadAttempt, TypeProvider
  <2> QED  BY <2>1, <2>2, <2>3, <2>4, <2>5, <2>6
<1>6. ASSUME NEW s \in Sends, CheckToken(s) PROVE TypeOK'
  <2>1. TypeRows'
    BY <1>6 DEF CheckToken, TypeRows
  <2>2. TypeStore'
    BY <1>6 DEF CheckToken, TypeStore
  <2>3. TypeThreads'
    BY <1>6 DEF CheckToken, TypeThreads, Goto, Answer, Threads, Resting, Counters
  <2>4. TypeSender'
    <3>1. prepared[token[s]] \in SUBSET Offers
      BY <1>6, SelectionsAssumption DEF CheckToken, WorkerInv, CallInv, TypeStore
    <3> QED
      BY <1>6, <3>1 DEF CheckToken, Answer, TypeSender
  <2>5. TypeRefresher'
    BY <1>6 DEF CheckToken, TypeRefresher
  <2>6. TypeProvider'
    BY <1>6 DEF CheckToken, TypeProvider
  <2> QED  BY <2>1, <2>2, <2>3, <2>4, <2>5, <2>6
<1>7. ASSUME NEW s \in Sends, ReadAttempts(s) PROVE TypeOK'
  <2>1. TypeRows'
    BY <1>7 DEF ReadAttempts, TypeRows
  <2>2. TypeStore'
    BY <1>7 DEF ReadAttempts, TypeStore
  <2>3. TypeThreads'
    BY <1>7 DEF ReadAttempts, TypeThreads, Goto, Answer, Threads, Resting, Counters
  <2>4. TypeSender'
    BY <1>7 DEF ReadAttempts, TypeSender, Answer
  <2>5. TypeRefresher'
    BY <1>7 DEF ReadAttempts, TypeRefresher
  <2>6. TypeProvider'
    BY <1>7 DEF ReadAttempts, TypeProvider
  <2> QED  BY <2>1, <2>2, <2>3, <2>4, <2>5, <2>6
<1>8. ASSUME NEW s \in Sends, ReadReservations(s) PROVE TypeOK'
  <2>1. TypeRows'
    BY <1>8 DEF ReadReservations, TypeRows
  <2>2. TypeStore'
    BY <1>8 DEF ReadReservations, TypeStore
  <2>3. TypeThreads'
    BY <1>8 DEF ReadReservations, TypeThreads, Goto, Answer, Threads, Resting, Counters
  <2>4. TypeSender'
    BY <1>8 DEF ReadReservations, TypeSender, Answer
  <2>5. TypeRefresher'
    BY <1>8 DEF ReadReservations, TypeRefresher
  <2>6. TypeProvider'
    BY <1>8 DEF ReadReservations, TypeProvider
  <2> QED  BY <2>1, <2>2, <2>3, <2>4, <2>5, <2>6
<1>9. ASSUME NEW s \in Sends, Claim(s) PROVE TypeOK'
  <2>1. TypeRows'
    BY <1>9 DEF Claim, TypeRows
  <2>2. TypeStore'
    <3>1. \A x \in Outgoing(selected[s]) : PackageFor(selected[s], x) \in Packages
      <4> SUFFICES ASSUME NEW x \in Outgoing(selected[s]) PROVE PackageFor(selected[s], x) \in Packages
        OBVIOUS
      <4>1. \E o \in selected[s] : x \in Give[o]
        BY DEF Outgoing
      <4>2. (CHOOSE o \in selected[s] : x \in Give[o]) \in selected[s]
        BY <4>1
      <4> QED
        BY <4>2, OffersAssumption DEF PackageFor, TypeSender
    <3> QED
      BY <1>9, <3>1 DEF Claim, TypeStore
  <2>3. TypeThreads'
    BY <1>9 DEF Claim, TypeThreads, Goto, Answer, Threads, Resting, Counters
  <2>4. TypeSender'
    BY <1>9 DEF Claim, TypeSender, Answer
  <2>5. TypeRefresher'
    BY <1>9 DEF Claim, TypeRefresher
  <2>6. TypeProvider'
    BY <1>9 DEF Claim, TypeProvider
  <2> QED  BY <2>1, <2>2, <2>3, <2>4, <2>5, <2>6
<1>10. ASSUME NEW s \in Sends, Insert(s) PROVE TypeOK'
  <2>1. TypeRows'
    BY <1>10 DEF Insert, TypeRows, Live
  <2>2. TypeStore'
    BY <1>10 DEF Insert, TypeStore
  <2>3. TypeThreads'
    BY <1>10 DEF Insert, TypeThreads, Goto, Answer, Threads, Resting, Counters
  <2>4. TypeSender'
    BY <1>10 DEF Insert, TypeSender, Answer
  <2>5. TypeRefresher'
    BY <1>10 DEF Insert, TypeRefresher
  <2>6. TypeProvider'
    BY <1>10 DEF Insert, TypeProvider
  <2> QED  BY <2>1, <2>2, <2>3, <2>4, <2>5, <2>6
<1>11. ASSUME NEW s \in Sends, Pop(s) PROVE TypeOK'
  BY <1>11 DEF Pop, TypeRows, TypeStore, TypeThreads, TypeSender, TypeRefresher, TypeProvider, Goto, Threads, Resting, Counters
<1>12. ASSUME NEW s \in Sends, Record(s) PROVE TypeOK'
  <2>1. TypeRows'
    <3> DEFINE x == [attempt |-> <<s, offer[s]>>, from |-> "sending", to |-> answer[s]]
    <3>1. x.attempt \in Attempts /\ x.to \in Live \cup Terminal
      BY <1>12 DEF Record, Attempts, Live, Terminal, WorkerInv, CallInv, RecordInv
    <3>2. CASE Swaps(x)
      BY <1>12, <3>1, <3>2, CASEffect DEF Record
    <3>3. CASE ~ Swaps(x)
      BY <1>12, <3>3 DEF Record, TypeRows
    <3> QED  BY <3>2, <3>3
  <2>2. TypeStore'
    BY <1>12 DEF Record, TypeStore
  <2>3. TypeThreads'
    BY <1>12, OffersAssumption DEF Record, Goto, TypeThreads, Threads, Resting, Counters, WorkerInv, CallInv
  <2>4. TypeSender'
    BY <1>12 DEF Record, TypeSender, Answer
  <2>5. TypeRefresher'
    BY <1>12 DEF Record, TypeRefresher
  <2>6. TypeProvider'
    BY <1>12 DEF Record, TypeProvider
  <2> QED  BY <2>1, <2>2, <2>3, <2>4, <2>5, <2>6
<1>13. ASSUME NEW s \in Sends, Finish(s) PROVE TypeOK'
  <2>1. TypeRows'
    BY <1>13 DEF Finish, TypeRows
  <2>2. TypeStore'
    BY <1>13 DEF Finish, TypeStore
  <2>3. TypeThreads'
    BY <1>13 DEF Finish, TypeThreads, Goto, Answer, Threads, Resting, Counters
  <2>4. TypeSender'
    BY <1>13 DEF Finish, TypeSender, Answer
  <2>5. TypeRefresher'
    BY <1>13 DEF Finish, TypeRefresher
  <2>6. TypeProvider'
    BY <1>13 DEF Finish, TypeProvider
  <2> QED  BY <2>1, <2>2, <2>3, <2>4, <2>5, <2>6
<1>14. ASSUME NEW s \in Sends, NEW o \in Offers, Dispatch(s, o) PROVE TypeOK'
  <2>1. TypeRows'
    <3> DEFINE x == [attempt |-> <<s, o>>, from |-> "queued", to |-> "sending"]
    <3>1. x.attempt \in Attempts /\ x.to \in Live \cup Terminal
      BY <1>14 DEF Dispatch, Attempts, Live, Terminal, WorkerInv, CallInv, RecordInv
    <3>2. CASE Swaps(x)
      BY <1>14, <3>1, <3>2, CASEffect DEF Dispatch
    <3>3. CASE ~ Swaps(x)
      BY <1>14, <3>3 DEF Dispatch, TypeRows
    <3> QED  BY <3>2, <3>3
  <2>2. TypeStore'
    BY <1>14 DEF Dispatch, TypeStore
  <2>3. TypeThreads'
    BY <1>14 DEF Dispatch, TypeThreads, Goto, Answer, Threads, Resting, Counters
  <2>4. TypeSender'
    BY <1>14 DEF Dispatch, TypeSender, Answer
  <2>5. TypeRefresher'
    BY <1>14 DEF Dispatch, TypeRefresher
  <2>6. TypeProvider'
    BY <1>14 DEF Dispatch, TypeProvider
  <2> QED  BY <2>1, <2>2, <2>3, <2>4, <2>5, <2>6
<1>15. ASSUME NEW s \in Sends, NEW result \in DOMAIN Outcomes, Call(s, result) PROVE TypeOK'
  <2>1. TypeRows'
    BY <1>15 DEF Call, TypeRows
  <2>2. TypeStore'
    BY <1>15 DEF Call, TypeStore
  <2>3. TypeThreads'
    BY <1>15 DEF Call, TypeThreads, Goto, Answer, Threads, Resting, Counters
  <2>4. TypeSender'
    BY <1>15 DEF Call, Goto, TypeSender, Outcomes
  <2>5. TypeRefresher'
    BY <1>15 DEF Call, TypeRefresher
  <2>6. TypeProvider'
    BY <1>15 DEF Call, TypeProvider, WorkerInv, CallInv, Attempts
  <2> QED  BY <2>1, <2>2, <2>3, <2>4, <2>5, <2>6
<1>16. ASSUME NEW r \in Refreshers, ListStuck(r) PROVE TypeOK'
  <2>1. TypeRows'
    BY <1>16 DEF ListStuck, TypeRows
  <2>2. TypeStore'
    BY <1>16 DEF ListStuck, TypeStore
  <2>3. TypeThreads'
    BY <1>16 DEF ListStuck, TypeThreads, Goto, Answer, Threads, Resting, Counters
  <2>4. TypeSender'
    BY <1>16 DEF ListStuck, TypeSender, Answer
  <2>5. TypeRefresher'
    <3> DEFINE found == {[attempt |-> a, from |-> StateOf(a), to |-> Stuck[StateOf(a)]] : a \in aged}
    <3>1. \A a \in aged : StateOf(a) \in {"queued", "sending"}
      BY DEF WorkerInv, AgedInv
    <3>2. found \subseteq Transition
      BY <3>1 DEF TypeRows, Stuck, Transition, Live, Terminal, Settled
    <3> QED
      BY <1>16, <3>2 DEF ListStuck, TypeRefresher
  <2>6. TypeProvider'
    BY <1>16 DEF ListStuck, TypeProvider
  <2> QED  BY <2>1, <2>2, <2>3, <2>4, <2>5, <2>6
<1>17. ASSUME NEW r \in Refreshers, ListOutcomes(r) PROVE TypeOK'
  <2>1. TypeRows'
    BY <1>17 DEF ListOutcomes, TypeRows
  <2>2. TypeStore'
    BY <1>17 DEF ListOutcomes, TypeStore
  <2>3. TypeThreads'
    BY <1>17 DEF ListOutcomes, TypeThreads, Goto, Answer, Threads, Resting, Counters
  <2>4. TypeSender'
    BY <1>17 DEF ListOutcomes, TypeSender, Answer
  <2>5. TypeRefresher'
    <3> DEFINE settling == {b \in Attempts : StateOf(b) \in {"proposed", "outcome_unknown"} /\ Evidence(r, b[2])}
    <3> DEFINE found == {[attempt |-> a, from |-> StateOf(a), to |-> Verdict(r, a[2])] : a \in settling}
    <3>1. found \subseteq Transition
      BY DEF Verdict, Transition, Live, Terminal, Settled
    <3> QED
      BY <1>17, <3>1 DEF ListOutcomes, TypeRefresher
  <2>6. TypeProvider'
    BY <1>17 DEF ListOutcomes, TypeProvider
  <2> QED  BY <2>1, <2>2, <2>3, <2>4, <2>5, <2>6
<1>18. ASSUME NEW r \in Refreshers, ListRivals(r) PROVE TypeOK'
  <2>1. TypeRows'
    BY <1>18 DEF ListRivals, TypeRows
  <2>2. TypeStore'
    BY <1>18 DEF ListRivals, TypeStore
  <2>3. TypeThreads'
    BY <1>18 DEF ListRivals, TypeThreads, Goto, Answer, Threads, Resting, Counters
  <2>4. TypeSender'
    BY <1>18 DEF ListRivals, TypeSender, Answer
  <2>5. TypeRefresher'
    <3> DEFINE found == {[attempt |-> a, from |-> StateOf(a), to |-> "invalidated"] : a \in LiveIn(package[r])}
    <3>1. found \subseteq Transition
      BY DEF LiveIn, Transition, Terminal, Settled
    <3> QED
      BY <1>18, <3>1 DEF ListRivals, TypeRefresher
  <2>6. TypeProvider'
    BY <1>18 DEF ListRivals, TypeProvider
  <2> QED  BY <2>1, <2>2, <2>3, <2>4, <2>5, <2>6
<1>19. ASSUME NEW r \in Refreshers, Invalidated(r) PROVE TypeOK'
  BY <1>19 DEF Invalidated, TypeRows, TypeStore, TypeThreads, TypeSender, TypeRefresher, TypeProvider, Goto, Threads, Resting, Counters
<1>20. ASSUME NEW r \in Refreshers, EndRefresh(r) PROVE TypeOK'
  <2>1. TypeRows'
    BY <1>20 DEF EndRefresh, TypeRows
  <2>2. TypeStore'
    BY <1>20 DEF EndRefresh, TypeStore
  <2>3. TypeThreads'
    BY <1>20 DEF EndRefresh, TypeThreads, Goto, Answer, Threads, Resting, Counters
  <2>4. TypeSender'
    BY <1>20 DEF EndRefresh, TypeSender, Answer
  <2>5. TypeRefresher'
    BY <1>20 DEF EndRefresh, TypeRefresher
  <2>6. TypeProvider'
    BY <1>20 DEF EndRefresh, TypeProvider
  <2> QED  BY <2>1, <2>2, <2>3, <2>4, <2>5, <2>6
<1>21. ASSUME NEW r \in Refreshers, NEW x \in todo[r], Sweep(r, x) PROVE TypeOK'
  <2>1. TypeRows'
    <3>1. x \in Transition
      BY DEF TypeRefresher
    <3>2. CASE Swaps(x)
      BY <1>21, <3>1, <3>2, TransitionType, CASEffect DEF Sweep
    <3>3. CASE ~ Swaps(x)
      BY <1>21, <3>3 DEF Sweep, TypeRows
    <3> QED  BY <3>2, <3>3
  <2>2. TypeStore'
    BY <1>21 DEF Sweep, TypeStore
  <2>3. TypeThreads'
    <3>1. x.attempt[2] \in Offers
      BY TransitionType DEF TypeRefresher, Attempts
    <3> QED
      BY <1>21, <3>1, OffersAssumption DEF Sweep, Free, Goto, TypeThreads, Threads, Resting, Counters
  <2>4. TypeSender'
    BY <1>21 DEF Sweep, TypeSender, Answer
  <2>5. TypeRefresher'
    BY <1>21 DEF Sweep, Drop, TypeRefresher
  <2>6. TypeProvider'
    BY <1>21 DEF Sweep, TypeProvider
  <2> QED  BY <2>1, <2>2, <2>3, <2>4, <2>5, <2>6
<1>22. ASSUME NEW r \in Refreshers, NEW x \in todo[r], Settle(r, x) PROVE TypeOK'
  <2>1. TypeRows'
    <3>1. x \in Transition
      BY DEF TypeRefresher
    <3>2. CASE Swaps(x)
      BY <1>22, <3>1, <3>2, TransitionType, CASEffect DEF Settle
    <3>3. CASE ~ Swaps(x)
      BY <1>22, <3>3 DEF Settle, TypeRows
    <3> QED  BY <3>2, <3>3
  <2>2. TypeStore'
    BY <1>22 DEF Settle, TypeStore
  <2>3. TypeThreads'
    <3>1. x.attempt[2] \in Offers
      BY TransitionType DEF TypeRefresher, Attempts
    <3> QED
      BY <1>22, <3>1, OffersAssumption DEF Settle, Free, Goto, TypeThreads, Threads, Resting, Counters
  <2>4. TypeSender'
    BY <1>22 DEF Settle, TypeSender, Answer
  <2>5. TypeRefresher'
    BY <1>22 DEF Settle, Drop, TypeRefresher
  <2>6. TypeProvider'
    BY <1>22 DEF Settle, TypeProvider
  <2> QED  BY <2>1, <2>2, <2>3, <2>4, <2>5, <2>6
<1>23. ASSUME NEW r \in Refreshers, NEW x \in rivals[r], Invalidate(r, x) PROVE TypeOK'
  <2>1. TypeRows'
    <3>1. x \in Transition
      BY DEF TypeRefresher
    <3>2. CASE Swaps(x)
      BY <1>23, <3>1, <3>2, TransitionType, CASEffect DEF Invalidate
    <3>3. CASE ~ Swaps(x)
      BY <1>23, <3>3 DEF Invalidate, TypeRows
    <3> QED  BY <3>2, <3>3
  <2>2. TypeStore'
    BY <1>23 DEF Invalidate, TypeStore
  <2>3. TypeThreads'
    BY <1>23 DEF Invalidate, TypeThreads, Goto, Answer, Threads, Resting, Counters
  <2>4. TypeSender'
    BY <1>23 DEF Invalidate, TypeSender, Answer
  <2>5. TypeRefresher'
    BY <1>23 DEF Invalidate, TypeRefresher
  <2>6. TypeProvider'
    BY <1>23 DEF Invalidate, TypeProvider
  <2> QED  BY <2>1, <2>2, <2>3, <2>4, <2>5, <2>6
<1>24. ASSUME NEW u \in Reporters, Report(u) PROVE TypeOK'
  <2>1. TypeRows'
    <3>1. report[u] \in Transition
      BY <1>24 DEF Report, EvidenceInv, ReportInv
    <3>2. CASE Swaps(report[u])
      BY <1>24, <3>1, <3>2, TransitionType, CASEffect DEF Report
    <3>3. CASE ~ Swaps(report[u])
      BY <1>24, <3>3 DEF Report, TypeRows
    <3> QED  BY <3>2, <3>3
  <2>2. TypeStore'
    BY <1>24 DEF Report, TypeStore
  <2>3. TypeThreads'
    <3>1. report[u].attempt[2] \in Offers
      BY <1>24, TransitionType DEF Report, EvidenceInv, ReportInv, Attempts
    <3> QED
      BY <1>24, <3>1, OffersAssumption DEF Report, Goto, TypeThreads, Threads, Resting, Counters
  <2>4. TypeSender'
    BY <1>24 DEF Report, TypeSender, Answer
  <2>5. TypeRefresher'
    BY <1>24 DEF Report, TypeRefresher
  <2>6. TypeProvider'
    BY <1>24 DEF Report, TypeProvider
  <2> QED  BY <2>1, <2>2, <2>3, <2>4, <2>5, <2>6
<1>25. ASSUME NEW th \in Threads, CheckIdle(th) PROVE TypeOK'
  <2>1. TypeRows'
    BY <1>25 DEF CheckIdle, TypeRows
  <2>2. TypeStore'
    BY <1>25 DEF CheckIdle, TypeStore
  <2>3. TypeThreads'
    BY <1>25 DEF CheckIdle, After, Goto, TypeThreads, TypeRefresher, Threads, Resting, Counters
  <2>4. TypeSender'
    BY <1>25 DEF CheckIdle, TypeSender, Answer
  <2>5. TypeRefresher'
    BY <1>25 DEF CheckIdle, TypeRefresher
  <2>6. TypeProvider'
    BY <1>25 DEF CheckIdle, TypeProvider
  <2> QED  BY <2>1, <2>2, <2>3, <2>4, <2>5, <2>6
<1>26. ASSUME NEW th \in Threads, Release(th) PROVE TypeOK'
  <2>1. TypeRows'
    BY <1>26 DEF Release, TypeRows
  <2>2. TypeStore'
    BY <1>26 DEF Release, Freed, TypeStore
  <2>3. TypeThreads'
    BY <1>26 DEF Release, After, Goto, TypeThreads, TypeRefresher, Threads, Resting, Counters
  <2>4. TypeSender'
    BY <1>26 DEF Release, TypeSender, Answer
  <2>5. TypeRefresher'
    BY <1>26 DEF Release, TypeRefresher
  <2>6. TypeProvider'
    BY <1>26 DEF Release, TypeProvider
  <2> QED  BY <2>1, <2>2, <2>3, <2>4, <2>5, <2>6
<1>27. ASSUME NEW s \in Sends, NEW o \in Offers, Age(s, o) PROVE TypeOK'
  <2>1. TypeRows'
    BY <1>27 DEF Age, TypeRows, Attempts
  <2>2. TypeStore'
    BY <1>27 DEF Age, TypeStore
  <2>3. TypeThreads'
    BY <1>27 DEF Age, TypeThreads, Goto, Answer, Threads, Resting, Counters
  <2>4. TypeSender'
    BY <1>27 DEF Age, TypeSender, Answer
  <2>5. TypeRefresher'
    BY <1>27 DEF Age, TypeRefresher
  <2>6. TypeProvider'
    BY <1>27 DEF Age, TypeProvider
  <2> QED  BY <2>1, <2>2, <2>3, <2>4, <2>5, <2>6
<1>28. ASSUME NEW s \in Sends, NEW o \in Offers, Accept(s, o) PROVE TypeOK'
  <2>1. TypeRows'
    BY <1>28 DEF Accept, TypeRows
  <2>2. TypeStore'
    BY <1>28 DEF Accept, TypeStore
  <2>3. TypeThreads'
    BY <1>28 DEF Accept, TypeThreads, Goto, Answer, Threads, Resting, Counters
  <2>4. TypeSender'
    BY <1>28 DEF Accept, TypeSender, Answer
  <2>5. TypeRefresher'
    BY <1>28 DEF Accept, TypeRefresher
  <2>6. TypeProvider'
    BY <1>28, OffersAssumption DEF Accept, Ended, TypeProvider
  <2> QED  BY <2>1, <2>2, <2>3, <2>4, <2>5, <2>6
<1>29. ASSUME NEW s \in Sends, NEW o \in Offers, Close(s, o) PROVE TypeOK'
  BY <1>29 DEF Close, TypeRows, TypeStore, TypeThreads, TypeSender, TypeRefresher, TypeProvider, Goto, Threads, Resting, Counters
<1>30. ASSUME NEW x \in Assets, TradeAway(x) PROVE TypeOK'
  <2>1. TypeRows'
    BY <1>30 DEF TradeAway, TypeRows
  <2>2. TypeStore'
    BY <1>30 DEF TradeAway, TypeStore
  <2>3. TypeThreads'
    BY <1>30 DEF TradeAway, TypeThreads, Goto, Answer, Threads, Resting, Counters
  <2>4. TypeSender'
    BY <1>30 DEF TradeAway, TypeSender, Answer
  <2>5. TypeRefresher'
    BY <1>30 DEF TradeAway, TypeRefresher
  <2>6. TypeProvider'
    BY <1>30 DEF TradeAway, Ended, TypeProvider
  <2> QED  BY <2>1, <2>2, <2>3, <2>4, <2>5, <2>6
<1>31. CASE Restart
  <2>1. TypeRows'
    BY <1>31 DEF Restart, TypeRows
  <2>2. TypeStore'
    BY <1>31 DEF Restart, TypeStore
  <2>3. TypeThreads'
    <3>1. pc' \in [Threads -> Counters]
      BY <1>31 DEF Restart, TypeThreads, Counters, Resting
    <3> QED
      BY <1>31, <3>1 DEF Restart, TypeThreads
  <2>4. TypeSender'
    BY <1>31 DEF Restart, TypeSender, Answer
  <2>5. TypeRefresher'
    BY <1>31 DEF Restart, TypeRefresher
  <2>6. TypeProvider'
    BY <1>31, BoundsAssumption DEF Restart, TypeProvider
  <2> QED  BY <2>1, <2>2, <2>3, <2>4, <2>5, <2>6

<1>36. ASSUME NEW r \in Refreshers, NEW live \in BOOLEAN, ReadPicks(r, live) PROVE TypeOK'
  <2>1. PICK picks \in PickReads(live) :
            mine' = [mine EXCEPT ![r] = @ \cup picks] /\ snapshot' = mine[r] \cup picks
    BY <1>36 DEF ReadPicks
  <2>2. picks \subseteq Assets
    BY DEF PickReads, TypeStore, TypeProvider
  <2>3. TypeStore' /\ TypeRefresher'
    BY <1>36, <2>1, <2>2 DEF ReadPicks, TypeStore, TypeRefresher
  <2>4. TypeThreads'
    BY <1>36 DEF ReadPicks, TypeThreads, Goto, Threads, Counters
  <2> QED
    BY <1>36, <2>3, <2>4 DEF ReadPicks, TypeRows, TypeSender, TypeProvider
<1>32. CASE UNCHANGED vars
  BY <1>32 DEF TypeRows, TypeStore, TypeThreads, TypeSender, TypeRefresher, TypeProvider
<1>33. CASE Requests
  BY <1>33, <1>1, <1>2, <1>3, <1>4, <1>5 DEF Requests
<1>34. CASE Steps
  <2>1. ASSUME NEW s \in Sends, SendStep(s) PROVE TypeOK'
    BY <2>1, <1>6, <1>7, <1>8, <1>9, <1>10, <1>11, <1>12, <1>13, <1>14, <1>15 DEF SendStep
  <2>2. ASSUME NEW r \in Refreshers, RefreshStep(r) PROVE TypeOK'
    BY <2>2, <1>16, <1>17, <1>18, <1>19, <1>20, <1>21, <1>22, <1>23, <1>36 DEF RefreshStep
  <2> QED  BY <1>34, <2>1, <2>2, <1>24, <1>25, <1>26 DEF Steps, ReleaseStep
<1>35. CASE World
  BY <1>35, <1>27, <1>28, <1>29, <1>30 DEF World
<1> QED
  BY <1>31, <1>32, <1>33, <1>34, <1>35 DEF Next

------------------------------------------------------------------------------
\* What a step may do to an attempt.

Inserted(a) ==
    /\ StateOf(a) = "none" /\ StateOf(a)' = "queued" /\ UNCHANGED reserved
    /\ pc[a[1]] = "insert" /\ pc'[a[1]] = "pop" /\ a[2] \in selected[a[1]]
Dispatched(a) ==
    /\ StateOf(a) = "queued" /\ StateOf(a)' = "sending"
    /\ pc[a[1]] = "dispatch" /\ pc'[a[1]] = "call"
Answered(a) ==
    /\ StateOf(a) = "sending" /\ StateOf(a)' = answer[a[1]]
    /\ pc[a[1]] = "record" /\ pc'[a[1]] \notin {"call", "record"} /\ a = Current(a[1])
    /\ answer[a[1]] \in {"proposed", "send_failed", "outcome_unknown"}
Swept(a) ==
    \/ StateOf(a) = "queued" /\ StateOf(a)' = "stale"
    \/ StateOf(a) = "sending" /\ StateOf(a)' = "outcome_unknown" /\ pc[a[1]] = "dead"
Lost(a) ==
    /\ StateOf(a) \in {"queued", "proposed", "outcome_unknown"}
    /\ StateOf(a)' \in {"accepted", "resolved_elsewhere", "invalidated"}
    /\ ~ Promised(a[2])
    /\ StateOf(a)' = "resolved_elsewhere" /\ Give[a[2]] \cap Picks = {} => RemoteOf(a) # "accepted"
Reported(a) ==
    /\ StateOf(a) \in {"proposed", "outcome_unknown"}
    /\ StateOf(a)' \in {"declined", "withdrawn", "expired"}
    /\ RemoteOf(a) # "pending"

Moved(a) == Inserted(a) \/ Dispatched(a) \/ Answered(a) \/ Swept(a) \/ Lost(a) \/ Reported(a)

LEMMA SameState ==
    ASSUME state' = state
    PROVE  \A a : StateOf(a)' = StateOf(a)
BY DEF StateOf

LEMMA SweptOrLost ==
    ASSUME TypeRows, NEW x \in Transition, CAS(x), SweepItem(x) \/ LossItem(x),
           NEW a \in Attempts
    PROVE  StateOf(a)' = StateOf(a) \/ ((Swept(a) \/ Lost(a)) /\ a \notin aged')
<1>1. /\ StateOf(a)' = IF a = x.attempt THEN x.to ELSE StateOf(a)
      /\ StateOf(x.attempt) = x.from /\ CanTransition(x.from, x.to)
      /\ x.attempt \notin aged'
  BY TransitionType, CASEffect
<1>2. CASE SweepItem(x)
  BY <1>1, <1>2 DEF SweepItem, Swept
<1>3. CASE LossItem(x)
  BY <1>1, <1>3 DEF LossItem, Lost, CanTransition, Allowed, Settled
<1> QED  BY <1>2, <1>3

\* An attempt changes only as its batch, a sweep, a loss or the user has it
\* change, and then the provider does not.
LEMMA AttemptStep ==
    ASSUME TypeOK, WorkerInv, EvidenceInv, [Next]_vars, NEW a \in Attempts
    PROVE  StateOf(a)' = StateOf(a) \/ (Moved(a) /\ UNCHANGED provider /\ a \notin aged')
<1> DEFINE Goal == StateOf(a)' = StateOf(a) \/ (Moved(a) /\ UNCHANGED provider /\ a \notin aged')
<1> USE DEF TypeOK
<1>1. PICK b \in Sends, q \in Offers : a = <<b, q>>
  BY DEF Attempts
<1>2. ASSUME NEW s \in Sends, Insert(s) PROVE Goal
  <2>1. CASE b = s
    <3>1. StateOf(a) = "none" /\ a \notin aged'
      BY <1>1, <1>2, <2>1 DEF Insert, WorkerInv, RowsInv, AgedInv
    <3>2. StateOf(a)' = IF a[2] \in selected[a[1]] THEN "queued" ELSE "none"
      BY <1>1, <1>2, <2>1 DEF Insert, StateOf, TypeRows
    <3> QED
      BY <1>1, <1>2, <2>1, <3>1, <3>2 DEF Insert, Inserted, Moved, Goto, TypeThreads, Threads
  <2>2. CASE b # s
    BY <1>1, <1>2, <2>2 DEF Insert, StateOf, TypeRows
  <2> QED  BY <2>1, <2>2
<1>3. ASSUME NEW s \in Sends, NEW o \in Offers, Dispatch(s, o) PROVE Goal
  <2> DEFINE x == [attempt |-> <<s, o>>, from |-> "queued", to |-> "sending"]
  <2>1. CASE Swaps(x)
    <3>1. /\ StateOf(a)' = IF a = <<s, o>> THEN "sending" ELSE StateOf(a)
          /\ StateOf(<<s, o>>) = "queued" /\ <<s, o>> \notin aged'
      BY <1>3, <2>1, CASEffect DEF Dispatch, Attempts, Live
    <3> QED  BY <1>3, <2>1, <3>1 DEF Dispatch, Dispatched, Moved, Goto, TypeThreads, Threads
  <2>2. CASE ~ Swaps(x)
    BY <1>3, <2>2, SameState DEF Dispatch
  <2> QED  BY <2>1, <2>2
<1>4. ASSUME NEW s \in Sends, Record(s) PROVE Goal
  <2> DEFINE x == [attempt |-> <<s, offer[s]>>, from |-> "sending", to |-> answer[s]]
  <2>0. offer[s] \in Offers /\ answer[s] \in {"proposed", "send_failed", "outcome_unknown"}
    BY <1>4 DEF Record, WorkerInv, CallInv, RecordInv
  <2>1. CASE Swaps(x)
    <3>1. /\ StateOf(a)' = IF a = <<s, offer[s]>> THEN answer[s] ELSE StateOf(a)
          /\ StateOf(<<s, offer[s]>>) = "sending" /\ <<s, offer[s]>> \notin aged'
      BY <1>4, <2>0, <2>1, CASEffect DEF Record, Attempts, Live, Terminal
    <3> QED
      BY <1>4, <2>0, <3>1 DEF Record, Answered, Current, Moved, Goto, TypeThreads, Threads
  <2>2. CASE ~ Swaps(x)
    BY <1>4, <2>2, SameState DEF Record
  <2> QED  BY <2>1, <2>2
<1>5. ASSUME NEW r \in Refreshers, NEW x \in todo[r], Sweep(r, x) PROVE Goal
  <2>1. x \in Transition /\ (SweepItem(x) \/ LossItem(x))
    BY DEF TypeRefresher, EvidenceInv, TodoInv
  <2> QED  BY <1>5, <2>1, SweptOrLost, SameState DEF Sweep, Moved
<1>6. ASSUME NEW r \in Refreshers, NEW x \in todo[r], Settle(r, x) PROVE Goal
  <2>1. x \in Transition /\ (SweepItem(x) \/ LossItem(x))
    BY DEF TypeRefresher, EvidenceInv, TodoInv
  <2> QED  BY <1>6, <2>1, SweptOrLost, SameState DEF Settle, Moved
<1>7. ASSUME NEW r \in Refreshers, NEW x \in rivals[r], Invalidate(r, x) PROVE Goal
  <2>1. x \in Transition /\ x.to = "invalidated" /\ ~ Promised(x.attempt[2])
    BY DEF TypeRefresher, EvidenceInv, TodoInv
  <2>2. CASE Swaps(x)
    <3>1. /\ StateOf(a)' = IF a = x.attempt THEN "invalidated" ELSE StateOf(a)
          /\ StateOf(x.attempt) = x.from /\ CanTransition(x.from, "invalidated")
          /\ x.attempt \notin aged'
      BY <1>7, <2>1, <2>2, TransitionType, CASEffect DEF Invalidate
    <3> QED  BY <1>7, <2>1, <3>1 DEF Invalidate, CanTransition, Allowed, Settled, Lost, Moved
  <2>3. CASE ~ Swaps(x)
    BY <1>7, <2>3, SameState DEF Invalidate
  <2> QED  BY <2>2, <2>3
<1>8. ASSUME NEW u \in Reporters, Report(u) PROVE Goal
  <2> DEFINE x == report[u]
  <2>1. /\ x \in Transition /\ x.to \in Reportable /\ RemoteOf(x.attempt) # "pending"
        /\ StateOf(x.attempt) \notin {"none", "queued", "sending"}
    BY <1>8 DEF Report, EvidenceInv, ReportInv
  <2>2. CASE Swaps(x)
    <3>1. /\ StateOf(a)' = IF a = x.attempt THEN x.to ELSE StateOf(a)
          /\ StateOf(x.attempt) = x.from /\ CanTransition(x.from, x.to)
          /\ x.attempt \notin aged'
      BY <1>8, <2>1, <2>2, TransitionType, CASEffect DEF Report
    <3>2. x.from \in {"proposed", "outcome_unknown"}
      BY <2>1, <3>1 DEF CanTransition, Allowed
    <3> QED  BY <1>8, <2>1, <3>1, <3>2, BoundsAssumption DEF Report, Reported, Moved
  <2>3. CASE ~ Swaps(x)
    BY <1>8, <2>3, SameState DEF Report
  <2> QED  BY <2>2, <2>3
<1>9. ASSUME state' = state PROVE Goal
  <2>1. StateOf(a)' = StateOf(a)
    BY <1>9, SameState
  <2> QED  BY <2>1
<1> QED
  <2>1. ASSUME NEW s \in Sends, SendStep(s) PROVE Goal
    BY <2>1, <1>2, <1>3, <1>4, <1>9
    DEF SendStep, CheckToken, ReadAttempts, ReadReservations, Claim, Pop, Finish, Call
  <2>2. ASSUME NEW r \in Refreshers, RefreshStep(r) PROVE Goal
    BY <2>2, <1>5, <1>6, <1>7, <1>9
    DEF RefreshStep, ReadPicks, ListStuck, ListOutcomes, ListRivals, Invalidated, EndRefresh
  <2>3. CASE Steps
    BY <2>3, <2>1, <2>2, <1>8, <1>9 DEF Steps, ReleaseStep, CheckIdle, Release
  <2>4. CASE Requests
    BY <2>4, <1>9 DEF Requests, Prepare, Expire, Lookup, StartRefresh, ReadAttempt
  <2>5. CASE World
    BY <2>5, <1>9 DEF World, Age, Accept, Close, TradeAway
  <2>6. CASE Restart \/ UNCHANGED vars
    BY <2>6, <1>9 DEF Restart
  <2> QED  BY <2>3, <2>4, <2>5, <2>6 DEF Next

\* What a step may do to an offer at the provider.
CalledNow(a) ==
    /\ pc[a[1]] = "call" /\ pc'[a[1]] = "record" /\ a = Current(a[1])
    /\ Promised(a[2]) /\ owned' = owned /\ RemoteOf(a)' = "pending"

LEMMA RemoteStep ==
    ASSUME TypeOK, WorkerInv, RemoteInv, [Next]_vars, NEW a \in Attempts
    PROVE  /\ \/ RemoteOf(a)' = RemoteOf(a)
              \/ RemoteOf(a) = "pending" /\ RemoteOf(a)' \in {"accepted", "closed"}
              \/ CalledNow(a)
           /\ RemoteOf(a)' = "pending" => Promised(a[2])'
           /\ a \in misreported => a \in misreported'
           /\ a \in misreported' => a \in misreported \/ CalledNow(a)
<1> DEFINE Goal == /\ \/ RemoteOf(a)' = RemoteOf(a)
                      \/ RemoteOf(a) = "pending" /\ RemoteOf(a)' \in {"accepted", "closed"}
                      \/ CalledNow(a)
                   /\ RemoteOf(a)' = "pending" => Promised(a[2])'
                   /\ a \in misreported => a \in misreported'
                   /\ a \in misreported' => a \in misreported \/ CalledNow(a)
<1> USE DEF TypeOK, TypeProvider
<1>1. PICK b \in Sends, q \in Offers : a = <<b, q>>
  BY DEF Attempts
<1>2. RemoteOf(a) = "pending" => Promised(a[2])
  BY DEF RemoteInv
<1>3. ASSUME NEW s \in Sends, NEW result \in DOMAIN Outcomes, Call(s, result) PROVE Goal
  <2>1. CASE a = Current(s) /\ result \in {"taken", "late", "failure"}
    <3>1. Promised(a[2])
      BY <1>3, <2>1 DEF Call, Possible, Promised, Current
    <3>2. RemoteOf(a)' = "pending" /\ owned' = owned /\ pc[s] = "call" /\ pc'[s] = "record"
      BY <1>1, <1>3, <2>1 DEF Call, Current, RemoteOf, Goto, TypeThreads, Threads
    <3> QED  BY <1>1, <1>3, <2>1, <3>1, <3>2 DEF Call, CalledNow, Current, Promised
  <2>2. CASE ~ (a = Current(s) /\ result \in {"taken", "late", "failure"})
    <3>1. /\ RemoteOf(a)' = RemoteOf(a) /\ owned' = owned
          /\ a \in misreported <=> a \in misreported'
      BY <1>1, <1>3, <2>2 DEF Call, Current, RemoteOf
    <3> QED  BY <1>2, <3>1 DEF Promised
  <2> QED  BY <2>1, <2>2
<1>4. ASSUME NEW s \in Sends, NEW o \in Offers, Accept(s, o) PROVE Goal
  <2>1. \/ RemoteOf(a)' = RemoteOf(a) /\ (RemoteOf(a) = "pending" => Give[q] \cap Give[o] = {})
        \/ RemoteOf(a) = "pending" /\ RemoteOf(a)' \in {"accepted", "closed"}
    BY <1>1, <1>4 DEF Accept, Ended, RemoteOf
  <2>2. owned' = (owned \ Give[o]) \cup Receive[o] /\ misreported' = misreported
    BY <1>4 DEF Accept
  <2> QED  BY <1>1, <1>2, <2>1, <2>2, OffersAssumption DEF Promised
<1>5. ASSUME NEW s \in Sends, NEW o \in Offers, Close(s, o) PROVE Goal
  BY <1>1, <1>2, <1>5 DEF Close, RemoteOf, Promised
<1>6. ASSUME NEW x \in Assets, TradeAway(x) PROVE Goal
  <2>1. \/ RemoteOf(a)' = RemoteOf(a) /\ (RemoteOf(a) = "pending" => Give[q] \cap {x} = {})
        \/ RemoteOf(a) = "pending" /\ RemoteOf(a)' \in {"accepted", "closed"}
    BY <1>1, <1>6 DEF TradeAway, Ended, RemoteOf
  <2> QED  BY <1>1, <1>2, <1>6, <2>1 DEF TradeAway, Promised
<1>7. ASSUME UNCHANGED provider PROVE Goal
  BY <1>2, <1>7 DEF RemoteOf, Promised
<1> QED
  <2>1. ASSUME NEW s \in Sends, SendStep(s) PROVE Goal
    BY <2>1, <1>3, <1>7
    DEF SendStep, CheckToken, ReadAttempts, ReadReservations, Claim, Insert, Pop, Record, Finish, Dispatch
  <2>2. ASSUME NEW r \in Refreshers, RefreshStep(r) PROVE Goal
    BY <2>2, <1>7
    DEF RefreshStep, ReadPicks, ListStuck, ListOutcomes, ListRivals, Invalidated, EndRefresh, Sweep, Settle, Invalidate
  <2>3. CASE Steps
    BY <2>3, <2>1, <2>2, <1>7 DEF Steps, ReleaseStep, CheckIdle, Release, Report
  <2>4. CASE Requests
    BY <2>4, <1>7 DEF Requests, Prepare, Expire, Lookup, StartRefresh, ReadAttempt
  <2>5. CASE World
    BY <2>5, <1>4, <1>5, <1>6, <1>7 DEF World, Age
  <2>6. CASE Restart \/ UNCHANGED vars
    BY <2>6, <1>7 DEF Restart
  <2> QED  BY <2>3, <2>4, <2>5, <2>6 DEF Next

\* An asset the seller no longer owns stays away.
LEMMA LossStep ==
    ASSUME TypeOK, [Next]_vars, NEW o \in Offers
    PROVE  Give[o] \cap owned' \subseteq Give[o] \cap owned
<1> DEFINE Goal == Give[o] \cap owned' \subseteq Give[o] \cap owned
<1>1. ASSUME NEW s \in Sends, NEW q \in Offers, Accept(s, q) PROVE Goal
  BY <1>1, ReceiveAssumption DEF Accept
<1>2. ASSUME NEW x \in Assets, TradeAway(x) PROVE Goal
  BY <1>2 DEF TradeAway
<1>3. ASSUME owned' = owned PROVE Goal
  BY <1>3
<1> QED
  <2>1. ASSUME NEW s \in Sends, SendStep(s) PROVE Goal
    BY <2>1, <1>3
    DEF SendStep, CheckToken, ReadAttempts, ReadReservations, Claim, Insert, Pop, Record, Finish, Dispatch, Call
  <2>2. ASSUME NEW r \in Refreshers, RefreshStep(r) PROVE Goal
    BY <2>2, <1>3
    DEF RefreshStep, ReadPicks, ListStuck, ListOutcomes, ListRivals, Invalidated, EndRefresh, Sweep, Settle, Invalidate
  <2>3. CASE Steps
    BY <2>3, <2>1, <2>2, <1>3 DEF Steps, ReleaseStep, CheckIdle, Release, Report
  <2>4. CASE Requests
    BY <2>4, <1>3 DEF Requests, Prepare, Expire, Lookup, StartRefresh, ReadAttempt
  <2>5. CASE World
    BY <2>5, <1>1, <1>2, <1>3 DEF World, Age, Close
  <2>6. CASE Restart \/ UNCHANGED vars
    BY <2>6, <1>3 DEF Restart
  <2> QED  BY <2>3, <2>4, <2>5, <2>6 DEF Next

------------------------------------------------------------------------------
\* A step moves one thread; a restart moves them all.

SenderSame(s) ==
    /\ pc'[s] = pc[s] /\ offer'[s] = offer[s] /\ answer'[s] = answer[s] /\ token'[s] = token[s]
    /\ selected'[s] = selected[s] /\ package'[s] = package[s]
RefresherSame(r) ==
    /\ pc'[r] = pc[r] /\ package'[r] = package[r] /\ mine'[r] = mine[r]
    /\ fresh'[r] = fresh[r] /\ todo'[r] = todo[r] /\ rivals'[r] = rivals[r] /\ phase'[r] = phase[r]
ReporterSame(u) == pc'[u] = pc[u] /\ report'[u] = report[u] /\ package'[u] = package[u]

Looks(s)     == \E t \in Tokens, k \in Keys : Lookup(s, t, k)
Refreshes(r) == \E live \in BOOLEAN : StartRefresh(r, live)
Reads(u)     == \E a \in Attempts, to \in Reportable : ReadAttempt(u, a, to)

LEMMA SenderMoves ==
    ASSUME TypeOK, [Next]_vars, NEW s \in Sends
    PROVE  SenderSame(s) \/ Looks(s) \/ SendStep(s) \/ ReleaseStep(s) \/ Restart
<1> DEFINE Goal == SenderSame(s) \/ Looks(s) \/ SendStep(s) \/ ReleaseStep(s) \/ Restart
<1> USE ThreadsAssumption DEF TypeOK, TypeThreads, TypeSender, Threads, Goto, Answer, SenderSame
<1>1. ASSUME NEW z \in Sends, SendStep(z) PROVE z # s => SenderSame(s)
  <2>1. CASE CheckToken(z) \/ ReadAttempts(z) \/ ReadReservations(z) \/ Finish(z)
    BY <2>1 DEF CheckToken, ReadAttempts, ReadReservations, Finish
  <2>2. CASE Claim(z) \/ Insert(z) \/ Pop(z)
    BY <2>2 DEF Claim, Insert, Pop
  <2>3. CASE Record(z)
    BY <2>3 DEF Record
  <2>4. ASSUME NEW o \in Offers, Dispatch(z, o) PROVE z # s => SenderSame(s)
    BY <2>4 DEF Dispatch
  <2>5. ASSUME NEW result \in DOMAIN Outcomes, Call(z, result) PROVE z # s => SenderSame(s)
    BY <2>5 DEF Call
  <2> QED  BY <1>1, <2>1, <2>2, <2>3, <2>4, <2>5 DEF SendStep
<1>2. ASSUME NEW z \in Refreshers, RefreshStep(z) PROVE SenderSame(s)
  BY <1>2 DEF RefreshStep, ReadPicks, ListStuck, ListOutcomes, ListRivals, Invalidated, EndRefresh, Sweep,
     Settle, Invalidate, Drop, Free
<1>3. ASSUME NEW z \in Reporters, Report(z) PROVE SenderSame(s)
  BY <1>3 DEF Report
<1>4. ASSUME NEW z \in Threads, ReleaseStep(z) PROVE z # s => SenderSame(s)
  BY <1>4 DEF ReleaseStep, CheckIdle, Release
<1>5. ASSUME NEW z \in Sends, Looks(z) PROVE z # s => SenderSame(s)
  BY <1>5 DEF Looks, Lookup
<1>6. ASSUME NEW z \in Refreshers, Refreshes(z) PROVE SenderSame(s)
  BY <1>6 DEF Refreshes, StartRefresh
<1>7. ASSUME NEW z \in Reporters, Reads(z) PROVE SenderSame(s)
  BY <1>7 DEF Reads, ReadAttempt
<1>8. CASE World \/ UNCHANGED vars
  BY <1>8 DEF World, Age, Accept, Close, TradeAway
<1>9. CASE Requests
  BY <1>9, <1>5, <1>6, <1>7 DEF Requests, Prepare, Expire, Looks, Refreshes, Reads
<1>10. CASE Steps
  BY <1>10, <1>1, <1>2, <1>3, <1>4 DEF Steps
<1> QED  BY <1>8, <1>9, <1>10 DEF Next

LEMMA RefresherMoves ==
    ASSUME TypeOK, [Next]_vars, NEW r \in Refreshers
    PROVE  RefresherSame(r) \/ Refreshes(r) \/ RefreshStep(r) \/ ReleaseStep(r) \/ Restart
<1> DEFINE Goal == RefresherSame(r) \/ Refreshes(r) \/ RefreshStep(r) \/ ReleaseStep(r) \/ Restart
<1> USE ThreadsAssumption DEF TypeOK, TypeThreads, TypeRefresher, Threads, Goto, Answer, RefresherSame
<1>1. ASSUME NEW z \in Sends, SendStep(z) PROVE RefresherSame(r)
  <2>1. CASE CheckToken(z) \/ ReadAttempts(z) \/ ReadReservations(z) \/ Finish(z)
    BY <2>1 DEF CheckToken, ReadAttempts, ReadReservations, Finish, Current
  <2>2. CASE Claim(z) \/ Insert(z) \/ Pop(z)
    BY <2>2 DEF Claim, Insert, Pop
  <2>3. CASE Record(z)
    BY <2>3 DEF Record
  <2>4. ASSUME NEW o \in Offers, Dispatch(z, o) PROVE RefresherSame(r)
    BY <2>4 DEF Dispatch
  <2>5. ASSUME NEW result \in DOMAIN Outcomes, Call(z, result) PROVE RefresherSame(r)
    BY <2>5 DEF Call
  <2> QED  BY <1>1, <2>1, <2>2, <2>3, <2>4, <2>5 DEF SendStep
<1>2. ASSUME NEW z \in Refreshers, RefreshStep(z) PROVE z # r => RefresherSame(r)
  BY <1>2 DEF RefreshStep, ReadPicks, ListStuck, ListOutcomes, ListRivals, Invalidated, EndRefresh, Sweep,
     Settle, Invalidate, Drop, Free
<1>3. ASSUME NEW z \in Reporters, Report(z) PROVE RefresherSame(r)
  BY <1>3 DEF Report
<1>4. ASSUME NEW z \in Threads, ReleaseStep(z) PROVE z # r => RefresherSame(r)
  BY <1>4 DEF ReleaseStep, CheckIdle, Release
<1>5. ASSUME NEW z \in Sends, Looks(z) PROVE RefresherSame(r)
  BY <1>5 DEF Looks, Lookup
<1>6. ASSUME NEW z \in Refreshers, Refreshes(z) PROVE z # r => RefresherSame(r)
  BY <1>6 DEF Refreshes, StartRefresh
<1>7. ASSUME NEW z \in Reporters, Reads(z) PROVE RefresherSame(r)
  BY <1>7 DEF Reads, ReadAttempt
<1>8. CASE World \/ UNCHANGED vars
  BY <1>8 DEF World, Age, Accept, Close, TradeAway
<1>9. CASE Requests
  BY <1>9, <1>5, <1>6, <1>7 DEF Requests, Prepare, Expire, Looks, Refreshes, Reads
<1>10. CASE Steps
  BY <1>10, <1>1, <1>2, <1>3, <1>4 DEF Steps
<1> QED  BY <1>8, <1>9, <1>10 DEF Next

LEMMA ReporterMoves ==
    ASSUME TypeOK, [Next]_vars, NEW u \in Reporters
    PROVE  ReporterSame(u) \/ Reads(u) \/ Report(u) \/ ReleaseStep(u) \/ Restart
<1> DEFINE Goal == ReporterSame(u) \/ Reads(u) \/ Report(u) \/ ReleaseStep(u) \/ Restart
<1> USE ThreadsAssumption DEF TypeOK, TypeThreads, Threads, Goto, Answer, ReporterSame
<1>1. ASSUME NEW z \in Sends, SendStep(z) PROVE ReporterSame(u)
  BY <1>1 DEF SendStep, CheckToken, ReadAttempts, ReadReservations, Claim, Insert, Pop, Record,
     Finish, Dispatch, Call, Current
<1>2. ASSUME NEW z \in Refreshers, RefreshStep(z) PROVE ReporterSame(u)
  BY <1>2 DEF RefreshStep, ReadPicks, ListStuck, ListOutcomes, ListRivals, Invalidated, EndRefresh, Sweep,
     Settle, Invalidate, Drop, Free
<1>3. ASSUME NEW z \in Reporters, Report(z) PROVE z # u => ReporterSame(u)
  BY <1>3 DEF Report
<1>4. ASSUME NEW z \in Threads, ReleaseStep(z) PROVE z # u => ReporterSame(u)
  BY <1>4 DEF ReleaseStep, CheckIdle, Release
<1>5. ASSUME NEW z \in Sends, Looks(z) PROVE ReporterSame(u)
  BY <1>5 DEF Looks, Lookup
<1>6. ASSUME NEW z \in Refreshers, Refreshes(z) PROVE ReporterSame(u)
  BY <1>6 DEF Refreshes, StartRefresh
<1>7. ASSUME NEW z \in Reporters, Reads(z) PROVE z # u => ReporterSame(u)
  BY <1>7 DEF Reads, ReadAttempt
<1>8. CASE World \/ UNCHANGED vars
  BY <1>8 DEF World, Age, Accept, Close, TradeAway
<1>9. CASE Requests
  BY <1>9, <1>5, <1>6, <1>7 DEF Requests, Prepare, Expire, Looks, Refreshes, Reads
<1>10. CASE Steps
  BY <1>10, <1>1, <1>2, <1>3, <1>4 DEF Steps
<1> QED  BY <1>8, <1>9, <1>10 DEF Next


\* What a step may do to a send.
Early == {"idle", "token", "attempts", "reservations", "claim", "insert"}
Rests(s) ==
    /\ pc'[s] = pc[s]
    /\ pc[s] \in {"token", "call", "record"} =>
        offer'[s] = offer[s] /\ answer'[s] = answer[s] /\ token'[s] = token[s]
Advances(s) ==
    /\ pc[s] # "dead" /\ pc'[s] \notin {"token", "call", "record"}
    /\ pc'[s] \in Early => pc[s] \in Early
Begins(s) == pc[s] = "idle" /\ pc'[s] = "token" /\ token'[s] \in Tokens
Dispatches(s) ==
    /\ pc[s] = "dispatch" /\ pc'[s] = "call" /\ UNCHANGED remote
    /\ \E o \in Offers :
          offer'[s] = o /\ StateOf(<<s, o>>) = "queued" /\ StateOf(<<s, o>>)' = "sending"
Calls(s) ==
    /\ pc[s] = "call" /\ pc'[s] = "record" /\ offer'[s] = offer[s]
    /\ answer'[s] \in {"proposed", "send_failed", "outcome_unknown"}
    /\ answer'[s] = "send_failed" => UNCHANGED remote \/ Current(s) \in misreported'

LEMMA SenderStep ==
    ASSUME TypeOK, [Next]_vars, NEW s \in Sends
    PROVE  Rests(s) \/ Advances(s) \/ Begins(s) \/ Dispatches(s) \/ Calls(s)
<1> DEFINE Goal == Rests(s) \/ Advances(s) \/ Begins(s) \/ Dispatches(s) \/ Calls(s)
<1> USE ThreadsAssumption DEF TypeOK, TypeThreads, TypeSender, Threads, Goto, Answer
<1>1. CASE SenderSame(s)
  BY <1>1 DEF SenderSame, Rests
<1>2. CASE Looks(s)
  BY <1>2 DEF Looks, Lookup, Begins, Advances, Early
<1>3. CASE CheckToken(s) \/ ReadAttempts(s) \/ ReadReservations(s) \/ Claim(s)
  BY <1>3 DEF CheckToken, ReadAttempts, ReadReservations, Claim, Advances, Early
<1>4. CASE Insert(s) \/ Pop(s) \/ Record(s) \/ Finish(s)
  BY <1>4 DEF Insert, Pop, Record, Finish, Advances, Early
<1>5. ASSUME NEW o \in Offers, Dispatch(s, o) PROVE Goal
  <2> DEFINE x == [attempt |-> <<s, o>>, from |-> "queued", to |-> "sending"]
  <2>1. CASE Swaps(x)
    <3>1. StateOf(<<s, o>>) = "queued" /\ StateOf(<<s, o>>)' = "sending"
      BY <1>5, <2>1, CASEffect DEF Dispatch, Attempts, Live
    <3>2. pc[s] = "dispatch" /\ pc'[s] = "call" /\ offer'[s] = o /\ UNCHANGED remote
      BY <1>5, <2>1 DEF Dispatch
    <3> QED  BY <3>1, <3>2 DEF Dispatches
  <2>2. CASE ~ Swaps(x)
    BY <1>5, <2>2 DEF Dispatch, Rests
  <2> QED  BY <2>1, <2>2
<1>6. ASSUME NEW result \in DOMAIN Outcomes, Call(s, result) PROVE Goal
  <2>1. /\ pc[s] = "call" /\ pc'[s] = "record" /\ offer'[s] = offer[s]
        /\ answer'[s] = Outcomes[result] /\ result \in Possible(s, offer[s])
        /\ result \notin {"taken", "late", "failure"} => remote' = remote
        /\ result = "failure" => Current(s) \in misreported'
    BY <1>6 DEF Call, Current
  <2>2. /\ Outcomes[result] \in {"proposed", "send_failed", "outcome_unknown"}
        /\ Outcomes[result] = "send_failed" => result \in {"refused", "failure"}
    BY DEF Outcomes
  <2> QED  BY <2>1, <2>2 DEF Calls
<1>7. CASE ReleaseStep(s)
  BY <1>7 DEF ReleaseStep, CheckIdle, Release, After, Advances, Early
<1>8. CASE Restart
  BY <1>8 DEF Restart, Resting, Rests, Advances, Early
<1>9. CASE SendStep(s)
  BY <1>9, <1>3, <1>4, <1>5, <1>6 DEF SendStep
<1> QED  BY <1>1, <1>2, <1>7, <1>8, <1>9, SenderMoves

------------------------------------------------------------------------------
\* Each part of the invariant is kept by a step.

LEMMA RowsKept ==
    ASSUME TypeOK, WorkerInv, EvidenceInv, [Next]_vars
    PROVE  RowsInv'
<1> SUFFICES ASSUME NEW a \in Attempts, pc'[a[1]] \in Early
             PROVE  StateOf(a)' = "none"
  BY DEF RowsInv, Early
<1>1. a[1] \in Sends
  BY DEF Attempts
<1>2. pc[a[1]] \in Early
  BY <1>1, SenderStep DEF Rests, Advances, Begins, Dispatches, Calls, Early
<1>3. StateOf(a) = "none"
  BY <1>2 DEF WorkerInv, RowsInv, Early
<1>4. ~ Moved(a)
  BY <1>2, <1>3 DEF Moved, Inserted, Dispatched, Answered, Swept, Lost, Reported, Early
<1> QED  BY <1>3, <1>4, AttemptStep

LEMMA RemoteKept ==
    ASSUME TypeOK, WorkerInv, RemoteInv, EvidenceInv, [Next]_vars
    PROVE  RemoteInv'
<1> SUFFICES ASSUME NEW a \in Attempts, StateOf(a)' \in {"none", "queued"}
             PROVE  RemoteOf(a)' = "none"
  BY RemoteStep DEF RemoteInv
<1>1. StateOf(a) \in {"none", "queued"}
  BY AttemptStep DEF Moved, Inserted, Dispatched, Answered, Swept, Lost, Reported
<1>2. RemoteOf(a) = "none"
  BY <1>1 DEF RemoteInv
<1>3. ~ CalledNow(a)
  BY <1>1 DEF CalledNow, WorkerInv, CallInv, Attempts
<1> QED  BY <1>2, <1>3, RemoteStep

LEMMA CallKept ==
    ASSUME TypeOK, WorkerInv, RemoteInv, EvidenceInv, [Next]_vars
    PROVE  CallInv'
<1> SUFFICES ASSUME NEW s \in Sends
             PROVE  /\ pc'[s] = "token" => token'[s] \in Tokens
                    /\ pc'[s] \in {"call", "record"} => offer'[s] \in Offers
                    /\ pc'[s] = "call" => StateOf(Current(s))' = "sending" /\ RemoteOf(Current(s))' = "none"
  BY DEF CallInv
<1>0. /\ pc[s] = "token" => token[s] \in Tokens
      /\ pc[s] \in {"call", "record"} => offer[s] \in Offers
      /\ pc[s] = "call" => StateOf(Current(s)) = "sending" /\ RemoteOf(Current(s)) = "none"
  BY DEF WorkerInv, CallInv
<1>1. CASE Rests(s)
  <2>1. CASE pc[s] = "call"
    <3>0. PICK a \in Attempts : a = <<s, offer[s]>>
      BY <1>0, <2>1 DEF Attempts
    <3>1. a[1] = s /\ StateOf(a) = "sending" /\ RemoteOf(a) = "none"
      BY <1>0, <2>1, <3>0 DEF Current
    <3>2. pc'[s] = "call" /\ offer'[s] = offer[s]
      BY <1>1, <2>1 DEF Rests
    <3>3. ~ Moved(a) /\ ~ CalledNow(a)
      BY <2>1, <3>1, <3>2 DEF Moved, Inserted, Dispatched, Answered, Swept, Lost, Reported, CalledNow
    <3>4. StateOf(a)' = "sending" /\ RemoteOf(a)' = "none"
      <4>1. StateOf(a)' = StateOf(a)
        BY <3>3, AttemptStep
      <4>2. RemoteOf(a)' = RemoteOf(a)
        BY <3>1, <3>3, RemoteStep
      <4> QED  BY <3>1, <4>1, <4>2
    <3>5. a[1] = s /\ a[2] = offer'[s] /\ offer'[s] \in Offers
      BY <1>0, <2>1, <3>0, <3>2
    <3> QED  BY <3>2, <3>4, <3>5 DEF Current, StateOf, RemoteOf
  <2>2. CASE pc[s] # "call"
    BY <1>0, <1>1, <2>2 DEF Rests
  <2> QED  BY <2>1, <2>2
<1>2. CASE Advances(s) \/ Begins(s) \/ Calls(s)
  BY <1>0, <1>2 DEF Advances, Begins, Calls
<1>3. CASE Dispatches(s)
  <2>1. PICK o \in Offers : offer'[s] = o /\ StateOf(<<s, o>>) = "queued" /\ StateOf(<<s, o>>)' = "sending"
    BY <1>3 DEF Dispatches
  <2>2. RemoteOf(<<s, o>>)' = "none"
    BY <1>3, <2>1 DEF Dispatches, RemoteInv, Attempts, RemoteOf
  <2> QED  BY <1>3, <2>1, <2>2 DEF Dispatches, Current, StateOf, RemoteOf
<1> QED  BY <1>1, <1>2, <1>3, SenderStep

LEMMA RecordKept ==
    ASSUME TypeOK, WorkerInv, RemoteInv, [Next]_vars
    PROVE  RecordInv'
<1> SUFFICES ASSUME NEW s \in Sends, pc'[s] = "record"
             PROVE  /\ answer'[s] \in {"proposed", "send_failed", "outcome_unknown"}
                    /\ answer'[s] = "send_failed" /\ Current(s)' \notin misreported' =>
                          RemoteOf(Current(s))' # "pending"
  BY DEF RecordInv
<1> DEFINE a == <<s, offer[s]>>
<1>1. CASE pc[s] = "record" /\ Rests(s)
  <2>1. a \in Attempts /\ offer'[s] = offer[s] /\ answer'[s] = answer[s]
    BY <1>1 DEF Rests, WorkerInv, CallInv, Attempts
  <2>2. RemoteOf(a)' = "pending" => RemoteOf(a) = "pending"
    BY <1>1, <2>1, RemoteStep DEF CalledNow
  <2>3. /\ answer[s] \in {"proposed", "send_failed", "outcome_unknown"}
        /\ answer[s] = "send_failed" /\ a \notin misreported => RemoteOf(a) # "pending"
    BY <1>1 DEF WorkerInv, RecordInv, Current
  <2>4. a \in misreported => a \in misreported'
    BY <2>1, RemoteStep
  <2> QED  BY <2>1, <2>2, <2>3, <2>4 DEF Current, RemoteOf
<1>2. CASE Calls(s)
  <2>1. RemoteOf(a) = "none"
    BY <1>2 DEF Calls, WorkerInv, CallInv, Current
  <2> QED  BY <1>2, <2>1 DEF Calls, Current, RemoteOf
<1> QED  BY <1>1, <1>2, SenderStep DEF Rests, Advances, Begins, Dispatches, Calls

\* A worker that is gone stays gone.
LEMMA DeadStep ==
    ASSUME TypeOK, [Next]_vars, NEW s \in Sends, pc[s] = "dead"
    PROVE  pc'[s] = "dead"
BY SenderStep DEF Rests, Advances, Begins, Dispatches, Calls

LEMMA AgedKept ==
    ASSUME TypeOK, WorkerInv, EvidenceInv, [Next]_vars
    PROVE  AgedInv'
<1> SUFFICES ASSUME NEW a \in aged'
             PROVE  StateOf(a)' = "queued" \/ (StateOf(a)' = "sending" /\ pc'[a[1]] = "dead")
  BY DEF AgedInv
<1>1. a \in Attempts /\ a[1] \in Sends
  BY TypeStep DEF TypeOK, TypeRows, Attempts
<1>2. StateOf(a)' = StateOf(a)
  BY <1>1, AttemptStep
<1>3. CASE a \in aged
  BY <1>1, <1>2, <1>3, DeadStep DEF WorkerInv, AgedInv
<1>4. CASE a \notin aged
  <2>1. \E s \in Sends, o \in Offers : Age(s, o) /\ a = <<s, o>>
    <3>1. ASSUME aged' \subseteq aged PROVE FALSE
      BY <1>4, <3>1
    <3>2. ASSUME NEW x, CAS(x) PROVE FALSE
      BY <3>1, <3>2 DEF CAS
    <3>3. ASSUME NEW s \in Sends, SendStep(s) PROVE FALSE
      BY <3>1, <3>2, <3>3 DEF SendStep, CheckToken, ReadAttempts, ReadReservations, Claim, Insert,
         Pop, Record, Finish, Dispatch, Call
    <3>5. ASSUME NEW r \in Refreshers, RefreshStep(r) PROVE FALSE
      BY <3>1, <3>2, <3>5 DEF RefreshStep, ReadPicks, ListStuck, ListOutcomes, ListRivals, Invalidated, EndRefresh,
         Sweep, Settle, Invalidate
    <3>6. CASE Steps
      BY <3>1, <3>2, <3>3, <3>5, <3>6 DEF Steps, ReleaseStep, CheckIdle, Release, Report
    <3>7. CASE Requests
      BY <3>1, <3>7 DEF Requests, Prepare, Expire, Lookup, StartRefresh, ReadAttempt
    <3>8. CASE World
      <4>1. ASSUME NEW s \in Sends, NEW o \in Offers, Age(s, o) PROVE a = <<s, o>>
        BY <1>4, <4>1 DEF Age
      <4>2. ASSUME NEW s \in Sends, NEW o \in Offers, Accept(s, o) \/ Close(s, o) PROVE FALSE
        BY <3>1, <4>2 DEF Accept, Close
      <4>3. ASSUME NEW x \in Assets, TradeAway(x) PROVE FALSE
        BY <3>1, <4>3 DEF TradeAway
      <4> QED  BY <3>8, <4>1, <4>2, <4>3 DEF World
    <3>9. CASE Restart \/ UNCHANGED vars
      BY <3>1, <3>9 DEF Restart
    <3> QED  BY <3>6, <3>7, <3>8, <3>9 DEF Next
  <2>2. PICK s \in Sends, o \in Offers : Age(s, o) /\ a = <<s, o>>
    BY <2>1
  <2>3. StateOf(a) = "queued" \/ (StateOf(a) = "sending" /\ pc[s] = "dead")
    BY <2>2 DEF Age, StateOf
  <2> QED  BY <1>2, <2>2, <2>3, DeadStep
<1> QED  BY <1>3, <1>4

\* What a refresh has read holds what the seller still owns of the assets given.
LEMMA MineKept ==
    ASSUME TypeOK, ReadInv, MineInv, [Next]_vars
    PROVE  MineInv'
<1> SUFFICES ASSUME NEW r \in Refreshers, NEW o \in Offers
             PROVE  /\ pc'[r] = "picks" => Players(Give[o] \cap owned') \subseteq mine'[r]
                    /\ pc'[r] \notin Resting \cup {"picks"} => Give[o] \cap owned' \subseteq mine'[r]
  BY DEF MineInv, Players
<1> USE ThreadsAssumption DEF TypeOK, TypeThreads, TypeRefresher, Threads, Goto, Players, Resting
<1>1. Give[o] \cap owned' \subseteq Give[o] \cap owned
  BY LossStep
<1>2. CASE pc[r] = "picks" /\ pc'[r] = "picks" /\ mine'[r] = mine[r]
  BY <1>1, <1>2 DEF MineInv
<1>3. CASE pc[r] \notin Resting \cup {"picks"} /\ pc'[r] # "picks" /\ mine'[r] = mine[r]
  BY <1>1, <1>3 DEF MineInv
<1>4. CASE pc'[r] \in Resting
  BY <1>4
<1>5. CASE Refreshes(r)
  BY <1>1, <1>5 DEF Refreshes, StartRefresh, ReadInv
<1>6. ASSUME NEW live \in BOOLEAN, ReadPicks(r, live) PROVE Give[o] \cap owned' \subseteq mine'[r] /\ pc'[r] = "list"
  <2>1. PICK picks \in PickReads(live) : mine'[r] = mine[r] \cup picks
    BY <1>6 DEF ReadPicks
  <2>2. Give[o] \cap owned \cap Picks \subseteq picks
    BY DEF PickReads, ReadInv
  <2>3. Players(Give[o] \cap owned) \subseteq mine[r]
    BY <1>6 DEF ReadPicks, MineInv
  <2> QED  BY <1>1, <1>6, <2>1, <2>2, <2>3 DEF ReadPicks
<1>7. CASE RefreshStep(r)
  <2>1. CASE \E live \in BOOLEAN : ReadPicks(r, live)
    BY <1>6, <2>1
  <2>2. CASE EndRefresh(r)
    BY <1>4, <2>2 DEF EndRefresh
  <2>3. CASE ListStuck(r) \/ ListOutcomes(r) \/ ListRivals(r) \/ Invalidated(r)
    BY <1>3, <2>3 DEF ListStuck, ListOutcomes, ListRivals, Invalidated
  <2>4. ASSUME NEW x \in todo[r], Sweep(r, x) \/ Settle(r, x) PROVE pc[r] \notin Resting \cup {"picks"} /\ pc'[r] # "picks" /\ mine'[r] = mine[r]
    BY <2>4 DEF Sweep, Settle, Free
  <2>5. ASSUME NEW x \in rivals[r], Invalidate(r, x) PROVE pc[r] \notin Resting \cup {"picks"} /\ pc'[r] # "picks" /\ mine'[r] = mine[r]
    BY <2>5 DEF Invalidate
  <2> QED  BY <1>3, <1>7, <2>1, <2>2, <2>3, <2>4, <2>5 DEF RefreshStep
<1>8. CASE ReleaseStep(r)
  BY <1>3, <1>8 DEF ReleaseStep, CheckIdle, Release, After
<1>9. CASE RefresherSame(r)
  BY <1>2, <1>3, <1>4, <1>9 DEF RefresherSame
<1>10. CASE Restart
  BY <1>4, <1>10 DEF Restart
<1> QED  BY <1>5, <1>7, <1>8, <1>9, <1>10, RefresherMoves

\* So does the stored snapshot, whoever stored it last.
LEMMA ReadKept ==
    ASSUME TypeOK, ReadInv, MineInv, [Next]_vars
    PROVE  ReadInv'
<1> SUFFICES ASSUME NEW o \in Offers PROVE Give[o] \cap owned' \subseteq snapshot'
  BY DEF ReadInv
<1>1. Give[o] \cap owned' \subseteq Give[o] \cap owned
  BY LossStep
<1>2. CASE snapshot' = snapshot
  BY <1>1, <1>2 DEF ReadInv
<1>3. ASSUME NEW t \in Tokens, NEW S \in Selections, Prepare(t, S) PROVE Give[o] \cap owned' \subseteq snapshot'
  BY <1>1, <1>3 DEF Prepare, PickReads, Players, ReadInv
<1>4. ASSUME NEW r \in Refreshers, NEW live \in BOOLEAN, ReadPicks(r, live)
      PROVE  Give[o] \cap owned' \subseteq snapshot'
  <2>1. PICK picks \in PickReads(live) : snapshot' = mine[r] \cup picks
    BY <1>4 DEF ReadPicks
  <2>2. Give[o] \cap owned \cap Picks \subseteq picks
    BY DEF PickReads, ReadInv
  <2>3. Players(Give[o] \cap owned) \subseteq mine[r]
    BY <1>4 DEF ReadPicks, MineInv
  <2> QED  BY <1>1, <2>1, <2>2, <2>3 DEF Players
<1> QED
  <2>1. ASSUME NEW s \in Sends, SendStep(s) PROVE snapshot' = snapshot
    BY <2>1 DEF SendStep, CheckToken, ReadAttempts, ReadReservations, Claim, Insert, Pop, Record, Finish, Dispatch, Call
  <2>2. ASSUME NEW r \in Refreshers, RefreshStep(r)
        PROVE  snapshot' = snapshot \/ \E live \in BOOLEAN : ReadPicks(r, live)
    BY <2>2 DEF RefreshStep, ListStuck, ListOutcomes, ListRivals, Invalidated, EndRefresh, Sweep, Settle, Invalidate
  <2>3. CASE Steps
    BY <2>3, <2>1, <2>2, <1>2, <1>4 DEF Steps, ReleaseStep, CheckIdle, Release, Report
  <2>4. CASE Requests
    BY <2>4, <1>2, <1>3 DEF Requests, Expire, Lookup, StartRefresh, ReadAttempt
  <2>5. CASE World
    BY <2>5, <1>2 DEF World, Age, Accept, Close, TradeAway
  <2>6. CASE Restart \/ UNCHANGED vars
    BY <2>6, <1>2 DEF Restart
  <2> QED  BY <2>3, <2>4, <2>5, <2>6 DEF Next

\* The assets the seller received stay.
LEMMA KeptStep ==
    ASSUME [Next]_vars, NEW o \in Offers
    PROVE  Receive[o] \cap owned \subseteq owned'
<1> DEFINE Goal == Receive[o] \cap owned \subseteq owned'
<1>1. ASSUME NEW s \in Sends, NEW q \in Offers, Accept(s, q) PROVE Goal
  BY <1>1, ReceiveAssumption DEF Accept
<1>2. ASSUME NEW x \in Assets, TradeAway(x) PROVE Goal
  <2>1. PICK q \in Offers : x \in Give[q]
    BY <1>2 DEF TradeAway, Outgoing
  <2> QED  BY <1>2, <2>1, ReceiveAssumption DEF TradeAway
<1>3. ASSUME owned' = owned PROVE Goal
  BY <1>3
<1> QED
  <2>1. ASSUME NEW s \in Sends, SendStep(s) PROVE Goal
    BY <2>1, <1>3
    DEF SendStep, CheckToken, ReadAttempts, ReadReservations, Claim, Insert, Pop, Record, Finish, Dispatch, Call
  <2>2. ASSUME NEW r \in Refreshers, RefreshStep(r) PROVE Goal
    BY <2>2, <1>3
    DEF RefreshStep, ReadPicks, ListStuck, ListOutcomes, ListRivals, Invalidated, EndRefresh, Sweep, Settle, Invalidate
  <2>3. CASE Steps
    BY <2>3, <2>1, <2>2, <1>3 DEF Steps, ReleaseStep, CheckIdle, Release, Report
  <2>4. CASE Requests
    BY <2>4, <1>3 DEF Requests, Prepare, Expire, Lookup, StartRefresh, ReadAttempt
  <2>5. CASE World
    BY <2>5, <1>1, <1>2, <1>3 DEF World, Age, Close
  <2>6. CASE Restart \/ UNCHANGED vars
    BY <2>6, <1>3 DEF Restart
  <2> QED  BY <2>3, <2>4, <2>5, <2>6 DEF Next

\* An offer is accepted by the step that brings what it receives.
LEMMA AcceptStep ==
    ASSUME TypeOK, [Next]_vars, NEW a \in Attempts, RemoteOf(a)' = "accepted"
    PROVE  RemoteOf(a) = "accepted" \/ (RemoteOf(a) = "pending" /\ Receive[a[2]] \subseteq owned')
<1> DEFINE Goal == RemoteOf(a) = "accepted" \/ (RemoteOf(a) = "pending" /\ Receive[a[2]] \subseteq owned')
<1> USE DEF TypeOK, TypeProvider
<1>0. PICK b \in Sends, q \in Offers : a = <<b, q>>
  BY DEF Attempts
<1>1. ASSUME NEW s \in Sends, NEW o \in Offers, Accept(s, o) PROVE Goal
  BY <1>0, <1>1 DEF Accept, Ended, RemoteOf
<1>2. ASSUME NEW s \in Sends, NEW o \in Offers, Close(s, o) PROVE Goal
  BY <1>0, <1>2 DEF Close, RemoteOf
<1>3. ASSUME NEW x \in Assets, TradeAway(x) PROVE Goal
  BY <1>0, <1>3 DEF TradeAway, Ended, RemoteOf
<1>4. ASSUME NEW s \in Sends, NEW result \in DOMAIN Outcomes, Call(s, result) PROVE Goal
  BY <1>0, <1>4 DEF Call, RemoteOf
<1>5. ASSUME remote' = remote PROVE Goal
  BY <1>5 DEF RemoteOf
<1> QED
  <2>1. ASSUME NEW s \in Sends, SendStep(s) PROVE Goal
    BY <2>1, <1>4, <1>5
    DEF SendStep, CheckToken, ReadAttempts, ReadReservations, Claim, Insert, Pop, Record, Finish, Dispatch
  <2>2. ASSUME NEW r \in Refreshers, RefreshStep(r) PROVE Goal
    BY <2>2, <1>5
    DEF RefreshStep, ReadPicks, ListStuck, ListOutcomes, ListRivals, Invalidated, EndRefresh, Sweep, Settle, Invalidate
  <2>3. CASE Steps
    BY <2>3, <2>1, <2>2, <1>5 DEF Steps, ReleaseStep, CheckIdle, Release, Report
  <2>4. CASE Requests
    BY <2>4, <1>5 DEF Requests, Prepare, Expire, Lookup, StartRefresh, ReadAttempt
  <2>5. CASE World
    BY <2>5, <1>1, <1>2, <1>3, <1>5 DEF World, Age
  <2>6. CASE Restart \/ UNCHANGED vars
    BY <2>6, <1>5 DEF Restart
  <2> QED  BY <2>3, <2>4, <2>5, <2>6 DEF Next

LEMMA OwnedKept ==
    ASSUME TypeOK, OwnedInv, [Next]_vars
    PROVE  OwnedInv'
<1> SUFFICES ASSUME NEW a \in Attempts, RemoteOf(a)' = "accepted" PROVE Receive[a[2]] \subseteq owned'
  BY DEF OwnedInv
<1>1. a[2] \in Offers
  BY DEF Attempts
<1> QED  BY <1>1, AcceptStep, KeptStep DEF OwnedInv

\* A live roster shows an accepted offer whole, or not at all.
LEMMA SeenKept ==
    ASSUME TypeOK, RemoteInv, MineInv, OwnedInv, SeenInv, [Next]_vars
    PROVE  SeenInv'
<1> SUFFICES ASSUME NEW r \in Refreshers, NEW a \in Attempts,
                    pc'[r] \notin Resting, fresh'[r], RemoteOf(a)' = "accepted"
             PROVE  Players(Receive[a[2]]) \subseteq mine'[r] \/ Players(Give[a[2]]) \subseteq mine'[r]
  BY DEF SeenInv, Players
<1> USE ThreadsAssumption DEF TypeOK, TypeThreads, TypeRefresher, Threads, Goto, Players, Resting
<1>1. a[2] \in Offers
  BY DEF Attempts
<1>2. CASE pc[r] \notin Resting /\ fresh[r] /\ mine[r] \subseteq mine'[r]
  <2>1. CASE RemoteOf(a) = "accepted"
    BY <1>2, <2>1 DEF SeenInv
  <2>2. CASE RemoteOf(a) = "pending"
    <3>1. Give[a[2]] \subseteq owned
      BY <2>2 DEF RemoteInv, Promised
    <3> QED  BY <1>1, <1>2, <3>1 DEF MineInv
  <2> QED  BY <2>1, <2>2, AcceptStep
<1>3. CASE Refreshes(r)
  <2>1. mine'[r] = owned \ Picks /\ remote' = remote
    BY <1>3 DEF Refreshes, StartRefresh
  <2> QED  BY <2>1 DEF OwnedInv, RemoteOf
<1>4. CASE RefreshStep(r)
  <2>1. ASSUME NEW live \in BOOLEAN, ReadPicks(r, live)
        PROVE  pc[r] \notin Resting /\ fresh[r] /\ mine[r] \subseteq mine'[r]
    BY <2>1 DEF ReadPicks
  <2>2. ASSUME NEW x \in todo[r], Sweep(r, x) \/ Settle(r, x)
        PROVE  pc[r] \notin Resting /\ fresh[r] /\ mine[r] \subseteq mine'[r]
    BY <2>2 DEF Sweep, Settle
  <2>3. ASSUME NEW x \in rivals[r], Invalidate(r, x)
        PROVE  pc[r] \notin Resting /\ fresh[r] /\ mine[r] \subseteq mine'[r]
    BY <2>3 DEF Invalidate
  <2>4. ~ EndRefresh(r)
    BY DEF EndRefresh
  <2>5. CASE ListStuck(r) \/ ListOutcomes(r) \/ ListRivals(r) \/ Invalidated(r)
    BY <1>2, <2>5 DEF ListStuck, ListOutcomes, ListRivals, Invalidated
  <2> QED  BY <1>2, <1>4, <2>1, <2>2, <2>3, <2>4, <2>5 DEF RefreshStep
<1>5. CASE ReleaseStep(r)
  BY <1>2, <1>5 DEF ReleaseStep, CheckIdle, Release
<1>6. CASE RefresherSame(r)
  BY <1>2, <1>6 DEF RefresherSame
<1>7. ~ Restart
  BY DEF Restart
<1> QED  BY <1>3, <1>4, <1>5, <1>6, <1>7, RefresherMoves

\* A package whose offers have all lost an asset: the refresher has settled one.
LEMMA WinnerKept ==
    ASSUME TypeOK, TodoInv, WinnerInv, [Next]_vars
    PROVE  WinnerInv'
<1> SUFFICES ASSUME NEW r \in Refreshers, pc'[r] = "rivals",
                    NEW o \in Offers, PackageOf[o] = package'[r]
             PROVE  ~ Promised(o)'
  BY DEF WinnerInv
<1> USE ThreadsAssumption DEF TypeOK, TypeThreads, TypeRefresher, Threads, Goto
<1>1. ASSUME NEW q \in Offers, PackageOf[o] = PackageOf[q], ~ Promised(q) PROVE ~ Promised(o)'
  BY <1>1, LossStep, PackagesAssumption DEF Promised
<1>2. CASE pc[r] = "rivals" /\ package'[r] = package[r]
  BY <1>1, <1>2 DEF WinnerInv
<1>3. CASE RefreshStep(r)
  <2>1. ASSUME NEW x \in todo[r], Settle(r, x) PROVE ~ Promised(o)'
    <3>1. /\ x.to = "accepted" /\ package'[r] = PackageOf[x.attempt[2]]
          /\ x \in Transition
      BY <2>1 DEF Settle, Free
    <3>2. x.attempt[2] \in Offers /\ ~ Promised(x.attempt[2])
      BY <3>1, TransitionType DEF TodoInv, SweepItem, LossItem, Attempts
    <3> QED  BY <1>1, <3>1, <3>2
  <2>2. ASSUME NEW x \in todo[r], Sweep(r, x) PROVE FALSE
    BY <2>2 DEF Sweep, Free
  <2>3. ASSUME NEW x \in rivals[r], Invalidate(r, x) PROVE FALSE
    BY <2>3 DEF Invalidate
  <2> QED
    BY <1>3, <2>1, <2>2, <2>3 DEF RefreshStep, ReadPicks, ListStuck, ListOutcomes, ListRivals, Invalidated, EndRefresh
<1>4. CASE RefresherSame(r)
  BY <1>2, <1>4 DEF RefresherSame
<1>5. CASE Refreshes(r) \/ Restart
  BY <1>5 DEF Refreshes, StartRefresh, Restart, Resting
<1>6. CASE ReleaseStep(r)
  BY <1>6 DEF ReleaseStep, CheckIdle, Release, After
<1> QED  BY <1>3, <1>4, <1>5, <1>6, RefresherMoves

LEMMA TodoKept ==
    ASSUME TypeOK, WorkerInv, RemoteInv, EvidenceInv, [Next]_vars
    PROVE  TodoInv'
<1> SUFFICES ASSUME NEW r \in Refreshers
             PROVE  /\ \A x \in todo'[r] : SweepItem(x)' \/ LossItem(x)'
                    /\ \A x \in rivals'[r] : x.to = "invalidated" /\ ~ Promised(x.attempt[2])'
  BY DEF TodoInv
<1> DEFINE Old(x) == x \in Transition /\ (SweepItem(x) \/ LossItem(x))
<1> DEFINE Rival(x) == x \in Transition /\ x.to = "invalidated" /\ ~ Promised(x.attempt[2])
<1>1. ASSUME NEW o \in Offers, ~ Promised(o) PROVE ~ Promised(o)'
  BY <1>1, LossStep DEF Promised
<1>2. ASSUME NEW x, Old(x) PROVE SweepItem(x)' \/ LossItem(x)'
  <2>1. x.attempt \in Attempts /\ x.attempt[1] \in Sends /\ x.attempt[2] \in Offers
    BY <1>2, TransitionType DEF Attempts
  <2>2. CASE SweepItem(x)
    BY <2>1, <2>2, DeadStep DEF SweepItem
  <2>3. CASE LossItem(x)
    <3>1. ~ Promised(x.attempt[2])
      BY <2>3 DEF LossItem
    <3>2. RemoteOf(x.attempt)' = RemoteOf(x.attempt)
      BY <2>1, <3>1, RemoteStep DEF RemoteInv, CalledNow
    <3> QED  BY <1>1, <2>1, <2>3, <3>1, <3>2 DEF LossItem
  <2> QED  BY <1>2, <2>2, <2>3
<1>3. ASSUME NEW x, Rival(x) PROVE x.to = "invalidated" /\ ~ Promised(x.attempt[2])'
  BY <1>1, <1>3, TransitionType DEF Attempts
<1>4. (\A x \in todo[r] : Old(x)) /\ (\A x \in rivals[r] : Rival(x))
  BY DEF EvidenceInv, TodoInv, TypeOK, TypeRefresher
<1>5. ASSUME \A x \in todo'[r] : Old(x), \A x \in rivals'[r] : Rival(x)
      PROVE  /\ \A x \in todo'[r] : SweepItem(x)' \/ LossItem(x)'
             /\ \A x \in rivals'[r] : x.to = "invalidated" /\ ~ Promised(x.attempt[2])'
  BY <1>2, <1>3, <1>5
<1> HIDE DEF Old, Rival
<1> USE DEF TypeOK, TypeRefresher
<1>6. CASE todo'[r] \subseteq todo[r] /\ rivals'[r] \subseteq rivals[r]
  BY <1>4, <1>5, <1>6
<1>7. CASE ListStuck(r)
  <2>1. ASSUME NEW x \in todo'[r] PROVE Old(x)
    <3>1. PICK a \in aged : x = [attempt |-> a, from |-> StateOf(a), to |-> Stuck[StateOf(a)]]
      BY <1>7, <2>1 DEF ListStuck
    <3>2. StateOf(a) = "queued" \/ (StateOf(a) = "sending" /\ pc[a[1]] = "dead")
      BY <3>1 DEF WorkerInv, AgedInv
    <3>3. a \in Attempts
      BY <3>1 DEF TypeRows
    <3> QED  BY <3>1, <3>2, <3>3 DEF Old, SweepItem, Stuck, Transition, Live, Terminal, Settled
  <2>2. rivals'[r] = rivals[r]
    BY <1>7 DEF ListStuck
  <2> QED  BY <1>4, <1>5, <2>1, <2>2
<1>8. CASE ListOutcomes(r)
  <2>1. ASSUME NEW x \in todo'[r] PROVE Old(x)
    <3>1. PICK a \in Attempts : /\ x = [attempt |-> a, from |-> StateOf(a), to |-> Verdict(r, a[2])]
                                /\ StateOf(a) \in {"proposed", "outcome_unknown"} /\ Evidence(r, a[2])
      BY <1>8, <2>1 DEF ListOutcomes
    <3>2. a[2] \in Offers /\ ~ Promised(a[2])
      BY <1>8, <3>1 DEF ListOutcomes, Attempts, Evidence, Gone, EvidenceInv, MineInv, Promised, Resting
    <3>3. Verdict(r, a[2]) \in {"accepted", "resolved_elsewhere"}
      BY DEF Verdict
    <3>4. Verdict(r, a[2]) = "resolved_elsewhere" /\ Give[a[2]] \cap Picks = {} => RemoteOf(a) # "accepted"
      <4>1. SUFFICES ASSUME Verdict(r, a[2]) = "resolved_elsewhere", Give[a[2]] \cap Picks = {},
                            RemoteOf(a) = "accepted"
                     PROVE  FALSE
        OBVIOUS
      <4>2. Awaited(r, a[2]) # {} /\ Gone(r, a[2]) # {} /\ fresh[r]
        BY <3>1, <4>1 DEF Verdict, Evidence
      <4>3. Players(Awaited(r, a[2])) # {}
        BY <3>1, <4>2 DEF Evidence
      <4>4. ~ (Players(Receive[a[2]]) \subseteq mine[r])
        BY <4>3 DEF Players, Awaited
      <4>5. ~ (Players(Give[a[2]]) \subseteq mine[r])
        BY <4>1, <4>2 DEF Players, Gone
      <4> QED  BY <1>8, <4>1, <4>2, <4>4, <4>5 DEF ListOutcomes, EvidenceInv, SeenInv, Resting
    <3> QED  BY <3>1, <3>2, <3>3, <3>4 DEF Old, LossItem, Transition, Live, Terminal, Settled
  <2>2. rivals'[r] = rivals[r]
    BY <1>8 DEF ListOutcomes
  <2> QED  BY <1>4, <1>5, <2>1, <2>2
<1>9. CASE ListRivals(r)
  <2>1. ASSUME NEW x \in rivals'[r] PROVE Rival(x)
    <3>1. PICK a \in LiveIn(package[r]) : x = [attempt |-> a, from |-> StateOf(a), to |-> "invalidated"]
      BY <1>9, <2>1 DEF ListRivals
    <3>2. a \in Attempts /\ StateOf(a) \in Live /\ PackageOf[a[2]] = package[r]
      BY <3>1 DEF LiveIn
    <3>3. ~ Promised(a[2])
      BY <1>9, <3>2 DEF ListRivals, EvidenceInv, WinnerInv, Attempts
    <3> QED  BY <3>1, <3>2, <3>3 DEF Rival, Transition, Terminal, Settled
  <2>2. todo'[r] = todo[r]
    BY <1>9 DEF ListRivals
  <2> QED  BY <1>4, <1>5, <2>1, <2>2
<1>10. CASE RefreshStep(r)
  BY <1>6, <1>7, <1>8, <1>9, <1>10 DEF RefreshStep, ReadPicks, Invalidated, EndRefresh, Sweep, Settle, Invalidate, Drop
<1>11. CASE RefresherSame(r) \/ Refreshes(r) \/ ReleaseStep(r)
  BY <1>6, <1>11 DEF RefresherSame, Refreshes, StartRefresh, ReleaseStep, CheckIdle, Release
<1>12. CASE Restart
  BY <1>6, <1>12 DEF Restart
<1> QED  BY <1>10, <1>11, <1>12, RefresherMoves

LEMMA ReportKept ==
    ASSUME TypeOK, WorkerInv, RemoteInv, EvidenceInv, [Next]_vars
    PROVE  ReportInv'
<1> SUFFICES ASSUME NEW u \in Reporters, pc'[u] = "report"
             PROVE  /\ report'[u] \in Transition /\ report'[u].to \in Reportable
                    /\ StateOf(report[u].attempt)' \notin {"none", "queued", "sending"}
                    /\ RemoteOf(report[u].attempt)' # "pending"
  BY DEF ReportInv, StateOf, RemoteOf
<1> USE ThreadsAssumption DEF TypeOK, TypeThreads, Threads, Goto
<1>1. ASSUME NEW a \in Attempts, StateOf(a) \notin {"none", "queued", "sending"},
             RemoteOf(a) # "pending"
      PROVE  StateOf(a)' \notin {"none", "queued", "sending"} /\ RemoteOf(a)' # "pending"
  <2>1. ~ CalledNow(a)
    BY <1>1 DEF CalledNow, WorkerInv, CallInv, Attempts
  <2>2. RemoteOf(a)' # "pending"
    BY <1>1, <2>1, RemoteStep
  <2>3. ~ Inserted(a) /\ ~ Dispatched(a)
    BY <1>1 DEF Inserted, Dispatched
  <2>4. Moved(a) => StateOf(a)' \notin {"none", "queued", "sending"}
    BY <2>3 DEF Moved, Answered, Swept, Lost, Reported
  <2> QED  BY <1>1, <2>2, <2>4, AttemptStep
<1>2. CASE pc[u] = "report" /\ ReporterSame(u)
  <2>1. report'[u] = report[u] /\ report[u] \in Transition /\ report[u].to \in Reportable
    BY <1>2 DEF ReporterSame, EvidenceInv, ReportInv
  <2>2. PICK a \in Attempts : a = report[u].attempt
    BY <2>1, TransitionType
  <2>3. StateOf(a) \notin {"none", "queued", "sending"} /\ RemoteOf(a) # "pending"
    BY <1>2, <2>2 DEF EvidenceInv, ReportInv
  <2>4. StateOf(a)' \notin {"none", "queued", "sending"} /\ RemoteOf(a)' # "pending"
    BY <1>1, <2>3
  <2> QED  BY <2>1, <2>2, <2>4 DEF StateOf, RemoteOf
<1>3. CASE Reads(u)
  <2>1. PICK a \in Attempts, to \in Reportable : ReadAttempt(u, a, to)
    BY <1>3 DEF Reads
  <2>2. /\ StateOf(a) \in {"proposed", "outcome_unknown"} /\ RemoteOf(a) # "pending"
        /\ report'[u] = [attempt |-> a, from |-> StateOf(a), to |-> to]
    BY <2>1 DEF ReadAttempt, RemoteOf
  <2>3. StateOf(a)' \notin {"none", "queued", "sending"} /\ RemoteOf(a)' # "pending"
    BY <1>1, <2>2
  <2>4. report'[u] \in Transition
    BY <2>2, BoundsAssumption DEF Transition, Live, Terminal, Settled
  <2> QED  BY <2>2, <2>3, <2>4 DEF StateOf, RemoteOf
<1>4. CASE Report(u) \/ ReleaseStep(u) \/ Restart
  BY <1>4 DEF Report, ReleaseStep, CheckIdle, Release, After, Restart, Resting
<1> QED  BY <1>2, <1>3, <1>4, ReporterMoves DEF ReporterSame

\* A terminal state is written on evidence that the provider holds no pending
\* offer, and none becomes pending after it.
LEMMA PromiseKept ==
    ASSUME TypeOK, WorkerInv, RemoteInv, EvidenceInv, [Next]_vars, TerminalPromisesNothing
    PROVE  TerminalPromisesNothing'
<1> SUFFICES ASSUME NEW a \in Attempts, StateOf(a)' \in Terminal, RemoteOf(a)' = "pending"
             PROVE  StateOf(a)' = "send_failed" /\ a \in misreported'
  BY DEF TerminalPromisesNothing
<1> USE DEF Terminal, Settled
<1>1. CASE StateOf(a)' = StateOf(a)
  <2>1. ~ CalledNow(a)
    BY <1>1 DEF CalledNow, WorkerInv, CallInv, Attempts
  <2>2. RemoteOf(a) = "pending"
    BY <2>1, RemoteStep
  <2> QED  BY <1>1, <2>2, RemoteStep DEF TerminalPromisesNothing
<1>2. CASE Moved(a) /\ UNCHANGED provider
  <2>1. RemoteOf(a) = "pending" /\ misreported' = misreported
    BY <1>2 DEF RemoteOf
  <2>2. CASE Answered(a)
    BY <2>1, <2>2 DEF Answered, WorkerInv, RecordInv, Attempts
  <2>3. ~ Swept(a) /\ ~ Lost(a) /\ ~ Reported(a)
    BY <2>1 DEF Swept, Lost, Reported, RemoteInv
  <2> QED  BY <1>2, <2>2, <2>3 DEF Moved, Inserted, Dispatched
<1> QED  BY <1>1, <1>2, AttemptStep

\* A loss is only recorded of an offer that was not accepted, and one that is
\* over is not accepted later.
LEMMA DenialKept ==
    ASSUME TypeOK, WorkerInv, RemoteInv, EvidenceInv, EndsAreTrue, [Next]_vars
    PROVE  AcceptedNotDenied'
<1> SUFFICES ASSUME NEW a \in Attempts, StateOf(a)' = "resolved_elsewhere", Give[a[2]] \cap Picks = {}
             PROVE  RemoteOf(a)' # "accepted"
  BY DEF AcceptedNotDenied
<1>1. CASE StateOf(a)' = StateOf(a)
  <2>1. RemoteOf(a) # "accepted" /\ RemoteOf(a) # "pending"
    BY <1>1 DEF EndsAreTrue, AcceptedNotDenied, TerminalPromisesNothing, Terminal, Settled
  <2> QED  BY <2>1, AcceptStep
<1>2. CASE Moved(a) /\ UNCHANGED provider
  <2>1. RemoteOf(a)' = RemoteOf(a)
    BY <1>2 DEF RemoteOf
  <2>2. Lost(a)
    BY <1>2 DEF Moved, Inserted, Dispatched, Answered, Swept, Reported
  <2> QED  BY <2>1, <2>2 DEF Lost
<1> QED  BY <1>1, <1>2, AttemptStep

LEMMA InitIInv == Init => IInv
<1> SUFFICES ASSUME Init PROVE IInv
  OBVIOUS
<1> USE DEF Init
<1>1. \A a \in Attempts : StateOf(a) = "none" /\ RemoteOf(a) = "none"
  BY DEF Attempts, StateOf, RemoteOf
<1>2. \A th \in Threads : pc[th] = "idle"
  OBVIOUS
<1>3. TypeRows /\ TypeStore /\ TypeProvider
  BY BoundsAssumption DEF TypeRows, TypeStore, TypeProvider
<1>4. TypeThreads /\ TypeSender /\ TypeRefresher
  BY DEF TypeThreads, TypeSender, TypeRefresher, Counters, Resting
<1>5. WorkerInv
  BY <1>1, <1>2 DEF WorkerInv, RowsInv, CallInv, RecordInv, AgedInv, Threads
<1>6. RemoteInv
  BY <1>1 DEF RemoteInv
<1>7. EvidenceInv
  BY <1>1, <1>2, OffersAssumption
  DEF EvidenceInv, TodoInv, WinnerInv, ReadInv, MineInv, OwnedInv, SeenInv, ReportInv, Threads, Resting
<1>8. EndsAreTrue
  BY <1>1 DEF EndsAreTrue, TerminalPromisesNothing, AcceptedNotDenied
<1> QED  BY <1>3, <1>4, <1>5, <1>6, <1>7, <1>8 DEF IInv, TypeOK

LEMMA NextIInv == IInv /\ [Next]_vars => IInv'
<1> SUFFICES ASSUME IInv, [Next]_vars PROVE IInv'
  OBVIOUS
<1>1. TypeOK /\ WorkerInv /\ RemoteInv /\ EvidenceInv
  BY DEF IInv
<1>2. TypeOK'
  BY <1>1, TypeStep
<1>3. WorkerInv'
  BY <1>1, RowsKept, CallKept, RecordKept, AgedKept DEF WorkerInv
<1>4. RemoteInv'
  BY <1>1, RemoteKept
<1>5. EvidenceInv'
  BY <1>1, TodoKept, WinnerKept, ReadKept, MineKept, OwnedKept, SeenKept, ReportKept DEF EvidenceInv
<1>6. EndsAreTrue'
  BY <1>1, PromiseKept, DenialKept DEF IInv, EndsAreTrue
<1> QED  BY <1>2, <1>3, <1>4, <1>5, <1>6 DEF IInv

\* The inductive invariant holds in every reachable state: an attempt is only
\* settled on evidence that still holds when the store is written.
THEOREM Inductive == Spec => []IInv
BY InitIInv, NextIInv, PTL DEF Spec

\* The database, the threads and the provider are always well formed.
THEOREM TypeCorrect == Spec => []TypeOK
BY Inductive, PTL DEF IInv

\* An attempt the store calls over is not pending at the provider, unless the
\* provider took the offer and answered with a failure; and one recorded as
\* lost to another trade was not accepted, unless it gives a pick.  Whatever
\* the sends, refreshes, reports, restarts and trades in between (the send
\* loop, the sweep, reconcile_attempt and the status report).
THEOREM EndsTrue == Spec => []EndsAreTrue
BY Inductive, PTL DEF IInv

\* A terminal state never regresses (transition_attempt in overhaul_store.py).
THEOREM TerminalsAreForever == Spec => TerminalForever
<1>1. IInv /\ [Next]_vars =>
        [\A a \in Attempts : StateOf(a) \in Terminal => StateOf(a)' = StateOf(a)]_vars
  <2> SUFFICES ASSUME IInv, [Next]_vars, NEW a \in Attempts, StateOf(a) \in Terminal
               PROVE  StateOf(a)' = StateOf(a)
    OBVIOUS
  <2>1. ~ Moved(a)
    BY DEF Moved, Inserted, Dispatched, Answered, Swept, Lost, Reported, Terminal, Settled
  <2> QED  BY <2>1, AttemptStep DEF IInv
<1> QED  BY <1>1, Inductive, PTL DEF Spec, TerminalForever

------------------------------------------------------------------------------
(* Reservations. *)

\* A thread on its way to free a package, and a batch that has claimed one but
\* has not stored its attempts.
Freeing(th, p)  == package[th] = p /\ pc[th] \in {"check", "release", "rivals", "invalidate"}
Claiming(s, p)  == pc[s] = "insert" /\ \E o \in selected[s] : PackageOf[o] = p

\* What a refresh has listed belongs to the phase it is in, and it invalidates
\* rivals of the package it has settled, which is complete.
ListedFor(r) == IF phase[r] = "sweep" THEN {"stale", "outcome_unknown"}
                                      ELSE {"accepted", "resolved_elsewhere"}
PhaseInv == \A r \in Refreshers :
    /\ pc[r] \in {"sweep", "settle"} => phase[r] = pc[r]
    /\ \A x \in todo[r] : x.to \in ListedFor(r)
    /\ pc[r] = "invalidate" => \A x \in rivals[r] : PackageOf[x.attempt[2]] = package[r]
    /\ pc[r] \in {"rivals", "invalidate"} => Completed(package[r])

\* While no restart has stopped a thread, every reserved package has a live
\* attempt, a batch about to store one, or a thread about to free it.
Accounted(p) ==
    \/ LiveIn(p) # {}
    \/ \E s \in Sends : Claiming(s, p)
    \/ \E th \in Threads : Freeing(th, p)
OrphanInv == restarts = 0 =>
    \A x \in Assets : reserved[x] # None => Accounted(reserved[x].package)

\* What is accepted stays accepted.
LEMMA CompletedStays ==
    ASSUME TypeOK, WorkerInv, EvidenceInv, [Next]_vars, NEW p, Completed(p)
    PROVE  Completed(p)'
<1>1. PICK a \in Attempts : PackageOf[a[2]] = p /\ StateOf(a) = "accepted"
  BY DEF Completed
<1>2. ~ Moved(a)
  BY <1>1 DEF Moved, Inserted, Dispatched, Answered, Swept, Lost, Reported
<1>3. StateOf(a)' = "accepted"
  BY <1>1, <1>2, AttemptStep
<1> QED  BY <1>1, <1>3 DEF Completed

\* A step that settles an attempt as accepted completes its package.
LEMMA CASCompletes ==
    ASSUME TypeRows, NEW x \in Transition, CAS(x), x.to = "accepted"
    PROVE  Completed(PackageOf[x.attempt[2]])'
<1>1. x.attempt \in Attempts /\ StateOf(x.attempt)' = "accepted"
  BY TransitionType, CASEffect
<1> QED  BY <1>1 DEF Completed, StateOf

LEMMA PhaseKept ==
    ASSUME TypeOK, WorkerInv, EvidenceInv, PhaseInv, [Next]_vars
    PROVE  PhaseInv'
<1> SUFFICES ASSUME NEW r \in Refreshers
             PROVE  /\ pc'[r] \in {"sweep", "settle"} => phase'[r] = pc'[r]
                    /\ \A x \in todo'[r] : x.to \in ListedFor(r)'
                    /\ pc'[r] = "invalidate" => \A x \in rivals'[r] : PackageOf[x.attempt[2]] = package'[r]
                    /\ pc'[r] \in {"rivals", "invalidate"} => Completed(package[r])'
  BY DEF PhaseInv
<1> DEFINE Goal == /\ pc'[r] \in {"sweep", "settle"} => phase'[r] = pc'[r]
                   /\ \A x \in todo'[r] : x.to \in ListedFor(r)'
                   /\ pc'[r] = "invalidate" => \A x \in rivals'[r] : PackageOf[x.attempt[2]] = package'[r]
                   /\ pc'[r] \in {"rivals", "invalidate"} => Completed(package[r])'
<1> USE ThreadsAssumption DEF TypeOK, TypeThreads, TypeRefresher, Threads, Goto
<1>0. /\ pc[r] \in {"sweep", "settle"} => phase[r] = pc[r]
      /\ \A x \in todo[r] : x.to \in ListedFor(r)
      /\ pc[r] = "invalidate" => \A x \in rivals[r] : PackageOf[x.attempt[2]] = package[r]
      /\ pc[r] \in {"rivals", "invalidate"} => Completed(package[r])
  BY DEF PhaseInv
<1>1. ASSUME package'[r] = package[r], Completed(package[r]) PROVE Completed(package[r])'
  <2>1. PICK p : p = package[r]
    OBVIOUS
  <2>2. Completed(p)'
    BY <1>1, <2>1, CompletedStays
  <2> QED  BY <1>1, <2>1, <2>2 DEF Completed
<1>2. CASE RefresherSame(r)
  BY <1>0, <1>1, <1>2 DEF RefresherSame, ListedFor
<1>3. CASE Refreshes(r)
  BY <1>0, <1>3 DEF Refreshes, StartRefresh, ListedFor
<1>4. CASE ListStuck(r)
  <2>1. \A x \in todo'[r] : x.to \in {"stale", "outcome_unknown"}
    BY <1>4 DEF ListStuck, WorkerInv, AgedInv, Stuck
  <2> QED  BY <1>4, <2>1 DEF ListStuck, ListedFor
<1>5. CASE ListOutcomes(r)
  <2>1. \A x \in todo'[r] : x.to \in {"accepted", "resolved_elsewhere"}
    BY <1>5 DEF ListOutcomes, Verdict
  <2> QED  BY <1>5, <2>1 DEF ListOutcomes, ListedFor
<1>6. ASSUME NEW x \in todo[r], Sweep(r, x) PROVE Goal
  <2>1. todo'[r] \subseteq todo[r] /\ phase' = phase /\ pc'[r] \in {"sweep", "check"} /\ pc[r] = "sweep"
    BY <1>6 DEF Sweep, Drop, Free
  <2> QED  BY <1>0, <2>1 DEF ListedFor
<1>7. ASSUME NEW x \in todo[r], Settle(r, x) PROVE Goal
  <2>1. /\ todo'[r] \subseteq todo[r] /\ phase' = phase /\ pc[r] = "settle"
        /\ pc'[r] \in {"settle", "check", "rivals"}
    BY <1>7 DEF Settle, Drop, Free
  <2>2. pc'[r] = "rivals" => CAS(x) /\ x.to = "accepted" /\ package'[r] = PackageOf[x.attempt[2]]
    BY <1>7 DEF Settle, Free
  <2>3. pc'[r] = "rivals" => Completed(package[r])'
    BY <2>2, CASCompletes DEF Completed
  <2> QED  BY <1>0, <2>1, <2>3 DEF ListedFor
<1>8. CASE ListRivals(r)
  <2>1. \A x \in rivals'[r] : PackageOf[x.attempt[2]] = package'[r]
    BY <1>8 DEF ListRivals, LiveIn
  <2> QED  BY <1>0, <1>1, <1>8, <2>1 DEF ListRivals, ListedFor
<1>9. ASSUME NEW x \in rivals[r], Invalidate(r, x) PROVE Goal
  BY <1>0, <1>1, <1>9 DEF Invalidate, ListedFor
<1>10. CASE Invalidated(r)
  BY <1>0, <1>10 DEF Invalidated, ListedFor
<1>11. CASE EndRefresh(r)
  BY <1>0, <1>11 DEF EndRefresh, ListedFor
<1>12. CASE ReleaseStep(r)
  BY <1>0, <1>12 DEF ReleaseStep, CheckIdle, Release, After, ListedFor
<1>13. CASE Restart
  BY <1>13 DEF Restart, Resting
<1>15. ASSUME NEW live \in BOOLEAN, ReadPicks(r, live) PROVE Goal
  BY <1>0, <1>15 DEF ReadPicks, ListedFor
<1>14. CASE RefreshStep(r)
  BY <1>4, <1>5, <1>6, <1>7, <1>8, <1>9, <1>10, <1>11, <1>14, <1>15 DEF RefreshStep
<1> QED  BY <1>2, <1>3, <1>12, <1>13, <1>14, RefresherMoves

\* A thread that is about to free a package goes on to, unless it finds an
\* attempt of the package live.
LEMMA FreeingStep ==
    ASSUME TypeOK, [Next]_vars, NEW th \in Threads, NEW p, Freeing(th, p)
    PROVE  \/ Freeing(th, p)' \/ Release(th) \/ Restart
           \/ CheckIdle(th) /\ LiveIn(p) # {}
<1> USE ThreadsAssumption DEF TypeOK, TypeThreads, Threads, Goto, Freeing
<1>1. CASE ReleaseStep(th)
  BY <1>1 DEF ReleaseStep, CheckIdle
<1>2. CASE th \in Sends
  <2>1. ~ Looks(th) /\ ~ SendStep(th)
    BY <1>2 DEF Looks, Lookup, SendStep, CheckToken, ReadAttempts, ReadReservations, Claim,
       Insert, Pop, Record, Finish, Dispatch, Call
  <2> QED  BY <1>1, <1>2, <2>1, SenderMoves DEF SenderSame
<1>3. CASE th \in Refreshers
  <2>1. ~ Refreshes(th)
    BY <1>3 DEF Refreshes, StartRefresh
  <2>2. CASE RefreshStep(th)
    BY <1>3, <2>2 DEF RefreshStep, ReadPicks, ListStuck, ListOutcomes, ListRivals, Invalidated, EndRefresh,
       Sweep, Settle, Invalidate
  <2> QED  BY <1>1, <1>3, <2>1, <2>2, RefresherMoves DEF RefresherSame
<1>4. CASE th \in Reporters
  <2>1. ~ Reads(th) /\ ~ Report(th)
    BY <1>4 DEF Reads, ReadAttempt, Report
  <2> QED  BY <1>1, <1>4, <2>1, ReporterMoves DEF ReporterSame
<1> QED  BY <1>2, <1>3, <1>4

\* A batch that has claimed its packages stores its attempts next, and only a
\* claim of unreserved assets lets a batch be about to.
LEMMA ClaimingStep ==
    ASSUME TypeOK, [Next]_vars, NEW s \in Sends
    PROVE  /\ pc[s] = "insert" =>
                 (pc'[s] = "insert" /\ selected'[s] = selected[s]) \/ Insert(s) \/ Restart
           /\ pc'[s] = "insert" /\ pc[s] # "insert" =>
                 Claim(s) /\ Unreserved(s) /\ selected'[s] = selected[s]
<1> USE ThreadsAssumption DEF TypeOK, TypeThreads, Threads, Goto, Answer
<1>1. CASE SenderSame(s)
  BY <1>1 DEF SenderSame
<1>2. CASE Looks(s)
  BY <1>2 DEF Looks, Lookup
<1>3. CASE SendStep(s)
  BY <1>3 DEF SendStep, CheckToken, ReadAttempts, ReadReservations, Claim, Insert, Pop, Record,
     Finish, Dispatch, Call
<1>4. CASE ReleaseStep(s)
  BY <1>4 DEF ReleaseStep, CheckIdle, Release, After
<1>5. CASE Restart
  BY <1>5 DEF Restart, Resting
<1> QED  BY <1>1, <1>2, <1>3, <1>4, <1>5, SenderMoves

\* Reservations change only by a claim of unreserved assets and a release.
LEMMA ReservedStep ==
    ASSUME TypeOK, [Next]_vars
    PROVE  \/ reserved' = reserved
           \/ \E s \in Sends : Claim(s) /\ Unreserved(s)
           \/ \E th \in Threads : Release(th)
<1> DEFINE Goal == \/ reserved' = reserved
                   \/ \E s \in Sends : Claim(s) /\ Unreserved(s)
                   \/ \E th \in Threads : Release(th)
<1>1. ASSUME NEW s \in Sends, SendStep(s) PROVE Goal
  BY <1>1 DEF SendStep, CheckToken, ReadAttempts, ReadReservations, Claim, Insert, Pop, Record,
     Finish, Dispatch, Call
<1>2. ASSUME NEW r \in Refreshers, RefreshStep(r) PROVE Goal
  BY <1>2 DEF RefreshStep, ReadPicks, ListStuck, ListOutcomes, ListRivals, Invalidated, EndRefresh, Sweep,
     Settle, Invalidate
<1>3. CASE Steps
  BY <1>1, <1>2, <1>3 DEF Steps, ReleaseStep, CheckIdle, Report
<1>4. CASE Requests
  BY <1>4 DEF Requests, Prepare, Expire, Lookup, StartRefresh, ReadAttempt
<1>5. CASE World \/ Restart \/ UNCHANGED vars
  BY <1>5 DEF World, Age, Accept, Close, TradeAway, Restart
<1> QED  BY <1>3, <1>4, <1>5 DEF Next

\* What a claim reserves is of a package of the batch; what it does not, and
\* what a release does not free, stays as it was.
LEMMA ClaimedAsset ==
    ASSUME NEW s \in Sends, Claim(s), Unreserved(s), NEW x \in Assets
    PROVE  /\ x \notin Outgoing(selected[s]) => reserved'[x] = reserved[x]
           /\ x \in Outgoing(selected[s]) =>
                 /\ reserved[x] = None
                 /\ reserved'[x] = [package |-> PackageFor(selected[s], x), batch |-> s]
                 /\ \E o \in selected[s] : x \in Give[o] /\ PackageFor(selected[s], x) = PackageOf[o]
<1>1. reserved' = [y \in Assets |-> IF y \in Outgoing(selected[s])
                   THEN [package |-> PackageFor(selected[s], y), batch |-> s] ELSE reserved[y]]
  BY DEF Claim
<1>2. x \in Outgoing(selected[s]) => \E o \in selected[s] : x \in Give[o]
  BY DEF Outgoing
<1> QED  BY <1>1, <1>2 DEF Unreserved, PackageFor

LEMMA FreedAsset ==
    ASSUME NEW th \in Threads, Release(th), NEW x \in Assets
    PROVE  reserved'[x] = IF reserved[x] # None /\ reserved[x].package = package[th]
                          THEN None ELSE reserved[x]
BY DEF Release, Freed

\* Who ends a live attempt goes on to free its package, and no other thread moves.
Settles(th, a) ==
    /\ StateOf(a) \in Live /\ StateOf(a)' \in Terminal
    /\ Freeing(th, PackageOf[a[2]])'
    /\ \A u \in Threads \ {th} : pc'[u] = pc[u] /\ package'[u] = package[u]

LEMMA EndStep ==
    ASSUME TypeOK, WorkerInv, EvidenceInv, PhaseInv, [Next]_vars, NEW a \in Attempts,
           StateOf(a) \in Live, StateOf(a)' \notin Live
    PROVE  \E th \in Threads : Settles(th, a)
<1> DEFINE Goal == \E th \in Threads : Settles(th, a)
<1> USE ThreadsAssumption DEF TypeOK, TypeThreads, Threads, Goto, Freeing
<1>0. PICK p : p = PackageOf[a[2]]
  OBVIOUS
<1>1. ASSUME NEW x, x.attempt \in Attempts, x.to \in Live \cup Terminal, CAS(x)
      PROVE  a = x.attempt /\ x.to \in Terminal /\ StateOf(a)' = x.to
  BY <1>1, CASEffect
<1>2. ASSUME state' = state PROVE Goal
  BY <1>2, SameState
<1>3. ASSUME NEW s \in Sends, SendStep(s) PROVE Goal
  <2>1. CASE Insert(s)
    <3>1. a[1] # s
      BY <2>1 DEF Insert, WorkerInv, RowsInv, Live
    <3>2. StateOf(a)' = StateOf(a)
      BY <2>1, <3>1 DEF Insert, StateOf, TypeRows, Attempts
    <3> QED  BY <3>2
  <2>2. ASSUME NEW o \in Offers, Dispatch(s, o) PROVE Goal
    <3> DEFINE x == [attempt |-> <<s, o>>, from |-> "queued", to |-> "sending"]
    <3>1. ~ CAS(x)
      BY <1>1 DEF Attempts, Live, Terminal, Settled
    <3> QED  BY <1>2, <2>2, <3>1 DEF Dispatch
  <2>3. CASE Record(s)
    <3> DEFINE x == [attempt |-> <<s, offer[s]>>, from |-> "sending", to |-> answer[s]]
    <3>1. offer[s] \in Offers /\ answer[s] \in {"proposed", "send_failed", "outcome_unknown"}
      BY <2>3 DEF Record, WorkerInv, CallInv, RecordInv
    <3>2. CASE Swaps(x)
      <4>1. a = <<s, offer[s]>> /\ answer[s] \in Terminal /\ StateOf(a)' = answer[s]
        BY <1>1, <2>3, <3>1, <3>2 DEF Record, Attempts, Live, Terminal
      <4>2. pc' = [pc EXCEPT ![s] = "check"] /\ package' = [package EXCEPT ![s] = PackageOf[offer[s]]]
        BY <2>3, <3>1, <4>1 DEF Record, Terminal, Settled
      <4>3. Freeing(s, p)'
        BY <1>0, <4>1, <4>2
      <4> QED  BY <1>0, <4>1, <4>2, <4>3 DEF Settles
    <3>3. CASE ~ Swaps(x)
      BY <1>2, <2>3, <3>3 DEF Record
    <3> QED  BY <3>2, <3>3
  <2> QED
    BY <1>2, <1>3, <2>1, <2>2, <2>3 DEF SendStep, CheckToken, ReadAttempts, ReadReservations, Claim,
       Pop, Finish, Call
<1>4. ASSUME NEW r \in Refreshers, RefreshStep(r) PROVE Goal
  <2> USE DEF TypeRefresher
  <2>1. ASSUME NEW x \in todo[r], Sweep(r, x) PROVE Goal
    <3>1. x \in Transition /\ x.to \in {"stale", "outcome_unknown"}
      BY <2>1 DEF Sweep, PhaseInv, ListedFor
    <3>2. CASE Swaps(x)
      <4>1. a = x.attempt /\ x.to = "stale" /\ StateOf(a)' \in Terminal
        BY <1>1, <2>1, <3>1, <3>2, TransitionType DEF Sweep, Live, Terminal, Settled
      <4>2. pc' = [pc EXCEPT ![r] = "check"] /\ package' = [package EXCEPT ![r] = PackageOf[a[2]]]
        BY <2>1, <3>2, <4>1 DEF Sweep, Free
      <4>3. Freeing(r, p)'
        BY <1>0, <4>2
      <4> QED  BY <1>0, <4>1, <4>2, <4>3 DEF Settles
    <3>3. CASE ~ Swaps(x)
      BY <1>2, <2>1, <3>3 DEF Sweep
    <3> QED  BY <3>2, <3>3
  <2>2. ASSUME NEW x \in todo[r], Settle(r, x) PROVE Goal
    <3>1. x \in Transition
      OBVIOUS
    <3>2. CASE Swaps(x)
      <4>1. a = x.attempt /\ StateOf(a)' \in Terminal
        BY <1>1, <2>2, <3>1, <3>2, TransitionType DEF Settle
      <4>2. /\ \E l \in {"rivals", "check"} : pc' = [pc EXCEPT ![r] = l]
            /\ package' = [package EXCEPT ![r] = PackageOf[a[2]]]
        BY <2>2, <3>2, <4>1 DEF Settle, Free
      <4>3. Freeing(r, p)'
        BY <1>0, <4>2
      <4> QED  BY <1>0, <4>1, <4>2, <4>3 DEF Settles
    <3>3. CASE ~ Swaps(x)
      BY <1>2, <2>2, <3>3 DEF Settle
    <3> QED  BY <3>2, <3>3
  <2>3. ASSUME NEW x \in rivals[r], Invalidate(r, x) PROVE Goal
    <3>1. x \in Transition /\ PackageOf[x.attempt[2]] = package[r] /\ pc[r] = "invalidate"
      BY <2>3 DEF Invalidate, PhaseInv
    <3>2. CASE Swaps(x)
      <4>1. a = x.attempt /\ StateOf(a)' \in Terminal
        BY <1>1, <2>3, <3>1, <3>2, TransitionType DEF Invalidate
      <4>2. pc' = pc /\ package' = package
        BY <2>3 DEF Invalidate
      <4>3. Freeing(r, p)'
        BY <1>0, <3>1, <4>1, <4>2
      <4> QED  BY <1>0, <4>1, <4>2, <4>3 DEF Settles
    <3>3. CASE ~ Swaps(x)
      BY <1>2, <2>3, <3>3 DEF Invalidate
    <3> QED  BY <3>2, <3>3
  <2> QED
    BY <1>2, <1>4, <2>1, <2>2, <2>3 DEF RefreshStep, ReadPicks, ListStuck, ListOutcomes, ListRivals, Invalidated, EndRefresh
<1>5. ASSUME NEW u \in Reporters, Report(u) PROVE Goal
  <2>1. report[u] \in Transition
    BY <1>5 DEF Report, EvidenceInv, ReportInv
  <2>2. CASE Swaps(report[u])
    <3>1. a = report[u].attempt /\ StateOf(a)' \in Terminal
      BY <1>1, <1>5, <2>1, <2>2, TransitionType DEF Report
    <3>2. pc' = [pc EXCEPT ![u] = "check"] /\ package' = [package EXCEPT ![u] = PackageOf[a[2]]]
      BY <1>5, <2>2, <3>1 DEF Report
    <3>3. Freeing(u, p)'
      BY <1>0, <3>2
    <3> QED  BY <1>0, <3>1, <3>2, <3>3 DEF Settles
  <2>3. CASE ~ Swaps(report[u])
    BY <1>2, <1>5, <2>3 DEF Report
  <2> QED  BY <2>2, <2>3
<1>6. CASE Steps
  BY <1>2, <1>3, <1>4, <1>5, <1>6 DEF Steps, ReleaseStep, CheckIdle, Release
<1>7. CASE Requests
  BY <1>2, <1>7 DEF Requests, Prepare, Expire, Lookup, StartRefresh, ReadAttempt
<1>8. CASE World \/ Restart \/ UNCHANGED vars
  BY <1>2, <1>8 DEF World, Age, Accept, Close, TradeAway, Restart
<1> QED  BY <1>6, <1>7, <1>8 DEF Next

LEMMA LiveKept ==
    ASSUME TypeOK, WorkerInv, EvidenceInv, PhaseInv, [Next]_vars, NEW p, LiveIn(p) # {}
    PROVE  LiveIn(p)' # {} \/ \E th \in Threads : Freeing(th, p)'
<1>1. PICK a \in Attempts : PackageOf[a[2]] = p /\ StateOf(a) \in Live
  BY DEF LiveIn
<1>2. CASE StateOf(a)' \in Live
  <2>1. a \in LiveIn(p)'
    BY <1>1, <1>2 DEF LiveIn
  <2> QED  BY <2>1
<1>3. CASE StateOf(a)' \notin Live
  <2>1. PICK th \in Threads : Freeing(th, PackageOf[a[2]])'
    BY <1>1, <1>3, EndStep DEF Settles
  <2> QED  BY <1>1, <2>1 DEF Freeing
<1> QED  BY <1>2, <1>3

\* What accounts for a reserved package goes on to, or hands over.
LEMMA AccountedKept ==
    ASSUME TypeOK, WorkerInv, EvidenceInv, PhaseInv, [Next]_vars, ~ Restart,
           NEW p, Accounted(p), \A th \in Threads : Release(th) => package[th] # p
    PROVE  Accounted(p)'
<1>1. CASE LiveIn(p) # {}
  BY <1>1, LiveKept DEF Accounted
<1>2. ASSUME NEW s \in Sends, Claiming(s, p) PROVE Accounted(p)'
  <2>1. PICK o \in selected[s] : PackageOf[o] = p
    BY <1>2 DEF Claiming
  <2>2. CASE Insert(s)
    <3>1. o \in Offers
      BY <2>1 DEF TypeOK, TypeSender
    <3>2. <<s, o>> \in LiveIn(p)'
      BY <2>1, <2>2, <3>1 DEF Insert, LiveIn, StateOf, Attempts, Live, TypeOK, TypeRows
    <3> QED  BY <3>2 DEF Accounted
  <2>3. CASE pc'[s] = "insert" /\ selected'[s] = selected[s]
    <3>1. Claiming(s, p)'
      BY <2>1, <2>3 DEF Claiming
    <3> QED  BY <3>1 DEF Accounted
  <2> QED  BY <1>2, <2>2, <2>3, ClaimingStep DEF Claiming
<1>3. ASSUME NEW th \in Threads, Freeing(th, p) PROVE Accounted(p)'
  <2>1. ~ Release(th)
    BY <1>3 DEF Freeing
  <2>2. CASE CheckIdle(th) /\ LiveIn(p) # {}
    <3>1. LiveIn(p)' # {}
      BY <2>2 DEF CheckIdle, LiveIn, StateOf
    <3> QED  BY <3>1 DEF Accounted
  <2> QED  BY <1>3, <2>1, <2>2, FreeingStep DEF Accounted
<1> QED  BY <1>1, <1>2, <1>3 DEF Accounted

LEMMA OrphanKept ==
    ASSUME TypeOK, WorkerInv, EvidenceInv, PhaseInv, OrphanInv, [Next]_vars
    PROVE  OrphanInv'
<1> SUFFICES ASSUME restarts' = 0, NEW x \in Assets, reserved'[x] # None,
                    NEW p, p = reserved'[x].package
             PROVE  Accounted(p)'
  BY DEF OrphanInv
<1>1. ~ Restart
  BY BoundsAssumption DEF Restart, TypeOK, TypeProvider
<1>2. restarts = 0
  <2>1. ASSUME NEW s \in Sends, SendStep(s) PROVE restarts' = restarts
    BY <2>1 DEF SendStep, CheckToken, ReadAttempts, ReadReservations, Claim, Insert, Pop, Record,
       Finish, Dispatch, Call
  <2>2. ASSUME NEW r \in Refreshers, RefreshStep(r) PROVE restarts' = restarts
    BY <2>2 DEF RefreshStep, ReadPicks, ListStuck, ListOutcomes, ListRivals, Invalidated, EndRefresh, Sweep,
       Settle, Invalidate
  <2>3. CASE Steps
    BY <2>1, <2>2, <2>3 DEF Steps, ReleaseStep, CheckIdle, Release, Report
  <2>4. CASE Requests
    BY <2>4 DEF Requests, Prepare, Expire, Lookup, StartRefresh, ReadAttempt
  <2>5. CASE World \/ UNCHANGED vars
    BY <2>5 DEF World, Age, Accept, Close, TradeAway
  <2> QED  BY <1>1, <2>3, <2>4, <2>5 DEF Next
<1>3. CASE reserved'[x] = reserved[x]
  <2>1. Accounted(p)
    BY <1>2, <1>3 DEF OrphanInv
  <2>2. ASSUME NEW th \in Threads, Release(th) PROVE package[th] # p
    BY <1>3, <2>2, FreedAsset
  <2>3. Accounted(p)'
    BY <1>1, <2>1, <2>2, AccountedKept
  <2> QED  BY <2>3
<1>4. CASE reserved'[x] # reserved[x]
  <2>1. PICK s \in Sends : Claim(s) /\ Unreserved(s)
    BY <1>4, ReservedStep, FreedAsset
  <2>2. PICK o \in selected[s] : PackageOf[o] = p
    <3>1. /\ reserved'[x] = [package |-> PackageFor(selected[s], x), batch |-> s]
          /\ \E o \in selected[s] : x \in Give[o] /\ PackageFor(selected[s], x) = PackageOf[o]
      BY <1>4, <2>1, ClaimedAsset
    <3> QED  BY <3>1
  <2>3. pc'[s] = "insert" /\ selected' = selected
    BY <2>1 DEF Claim, Goto, TypeOK, TypeThreads, Threads
  <2>4. Claiming(s, p)'
    BY <2>2, <2>3 DEF Claiming
  <2> QED  BY <2>4 DEF Accounted
<1> QED  BY <1>3, <1>4

\* What holds of a batch, a refresh and their reservations at the start.
LEMMA InitOrphan == Init => PhaseInv /\ OrphanInv
<1> SUFFICES ASSUME Init PROVE PhaseInv /\ OrphanInv
  OBVIOUS
<1>1. OrphanInv
  BY DEF Init, OrphanInv
<1>2. \A r \in Refreshers : pc[r] = "idle" /\ todo[r] = {}
  BY DEF Init, Threads
<1> QED  BY <1>1, <1>2 DEF PhaseInv

\* Until the process restarts, no interleaving of sends, refreshes and reports
\* leaves an asset reserved for a package without a live attempt once the
\* requests are over: whoever ends the last attempt of a package frees it
\* (release_if_idle in overhaul_api.py).
THEOREM NoOrphans == Spec => []NoOrphanReservation
<1> DEFINE J == IInv /\ PhaseInv /\ OrphanInv
<1>1. Init => J
  BY InitIInv, InitOrphan
<1>2. J /\ [Next]_vars => J'
  BY NextIInv, PhaseKept, OrphanKept DEF IInv
<1>3. J => NoOrphanReservation
  <2> SUFFICES ASSUME J, restarts = 0, \A th \in Threads : pc[th] \in Resting,
                      NEW x \in Assets, reserved[x] # None
               PROVE  LiveIn(reserved[x].package) # {}
    BY DEF NoOrphanReservation
  <2>1. Accounted(reserved[x].package)
    BY DEF OrphanInv
  <2>2. \A th \in Threads : ~ Freeing(th, reserved[x].package)
    BY DEF Freeing, Resting
  <2>3. \A s \in Sends : ~ Claiming(s, reserved[x].package)
    BY DEF Claiming, Threads, Resting
  <2> QED  BY <2>1, <2>2, <2>3 DEF Accounted
<1> QED  BY <1>1, <1>2, <1>3, PTL DEF Spec

\* A package whose reservation nobody needs: it is complete, or it has no live
\* attempt and no batch about to store one.
Spare(p) == Completed(p) \/ (LiveIn(p) = {} /\ \A s \in Sends : ~ Claiming(s, p))

\* A batch sends a selection the user prepared, its claim holds until it has
\* stored its attempts, and an accepted offer has cost the seller its assets.
SelectedInv == \A s \in Sends :
    pc[s] \in {"attempts", "reservations", "claim", "insert"} =>
        selected[s] \in Selections \cup {{}}
ClaimInv == \A s \in Sends : pc[s] = "insert" =>
    \A o \in selected[s] : ~ Completed(PackageOf[o]) =>
        \A x \in Give[o] : reserved[x] = Holder(<<s, o>>)
AcceptedInv == \A a \in Attempts : StateOf(a) = "accepted" => ~ Promised(a[2])

\* A release finds the package spare: no request has claimed it since the
\* release has looked.
SpareReleases == \A th \in Threads : Release(th) => Spare(package[th])

LEMMA HolderType ==
    ASSUME NEW a \in Attempts
    PROVE  Holder(a) # None /\ Holder(a).package = PackageOf[a[2]]
BY NoneAssumption, OffersAssumption DEF Holder, Attempts

\* Only a release of its package takes a reservation away.
LEMMA HolderKept ==
    ASSUME TypeOK, [Next]_vars, NEW x \in Assets, NEW p,
           reserved[x] # None, reserved[x].package = p,
           \A th \in Threads : Release(th) => package[th] # p
    PROVE  reserved'[x] = reserved[x]
<1>1. ASSUME NEW s \in Sends, Claim(s), Unreserved(s) PROVE reserved'[x] = reserved[x]
  BY <1>1, ClaimedAsset
<1>2. ASSUME NEW th \in Threads, Release(th) PROVE reserved'[x] = reserved[x]
  BY <1>2, FreedAsset
<1> QED  BY <1>1, <1>2, ReservedStep

LEMMA SelectedKept ==
    ASSUME TypeOK, SelectedInv, [Next]_vars
    PROVE  SelectedInv'
<1> SUFFICES ASSUME NEW s \in Sends, pc'[s] \in {"attempts", "reservations", "claim", "insert"}
             PROVE  selected'[s] \in Selections \cup {{}}
  BY DEF SelectedInv
<1> USE ThreadsAssumption DEF TypeOK, TypeThreads, TypeSender, Threads, Goto, Answer, SelectedInv
<1>1. CASE SenderSame(s)
  BY <1>1 DEF SenderSame
<1>2. CASE Looks(s)
  BY <1>2 DEF Looks, Lookup
<1>3. CASE CheckToken(s)
  BY <1>3 DEF CheckToken, TypeStore
<1>4. CASE ReadAttempts(s) \/ ReadReservations(s) \/ Claim(s)
  BY <1>4 DEF ReadAttempts, ReadReservations, Claim
<1>5. CASE ReleaseStep(s)
  BY <1>5 DEF ReleaseStep, CheckIdle, Release, After
<1>6. CASE Restart
  BY <1>6 DEF Restart, Resting
<1>7. CASE SendStep(s)
  <2>1. CASE Insert(s) \/ Pop(s) \/ Record(s) \/ Finish(s)
    BY <2>1 DEF Insert, Pop, Record, Finish
  <2>2. ASSUME NEW o \in Offers, Dispatch(s, o)
        PROVE  pc'[s] \in {"dispatch", "call"}
    BY <2>2 DEF Dispatch
  <2>3. ASSUME NEW result \in DOMAIN Outcomes, Call(s, result)
        PROVE  pc'[s] = "record"
    BY <2>3 DEF Call
  <2> QED  BY <1>3, <1>4, <1>7, <2>1, <2>2, <2>3 DEF SendStep
<1> QED  BY <1>1, <1>2, <1>5, <1>6, <1>7, SenderMoves

LEMMA ClaimKept ==
    ASSUME TypeOK, WorkerInv, EvidenceInv, SelectedInv, ClaimInv, [Next]_vars, SpareReleases
    PROVE  ClaimInv'
<1> SUFFICES ASSUME NEW s \in Sends, pc'[s] = "insert", NEW o \in selected'[s],
                    NEW p, p = PackageOf[o], ~ Completed(p)', NEW x \in Give[o]
             PROVE  reserved'[x] = Holder(<<s, o>>)
  BY DEF ClaimInv, Holder, Completed
<1>1. ~ Completed(p)
  BY CompletedStays
<1>2. CASE pc[s] = "insert" /\ selected'[s] = selected[s]
  <2>1. o \in selected[s] /\ o \in Offers /\ x \in Assets
    BY <1>2, OffersAssumption DEF TypeOK, TypeSender
  <2>2. reserved[x] = Holder(<<s, o>>)
    BY <1>1, <1>2, <2>1 DEF ClaimInv
  <2>3. reserved[x] # None /\ reserved[x].package = p
    BY <2>1, <2>2, HolderType DEF Attempts
  <2>4. Claiming(s, p)
    BY <1>2, <2>1 DEF Claiming
  <2>5. \A th \in Threads : Release(th) => package[th] # p
    BY <1>1, <2>4 DEF SpareReleases, Spare
  <2>6. reserved'[x] = reserved[x]
    BY <2>1, <2>3, <2>5, HolderKept
  <2> QED  BY <2>2, <2>6
<1>3. CASE pc[s] # "insert"
  <2>1. Claim(s) /\ Unreserved(s) /\ selected'[s] = selected[s]
    BY <1>3, ClaimingStep
  <2>2. o \in selected[s] /\ o \in Offers /\ x \in Assets /\ selected[s] \subseteq Offers
    BY <2>1, OffersAssumption DEF TypeOK, TypeSender
  <2>3. x \in Outgoing(selected[s])
    BY <2>2 DEF Outgoing
  <2>4. PICK q \in selected[s] : x \in Give[q] /\ PackageFor(selected[s], x) = PackageOf[q]
    BY <2>1, <2>2, <2>3, ClaimedAsset
  <2>5. selected[s] \in Selections
    BY <2>1, <2>2 DEF SelectedInv, Claim
  <2>6. PackageOf[q] = p
    BY <2>2, <2>4, <2>5, SelectionsAssumption
  <2>7. reserved'[x] = [package |-> p, batch |-> s]
    BY <2>1, <2>2, <2>3, <2>4, <2>6, ClaimedAsset
  <2> QED  BY <2>7 DEF Holder
<1>4. ~ Insert(s) /\ ~ Restart
  BY DEF Insert, Restart, Resting, Goto, TypeOK, TypeThreads, Threads
<1> QED  BY <1>2, <1>3, <1>4, ClaimingStep

LEMMA AcceptedKept ==
    ASSUME TypeOK, WorkerInv, EvidenceInv, AcceptedInv, [Next]_vars
    PROVE  AcceptedInv'
<1> SUFFICES ASSUME NEW a \in Attempts, StateOf(a)' = "accepted"
             PROVE  ~ Promised(a[2])'
  BY DEF AcceptedInv, Promised
<1>1. ~ Promised(a[2])
  <2>1. CASE Moved(a)
    BY <2>1 DEF Moved, Inserted, Dispatched, Answered, Swept, Lost, Reported
  <2>2. CASE StateOf(a)' = StateOf(a)
    BY <2>2 DEF AcceptedInv
  <2> QED  BY <2>1, <2>2, AttemptStep
<1>2. Give[a[2]] \cap owned' \subseteq Give[a[2]] \cap owned
  BY LossStep DEF Attempts
<1> QED  BY <1>1, <1>2 DEF Promised

LEMMA LiveReservedKept ==
    ASSUME TypeOK, WorkerInv, EvidenceInv, ClaimInv, LiveReserved, [Next]_vars, SpareReleases
    PROVE  LiveReserved'
<1> SUFFICES ASSUME NEW a \in Attempts, NEW p, p = PackageOf[a[2]],
                    StateOf(a)' \in Live, ~ Completed(p)', NEW x \in Give[a[2]]
             PROVE  reserved'[x] = Holder(a)
  BY DEF LiveReserved, Holder, Completed
<1>1. ~ Completed(p)
  BY CompletedStays
<1>2. x \in Assets
  BY OffersAssumption DEF Attempts
<1>3. CASE StateOf(a) \in Live
  <2>1. reserved[x] = Holder(a)
    BY <1>1, <1>3 DEF LiveReserved
  <2>2. reserved[x] # None /\ reserved[x].package = p
    BY <2>1, HolderType
  <2>3. LiveIn(p) # {}
    BY <1>3 DEF LiveIn
  <2>4. \A th \in Threads : Release(th) => package[th] # p
    BY <1>1, <2>3 DEF SpareReleases, Spare
  <2>5. reserved'[x] = reserved[x]
    BY <1>2, <2>2, <2>4, HolderKept
  <2> QED  BY <2>1, <2>5
<1>4. CASE StateOf(a) \notin Live
  <2>1. Inserted(a)
    BY <1>4, AttemptStep DEF Moved, Inserted, Dispatched, Answered, Swept, Lost, Reported, Live
  <2>2. reserved[x] = Holder(<<a[1], a[2]>>)
    BY <1>1, <2>1 DEF Inserted, ClaimInv, Attempts
  <2> QED  BY <2>1, <2>2 DEF Inserted, Attempts, Holder
<1> QED  BY <1>3, <1>4

\* What keeps the reservation of a live attempt, as long as releases are spare.
SpareInv == SelectedInv /\ ClaimInv /\ AcceptedInv /\ LiveReserved

LEMMA InitSpare == Init => SpareInv
<1> SUFFICES ASSUME Init PROVE SpareInv
  OBVIOUS
<1>1. \A s \in Sends : pc[s] = "idle"
  BY DEF Init, Threads
<1>2. \A a \in Attempts : StateOf(a) = "none"
  BY DEF Init, Attempts, StateOf
<1>3. SelectedInv /\ ClaimInv
  BY <1>1 DEF SelectedInv, ClaimInv
<1>4. AcceptedInv /\ LiveReserved
  BY <1>2 DEF AcceptedInv, LiveReserved, Live
<1> QED  BY <1>3, <1>4 DEF SpareInv

LEMMA SpareKept ==
    ASSUME IInv, SpareInv, [Next]_vars, SpareReleases
    PROVE  SpareInv'
BY SelectedKept, ClaimKept, AcceptedKept, LiveReservedKept DEF SpareInv, IInv

\* A pending offer is of a live attempt, unless the answer was a failure, and
\* its package is not complete.
LEMMA PromiseOfLive ==
    ASSUME IInv, AcceptedInv, LiveReserved
    PROVE  PromiseReserved
<1> SUFFICES ASSUME NEW a \in Attempts \ misreported, RemoteOf(a) = "pending"
             PROVE  \A x \in Give[a[2]] : reserved[x] = Holder(a)
  BY DEF PromiseReserved, RemoteOf
<1>1. StateOf(a) \in Live \cup Terminal \cup {"none"}
  BY DEF IInv, TypeOK, TypeRows, StateOf, Attempts
<1>2. StateOf(a) \in Live
  BY <1>1 DEF IInv, RemoteInv, EndsAreTrue, TerminalPromisesNothing, RemoteOf
<1>3. ~ Completed(PackageOf[a[2]])
  <2> SUFFICES ASSUME NEW b \in Attempts, PackageOf[b[2]] = PackageOf[a[2]],
                      StateOf(b) = "accepted"
               PROVE  FALSE
    BY DEF Completed
  <2>1. Promised(a[2]) /\ ~ Promised(b[2])
    BY DEF IInv, RemoteInv, AcceptedInv
  <2>2. Give[b[2]] = Give[a[2]]
    BY PackagesAssumption DEF Attempts
  <2> QED  BY <2>1, <2>2 DEF Promised
<1> QED  BY <1>2, <1>3 DEF LiveReserved

\* A step that changes nothing is not a release.
LEMMA NoReleaseIdly ==
    ASSUME TypeOK, UNCHANGED vars
    PROVE  SpareReleases
<1> SUFFICES ASSUME NEW th \in Threads, Release(th) PROVE FALSE
  BY DEF SpareReleases
<1>1. pc[th] = "release" /\ pc'[th] = After(th)
  BY DEF Release, Goto, TypeOK, TypeThreads
<1>2. After(th) # "release"
  BY DEF After, TypeOK, TypeRefresher
<1> QED  BY <1>1, <1>2 DEF vars

\* While every release finds its package spare, SpareInv holds.
LEMMA SpareAlways == Spec /\ [][SpareReleases]_vars => [](IInv /\ SpareInv)
<1> DEFINE J == IInv /\ SpareInv
<1>1. Init => J
  BY InitIInv, InitSpare
<1>2. J /\ [Next]_vars /\ [SpareReleases]_vars => J'
  BY NextIInv, SpareKept, NoReleaseIdly DEF IInv
<1> QED  BY <1>1, <1>2, PTL DEF Spec

\* A release overtaken by a claim of its package is the only way in which a
\* live attempt loses its reservation: as long as every release finds its
\* package complete or without an attempt and a claim, the assets of a live
\* attempt stay reserved by its batch.  Nothing in release_if_idle (it checks
\* and releases in two transactions), nor a single transaction in its place,
\* ensures this, since a batch claims before it stores its attempts; run
\* overhaul_release_race shows the claim that comes in between.
THEOREM LiveAttemptsStayReserved == Spec /\ [][SpareReleases]_vars => []LiveReserved
<1>1. IInv /\ SpareInv => LiveReserved
  BY DEF SpareInv
<1> QED  BY <1>1, SpareAlways, PTL

\* The same for what is pending at the provider: unless a release is overtaken
\* by a claim, no other batch can promise an asset that a pending offer
\* promises.  An offer whose call was answered by a failure reserves nothing.
THEOREM PendingPromisesStayReserved == Spec /\ [][SpareReleases]_vars => []PromiseReserved
<1>1. IInv /\ SpareInv => PromiseReserved
  BY PromiseOfLive DEF SpareInv
<1> QED  BY <1>1, SpareAlways, PTL

\* An attempt becomes live only when its batch stores it.
LEMMA LiveComes ==
    ASSUME TypeOK, WorkerInv, EvidenceInv, [Next]_vars, NEW a \in Attempts,
           StateOf(a)' \in Live, StateOf(a) \notin Live
    PROVE  Inserted(a) /\ Claiming(a[1], PackageOf[a[2]])
BY AttemptStep DEF Moved, Inserted, Dispatched, Answered, Swept, Lost, Reported, Live, Claiming

\* A thread that turns to freeing a package has just settled one of its live
\* attempts.  A call is always recorded: only the worker of an attempt in state
\* sending moves it.
SendingInv == \A s \in Sends : pc[s] = "record" => StateOf(Current(s)) = "sending"

LEMMA SendingKept ==
    ASSUME TypeOK, WorkerInv, EvidenceInv, SendingInv, [Next]_vars
    PROVE  SendingInv'
<1> SUFFICES ASSUME NEW s \in Sends, pc'[s] = "record", NEW a, a = <<s, offer'[s]>>
             PROVE  StateOf(a)' = "sending"
  BY DEF SendingInv, StateOf, Current
<1>1. CASE Rests(s)
  <2>1. a = Current(s) /\ a \in Attempts /\ StateOf(a) = "sending" /\ a[1] = s
    BY <1>1 DEF Rests, SendingInv, Current, Attempts, WorkerInv, CallInv
  <2> QED
    BY <1>1, <2>1, AttemptStep
    DEF Rests, Moved, Inserted, Dispatched, Answered, Swept, Lost, Reported
<1>2. CASE Calls(s)
  <2>1. a = Current(s) /\ a \in Attempts /\ StateOf(a) = "sending" /\ a[1] = s
    BY <1>2 DEF Calls, WorkerInv, CallInv, Current, Attempts
  <2> QED
    BY <1>2, <2>1, AttemptStep
    DEF Calls, Moved, Inserted, Dispatched, Answered, Swept, Lost, Reported
<1> QED  BY <1>1, <1>2, SenderStep DEF Advances, Begins, Dispatches

LEMMA FreeStart ==
    ASSUME TypeOK, WorkerInv, EvidenceInv, PhaseInv, SendingInv, [Next]_vars,
           NEW th \in Threads, NEW p \in Packages, Freeing(th, p)', ~ Freeing(th, p)
    PROVE  \E a \in Attempts : PackageOf[a[2]] = p /\ Settles(th, a)
<1> DEFINE Goal == \E a \in Attempts : PackageOf[a[2]] = p /\ Settles(th, a)
<1> USE ThreadsAssumption DEF TypeOK, TypeThreads, Threads, Goto, Answer, Freeing
<1>0. p # None
  BY NoneAssumption
<1>1. ASSUME NEW x, x.attempt \in Attempts, x.to \in Live \cup Terminal, CAS(x)
      PROVE  /\ StateOf(x.attempt) \in Live /\ StateOf(x.attempt)' = x.to
             /\ ~ CanTransition("accepted", x.to)
  BY <1>1, CASEffect DEF CanTransition, Allowed, Live
<1>2. ASSUME NEW a \in Attempts, StateOf(a) \in Live, StateOf(a)' \in Terminal,
             NEW l, pc' = [pc EXCEPT ![th] = l],
             package' = [package EXCEPT ![th] = PackageOf[a[2]]]
      PROVE  Goal
  BY <1>2 DEF Settles
<1>3. CASE ReleaseStep(th)
  BY <1>0, <1>3 DEF ReleaseStep, CheckIdle, Release
<1>4. CASE Restart
  BY <1>0, <1>4 DEF Restart
<1>5. CASE th \in Sends
  <2>1. CASE Record(th)
    <3> DEFINE x == [attempt |-> <<th, offer[th]>>, from |-> "sending", to |-> answer[th]]
    <3>1. /\ offer[th] \in Offers /\ answer[th] \in {"proposed", "send_failed", "outcome_unknown"}
          /\ StateOf(<<th, offer[th]>>) = "sending"
      BY <1>5, <2>1 DEF Record, WorkerInv, CallInv, RecordInv, SendingInv, Current
    <3>2. Swaps(x)
      BY <3>1 DEF Swaps, CanTransition, Allowed
    <3>3. CAS(x)
      BY <2>1, <3>2 DEF Record
    <3>4. answer[th] = "send_failed"
      BY <1>5, <2>1 DEF Record
    <3>5. /\ pc' = [pc EXCEPT ![th] = "check"]
          /\ package' = [package EXCEPT ![th] = PackageOf[offer[th]]]
      BY <2>1, <3>4 DEF Record
    <3>6. PICK a \in Attempts : a = <<th, offer[th]>> /\ a[2] = offer[th]
      BY <1>5, <3>1 DEF Attempts
    <3>7. x.attempt = a /\ x.to = "send_failed"
      BY <3>4, <3>6
    <3>8. StateOf(a) \in Live /\ StateOf(a)' \in Terminal
      <4> HIDE DEF x
      <4> QED  BY <1>1, <3>3, <3>7 DEF Terminal
    <3> QED  BY <1>2, <3>5, <3>6, <3>8
  <2>2. ~ Looks(th)
    BY <1>5 DEF Looks, Lookup
  <2>3. CASE SendStep(th)
    BY <1>5, <2>1, <2>3 DEF SendStep, CheckToken, ReadAttempts, ReadReservations, Claim,
       Insert, Pop, Finish, Dispatch, Call
  <2> QED  BY <1>3, <1>4, <1>5, <2>2, <2>3, SenderMoves DEF SenderSame
<1>6. CASE th \in Refreshers
  <2> USE DEF TypeRefresher
  <2>1. ASSUME NEW x \in todo[th], Sweep(th, x) PROVE Goal
    <3>1. Swaps(x) /\ x.to = "stale" /\ CAS(x)
      BY <1>6, <2>1 DEF Sweep, Free
    <3>2. /\ pc' = [pc EXCEPT ![th] = "check"]
          /\ package' = [package EXCEPT ![th] = PackageOf[x.attempt[2]]]
      BY <2>1, <3>1 DEF Sweep, Free
    <3>3. x \in Transition
      BY <1>6
    <3>4. StateOf(x.attempt) \in Live /\ StateOf(x.attempt)' \in Terminal /\ x.attempt \in Attempts
      BY <1>1, <3>1, <3>3, TransitionType DEF Terminal
    <3> QED  BY <1>2, <3>2, <3>4
  <2>2. ASSUME NEW x \in todo[th], Settle(th, x) PROVE Goal
    <3>1. CAS(x) /\ x.to \in {"accepted", "resolved_elsewhere"}
      BY <1>6, <2>2 DEF Settle, Free, PhaseInv, ListedFor
    <3>2. /\ \E l \in {"rivals", "check"} : pc' = [pc EXCEPT ![th] = l]
          /\ package' = [package EXCEPT ![th] = PackageOf[x.attempt[2]]]
      BY <1>6, <2>2 DEF Settle, Free
    <3>3. x \in Transition
      BY <1>6
    <3>4. StateOf(x.attempt) \in Live /\ StateOf(x.attempt)' \in Terminal /\ x.attempt \in Attempts
      BY <1>1, <3>1, <3>3, TransitionType DEF Terminal, Settled
    <3> QED  BY <1>2, <3>2, <3>4
  <2>3. ~ Refreshes(th)
    BY <1>6 DEF Refreshes, StartRefresh
  <2>4. CASE RefreshStep(th)
    BY <1>6, <2>1, <2>2, <2>4 DEF RefreshStep, ReadPicks, ListStuck, ListOutcomes, ListRivals, Invalidated,
       EndRefresh, Invalidate
  <2> QED  BY <1>3, <1>4, <1>6, <2>3, <2>4, RefresherMoves DEF RefresherSame
<1>7. CASE th \in Reporters
  <2>1. CASE Report(th)
    <3>1. report[th] \in Transition /\ report[th].to \in Reportable
      BY <1>7, <2>1 DEF Report, EvidenceInv, ReportInv
    <3>2. /\ CAS(report[th]) /\ pc' = [pc EXCEPT ![th] = "check"]
          /\ package' = [package EXCEPT ![th] = PackageOf[report[th].attempt[2]]]
      BY <1>7, <2>1 DEF Report
    <3>3. PICK x \in Transition : x = report[th]
      BY <3>1
    <3>4. StateOf(x.attempt) \in Live /\ StateOf(x.attempt)' \in Terminal /\ x.attempt \in Attempts
      BY <1>1, <3>1, <3>2, <3>3, TransitionType, BoundsAssumption DEF Terminal, Settled
    <3> QED  BY <1>2, <3>2, <3>3, <3>4
  <2>2. ~ Reads(th)
    BY <1>7 DEF Reads, ReadAttempt
  <2> QED  BY <1>3, <1>4, <1>7, <2>1, <2>2, ReporterMoves DEF ReporterSame
<1> QED  BY <1>5, <1>6, <1>7

\* A package has one offer: the roadmap found one counterpart for it.
OneOfferEach == \A o, q \in Offers : PackageOf[o] = PackageOf[q] => o = q

\* A package that is not complete is freed by one thread, while it is spare and
\* its assets are reserved for it.
HeldFor(p) == \A o \in Offers : PackageOf[o] = p =>
    \A x \in Give[o] : reserved[x] # None /\ reserved[x].package = p
FreerInv == \A p \in Packages : ~ Completed(p) =>
    /\ \A t, u \in Threads : Freeing(t, p) /\ Freeing(u, p) => t = u
    /\ (\E th \in Threads : Freeing(th, p)) => Spare(p) /\ HeldFor(p)

LEMMA FreerSpare ==
    ASSUME TypeOK, FreerInv
    PROVE  SpareReleases
<1> SUFFICES ASSUME NEW th \in Threads, Release(th), NEW p, p = package[th], ~ Completed(p)
             PROVE  Spare(p)
  BY DEF SpareReleases, Spare, Completed
<1>1. Freeing(th, p)
  BY DEF Release, Freeing
<1>2. CASE p \in Packages
  BY <1>1, <1>2 DEF FreerInv
<1>3. CASE p = None
  <2>1. \A o \in Offers : PackageOf[o] # p
    BY <1>3, OffersAssumption, NoneAssumption
  <2>2. LiveIn(p) = {}
    BY <2>1 DEF LiveIn, Attempts
  <2>3. \A s \in Sends : ~ Claiming(s, p)
    BY <2>1 DEF Claiming, TypeOK, TypeSender
  <2> QED  BY <2>2, <2>3 DEF Spare
<1> QED  BY <1>2, <1>3 DEF TypeOK, TypeThreads

\* While nobody frees a package, a step leaves it reserved.
LEMMA HeldKept ==
    ASSUME TypeOK, [Next]_vars, NEW p, HeldFor(p),
           \A th \in Threads : Release(th) => package[th] # p
    PROVE  HeldFor(p)'
<1> SUFFICES ASSUME NEW o \in Offers, PackageOf[o] = p, NEW x \in Give[o]
             PROVE  reserved'[x] = reserved[x] /\ reserved[x] # None /\ reserved[x].package = p
  BY DEF HeldFor
<1>1. x \in Assets /\ reserved[x] # None /\ reserved[x].package = p
  BY OffersAssumption DEF HeldFor
<1> QED  BY <1>1, HolderKept

\* A spare package that is held gets no attempt and no claim.
LEMMA SpareStays ==
    ASSUME TypeOK, WorkerInv, EvidenceInv, [Next]_vars, NEW p \in Packages, Spare(p), HeldFor(p)
    PROVE  Spare(p)'
<1>1. CASE Completed(p)
  <2>1. Completed(p)'
    BY <1>1, CompletedStays
  <2> QED  BY <2>1 DEF Spare
<1>2. CASE LiveIn(p) = {} /\ \A s \in Sends : ~ Claiming(s, p)
  <2>1. ASSUME NEW a \in Attempts, PackageOf[a[2]] = p, StateOf(a)' \in Live PROVE FALSE
    BY <1>2, <2>1, LiveComes DEF LiveIn, Attempts
  <2>2. ASSUME NEW s \in Sends, Claiming(s, p)' PROVE FALSE
    <3>1. PICK o \in selected'[s] : PackageOf[o] = p /\ pc'[s] = "insert"
      BY <2>2 DEF Claiming
    <3>2. CASE pc[s] = "insert" /\ selected'[s] = selected[s]
      BY <1>2, <3>1, <3>2 DEF Claiming
    <3>3. CASE Claim(s) /\ Unreserved(s) /\ selected'[s] = selected[s]
      <4>1. o \in selected[s] /\ o \in Offers
        BY <3>1, <3>3 DEF TypeOK, TypeSender
      <4>2. PICK x : x \in Give[o]
        BY <4>1, OffersAssumption
      <4>3. reserved[x] = None
        BY <3>3, <4>1, <4>2 DEF Unreserved, Outgoing
      <4> QED  BY <3>1, <4>1, <4>2, <4>3 DEF HeldFor
    <3>4. ~ Insert(s) /\ ~ Restart
      BY <3>1 DEF Insert, Restart, Resting, Goto, TypeOK, TypeThreads, Threads
    <3> QED  BY <3>1, <3>2, <3>3, <3>4, ClaimingStep
  <2> QED  BY <2>1, <2>2 DEF Spare, LiveIn
<1> QED  BY <1>1, <1>2 DEF Spare

\* Whoever settles the attempt of a package finds no other thread freeing it,
\* and leaves it held and spare.
LEMMA FreerComes ==
    ASSUME OneOfferEach, TypeOK, WorkerInv, EvidenceInv, SpareInv, FreerInv, [Next]_vars,
           NEW p \in Packages, ~ Completed(p), NEW th \in Threads,
           NEW a \in Attempts, PackageOf[a[2]] = p, Settles(th, a)
    PROVE  /\ \A u \in Threads : ~ Freeing(u, p)
           /\ HeldFor(p)' /\ Spare(p)'
<1>1. \A u \in Threads : ~ Freeing(u, p)
  <2>1. LiveIn(p) # {}
    BY DEF Settles, LiveIn
  <2> QED  BY <2>1 DEF FreerInv, Spare
<1>2. \A x \in Give[a[2]] : reserved[x] = Holder(a)
  BY DEF SpareInv, LiveReserved, Settles
<1>3. \A o \in Offers : PackageOf[o] = p => o = a[2]
  BY DEF OneOfferEach, Attempts
<1>4. HeldFor(p)
  BY <1>2, <1>3, HolderType DEF HeldFor
<1>5. \A u \in Threads : Release(u) => package[u] # p
  BY <1>1 DEF Freeing, Release
<1>6. HeldFor(p)'
  BY <1>4, <1>5, HeldKept
<1>7. PICK x : x \in Give[a[2]]
  BY OffersAssumption DEF Attempts
<1>8. ASSUME NEW b \in Attempts, PackageOf[b[2]] = p, reserved[x] = Holder(b) PROVE b = a
  <2>1. Holder(b) = Holder(a) /\ b[2] = a[2]
    BY <1>2, <1>3, <1>7, <1>8 DEF Attempts
  <2>2. b[1] = a[1]
    BY <2>1 DEF Holder
  <2> QED  BY <2>1, <2>2 DEF Attempts
<1>9. ASSUME NEW s \in Sends, Claiming(s, p) PROVE FALSE
  <2>1. PICK o \in selected[s] : PackageOf[o] = p
    BY <1>9 DEF Claiming
  <2>2. o = a[2] /\ <<s, o>> \in Attempts
    BY <1>3, <2>1 DEF TypeOK, TypeSender, Attempts
  <2>3. reserved[x] = Holder(<<s, o>>)
    BY <1>7, <1>9, <2>1, <2>2 DEF SpareInv, ClaimInv, Claiming
  <2>4. <<s, o>> = a
    BY <1>8, <2>1, <2>2, <2>3
  <2>5. a[1] = s /\ pc[s] = "insert"
    BY <1>9, <2>4 DEF Claiming
  <2> QED  BY <2>5 DEF WorkerInv, RowsInv, Settles, Live
<1>10. ASSUME NEW b \in Attempts, PackageOf[b[2]] = p, StateOf(b)' \in Live PROVE FALSE
  <2>1. CASE StateOf(b) \in Live
    <3>1. \A y \in Give[b[2]] : reserved[y] = Holder(b)
      BY <1>10, <2>1 DEF SpareInv, LiveReserved
    <3>2. b = a
      BY <1>3, <1>7, <1>8, <1>10, <3>1 DEF Attempts
    <3> QED  BY <1>10, <3>2 DEF Settles, Live, Terminal, Settled
  <2>2. CASE StateOf(b) \notin Live
    BY <1>9, <1>10, <2>2, LiveComes DEF Attempts
  <2> QED  BY <2>1, <2>2
<1>11. ASSUME NEW s \in Sends, Claiming(s, p)' PROVE FALSE
  <2>1. PICK o \in selected'[s] : PackageOf[o] = p /\ pc'[s] = "insert"
    BY <1>11 DEF Claiming
  <2>2. CASE pc[s] = "insert" /\ selected'[s] = selected[s]
    BY <1>9, <2>1, <2>2 DEF Claiming
  <2>3. CASE Claim(s) /\ Unreserved(s) /\ selected'[s] = selected[s]
    <3>1. o \in selected[s] /\ o \in Offers /\ o = a[2]
      BY <1>3, <2>1, <2>3 DEF TypeOK, TypeSender
    <3>2. reserved[x] = None
      BY <1>7, <2>3, <3>1 DEF Unreserved, Outgoing
    <3> QED  BY <1>2, <1>7, <3>2, HolderType
  <2>4. ~ Insert(s) /\ ~ Restart
    BY <2>1 DEF Insert, Restart, Resting, Goto, TypeOK, TypeThreads, Threads
  <2> QED  BY <2>1, <2>2, <2>3, <2>4, ClaimingStep
<1>12. Spare(p)'
  BY <1>10, <1>11 DEF Spare, LiveIn
<1> QED  BY <1>1, <1>6, <1>12

LEMMA FreerKept ==
    ASSUME OneOfferEach, TypeOK, WorkerInv, EvidenceInv, PhaseInv, SendingInv, SpareInv, FreerInv,
           [Next]_vars
    PROVE  FreerInv'
<1> SUFFICES ASSUME NEW p \in Packages, ~ Completed(p)'
             PROVE  /\ \A t, u \in Threads : Freeing(t, p)' /\ Freeing(u, p)' => t = u
                    /\ (\E th \in Threads : Freeing(th, p)') => Spare(p)' /\ HeldFor(p)'
  BY DEF FreerInv
<1>1. ~ Completed(p)
  BY CompletedStays
<1>2. CASE \E th \in Threads : Freeing(th, p)' /\ ~ Freeing(th, p)
  <2>1. PICK th \in Threads, a \in Attempts : PackageOf[a[2]] = p /\ Settles(th, a)
    BY <1>2, FreeStart
  <2>2. (\A u \in Threads : ~ Freeing(u, p)) /\ HeldFor(p)' /\ Spare(p)'
    BY <1>1, <2>1, FreerComes
  <2>3. \A u \in Threads \ {th} : ~ Freeing(u, p)'
    BY <2>1, <2>2 DEF Settles, Freeing
  <2> QED  BY <2>2, <2>3
<1>3. CASE \A th \in Threads : Freeing(th, p)' => Freeing(th, p)
  <2>1. ASSUME NEW th \in Threads, Freeing(th, p)' PROVE Spare(p)' /\ HeldFor(p)'
    <3>1. Spare(p) /\ HeldFor(p)
      BY <1>1, <1>3, <2>1 DEF FreerInv
    <3>2. ASSUME NEW u \in Threads, Release(u), package[u] = p PROVE FALSE
      <4>1. Freeing(u, p)
        BY <3>2 DEF Release, Freeing
      <4>2. u = th
        BY <1>1, <1>3, <2>1, <4>1 DEF FreerInv
      <4>3. package'[u] = None
        BY <3>2 DEF Release, TypeOK, TypeThreads
      <4> QED  BY <2>1, <4>2, <4>3, NoneAssumption DEF Freeing
    <3> QED  BY <3>1, <3>2, HeldKept, SpareStays
  <2>2. \A t, u \in Threads : Freeing(t, p)' /\ Freeing(u, p)' => t = u
    BY <1>1, <1>3 DEF FreerInv
  <2> QED  BY <2>1, <2>2
<1> QED  BY <1>2, <1>3

\* Where a package has one offer, every release finds its package spare.
LEMMA OneOfferAlways ==
    ASSUME OneOfferEach
    PROVE  Spec => [](IInv /\ SpareInv)
<1> DEFINE J == IInv /\ PhaseInv /\ SendingInv /\ FreerInv /\ SpareInv
<1>1. Init => J
  <2>1. Init => SendingInv /\ FreerInv
    BY DEF Init, SendingInv, FreerInv, Freeing, Threads
  <2> QED  BY <2>1, InitIInv, InitOrphan, InitSpare
<1>2. J /\ [Next]_vars => J'
  <2> SUFFICES ASSUME J, [Next]_vars PROVE J'
    OBVIOUS
  <2>1. TypeOK /\ WorkerInv /\ EvidenceInv
    BY DEF IInv
  <2>2. IInv' /\ PhaseInv'
    BY <2>1, NextIInv, PhaseKept
  <2>3. SendingInv' /\ FreerInv'
    BY <2>1, SendingKept, FreerKept
  <2>4. SpareInv'
    BY <2>1, FreerSpare, SpareKept
  <2> QED  BY <2>2, <2>3, <2>4
<1>3. J => IInv /\ SpareInv
  OBVIOUS
<1> QED  BY <1>1, <1>2, <1>3, PTL DEF Spec

\* Rival batches, refreshes, reports and restarts in any order: as long as a
\* package has one offer, the assets of a live attempt stay reserved by its
\* batch until the package is complete, since only the thread that settles the
\* attempt comes to free them.
THEOREM OneOfferLiveReserved ==
    ASSUME OneOfferEach
    PROVE  Spec => []LiveReserved
<1>1. IInv /\ SpareInv => LiveReserved
  BY DEF SpareInv
<1> QED  BY <1>1, OneOfferAlways, PTL

\* And no other batch can promise what an offer pending at the provider gives,
\* unless the call that placed it was answered by a failure.
THEOREM OneOfferPromiseReserved ==
    ASSUME OneOfferEach
    PROVE  Spec => []PromiseReserved
<1>1. IInv /\ SpareInv => PromiseReserved
  BY PromiseOfLive DEF SpareInv
<1> QED  BY <1>1, OneOfferAlways, PTL

------------------------------------------------------------------------------
(* Writes and promises at the provider. *)

\* An offer is put before the provider once, and by the worker of an attempt in
\* state sending only: one whose outcome is unknown, that is over, or that a
\* sweep has taken from its worker is never written again (the send loop of
\* overhaul_api.py; ENGINEERING-SPEC: "Do not automatically repeat a
\* non-idempotent write").
NeverResent ==
    [][\A a \in Attempts : RemoteOf(a) # "pending" /\ RemoteOf(a)' = "pending" =>
          RemoteOf(a) = "none" /\ StateOf(a) = "sending"]_vars

\* Whatever the sends, refreshes, reports and restarts in between.
THEOREM OffersAreWrittenOnce == Spec => NeverResent
<1>1. IInv /\ [Next]_vars =>
        [\A a \in Attempts : RemoteOf(a) # "pending" /\ RemoteOf(a)' = "pending" =>
            RemoteOf(a) = "none" /\ StateOf(a) = "sending"]_vars
  <2> SUFFICES ASSUME IInv, [Next]_vars, NEW a \in Attempts,
                      RemoteOf(a) # "pending", RemoteOf(a)' = "pending"
               PROVE  RemoteOf(a) = "none" /\ StateOf(a) = "sending"
    OBVIOUS
  <2>1. CalledNow(a) /\ a[1] \in Sends
    BY RemoteStep DEF IInv, Attempts
  <2> QED  BY <2>1 DEF CalledNow, IInv, WorkerInv, CallInv
<1> QED  BY <1>1, Inductive, PTL DEF Spec, NeverResent

\* No asset is promised to two batches or for two packages at once: two offers
\* that are pending at the provider, and that the store does not call failed,
\* belong to one batch and to one package if they give the same asset; the
\* offers of one package race by design.
NoDoublePromise == \A a, b \in Attempts \ misreported :
    RemoteOf(a) = "pending" /\ RemoteOf(b) = "pending" /\ Give[a[2]] \cap Give[b[2]] # {} =>
        a[1] = b[1] /\ PackageOf[a[2]] = PackageOf[b[2]]

LEMMA PromiseOfOne ==
    ASSUME PromiseReserved
    PROVE  NoDoublePromise
<1> SUFFICES ASSUME NEW a \in Attempts \ misreported, NEW b \in Attempts \ misreported,
                    RemoteOf(a) = "pending", RemoteOf(b) = "pending",
                    NEW x \in Give[a[2]], x \in Give[b[2]]
             PROVE  a[1] = b[1] /\ PackageOf[a[2]] = PackageOf[b[2]]
  BY DEF NoDoublePromise
<1>1. Holder(a) = Holder(b)
  BY DEF PromiseReserved, RemoteOf
<1> QED  BY <1>1 DEF Holder

\* As long as no claim overtakes a release (claim_reservations, release_if_idle
\* and the send loop).
THEOREM NothingPromisedTwice == Spec /\ [][SpareReleases]_vars => []NoDoublePromise
BY PendingPromisesStayReserved, PromiseOfOne, PTL

------------------------------------------------------------------------------
(* Refinement: sends implement OfferLedger. *)

\* The store changes by one transition, or by the insert of a batch, and then
\* the provider does not; a call places one offer.
Transits == (\E x \in Transition : CAS(x)) /\ UNCHANGED <<remote, misreported>>
Inserts  == (\E s \in Sends : Insert(s)) /\ UNCHANGED <<remote, misreported>>
CallsOut == (\E s \in Sends, result \in DOMAIN Outcomes : Call(s, result)) /\ state' = state
Worldly  == World /\ state' = state /\ pc' = pc /\ misreported' = misreported
Still    == state' = state /\ UNCHANGED <<remote, misreported>>

LEMMA OneChange ==
    ASSUME IInv, [Next]_vars
    PROVE  Transits \/ Inserts \/ CallsOut \/ Worldly \/ Still
<1> DEFINE Goal == Transits \/ Inserts \/ CallsOut \/ Worldly \/ Still
<1> USE DEF IInv, TypeOK
<1>1. ASSUME NEW s \in Sends, Insert(s) PROVE Goal
  BY <1>1 DEF Insert, Inserts
<1>2. ASSUME NEW s \in Sends, NEW result \in DOMAIN Outcomes, Call(s, result) PROVE Goal
  BY <1>2 DEF Call, CallsOut
<1>3. ASSUME NEW x \in Transition, CAS(x), UNCHANGED <<remote, misreported>> PROVE Goal
  BY <1>3 DEF Transits
<1>4. ASSUME state' = state, UNCHANGED <<remote, misreported>> PROVE Goal
  BY <1>4 DEF Still
<1>5. ASSUME NEW s \in Sends, NEW o \in Offers, Dispatch(s, o) PROVE Goal
  <2>1. [attempt |-> <<s, o>>, from |-> "queued", to |-> "sending"] \in Transition
    BY DEF Transition, Attempts, Live
  <2> QED  BY <1>3, <1>4, <1>5, <2>1 DEF Dispatch
<1>6. ASSUME NEW s \in Sends, Record(s) PROVE Goal
  <2>1. [attempt |-> <<s, offer[s]>>, from |-> "sending", to |-> answer[s]] \in Transition
    BY <1>6 DEF Record, WorkerInv, CallInv, RecordInv, Transition, Attempts, Live, Terminal
  <2> QED  BY <1>3, <1>4, <1>6, <2>1 DEF Record
<1>7. ASSUME NEW r \in Refreshers, NEW x \in todo[r], Sweep(r, x) \/ Settle(r, x) PROVE Goal
  <2>1. x \in Transition
    BY DEF TypeRefresher
  <2> QED  BY <1>3, <1>4, <1>7, <2>1 DEF Sweep, Settle
<1>8. ASSUME NEW r \in Refreshers, NEW x \in rivals[r], Invalidate(r, x) PROVE Goal
  <2>1. x \in Transition
    BY DEF TypeRefresher
  <2> QED  BY <1>3, <1>4, <1>8, <2>1 DEF Invalidate
<1>9. ASSUME NEW u \in Reporters, Report(u) PROVE Goal
  <2>1. report[u] \in Transition
    BY <1>9 DEF Report, EvidenceInv, ReportInv
  <2> QED  BY <1>3, <1>4, <1>9, <2>1 DEF Report
<1> QED
  <2>1. ASSUME NEW s \in Sends, SendStep(s) PROVE Goal
    BY <2>1, <1>1, <1>2, <1>4, <1>5, <1>6
    DEF SendStep, CheckToken, ReadAttempts, ReadReservations, Claim, Pop, Finish
  <2>2. ASSUME NEW r \in Refreshers, RefreshStep(r) PROVE Goal
    BY <2>2, <1>4, <1>7, <1>8 DEF RefreshStep, ReadPicks, ListStuck, ListOutcomes, ListRivals, Invalidated, EndRefresh
  <2>3. CASE Steps
    BY <2>3, <2>1, <2>2, <1>4, <1>9 DEF Steps, ReleaseStep, CheckIdle, Release
  <2>4. CASE Requests
    BY <2>4, <1>4 DEF Requests, Prepare, Expire, Lookup, StartRefresh, ReadAttempt
  <2>5. CASE World
    BY <2>5 DEF World, Worldly, Age, Accept, Close, TradeAway
  <2>6. CASE Restart \/ UNCHANGED vars
    BY <2>6, <1>4 DEF Restart
  <2> QED  BY <2>3, <2>4, <2>5, <2>6 DEF Next

LEMMA SamePlaces ==
    ASSUME UNCHANGED <<remote, misreported>>
    PROVE  PlacedOf' = PlacedOf
BY DEF PlacedOf, RemoteOf

LEMMA SameRecords ==
    ASSUME state' = state
    PROVE  RecordOf' = RecordOf
BY DEF RecordOf, StateOf

\* A transition calls an attempt over, or leaves it open.
LEMMA TransitRefines ==
    ASSUME IInv, [Next]_vars, IInv', Transits
    PROVE  [Ledger!Next]_<<RecordOf, PlacedOf>>
<1> USE DEF IInv
<1>1. PICK x \in Transition : CAS(x) /\ UNCHANGED <<remote, misreported>>
  BY DEF Transits
<1> DEFINE a == x.attempt
<1>2. /\ a \in Attempts /\ x.from \in Live /\ x.to \in Live \cup Terminal
      /\ StateOf(a) = x.from
      /\ \A b \in Attempts : StateOf(b)' = IF b = a THEN x.to ELSE StateOf(b)
  BY <1>1, TransitionType, CASEffect DEF TypeOK
<1>3. PlacedOf' = PlacedOf
  BY <1>1, SamePlaces
<1>4. CASE x.to \in Live
  <2>1. RecordOf' = RecordOf
    BY <1>2, <1>4 DEF RecordOf
  <2> QED  BY <1>3, <2>1
<1>5. CASE x.to \notin Live
  <2>1. x.to \in Terminal /\ RecordOf[a] = "open"
    BY <1>2, <1>5 DEF RecordOf
  <2>2. RecordOf' = [RecordOf EXCEPT ![a] = x.to]
    BY <1>2, <1>5 DEF RecordOf
  <2>3. PlacedOf[a] # "pending" /\ (PlacedOf[a] = "unseen" => x.to = "send_failed")
    <3>1. StateOf(a)' = x.to /\ x.to \in Terminal
      BY <1>2, <2>1
    <3>2. RemoteOf(a) = "pending" => x.to = "send_failed" /\ a \in misreported
      BY <1>1, <1>2, <3>1 DEF EndsAreTrue, TerminalPromisesNothing, RemoteOf
    <3>3. RemoteOf(a) # "unseen"
      BY <1>2 DEF TypeOK, TypeProvider, RemoteOf, Attempts
    <3> QED  BY <1>2, <3>2, <3>3 DEF PlacedOf
  <2>4. x.to = "stale" => PlacedOf[a] = "none"
    <3> SUFFICES ASSUME x.to = "stale" PROVE RemoteOf(a) = "none"
      BY <1>2 DEF PlacedOf
    <3>1. StateOf(a)' = "stale" /\ StateOf(a) # "stale"
      BY <1>2 DEF Live
    <3>2. Moved(a)
      BY <1>2, <3>1, AttemptStep
    <3>3. ~ Inserted(a) /\ ~ Dispatched(a) /\ ~ Lost(a) /\ ~ Reported(a)
      BY <3>1 DEF Inserted, Dispatched, Lost, Reported
    <3>4. ~ Answered(a)
      BY <3>1 DEF Answered
    <3> QED  BY <1>2, <3>1, <3>2, <3>3, <3>4 DEF Moved, Swept, RemoteInv
  <2>5. Ledger!End(a, x.to)
    BY <1>3, <2>1, <2>2, <2>3, <2>4 DEF Ledger!End
  <2> QED  BY <1>2, <2>1, <2>5 DEF Ledger!Next
<1> QED  BY <1>4, <1>5

LEMMA InsertRefines ==
    ASSUME IInv, [Next]_vars, Inserts
    PROVE  [Ledger!Next]_<<RecordOf, PlacedOf>>
<1> USE DEF IInv
<1>1. PICK s \in Sends : Insert(s) /\ UNCHANGED <<remote, misreported>>
  BY DEF Inserts
<1> DEFINE A == {a \in Attempts : a[1] = s /\ a[2] \in selected[s]}
<1>2. \A a \in A : RecordOf[a] = "none"
  BY <1>1 DEF Insert, WorkerInv, RowsInv, RecordOf, Live
<1>3. RecordOf' = [a \in Attempts |-> IF a \in A THEN "open" ELSE RecordOf[a]]
  <2> SUFFICES ASSUME NEW a \in Attempts
               PROVE  RecordOf'[a] = IF a \in A THEN "open" ELSE RecordOf[a]
    BY DEF RecordOf
  <2>1. PICK b \in Sends, o \in Offers : a = <<b, o>>
    BY DEF Attempts
  <2>2. CASE a \in A
    BY <1>1, <2>1, <2>2 DEF Insert, RecordOf, StateOf, TypeOK, TypeRows, Live
  <2>3. CASE a \notin A
    <3>1. StateOf(a)' = StateOf(a)
      <4>1. CASE b = s
        <5>1. StateOf(a)' = "none"
          BY <1>1, <2>1, <2>3, <4>1 DEF Insert, StateOf, TypeOK, TypeRows
        <5>2. StateOf(a) = "none"
          BY <1>1, <2>1, <4>1 DEF Insert, WorkerInv, RowsInv
        <5> QED  BY <5>1, <5>2
      <4>2. CASE b # s
        BY <1>1, <2>1, <4>2 DEF Insert, StateOf, TypeOK, TypeRows
      <4> QED  BY <4>1, <4>2
    <3> QED  BY <2>3, <3>1 DEF RecordOf
  <2> QED  BY <2>2, <2>3
<1>4. Ledger!Store(A)
  BY <1>1, <1>2, <1>3, SamePlaces DEF Ledger!Store
<1> QED  BY <1>4 DEF Ledger!Next

LEMMA CallRefines ==
    ASSUME IInv, [Next]_vars, CallsOut
    PROVE  [Ledger!Next]_<<RecordOf, PlacedOf>>
<1> USE DEF IInv
<1>1. PICK s \in Sends, result \in DOMAIN Outcomes : Call(s, result) /\ state' = state
  BY DEF CallsOut
<1>2. RecordOf' = RecordOf
  BY <1>1, SameRecords
<1>3. CASE result \notin {"taken", "late", "failure"}
  <2>1. UNCHANGED <<remote, misreported>>
    BY <1>1, <1>3 DEF Call
  <2> QED  BY <1>2, <2>1, SamePlaces
<1>4. CASE result \in {"taken", "late", "failure"}
  <2> DEFINE a == Current(s)
             seen == IF a \in misreported' THEN "unseen" ELSE "pending"
  <2>1. /\ a \in Attempts /\ RecordOf[a] = "open" /\ PlacedOf[a] = "none"
        /\ remote' = [remote EXCEPT ![s][offer[s]] = "pending"]
        /\ \A b : b # a => (b \in misreported' <=> b \in misreported)
    BY <1>1, <1>4 DEF Call, WorkerInv, CallInv, Current, Attempts, RecordOf, PlacedOf, RemoteOf, Live
  <2>2. PlacedOf' = [PlacedOf EXCEPT ![a] = seen]
    <3>1. ASSUME NEW t \in Sends, NEW o \in Offers
          PROVE  remote'[t][o] = IF <<t, o>> = a THEN "pending" ELSE remote[t][o]
      BY <2>1 DEF TypeOK, TypeProvider, Current
    <3>2. \A b \in Attempts : RemoteOf(b)' = IF b = a THEN "pending" ELSE RemoteOf(b)
      BY <3>1 DEF Attempts, RemoteOf
    <3>3. ASSUME NEW b \in Attempts
          PROVE  PlacedOf'[b] = IF b = a THEN seen ELSE PlacedOf[b]
      BY <2>1, <3>2 DEF PlacedOf
    <3> QED  BY <2>1, <3>3 DEF PlacedOf
  <2>3. Ledger!Place(a)
    BY <1>2, <2>1, <2>2 DEF Ledger!Place
  <2> QED  BY <2>1, <2>3 DEF Ledger!Next
<1> QED  BY <1>3, <1>4

LEMMA WorldRefines ==
    ASSUME IInv, [Next]_vars, Worldly
    PROVE  [Ledger!Next]_<<RecordOf, PlacedOf>>
<1> USE DEF IInv
<1> DEFINE A    == {a \in Attempts : RemoteOf(a)' # RemoteOf(a)}
           over == [a \in A |-> RemoteOf(a)']
<1>1. RecordOf' = RecordOf
  BY SameRecords DEF Worldly
<1>2. \A a \in A : RemoteOf(a) = "pending" /\ RemoteOf(a)' \in {"accepted", "closed"}
  <2> SUFFICES ASSUME NEW a \in A
               PROVE  RemoteOf(a) = "pending" /\ RemoteOf(a)' \in {"accepted", "closed"}
    OBVIOUS
  <2>1. ~ CalledNow(a)
    BY DEF Worldly, CalledNow
  <2> QED  BY <2>1, RemoteStep
<1>3. over \in [A -> {"accepted", "closed"}]
  BY <1>2
<1>4. PlacedOf' = [a \in Attempts |-> IF a \in A THEN over[a] ELSE PlacedOf[a]]
  <2>1. ASSUME NEW a \in Attempts PROVE PlacedOf'[a] = IF a \in A THEN over[a] ELSE PlacedOf[a]
    BY <1>2, <2>1 DEF PlacedOf, Worldly
  <2> QED  BY <2>1 DEF PlacedOf
<1>5. \A a \in A : PlacedOf[a] \in {"pending", "unseen"}
  BY <1>2 DEF PlacedOf
<1>6. Ledger!Conclude(A)
  BY <1>1, <1>3, <1>4, <1>5 DEF Ledger!Conclude
<1> QED  BY <1>6 DEF Ledger!Next

\* Sends, sweeps, refreshes, reports and restarts implement OfferLedger: an
\* offer is stored before it is placed, placed once and only while it is open,
\* never placed when it is called stale, and ended once, for good, and not while
\* the provider could still execute it, save for one the provider took and
\* answered with a failure, which the send loop calls failed.
THEOREM Refinement == Spec => Refines
<1>1. Init => IInv /\ Ledger!Init
  <2> SUFFICES ASSUME Init PROVE Ledger!Init
    BY InitIInv
  <2> QED  BY DEF Init, Ledger!Init, RecordOf, PlacedOf, StateOf, RemoteOf, Attempts, Live
<1>2. IInv /\ IInv' /\ [Next]_vars => [Ledger!Next]_<<RecordOf, PlacedOf>>
  <2> SUFFICES ASSUME IInv, IInv', [Next]_vars PROVE [Ledger!Next]_<<RecordOf, PlacedOf>>
    OBVIOUS
  <2>1. CASE Still
    BY <2>1, SameRecords, SamePlaces DEF Still
  <2> QED  BY <2>1, OneChange, TransitRefines, InsertRefines, CallRefines, WorldRefines
<1> QED  BY <1>1, <1>2, Inductive, PTL DEF Spec, Refines, Ledger!Spec
=============================================================================
