------------------------- MODULE PreparedSweepProofs -------------------------
(* Proofs about PreparedSweep for any sweeps, targets, scopes and processes. *)
EXTENDS PreparedSweep, TLAPS

\* A claim that may still write: its target runs under it, in an open sweep.
Live(k) ==
    /\ k \in 1 .. claims /\ k \in Claims
    /\ of[k] \in Targets /\ token[of[k]] = k /\ holder = k /\ k # None
    /\ status[of[k]] = "running" /\ attempts[of[k]] > 0
    /\ ScopeOf[of[k]] \notin gone
    /\ sweep[SweepOf[of[k]]] # "none"

\* The transaction checks that guard every step of a thread make its claim live.
LEMMA ClaimedIsLive ==
    ASSUME IInv, NEW w \in Workers, pc[w] # "idle", Claimed(w)
    PROVE  Live(claim[w])
<1>1. claim[w] \in Claims /\ claim[w] # None /\ claim[w] <= claims
  BY DEF IInv, TypeOK, ClaimInv
<1>2. of[claim[w]] \in Targets /\ token[of[claim[w]]] = claim[w] /\ holder = claim[w]
  BY <1>1 DEF IInv, TypeOK, ClaimInv, Claimed
<1>3. status[of[claim[w]]] = "running" /\ attempts[of[claim[w]]] > 0
  BY <1>1, <1>2 DEF IInv, RowAgrees, AttemptInv
<1>4. ScopeOf[of[claim[w]]] \notin gone /\ sweep[SweepOf[of[claim[w]]]] # "none"
  BY <1>2, <1>3 DEF IInv, NothingOfTheDeleted, SweepInv
<1>. QED  BY <1>1, <1>2, <1>3, <1>4 DEF Live, Claims, IInv, TypeOK

\* What the completion of a running target leaves behind.
Completed(t, r) ==
    /\ status' = [status EXCEPT ![t] = r]
    /\ token' = [token EXCEPT ![t] = None]
    /\ holder' = None /\ lapsed' = FALSE
    /\ sweep' \in [Sweeps -> {"none", "running", "complete", "stopped"}]
    /\ RowAgrees' /\ SweepInv' /\ ClosedSweepsAreDone'

LEMMA CompleteKeeps ==
    ASSUME IInv, NEW t \in Targets, NEW r \in Statuses \ {"none", "running"},
           token[t] # None, of' = of, Complete(t, r)
    PROVE  Completed(t, r)
<1>1. sweep' = Finished({SweepOf[t]}, status') /\ sweep' \in [Sweeps -> {"none", "running", "complete", "stopped"}]
  BY DEF Complete, Finished, IInv, TypeOK
<1>2. /\ status' = [status EXCEPT ![t] = r] /\ token' = [token EXCEPT ![t] = None]
      /\ holder' = None /\ lapsed' = FALSE
  BY DEF Complete
<1>3. RowAgrees'
  <2>1. \A u \in Targets : token'[u] = None
    BY <1>2 DEF IInv, TypeOK, RowAgrees
  <2>2. \A u \in Targets : status'[u] # "running"
    BY <1>2 DEF IInv, TypeOK, RowAgrees, Statuses
  <2>. QED  BY <1>2, <2>1, <2>2 DEF RowAgrees
<1>4. SweepInv'
  <2>. SUFFICES ASSUME NEW u \in Targets, sweep'[SweepOf[u]] = "none" PROVE status'[u] = "none"
    BY DEF SweepInv
  <2>1. sweep[SweepOf[u]] = "none" /\ status[u] = "none" /\ status[t] = "running"
    BY <1>1, SweepsAssumption DEF Finished, IInv, SweepInv, RowAgrees
  <2>. QED  BY <1>2, <2>1 DEF IInv, TypeOK
<1>5. ClosedSweepsAreDone'
  <2>. SUFFICES ASSUME NEW s \in Sweeps, sweep'[s] \in {"complete", "stopped"} PROVE ~Remaining(s, status')
    BY DEF ClosedSweepsAreDone
  <2>1. CASE sweep[s] = "running"
    BY <1>1, <2>1 DEF Finished
  <2>2. CASE sweep[s] # "running"
    <3>1. sweep[s] \in {"complete", "stopped"} /\ ~Remaining(s, status)
      BY <1>1, <2>2 DEF Finished, IInv, ClosedSweepsAreDone
    <3>2. SweepOf[t] # s
      BY <3>1 DEF Remaining, IInv, RowAgrees
    <3>. QED  BY <1>2, <3>1, <3>2 DEF Remaining, IInv, TypeOK
  <2>. QED  BY <2>1, <2>2
<1>. QED  BY <1>1, <1>2, <1>3, <1>4, <1>5 DEF Completed

\* Revoking the claims of some targets leaves the row to the one that remains.
LEMMA RevokedAgrees ==
    ASSUME IInv, NEW T \in SUBSET Targets, Revoked(T), of' = of,
           \A u \in Targets : status'[u] = "running" <=> status[u] = "running" /\ u \notin T
    PROVE  RowAgrees'
<1>1. token' = [t \in Targets |-> IF t \in T THEN None ELSE token[t]]
  BY DEF Revoked
<1>2. CASE \E t \in T : token[t] # None /\ token[t] = holder
  <2>1. holder' = None /\ lapsed' = FALSE
    BY <1>2 DEF Revoked
  <2>2. \A u \in Targets : token'[u] = None
    BY <1>1, <1>2 DEF IInv, RowAgrees
  <2>. QED  BY <1>1, <2>1, <2>2 DEF IInv, TypeOK, RowAgrees
<1>3. CASE ~ \E t \in T : token[t] # None /\ token[t] = holder
  <2>1. holder' = holder /\ lapsed' = lapsed
    BY <1>3 DEF Revoked, row
  <2>2. token' = token
    BY <1>1, <1>3 DEF IInv, TypeOK, RowAgrees
  <2>. QED  BY <1>3, <2>1, <2>2 DEF IInv, TypeOK, RowAgrees
<1>. QED  BY <1>2, <1>3

-----------------------------------------------------------------------------
(* One lemma per action: it keeps each conjunct of the invariant. *)

LEMMA CreateKeeps ==
    ASSUME IInv, NEW s \in Sweeps, Create(s)
    PROVE  IInv'
<1>. USE DEF IInv, TypeOK, Statuses, Open, Staged, Claims, Create, row, stages, threads, history
<1>1. TypeOK'
  BY BoundsAssumption, NoneAssumption
<1>2. RowAgrees'
  BY NoneAssumption DEF RowAgrees, SweepInv
<1>3. NothingOfTheDeleted'
  BY SweepsAssumption DEF NothingOfTheDeleted, Scope
<1>4. AttemptInv'
  BY BoundsAssumption DEF AttemptInv
<1>5. SweepInv'
  BY SweepsAssumption DEF SweepInv
<1>6. ClosedSweepsAreDone'
  BY SweepsAssumption DEF ClosedSweepsAreDone, Remaining, SweepInv
<1>7. (ClaimInv /\ StageInv /\ OneHead)'
  BY NoneAssumption, SweepsAssumption DEF ClaimInv, StageInv, OneHead, Scope
<1>. QED  BY <1>1, <1>2, <1>3, <1>4, <1>5, <1>6, <1>7 DEF IInv

LEMMA StartKeeps ==
    ASSUME IInv, NEW w \in Workers, NEW s \in Sweeps, Start(w, s)
    PROVE  IInv'
<1>. USE DEF IInv, TypeOK, Statuses, Open, Staged, Claims, Start, tables, row, stages, history
<1>1. TypeOK'
  BY BoundsAssumption, NoneAssumption
<1>2. (RowAgrees /\ ClaimInv /\ StageInv /\ OneHead /\ NothingOfTheDeleted /\ AttemptInv /\ SweepInv /\ ClosedSweepsAreDone)'
  BY BoundsAssumption, NoneAssumption, SweepsAssumption DEF RowAgrees, ClaimInv, StageInv, OneHead,
     Scope, NothingOfTheDeleted, AttemptInv, SweepInv, ClosedSweepsAreDone, Remaining
<1>. QED  BY <1>1, <1>2 DEF IInv

LEMMA LeaveKeeps ==
    ASSUME IInv, NEW w \in Workers, Leave(w)
    PROVE  IInv'
<1>. USE DEF IInv, TypeOK, Statuses, Open, Staged, Claims, Leave, tables, row, stages, history
<1>1. TypeOK'
  BY BoundsAssumption, NoneAssumption
<1>2. (RowAgrees /\ ClaimInv /\ StageInv /\ OneHead /\ NothingOfTheDeleted /\ AttemptInv /\ SweepInv /\ ClosedSweepsAreDone)'
  BY BoundsAssumption, NoneAssumption, SweepsAssumption DEF RowAgrees, ClaimInv, StageInv, OneHead,
     Scope, NothingOfTheDeleted, AttemptInv, SweepInv, ClosedSweepsAreDone, Remaining
<1>. QED  BY <1>1, <1>2 DEF IInv

LEMMA ClaimKeeps ==
    ASSUME IInv, NEW w \in Workers, NEW t \in Targets, Claim(w, t)
    PROVE  IInv'
<1>. DEFINE k == claims + 1
<1>a. k \in Claims /\ k # None
  BY NoneAssumption, BoundsAssumption DEF IInv, TypeOK, Claims, Claim
<1>b. of[k] = None /\ manifest[k] = "none" /\ k \notin published /\ \A v \in Workers : claim[v] # k
  BY <1>a DEF IInv, TypeOK, ClaimInv
<1>c. status[t] \in {"pending", "running"} /\ SweepOf[t] = run[w] /\ run[w] \in Sweeps /\ attempts[t] < MaxAttempts
  BY SweepsAssumption, BoundsAssumption DEF IInv, TypeOK, Claim, Claimable, Recovered, Spent
<1>d. /\ status' \in [Targets -> Statuses]
      /\ \A u \in Targets : /\ status'[u] = "running" <=> u = t
                            /\ status[u] \notin {"pending", "running"} => status'[u] = status[u]
                            /\ status'[u] = "none" => status[u] = "none"
  BY <1>c DEF IInv, TypeOK, Statuses, Open, Claim, Recovered
<1>e. /\ of' = [of EXCEPT ![k] = t] /\ of' \in [Claims -> Targets \cup {None}]
      /\ token' = [u \in Targets |-> IF u = t THEN k ELSE None]
      /\ holder' = k /\ lapsed' = FALSE
  BY <1>a DEF Claim, IInv, TypeOK

<1>1. TypeOK'
  <2>1. attempts' \in [Targets -> 0 .. MaxAttempts] /\ taken' \in [Targets -> Nat] /\ claims' \in 0 .. MaxClaims
    BY <1>c, BoundsAssumption DEF Claim, IInv, TypeOK
  <2>2. token' \in [Targets -> Claims \cup {None}] /\ holder' \in Claims \cup {None} /\ lapsed' \in BOOLEAN
    BY <1>a, <1>e
  <2>3. /\ pc' \in [Workers -> {"idle", "claimed", "generating", "validating", "aborting", "yielding", "failing"}]
        /\ claim' \in [Workers -> Claims \cup {None}]
    BY <1>a DEF Claim, IInv, TypeOK
  <2>. QED  BY <1>d, <1>e, <2>1, <2>2, <2>3 DEF Claim, IInv, TypeOK
<1>2. RowAgrees'
  <2>1. of'[k] = t /\ \A u \in Targets : token'[u] = IF u = t THEN k ELSE None
    BY <1>a, <1>e DEF IInv, TypeOK
  <2>. QED  BY <1>a, <1>d, <1>e, <2>1 DEF RowAgrees
<1>3. ClaimInv'
  BY <1>a, <1>b, <1>c, <1>d, <1>e, NoneAssumption DEF IInv, TypeOK, Statuses, Open, Staged, Claims,
     ClaimInv, Claim, Acquirable
<1>4. StageInv'
  BY <1>a, <1>b, <1>c, <1>d, <1>e DEF IInv, TypeOK, Statuses, Open, Staged, Claims, StageInv,
     ClaimInv, Claim, Acquirable
<1>5. OneHead'
  BY <1>a, <1>b, <1>c, <1>d, <1>e, SweepsAssumption DEF IInv, TypeOK, Statuses, Open, Staged,
     Claims, OneHead, Scope, ClaimInv, Claim, Acquirable
<1>6. NothingOfTheDeleted'
  <2>1. \A j \in Claims : of'[j] # None /\ ScopeOf[of'[j]] \in gone => manifest[j] = "none"
    BY <1>b, <1>e DEF IInv, TypeOK, NothingOfTheDeleted, Scope
  <2>2. \A u \in Targets : ScopeOf[u] \in gone => status'[u] \in {"none", "deleted"}
    BY <1>d DEF IInv, NothingOfTheDeleted
  <2>. QED  BY <2>1, <2>2 DEF NothingOfTheDeleted, Scope, Claim
<1>7. AttemptInv'
  BY <1>a, <1>b, <1>c, <1>d, <1>e, BoundsAssumption DEF IInv, TypeOK, Statuses, Open, Staged,
     Claims, AttemptInv, ClaimInv, Claim, Acquirable
<1>8. SweepInv'
  <2>. SUFFICES ASSUME NEW u \in Targets, sweep[SweepOf[u]] = "none" PROVE status'[u] = "none"
    BY DEF SweepInv, Claim
  <2>. QED  BY <1>d DEF IInv, SweepInv
<1>9. ClosedSweepsAreDone'
  BY <1>a, <1>b, <1>c, <1>d, <1>e, SweepsAssumption DEF IInv, TypeOK, Statuses, Open, Staged,
     Claims, ClosedSweepsAreDone, Remaining, ClaimInv, Claim, Acquirable
<1>. QED  BY <1>1, <1>2, <1>3, <1>4, <1>5, <1>6, <1>7, <1>8, <1>9 DEF IInv

LEMMA ClaimNothingKeeps ==
    ASSUME IInv, NEW w \in Workers, ClaimNothing(w)
    PROVE  IInv'
<1>. USE DEF IInv, TypeOK, Statuses, Open, Staged, Claims, ClaimNothing, Acquirable, Claimable,
   Recovered, Spent, Finished, stages, threads, history
<1>1. TypeOK'
  BY BoundsAssumption, NoneAssumption
<1>2. RowAgrees'
  BY NoneAssumption DEF RowAgrees
<1>3. NothingOfTheDeleted'
  BY SweepsAssumption DEF NothingOfTheDeleted, Scope
<1>4. AttemptInv'
  BY BoundsAssumption DEF AttemptInv
<1>5. SweepInv'
  BY SweepsAssumption DEF SweepInv
<1>6. ClosedSweepsAreDone'
  BY SweepsAssumption DEF ClosedSweepsAreDone, Remaining
<1>7. (ClaimInv /\ StageInv /\ OneHead)'
  BY NoneAssumption, SweepsAssumption DEF ClaimInv, StageInv, OneHead, Scope
<1>. QED  BY <1>1, <1>2, <1>3, <1>4, <1>5, <1>6, <1>7 DEF IInv

LEMMA ReuseKeeps ==
    ASSUME IInv, NEW w \in Workers, Reuse(w)
    PROVE  IInv'
<1>a. pc[w] # "idle" /\ Claimed(w)
  BY DEF Reuse
<1>b. Live(claim[w]) /\ Target(w) = of[claim[w]]
  BY <1>a, ClaimedIsLive DEF Target
<1>c. Completed(Target(w), "reused")
  BY <1>b, CompleteKeeps DEF Reuse, Live, Statuses, Open, stages
<1>1. TypeOK'
  BY <1>b, <1>c, BoundsAssumption, NoneAssumption DEF IInv, TypeOK, Statuses, Open, Staged, Claims,
     Completed, Live, Reuse, Done, Goto, stages, history
<1>2. RowAgrees' /\ SweepInv' /\ ClosedSweepsAreDone'
  BY <1>c DEF Completed
<1>3. ClaimInv'
  BY <1>b, <1>c, NoneAssumption DEF IInv, TypeOK, Statuses, Open, Staged, Claims, ClaimInv,
     Completed, Live, Reuse, Done, Goto, stages, history
<1>4. StageInv'
  BY <1>b, <1>c DEF IInv, TypeOK, Statuses, Open, Staged, Claims, StageInv, Completed, Live, Reuse,
     Done, Goto, stages, history
<1>5. NothingOfTheDeleted'
  BY <1>b, <1>c, SweepsAssumption DEF IInv, TypeOK, Statuses, Open, Staged, Claims,
     NothingOfTheDeleted, Scope, Completed, Live, Reuse, Done, Goto, stages, history
<1>6. AttemptInv'
  BY <1>b, <1>c, BoundsAssumption DEF IInv, TypeOK, Statuses, Open, Staged, Claims, AttemptInv,
     Completed, Live, Reuse, Done, Goto, stages, history
<1>7. (OneHead)'
  BY <1>b, <1>c, SweepsAssumption DEF IInv, TypeOK, Statuses, Open, Staged, Claims, OneHead, Scope,
     Reuse, Done, Goto, stages, history
<1>. QED  BY <1>1, <1>2, <1>3, <1>4, <1>5, <1>6, <1>7 DEF IInv

LEMMA DeferKeeps ==
    ASSUME IInv, NEW w \in Workers, Defer(w)
    PROVE  IInv'
<1>a. pc[w] # "idle" /\ Claimed(w)
  BY DEF Defer, Deferred
<1>b. Live(claim[w]) /\ Target(w) = of[claim[w]]
  BY <1>a, ClaimedIsLive DEF Target
<1>c. Completed(Target(w), "pending")
  BY <1>b, CompleteKeeps DEF Defer, Deferred, Live, Statuses, Open, stages
<1>1. TypeOK'
  <2>1. /\ attempts' \in [Targets -> 0 .. MaxAttempts] /\ deferrals' \in [Targets -> 0 .. MaxDeferrals]
        /\ delayed' \in SUBSET Targets
    BY <1>b, BoundsAssumption DEF Live, IInv, TypeOK, Defer, Deferred
  <2>2. status' \in [Targets -> Statuses] /\ token' \in [Targets -> Claims \cup {None}]
    BY <1>b, <1>c DEF Completed, Live, IInv, TypeOK, Statuses, Open
  <2>3. pc' \in [Workers -> {"idle", "claimed", "generating", "validating", "aborting", "yielding", "failing"}]
        /\ claim' \in [Workers -> Claims \cup {None}]
    BY DEF IInv, TypeOK, Defer, Deferred, Done, Goto
  <2>. QED  BY <1>c, <2>1, <2>2, <2>3 DEF Completed, IInv, TypeOK, Defer, Deferred, stages
<1>2. RowAgrees' /\ SweepInv' /\ ClosedSweepsAreDone'
  BY <1>c DEF Completed
<1>3. ClaimInv'
  BY <1>b, <1>c, NoneAssumption DEF IInv, TypeOK, Statuses, Open, Staged, Claims, ClaimInv,
     Completed, Live, Defer, Deferred, Done, Goto, stages
<1>4. StageInv'
  BY <1>b, <1>c DEF IInv, TypeOK, Statuses, Open, Staged, Claims, StageInv, Completed, Live, Defer,
     Deferred, Done, Goto, stages
<1>5. NothingOfTheDeleted'
  BY <1>b, <1>c, SweepsAssumption DEF IInv, TypeOK, Statuses, Open, Staged, Claims,
     NothingOfTheDeleted, Scope, Completed, Live, Defer, Deferred, Done, Goto, stages
<1>6. AttemptInv'
  BY <1>b, <1>c, BoundsAssumption DEF IInv, TypeOK, Statuses, Open, Staged, Claims, AttemptInv,
     Completed, Live, Defer, Deferred, Done, Goto, stages
<1>7. (OneHead)'
  BY <1>b, <1>c, SweepsAssumption DEF IInv, TypeOK, Statuses, Open, Staged, Claims, OneHead, Scope,
     Defer, Deferred, Done, Goto, stages
<1>. QED  BY <1>1, <1>2, <1>3, <1>4, <1>5, <1>6, <1>7 DEF IInv

LEMMA RaiseKeeps ==
    ASSUME IInv, NEW w \in Workers, Raise(w)
    PROVE  IInv'
<1>. USE DEF IInv, TypeOK, Statuses, Open, Staged, Claims, Raise, Goto, tables, row, stages, history
<1>1. TypeOK'
  BY BoundsAssumption, NoneAssumption
<1>2. ClaimInv'
  BY NoneAssumption DEF ClaimInv
<1>3. StageInv'
  BY DEF StageInv
<1>4. (RowAgrees /\ OneHead /\ NothingOfTheDeleted /\ AttemptInv /\ SweepInv /\ ClosedSweepsAreDone)'
  BY BoundsAssumption, NoneAssumption, SweepsAssumption DEF RowAgrees, OneHead, Scope,
     NothingOfTheDeleted, AttemptInv, SweepInv, ClosedSweepsAreDone, Remaining
<1>. QED  BY <1>1, <1>2, <1>3, <1>4 DEF IInv

LEMMA BeginKeeps ==
    ASSUME IInv, NEW w \in Workers, Begin(w)
    PROVE  IInv'
<1>a. pc[w] # "idle" /\ Claimed(w)
  BY DEF Begin
<1>b. Live(claim[w])
  BY <1>a, ClaimedIsLive
<1>1. TypeOK'
  BY <1>a, <1>b, BoundsAssumption, NoneAssumption DEF IInv, TypeOK, Statuses, Open, Staged, Claims,
     Begin, Goto, tables, row, history
<1>2. ClaimInv'
  BY <1>a, <1>b, NoneAssumption DEF IInv, TypeOK, Statuses, Open, Staged, Claims, ClaimInv, Live,
     Begin, Goto, tables, row, history
<1>3. StageInv'
  BY <1>a, <1>b DEF IInv, TypeOK, Statuses, Open, Staged, Claims, StageInv, Live, Begin, Goto,
     tables, row, history
<1>4. OneHead'
  BY <1>a, <1>b, SweepsAssumption DEF IInv, TypeOK, Statuses, Open, Staged, Claims, OneHead, Scope,
     Live, Begin, Goto, tables, row, history
<1>5. NothingOfTheDeleted'
  BY <1>a, <1>b, SweepsAssumption DEF IInv, TypeOK, Statuses, Open, Staged, Claims,
     NothingOfTheDeleted, Scope, Live, Begin, Goto, tables, row, history
<1>6. (RowAgrees /\ AttemptInv /\ SweepInv /\ ClosedSweepsAreDone)'
  BY <1>a, <1>b, BoundsAssumption, NoneAssumption, SweepsAssumption DEF IInv, TypeOK, Statuses,
     Open, Staged, Claims, RowAgrees, AttemptInv, SweepInv, ClosedSweepsAreDone, Remaining, Begin,
     Goto, tables, row, history
<1>. QED  BY <1>1, <1>2, <1>3, <1>4, <1>5, <1>6 DEF IInv

LEMMA AppendKeeps ==
    ASSUME IInv, NEW w \in Workers, Append(w)
    PROVE  IInv'
<1>. USE DEF IInv, TypeOK, Statuses, Open, Staged, Claims, Append, Renew, tables, stages, threads,
   history
<1>1. TypeOK'
  BY BoundsAssumption, NoneAssumption
<1>2. RowAgrees'
  BY NoneAssumption DEF RowAgrees
<1>3. (ClaimInv /\ StageInv /\ OneHead /\ NothingOfTheDeleted /\ AttemptInv /\ SweepInv /\ ClosedSweepsAreDone)'
  BY BoundsAssumption, NoneAssumption, SweepsAssumption DEF ClaimInv, StageInv, OneHead, Scope,
     NothingOfTheDeleted, AttemptInv, SweepInv, ClosedSweepsAreDone, Remaining
<1>. QED  BY <1>1, <1>2, <1>3 DEF IInv

LEMMA FreezeKeeps ==
    ASSUME IInv, NEW w \in Workers, Freeze(w)
    PROVE  IInv'
<1>. USE DEF IInv, TypeOK, Statuses, Open, Staged, Claims, Freeze, OnStage, Claimed, Renew, Goto,
   tables, history
<1>1. TypeOK'
  BY BoundsAssumption, NoneAssumption
<1>2. RowAgrees'
  BY NoneAssumption DEF RowAgrees
<1>3. ClaimInv'
  BY NoneAssumption DEF ClaimInv
<1>4. StageInv'
  BY DEF StageInv
<1>5. OneHead'
  BY SweepsAssumption DEF OneHead, Scope
<1>6. NothingOfTheDeleted'
  BY SweepsAssumption DEF NothingOfTheDeleted, Scope
<1>7. (AttemptInv /\ SweepInv /\ ClosedSweepsAreDone)'
  BY BoundsAssumption, SweepsAssumption DEF AttemptInv, SweepInv, ClosedSweepsAreDone, Remaining
<1>. QED  BY <1>1, <1>2, <1>3, <1>4, <1>5, <1>6, <1>7 DEF IInv

LEMMA SealKeeps ==
    ASSUME IInv, NEW w \in Workers, Seal(w)
    PROVE  IInv'
<1>a. pc[w] # "idle" /\ Claimed(w) /\ manifest[claim[w]] = "validating"
  BY DEF Seal, OnStage
<1>b. Live(claim[w])
  BY <1>a, ClaimedIsLive
<1>c. Completed(of[claim[w]], "ready")
  BY <1>b, CompleteKeeps DEF Seal, Live, Statuses, Open
<1>d. \A j \in Claims : manifest'[j] = IF j = claim[w] THEN "sealed"
                                     ELSE IF manifest[j] = "sealed" /\ Scope(j) = Scope(claim[w]) THEN "retired"
                                     ELSE manifest[j]
  BY <1>b DEF Seal, Replaced, Heads, IInv, TypeOK
<1>1. TypeOK'
  BY <1>a, <1>b, <1>c, <1>d, BoundsAssumption, NoneAssumption DEF IInv, TypeOK, Statuses, Open,
     Staged, Claims, Completed, Live, Seal, OnStage, Replaced, Heads, Done, Goto
<1>2. RowAgrees' /\ SweepInv' /\ ClosedSweepsAreDone'
  BY <1>c DEF Completed
<1>3. ClaimInv'
  BY <1>a, <1>b, <1>c, <1>d, NoneAssumption DEF IInv, TypeOK, Statuses, Open, Staged, Claims,
     ClaimInv, Completed, Live, Seal, OnStage, Replaced, Heads, Done, Goto
<1>4. StageInv'
  <2>1. \A v \in Workers : v # w /\ claim[v] # None => claim[v] # claim[w]
    BY <1>b DEF IInv, ClaimInv, Live
  <2>2. \A v \in Workers : pc'[v] \in {"claimed", "generating", "validating"} => v # w /\ pc[v] = pc'[v] /\ claim'[v] = claim[v] /\ claim[v] # None
    BY DEF Seal, Done, Goto, IInv, TypeOK, ClaimInv
  <2>3. published' = published \cup {claim[w]}
    BY DEF Seal
  <2>. QED  BY <1>a, <1>d, <2>1, <2>2, <2>3 DEF IInv, TypeOK, StageInv, Staged
<1>5. OneHead'
  <2>. SUFFICES ASSUME NEW i \in Claims, NEW j \in Claims, manifest'[i] = "sealed", manifest'[j] = "sealed",
                       ScopeOf[of[i]] = ScopeOf[of[j]]
                PROVE  i = j
    BY DEF OneHead, Scope, Seal
  <2>. QED  BY <1>d DEF IInv, OneHead, Scope
<1>6. NothingOfTheDeleted'
  BY <1>a, <1>b, <1>c, <1>d, SweepsAssumption DEF IInv, TypeOK, Statuses, Open, Staged, Claims,
     NothingOfTheDeleted, Scope, Completed, Live, Seal, OnStage, Replaced, Heads, Done, Goto
<1>7. AttemptInv'
  BY <1>a, <1>b, <1>c, <1>d, BoundsAssumption DEF IInv, TypeOK, Statuses, Open, Staged, Claims,
     AttemptInv, Completed, Live, Seal, OnStage, Replaced, Heads, Done, Goto
<1>. QED  BY <1>1, <1>2, <1>3, <1>4, <1>5, <1>6, <1>7 DEF IInv

LEMMA GiveUpKeeps ==
    ASSUME IInv, NEW w \in Workers, NEW reason \in {"busy", "changed", "failed"}, GiveUp(w, reason)
    PROVE  IInv'
<1>. USE DEF IInv, TypeOK, Statuses, Open, Staged, Claims, GiveUp, Goto, tables, row, stages,
   history
<1>1. TypeOK'
  BY BoundsAssumption, NoneAssumption
<1>2. ClaimInv'
  BY NoneAssumption DEF ClaimInv
<1>3. StageInv'
  BY DEF StageInv
<1>4. (RowAgrees /\ OneHead /\ NothingOfTheDeleted /\ AttemptInv /\ SweepInv /\ ClosedSweepsAreDone)'
  BY BoundsAssumption, NoneAssumption, SweepsAssumption DEF RowAgrees, OneHead, Scope,
     NothingOfTheDeleted, AttemptInv, SweepInv, ClosedSweepsAreDone, Remaining
<1>. QED  BY <1>1, <1>2, <1>3, <1>4 DEF IInv

LEMMA AbortKeeps ==
    ASSUME IInv, NEW w \in Workers, Abort(w)
    PROVE  IInv'
<1>a. \/ pc' = [pc EXCEPT ![w] = "idle"] /\ claim' = [claim EXCEPT ![w] = None]
      \/ claim' = claim /\ \E at \in {"yielding", "failing"} : pc' = [pc EXCEPT ![w] = at]
  BY DEF Abort, AfterAbort, Done, Goto
<1>b. pc[w] = "aborting"
  BY DEF Abort
<1>1. TypeOK'
  <2>1. /\ pc' \in [Workers -> {"idle", "claimed", "generating", "validating", "aborting", "yielding", "failing"}]
        /\ claim' \in [Workers -> Claims \cup {None}]
    BY <1>a DEF IInv, TypeOK
  <2>2. why' \in [Workers -> {"none", "busy", "changed", "failed"}] /\ manifest' \in [Claims -> {"none", "sealed", "retired"} \cup Staged]
    BY DEF IInv, TypeOK, Abort, OnStage, Renew, AfterAbort, tables, history
  <2>. QED  BY <2>1, <2>2 DEF IInv, TypeOK, Abort, OnStage, Renew, AfterAbort, tables, history
<1>2. RowAgrees'
  BY NoneAssumption DEF IInv, TypeOK, Statuses, Open, Staged, Claims, RowAgrees, Abort, OnStage,
     Renew, AfterAbort, Done, Goto, tables, history
<1>3. ClaimInv'
  <2>1. CASE pc' = [pc EXCEPT ![w] = "idle"] /\ claim' = [claim EXCEPT ![w] = None]
    BY <2>1, NoneAssumption DEF IInv, TypeOK, Claims, ClaimInv, Abort, OnStage, Renew, AfterAbort,
       tables, history
  <2>2. CASE claim' = claim /\ \E at \in {"yielding", "failing"} : pc' = [pc EXCEPT ![w] = at]
    BY <1>b, <2>2, NoneAssumption DEF IInv, TypeOK, Claims, ClaimInv, Abort, OnStage, Renew,
       AfterAbort, tables, history
  <2>. QED  BY <1>a, <2>1, <2>2
<1>4. StageInv'
  <2>1. CASE pc' = [pc EXCEPT ![w] = "idle"] /\ claim' = [claim EXCEPT ![w] = None]
    BY <2>1, NoneAssumption DEF IInv, TypeOK, Staged, Claims, ClaimInv, StageInv, Abort, OnStage,
       Renew, AfterAbort, tables, history
  <2>2. CASE claim' = claim /\ \E at \in {"yielding", "failing"} : pc' = [pc EXCEPT ![w] = at]
    BY <1>b, <2>2, NoneAssumption DEF IInv, TypeOK, Staged, Claims, ClaimInv, StageInv, Abort,
       OnStage, Renew, AfterAbort, tables, history
  <2>. QED  BY <1>a, <2>1, <2>2
<1>5. OneHead'
  BY SweepsAssumption DEF IInv, TypeOK, Statuses, Open, Staged, Claims, OneHead, Scope, Abort,
     OnStage, Renew, AfterAbort, Done, Goto, tables, history
<1>6. NothingOfTheDeleted'
  BY SweepsAssumption DEF IInv, TypeOK, Statuses, Open, Staged, Claims, NothingOfTheDeleted, Scope,
     Abort, OnStage, Renew, AfterAbort, Done, Goto, tables, history
<1>7. (AttemptInv /\ SweepInv /\ ClosedSweepsAreDone)'
  BY BoundsAssumption, SweepsAssumption DEF IInv, TypeOK, Statuses, Open, Staged, Claims,
     AttemptInv, SweepInv, ClosedSweepsAreDone, Remaining, Abort, OnStage, Renew, AfterAbort, Done,
     Goto, tables, history
<1>. QED  BY <1>1, <1>2, <1>3, <1>4, <1>5, <1>6, <1>7 DEF IInv

LEMMA AbortFailsKeeps ==
    ASSUME IInv, NEW w \in Workers, AbortFails(w)
    PROVE  IInv'
<1>a. \/ pc' = [pc EXCEPT ![w] = "idle"] /\ claim' = [claim EXCEPT ![w] = None]
      \/ claim' = claim /\ \E at \in {"yielding", "failing"} : pc' = [pc EXCEPT ![w] = at]
  BY DEF AbortFails, AfterAbort, Done, Goto
<1>b. pc[w] = "aborting"
  BY DEF AbortFails
<1>1. TypeOK'
  <2>1. /\ pc' \in [Workers -> {"idle", "claimed", "generating", "validating", "aborting", "yielding", "failing"}]
        /\ claim' \in [Workers -> Claims \cup {None}]
    BY <1>a DEF IInv, TypeOK
  <2>2. why' \in [Workers -> {"none", "busy", "changed", "failed"}] /\ manifest' \in [Claims -> {"none", "sealed", "retired"} \cup Staged]
    BY DEF IInv, TypeOK, AbortFails, AfterAbort, row, tables, history
  <2>. QED  BY <2>1, <2>2 DEF IInv, TypeOK, AbortFails, AfterAbort, row, tables, history
<1>2. ClaimInv'
  <2>1. CASE pc' = [pc EXCEPT ![w] = "idle"] /\ claim' = [claim EXCEPT ![w] = None]
    BY <2>1, NoneAssumption DEF IInv, TypeOK, Claims, ClaimInv, AbortFails, AfterAbort, row,
       tables, history
  <2>2. CASE claim' = claim /\ \E at \in {"yielding", "failing"} : pc' = [pc EXCEPT ![w] = at]
    BY <1>b, <2>2, NoneAssumption DEF IInv, TypeOK, Claims, ClaimInv, AbortFails, AfterAbort, row,
       tables, history
  <2>. QED  BY <1>a, <2>1, <2>2
<1>3. StageInv'
  <2>1. CASE pc' = [pc EXCEPT ![w] = "idle"] /\ claim' = [claim EXCEPT ![w] = None]
    BY <2>1, NoneAssumption DEF IInv, TypeOK, Staged, Claims, ClaimInv, StageInv, AbortFails,
       AfterAbort, row, tables, history
  <2>2. CASE claim' = claim /\ \E at \in {"yielding", "failing"} : pc' = [pc EXCEPT ![w] = at]
    BY <1>b, <2>2, NoneAssumption DEF IInv, TypeOK, Staged, Claims, ClaimInv, StageInv, AbortFails,
       AfterAbort, row, tables, history
  <2>. QED  BY <1>a, <2>1, <2>2
<1>4. (RowAgrees /\ OneHead /\ NothingOfTheDeleted /\ AttemptInv /\ SweepInv /\ ClosedSweepsAreDone)'
  BY BoundsAssumption, NoneAssumption, SweepsAssumption DEF IInv, TypeOK, Statuses, Open, Staged,
     Claims, RowAgrees, OneHead, Scope, NothingOfTheDeleted, AttemptInv, SweepInv,
     ClosedSweepsAreDone, Remaining, AbortFails, AfterAbort, Done, Goto, row, tables, history
<1>. QED  BY <1>1, <1>2, <1>3, <1>4 DEF IInv

LEMMA YieldKeeps ==
    ASSUME IInv, NEW w \in Workers, Yield(w)
    PROVE  IInv'
<1>a. pc[w] # "idle" /\ Claimed(w)
  BY DEF Yield, Deferred
<1>b. Live(claim[w]) /\ Target(w) = of[claim[w]]
  BY <1>a, ClaimedIsLive DEF Target
<1>c. Completed(Target(w), "pending")
  BY <1>b, CompleteKeeps DEF Yield, Deferred, Live, Statuses, Open, stages
<1>1. TypeOK'
  <2>1. /\ attempts' \in [Targets -> 0 .. MaxAttempts] /\ deferrals' \in [Targets -> 0 .. MaxDeferrals]
        /\ delayed' \in SUBSET Targets
    BY <1>b, BoundsAssumption DEF Live, IInv, TypeOK, Yield, Deferred
  <2>2. status' \in [Targets -> Statuses] /\ token' \in [Targets -> Claims \cup {None}]
    BY <1>b, <1>c DEF Completed, Live, IInv, TypeOK, Statuses, Open
  <2>3. pc' \in [Workers -> {"idle", "claimed", "generating", "validating", "aborting", "yielding", "failing"}]
        /\ claim' \in [Workers -> Claims \cup {None}]
    BY DEF IInv, TypeOK, Yield, Deferred, Done, Goto
  <2>. QED  BY <1>c, <2>1, <2>2, <2>3 DEF Completed, IInv, TypeOK, Yield, Deferred, stages
<1>2. RowAgrees' /\ SweepInv' /\ ClosedSweepsAreDone'
  BY <1>c DEF Completed
<1>3. ClaimInv'
  BY <1>b, <1>c, NoneAssumption DEF IInv, TypeOK, Statuses, Open, Staged, Claims, ClaimInv,
     Completed, Live, Yield, Deferred, Done, Goto, stages
<1>4. StageInv'
  BY <1>b, <1>c DEF IInv, TypeOK, Statuses, Open, Staged, Claims, StageInv, Completed, Live, Yield,
     Deferred, Done, Goto, stages
<1>5. NothingOfTheDeleted'
  BY <1>b, <1>c, SweepsAssumption DEF IInv, TypeOK, Statuses, Open, Staged, Claims,
     NothingOfTheDeleted, Scope, Completed, Live, Yield, Deferred, Done, Goto, stages
<1>6. AttemptInv'
  BY <1>b, <1>c, BoundsAssumption DEF IInv, TypeOK, Statuses, Open, Staged, Claims, AttemptInv,
     Completed, Live, Yield, Deferred, Done, Goto, stages
<1>7. (OneHead)'
  BY <1>b, <1>c, SweepsAssumption DEF IInv, TypeOK, Statuses, Open, Staged, Claims, OneHead, Scope,
     Yield, Deferred, Done, Goto, stages
<1>. QED  BY <1>1, <1>2, <1>3, <1>4, <1>5, <1>6, <1>7 DEF IInv

LEMMA YieldFailsKeeps ==
    ASSUME IInv, NEW w \in Workers, YieldFails(w)
    PROVE  IInv'
<1>a. pc[w] = "yielding"
  BY DEF YieldFails
<1>1. TypeOK'
  BY BoundsAssumption, NoneAssumption DEF IInv, TypeOK, Statuses, Open, Staged, Claims, YieldFails,
     Done, Goto, tables, row, stages, history
<1>2. ClaimInv'
  <2>1. CASE Done(w)
    BY <2>1, NoneAssumption DEF IInv, TypeOK, Claims, ClaimInv, YieldFails, Done, Goto, stages,
       history
  <2>2. CASE Goto(w, "failing") /\ UNCHANGED claim
    BY <1>a, <2>2, NoneAssumption DEF IInv, TypeOK, Claims, ClaimInv, YieldFails, Goto, stages,
       history
  <2>. QED  BY <2>1, <2>2 DEF YieldFails
<1>3. StageInv'
  BY DEF IInv, TypeOK, Statuses, Open, Staged, Claims, StageInv, YieldFails, Done, Goto, tables,
     row, stages, history
<1>4. (RowAgrees /\ OneHead /\ NothingOfTheDeleted /\ AttemptInv /\ SweepInv /\ ClosedSweepsAreDone)'
  BY BoundsAssumption, NoneAssumption, SweepsAssumption DEF IInv, TypeOK, Statuses, Open, Staged,
     Claims, RowAgrees, OneHead, Scope, NothingOfTheDeleted, AttemptInv, SweepInv,
     ClosedSweepsAreDone, Remaining, YieldFails, Done, Goto, tables, row, stages, history
<1>. QED  BY <1>1, <1>2, <1>3, <1>4 DEF IInv

LEMMA FailKeeps ==
    ASSUME IInv, NEW w \in Workers, Fail(w)
    PROVE  IInv'
<1>a. pc[w] # "idle" /\ Claimed(w)
  BY DEF Fail
<1>b. Live(claim[w]) /\ Target(w) = of[claim[w]]
  BY <1>a, ClaimedIsLive DEF Target
<1>c. PICK r \in {"pending", "error", "stale"} : Completed(Target(w), r)
  BY <1>b, CompleteKeeps DEF Fail, Live, Statuses, Open, stages
<1>1. TypeOK'
  <2>1. delayed' \in SUBSET Targets
    BY <1>b, BoundsAssumption DEF Live, IInv, TypeOK, Fail
  <2>2. status' \in [Targets -> Statuses] /\ token' \in [Targets -> Claims \cup {None}]
    BY <1>b, <1>c DEF Completed, Live, IInv, TypeOK, Statuses, Open
  <2>3. pc' \in [Workers -> {"idle", "claimed", "generating", "validating", "aborting", "yielding", "failing"}]
        /\ claim' \in [Workers -> Claims \cup {None}]
    BY DEF IInv, TypeOK, Fail, Done, Goto
  <2>. QED  BY <1>c, <2>1, <2>2, <2>3 DEF Completed, IInv, TypeOK, Fail, stages, history
<1>2. RowAgrees' /\ SweepInv' /\ ClosedSweepsAreDone'
  BY <1>c DEF Completed
<1>3. ClaimInv'
  BY <1>b, <1>c, NoneAssumption DEF IInv, TypeOK, Statuses, Open, Staged, Claims, ClaimInv,
     Completed, Live, Fail, Done, Goto, stages, history
<1>4. StageInv'
  BY <1>b, <1>c DEF IInv, TypeOK, Statuses, Open, Staged, Claims, StageInv, Completed, Live, Fail,
     Done, Goto, stages, history
<1>5. NothingOfTheDeleted'
  BY <1>b, <1>c, SweepsAssumption DEF IInv, TypeOK, Statuses, Open, Staged, Claims,
     NothingOfTheDeleted, Scope, Completed, Live, Fail, Done, Goto, stages, history
<1>6. AttemptInv'
  BY <1>b, <1>c, BoundsAssumption DEF IInv, TypeOK, Statuses, Open, Staged, Claims, AttemptInv,
     Completed, Live, Fail, Done, Goto, stages, history
<1>7. (OneHead)'
  BY <1>b, <1>c, SweepsAssumption DEF IInv, TypeOK, Statuses, Open, Staged, Claims, OneHead, Scope,
     Fail, Done, Goto, stages, history
<1>. QED  BY <1>1, <1>2, <1>3, <1>4, <1>5, <1>6, <1>7 DEF IInv

LEMMA DieKeeps ==
    ASSUME IInv, NEW w \in Workers, Die(w)
    PROVE  IInv'
<1>. USE DEF IInv, TypeOK, Statuses, Open, Staged, Claims, Die, Done, Goto, tables, row, stages,
   history
<1>1. TypeOK'
  BY BoundsAssumption, NoneAssumption
<1>2. ClaimInv'
  BY NoneAssumption DEF ClaimInv
<1>3. StageInv'
  BY DEF StageInv
<1>4. (RowAgrees /\ OneHead /\ NothingOfTheDeleted /\ AttemptInv /\ SweepInv /\ ClosedSweepsAreDone)'
  BY BoundsAssumption, NoneAssumption, SweepsAssumption DEF RowAgrees, OneHead, Scope,
     NothingOfTheDeleted, AttemptInv, SweepInv, ClosedSweepsAreDone, Remaining
<1>. QED  BY <1>1, <1>2, <1>3, <1>4 DEF IInv

LEMMA CrashKeeps ==
    ASSUME IInv, NEW w \in Workers, Crash(w)
    PROVE  IInv'
<1>. USE DEF IInv, TypeOK, Statuses, Open, Staged, Claims, Crash, Done, Goto, tables, row, stages
<1>1. TypeOK'
  BY BoundsAssumption, NoneAssumption
<1>2. ClaimInv'
  BY NoneAssumption DEF ClaimInv
<1>3. StageInv'
  BY DEF StageInv
<1>4. (RowAgrees /\ OneHead /\ NothingOfTheDeleted /\ AttemptInv /\ SweepInv /\ ClosedSweepsAreDone)'
  BY BoundsAssumption, NoneAssumption, SweepsAssumption DEF RowAgrees, OneHead, Scope,
     NothingOfTheDeleted, AttemptInv, SweepInv, ClosedSweepsAreDone, Remaining
<1>. QED  BY <1>1, <1>2, <1>3, <1>4 DEF IInv

LEMMA LapseKeeps ==
    ASSUME IInv, Lapse
    PROVE  IInv'
<1>. USE DEF IInv, TypeOK, Statuses, Open, Staged, Claims, Lapse, tables, stages, threads, history
<1>1. TypeOK'
  BY BoundsAssumption, NoneAssumption
<1>2. RowAgrees'
  BY NoneAssumption DEF RowAgrees
<1>3. (ClaimInv /\ StageInv /\ OneHead /\ NothingOfTheDeleted /\ AttemptInv /\ SweepInv /\ ClosedSweepsAreDone)'
  BY BoundsAssumption, NoneAssumption, SweepsAssumption DEF ClaimInv, StageInv, OneHead, Scope,
     NothingOfTheDeleted, AttemptInv, SweepInv, ClosedSweepsAreDone, Remaining
<1>. QED  BY <1>1, <1>2, <1>3 DEF IInv

LEMMA AvailableKeeps ==
    ASSUME IInv, NEW t \in Targets, Available(t)
    PROVE  IInv'
<1>. USE DEF IInv, TypeOK, Statuses, Open, Staged, Claims, Available, row, stages, threads, history
<1>1. TypeOK'
  BY BoundsAssumption, NoneAssumption
<1>2. (RowAgrees /\ ClaimInv /\ StageInv /\ OneHead /\ NothingOfTheDeleted /\ AttemptInv /\ SweepInv /\ ClosedSweepsAreDone)'
  BY BoundsAssumption, NoneAssumption, SweepsAssumption DEF RowAgrees, ClaimInv, StageInv, OneHead,
     Scope, NothingOfTheDeleted, AttemptInv, SweepInv, ClosedSweepsAreDone, Remaining
<1>. QED  BY <1>1, <1>2 DEF IInv

LEMMA StopKeeps ==
    ASSUME IInv, NEW s \in Sweeps, Stop(s)
    PROVE  IInv'
<1>1. TypeOK'
  BY BoundsAssumption, NoneAssumption DEF IInv, TypeOK, Statuses, Open, Staged, Claims, Stop,
     LeftOf, Revoked, stages, threads, history, row
<1>2. RowAgrees'
  <2>1. \A u \in Targets : status'[u] = "running" <=> status[u] = "running" /\ u \notin LeftOf(s)
    BY DEF Stop, LeftOf
  <2>. QED  BY <2>1, RevokedAgrees DEF Stop, LeftOf, stages
<1>3. NothingOfTheDeleted'
  BY SweepsAssumption DEF IInv, TypeOK, Statuses, Open, Staged, Claims, NothingOfTheDeleted, Scope,
     Stop, LeftOf, Revoked, stages, threads, history, row
<1>4. AttemptInv'
  BY BoundsAssumption DEF IInv, TypeOK, Statuses, Open, Staged, Claims, AttemptInv, Stop, LeftOf,
     Revoked, stages, threads, history, row
<1>5. SweepInv'
  BY SweepsAssumption DEF IInv, TypeOK, Statuses, Open, Staged, Claims, SweepInv, Stop, LeftOf,
     Revoked, stages, threads, history, row
<1>6. ClosedSweepsAreDone'
  BY SweepsAssumption DEF IInv, TypeOK, Statuses, Open, Staged, Claims, ClosedSweepsAreDone,
     Remaining, Stop, LeftOf, Revoked, stages, threads, history, row
<1>7. (ClaimInv /\ StageInv /\ OneHead)'
  BY NoneAssumption, SweepsAssumption DEF IInv, TypeOK, Statuses, Open, Staged, Claims, ClaimInv,
     StageInv, OneHead, Scope, Stop, LeftOf, Revoked, stages, threads, history, row
<1>. QED  BY <1>1, <1>2, <1>3, <1>4, <1>5, <1>6, <1>7 DEF IInv

LEMMA DeleteKeeps ==
    ASSUME IInv, NEW x \in Scopes, Delete(x)
    PROVE  IInv'
<1>1. TypeOK'
  BY BoundsAssumption, NoneAssumption DEF IInv, TypeOK, Statuses, Open, Staged, Claims, Delete,
     Revoked, Private, Finished, threads, history, row
<1>2. RowAgrees'
  <2>. DEFINE theirs == {u \in Targets : ScopeOf[u] = x /\ status[u] # "none"}
  <2>1. \A u \in Targets : status'[u] = "running" <=> status[u] = "running" /\ u \notin theirs
    BY DEF Delete
  <2>2. Revoked(theirs) /\ of' = of
    BY DEF Delete
  <2>. QED  BY <2>1, <2>2, RevokedAgrees
<1>3. ClaimInv'
  BY NoneAssumption DEF IInv, TypeOK, Statuses, Open, Staged, Claims, ClaimInv, Delete, Revoked,
     Private, Finished, threads, history, row
<1>4. StageInv'
  BY DEF IInv, TypeOK, Statuses, Open, Staged, Claims, StageInv, Delete, Revoked, Private,
     Finished, threads, history, row
<1>5. OneHead'
  BY SweepsAssumption DEF IInv, TypeOK, Statuses, Open, Staged, Claims, OneHead, Scope, Delete,
     Revoked, Private, Finished, threads, history, row
<1>6. NothingOfTheDeleted'
  BY SweepsAssumption DEF IInv, TypeOK, Statuses, Open, Staged, Claims, NothingOfTheDeleted, Scope,
     Delete, Revoked, Private, Finished, threads, history, row
<1>7. AttemptInv'
  BY BoundsAssumption DEF IInv, TypeOK, Statuses, Open, Staged, Claims, AttemptInv, Delete,
     Revoked, Private, Finished, threads, history, row
<1>8. SweepInv'
  BY SweepsAssumption DEF IInv, TypeOK, Statuses, Open, Staged, Claims, SweepInv, Delete, Revoked,
     Private, Finished, threads, history, row
<1>9. ClosedSweepsAreDone'
  BY SweepsAssumption DEF IInv, TypeOK, Statuses, Open, Staged, Claims, ClosedSweepsAreDone,
     Remaining, Delete, Revoked, Private, Finished, threads, history, row
<1>. QED  BY <1>1, <1>2, <1>3, <1>4, <1>5, <1>6, <1>7, <1>8, <1>9 DEF IInv

LEMMA SelectKeeps ==
    ASSUME IInv, Select
    PROVE  IInv'
<1>. USE DEF IInv, TypeOK, Statuses, Open, Staged, Claims, Select, Orphans, tables, row, stages,
   threads, history
<1>1. TypeOK'
  BY BoundsAssumption, NoneAssumption
<1>2. (RowAgrees /\ ClaimInv /\ StageInv /\ OneHead /\ NothingOfTheDeleted /\ AttemptInv /\ SweepInv /\ ClosedSweepsAreDone)'
  BY BoundsAssumption, NoneAssumption, SweepsAssumption DEF RowAgrees, ClaimInv, StageInv, OneHead,
     Scope, NothingOfTheDeleted, AttemptInv, SweepInv, ClosedSweepsAreDone, Remaining
<1>. QED  BY <1>1, <1>2 DEF IInv

LEMMA DropKeeps ==
    ASSUME IInv, Drop
    PROVE  IInv'
<1>. USE DEF IInv, TypeOK, Statuses, Open, Staged, Claims, Drop, tables, row, threads, history
<1>1. TypeOK'
  BY BoundsAssumption, NoneAssumption
<1>2. ClaimInv'
  BY NoneAssumption DEF ClaimInv
<1>3. StageInv'
  BY DEF StageInv
<1>4. OneHead'
  BY SweepsAssumption DEF OneHead, Scope
<1>5. NothingOfTheDeleted'
  BY SweepsAssumption DEF NothingOfTheDeleted, Scope
<1>6. (RowAgrees /\ AttemptInv /\ SweepInv /\ ClosedSweepsAreDone)'
  BY BoundsAssumption, NoneAssumption, SweepsAssumption DEF RowAgrees, AttemptInv, SweepInv,
     ClosedSweepsAreDone, Remaining
<1>. QED  BY <1>1, <1>2, <1>3, <1>4, <1>5, <1>6 DEF IInv

LEMMA RetireKeeps ==
    ASSUME IInv, NEW k \in Claims, Retire(k)
    PROVE  IInv'
<1>. USE DEF IInv, TypeOK, Statuses, Open, Staged, Claims, Retire, tables, row, threads, history
<1>1. TypeOK'
  BY BoundsAssumption, NoneAssumption
<1>2. ClaimInv'
  BY NoneAssumption DEF ClaimInv
<1>3. StageInv'
  BY DEF StageInv
<1>4. OneHead'
  BY SweepsAssumption DEF OneHead, Scope
<1>5. NothingOfTheDeleted'
  BY SweepsAssumption DEF NothingOfTheDeleted, Scope
<1>6. (RowAgrees /\ AttemptInv /\ SweepInv /\ ClosedSweepsAreDone)'
  BY BoundsAssumption, NoneAssumption, SweepsAssumption DEF RowAgrees, AttemptInv, SweepInv,
     ClosedSweepsAreDone, Remaining
<1>. QED  BY <1>1, <1>2, <1>3, <1>4, <1>5, <1>6 DEF IInv

-----------------------------------------------------------------------------
(* The theorems *)

\* The invariant holds of the empty tables.
LEMMA InitIInv == Init => IInv
<1>. SUFFICES ASSUME Init PROVE IInv
  OBVIOUS
<1>1. TypeOK
  <2>1. 0 \in 0 .. MaxAttempts /\ 0 \in 0 .. MaxClaims /\ 0 \in 0 .. MaxDeferrals /\ 0 \in 0 .. MaxCrashes
    BY BoundsAssumption
  <2>. QED  BY <2>1 DEF Init, TypeOK, Statuses, Open, Staged
<1>2. RowAgrees /\ SweepInv /\ ClosedSweepsAreDone /\ AttemptInv /\ StageInv /\ OneHead /\ NothingOfTheDeleted
  BY SweepsAssumption DEF Init, RowAgrees, SweepInv, ClosedSweepsAreDone, AttemptInv, StageInv,
     OneHead,
     NothingOfTheDeleted, Staged, Claims
<1>3. ClaimInv
  BY DEF Init, ClaimInv, Claims
<1>. QED  BY <1>1, <1>2, <1>3 DEF IInv

\* Every step keeps it.
LEMMA NextIInv == IInv /\ [Next]_vars => IInv'
<1>. SUFFICES ASSUME IInv, [Next]_vars PROVE IInv'
  OBVIOUS
<1>1. ASSUME NEW w \in Workers, Preparing(w) PROVE IInv'
  BY <1>1, ReuseKeeps, DeferKeeps, RaiseKeeps, BeginKeeps, FreezeKeeps, SealKeeps, AbortKeeps,
     AbortFailsKeeps, YieldKeeps, YieldFailsKeeps, FailKeeps, DieKeeps, GiveUpKeeps DEF Preparing
<1>2. ASSUME NEW w \in Workers, Claiming(w) \/ Append(w) \/ Leave(w) \/ Crash(w) PROVE IInv'
  BY <1>2, ClaimKeeps, ClaimNothingKeeps, AppendKeeps, LeaveKeeps, CrashKeeps DEF Claiming
<1>3. ASSUME NEW s \in Sweeps, Create(s) \/ Stop(s) \/ \E w \in Workers : Start(w, s) PROVE IInv'
  BY <1>3, CreateKeeps, StopKeeps, StartKeeps
<1>4. ASSUME \/ \E t \in Targets : Available(t)
             \/ \E x \in Scopes : Delete(x)
             \/ \E k \in Claims : Retire(k)
             \/ Lapse \/ Select \/ Drop
      PROVE  IInv'
  BY <1>4, AvailableKeeps, DeleteKeeps, RetireKeeps, LapseKeeps, SelectKeeps, DropKeeps
<1>5. CASE UNCHANGED vars
  BY <1>5 DEF vars, tables, row, stages, threads, history, IInv, TypeOK, RowAgrees, ClaimInv,
     StageInv, OneHead, Scope,
     NothingOfTheDeleted, AttemptInv, SweepInv, ClosedSweepsAreDone, Remaining
<1>. QED  BY <1>1, <1>2, <1>3, <1>4, <1>5 DEF Next

\* The strengthening behind every safety property holds in every reachable
\* state, whatever processes die, lease lapses and transactions fail.
THEOREM Inductive == Spec => []IInv
<1>. QED  BY InitIInv, NextIInv, PTL DEF Spec

\* The worker row is held by the claim of the one running target and by
\* nothing else (claim_target, _complete, stop_sweep, delete_for_users).
THEOREM RowsAgree == Spec => []RowAgrees
<1>1. IInv => RowAgrees
  BY DEF IInv
<1>. QED  BY <1>1, Inductive, PTL

\* At most one inventory is served for a scope (seal_inventory).
THEOREM OneHeadServed == Spec => []OneHead
<1>1. IInv => OneHead
  BY DEF IInv
<1>. QED  BY <1>1, Inductive, PTL

\* Nothing of a deleted user remains or comes back, although a process may be
\* generating for it when delete_for_users runs.
THEOREM DeletedStaysDeleted == Spec => []NothingOfTheDeleted
<1>1. IInv => NothingOfTheDeleted
  BY DEF IInv
<1>. QED  BY <1>1, Inductive, PTL

\* No target is claimed more often than max_attempts, not counting the claims
\* it yielded (claim_target, defer_target_for_interactive).
THEOREM BudgetKept == Spec => []Budget
<1>1. IInv => Budget
  BY BoundsAssumption DEF IInv, Budget, AttemptInv, TypeOK
<1>. QED  BY <1>1, Inductive, PTL

\* A sweep reported complete or stopped has nothing left to prepare.
THEOREM ClosedIsDone == Spec => []ClosedSweepsAreDone
<1>1. IInv => ClosedSweepsAreDone
  BY DEF IInv
<1>. QED  BY <1>1, Inductive, PTL

-----------------------------------------------------------------------------
(* PreparedSweep implements PreparedResults *)

SameHeads == \A x \in Scopes : Heads(x)' = Heads(x)

\* A step that serves the same inventories and closes targets without
\* publishing is a step of Close, with or without a result.
LEMMA ClosingStep ==
    ASSUME IInv, IInv', SameHeads, published' = published,
           \A t \in Targets : IF status[t] \in Open THEN status'[t] # "ready" ELSE status'[t] = status[t]
    PROVE  Results!Close
<1>1. HeadOf' = HeadOf
  BY DEF SameHeads, HeadOf
<1>. DEFINE S == {t \in Targets : status[t] \in Open /\ status'[t] \notin Open}
          r == [t \in S |-> status'[t]]
<1>2. S \in SUBSET {t \in Targets : ResultOf[t] = "open"}
  BY DEF ResultOf
<1>3. r \in [S -> Results!Results \ {"ready"}]
  BY DEF Results!Results, IInv, TypeOK, Statuses, Open
<1>4. ResultOf' = [t \in Targets |-> IF t \in S THEN r[t] ELSE ResultOf[t]]
  BY DEF ResultOf, IInv, TypeOK, Statuses, Open
<1>. HIDE DEF S, r
<1>. QED  BY <1>1, <1>2, <1>3, <1>4 DEF Results!Close

\* The manifests that are sealed, and their scopes, decide the heads.
LEMMA HeadsKept ==
    ASSUME \A k \in Claims : /\ manifest'[k] = "sealed" <=> manifest[k] = "sealed"
                             /\ manifest[k] = "sealed" => of'[k] = of[k]
    PROVE  SameHeads
  BY DEF SameHeads, Heads, Scope

\* A step that only takes inventories away is a step of Withdraw.
LEMMA WithdrawingStep ==
    ASSUME IInv, of' = of, status' = status, published' = published,
           \A k \in Claims : manifest'[k] = "sealed" => manifest[k] = "sealed"
    PROVE  \E X \in SUBSET Scopes : Results!Withdraw(X)
<1>. DEFINE X == {x \in Scopes : Heads(x)' = {}}
<1>1. ASSUME NEW x \in Scopes, x \notin X PROVE Heads(x)' = Heads(x)
  <2>1. Heads(x)' \subseteq Heads(x)
    BY DEF Heads, Scope
  <2>2. \A k, j \in Heads(x) : k = j
    BY DEF IInv, OneHead, Heads
  <2>. QED  BY <1>1, <2>1, <2>2
<1>2. HeadOf' = [x \in Scopes |-> IF x \in X THEN None ELSE HeadOf[x]]
  BY <1>1 DEF HeadOf
<1>3. ResultOf' = ResultOf
  BY DEF ResultOf
<1>4. X \in SUBSET Scopes
  OBVIOUS
<1>. HIDE DEF X
<1>. QED  BY <1>2, <1>3, <1>4 DEF Results!Withdraw

\* A seal publishes the inventory of its claim for the target of its claim.
LEMMA PublishingStep ==
    ASSUME IInv, IInv', NEW w \in Workers, Seal(w)
    PROVE  Results!Publish(of[claim[w]], claim[w])
<1>. DEFINE k == claim[w]
            t == of[k]
<1>1. Live(k) /\ manifest[k] = "validating"
  BY ClaimedIsLive DEF Seal, OnStage
<1>2. t \in Targets /\ k \in Claims /\ ScopeOf[t] \in Scopes
  BY <1>1, SweepsAssumption DEF Live
<1>3. /\ of' = of /\ status' = [status EXCEPT ![t] = "ready"] /\ published' = published \cup {k}
      /\ \A j \in Claims : manifest'[j] = IF j = k THEN "sealed"
                                          ELSE IF manifest[j] = "sealed" /\ Scope(j) = Scope(k) THEN "retired"
                                          ELSE manifest[j]
  BY <1>2 DEF Seal, Complete, Replaced, Heads, IInv, TypeOK
<1>y. PICK y \in Scopes : y = ScopeOf[t]
  BY <1>2
<1>4. Heads(y)' = {k}
  <2>. SUFFICES ASSUME NEW j \in Claims PROVE manifest'[j] = "sealed" /\ ScopeOf[of[j]] = y <=> j = k
    BY <1>2, <1>3 DEF Heads, Scope
  <2>. QED  BY <1>2, <1>3, <1>y DEF Scope
<1>5. \A x \in Scopes \ {y} : Heads(x)' = Heads(x)
  <2>. SUFFICES ASSUME NEW x \in Scopes, x # y, NEW j \in Claims
                PROVE  manifest'[j] = "sealed" /\ ScopeOf[of[j]] = x <=> manifest[j] = "sealed" /\ ScopeOf[of[j]] = x
    BY <1>3 DEF Heads, Scope
  <2>. QED  BY <1>1, <1>3, <1>y DEF Scope
<1>6. HeadOf' = [HeadOf EXCEPT ![ScopeOf[t]] = k]
  <2>1. HeadOf' = [x \in Scopes |-> IF Heads(x)' = {} THEN None ELSE OneOf(Heads(x)')]
    BY DEF HeadOf
  <2>2. OneOf({k}) = k
    BY DEF OneOf
  <2>. QED  BY <1>y, <1>4, <1>5, <2>1, <2>2 DEF HeadOf
<1>7. ResultOf[t] = "open" /\ ResultOf' = [ResultOf EXCEPT ![t] = "ready"]
  BY <1>1, <1>2, <1>3 DEF ResultOf, Open, Live, IInv, TypeOK
<1>8. k \notin published
  BY <1>1, <1>2 DEF IInv, StageInv, Staged
<1>. QED  BY <1>3, <1>6, <1>7, <1>8 DEF Results!Publish

\* The deletion of a user forgets its scope.
LEMMA ForgettingStep ==
    ASSUME IInv, IInv', NEW x \in Scopes, Delete(x)
    PROVE  Results!Forget(x)
<1>1. /\ of' = of /\ published' = published
      /\ \A k \in Claims : manifest'[k] = IF k \in Private(x) THEN "none" ELSE manifest[k]
      /\ \A t \in Targets : status'[t] = IF ScopeOf[t] = x /\ status[t] # "none" THEN "deleted" ELSE status[t]
  BY DEF Delete, stages, history
<1>2. Heads(x)' = {} /\ \A y \in Scopes \ {x} : Heads(y)' = Heads(y)
  <2>1. \A k \in Claims : manifest'[k] = "sealed" <=> manifest[k] = "sealed" /\ Scope(k) # x
    BY <1>1, NoneAssumption DEF Private, IInv, ClaimInv, TypeOK, Claims
  <2>. QED  BY <1>1, <2>1 DEF Heads, Scope
<1>3. HeadOf' = [HeadOf EXCEPT ![x] = None]
  BY <1>2 DEF HeadOf
<1>4. /\ ResultOf' \in [Targets -> Results!Results \cup {"open"}]
      /\ \A t \in Targets : ResultOf'[t] # ResultOf[t] => ScopeOf[t] = x /\ ResultOf'[t] = "deleted"
  BY <1>1 DEF ResultOf, Results!Results, IInv, TypeOK, Statuses, Open
<1>. QED  BY <1>1, <1>3, <1>4 DEF Results!Forget

\* Every step of the sweeps is a step of the abstract specification or stutters.
LEMMA StepRefines ==
    ASSUME IInv, IInv', [Next]_vars
    PROVE  [Results!Next]_<<ResultOf, HeadOf, published>>
<1>. DEFINE Closing == /\ published' = published
                       /\ \A t \in Targets : IF status[t] \in Open THEN status'[t] # "ready" ELSE status'[t] = status[t]
                       /\ \A k \in Claims : /\ manifest'[k] = "sealed" <=> manifest[k] = "sealed"
                                            /\ manifest[k] = "sealed" => of'[k] = of[k]
<1>1. ASSUME Closing PROVE Results!Next
  BY <1>1, HeadsKept, ClosingStep DEF Results!Next
<1>2. ASSUME NEW w \in Workers, Preparing(w), ~Seal(w) PROVE Closing
  <2>1. CASE Raise(w) \/ AbortFails(w) \/ YieldFails(w) \/ Die(w) \/ \E reason \in {"busy", "changed", "failed"} : GiveUp(w, reason)
    BY <2>1 DEF Raise, AbortFails, AfterAbort, YieldFails, Die, GiveUp, tables, stages, history,
       IInv, TypeOK, Open, Statuses
  <2>2. CASE Begin(w) \/ Freeze(w) \/ Abort(w)
    <3>1. claim[w] \in Claims /\ manifest[claim[w]] # "sealed"
      <4>1. CASE Begin(w)
        BY <4>1 DEF Begin, IInv, TypeOK, ClaimInv, StageInv
      <4>2. CASE Freeze(w) \/ Abort(w)
        BY <4>2 DEF Freeze, Abort, OnStage, Staged, IInv, TypeOK, ClaimInv
      <4>. QED  BY <2>2, <4>1, <4>2
    <3>. QED  BY <2>2, <3>1 DEF Begin, Freeze, Abort, AfterAbort, tables, history, IInv, TypeOK,
       Open, Statuses
  <2>3. CASE Reuse(w) \/ Defer(w) \/ Yield(w) \/ Fail(w)
    <3>1. Live(claim[w]) /\ Target(w) = of[claim[w]]
      BY <2>3, ClaimedIsLive DEF Reuse, Defer, Yield, Deferred, Fail, Target
    <3>2. \E r \in {"reused", "pending", "error", "stale"} : status' = [status EXCEPT ![Target(w)] = r]
      BY <2>3 DEF Reuse, Defer, Yield, Deferred, Fail, Complete
    <3>3. published' = published /\ manifest' = manifest /\ of' = of
      BY <2>3 DEF Reuse, Defer, Yield, Deferred, Fail, stages, history
    <3>. QED  BY <3>1, <3>2, <3>3 DEF Live, Open, IInv, TypeOK
  <2>. QED  BY <1>2, <2>1, <2>2, <2>3 DEF Preparing
<1>3. ASSUME NEW w \in Workers, Claiming(w) \/ Append(w) \/ Leave(w) \/ Crash(w) PROVE Closing
  <2>1. CASE ClaimNothing(w)
    BY <2>1 DEF ClaimNothing, Recovered, stages, history, IInv, TypeOK, Open, Statuses
  <2>2. ASSUME NEW t \in Targets, Claim(w, t) PROVE Closing
    <3>1. status[t] \in {"pending", "running"} /\ status' = [Recovered EXCEPT ![t] = "running"]
      BY <2>2 DEF Claim, Claimable, Recovered
    <3>2. \A u \in Targets : IF status[u] \in Open THEN status'[u] # "ready" ELSE status'[u] = status[u]
      BY <3>1 DEF Recovered, Open, IInv, TypeOK, Statuses
    <3>3. manifest[claims + 1] # "sealed" \/ claims + 1 \notin Claims
      BY DEF IInv, TypeOK, ClaimInv
    <3>. QED  BY <2>2, <3>2, <3>3 DEF Claim, IInv, TypeOK
  <2>3. CASE Append(w) \/ Leave(w) \/ Crash(w)
    BY <2>3 DEF Append, Leave, Crash, tables, stages, history, IInv, TypeOK, Open, Statuses
  <2>. QED  BY <1>3, <2>1, <2>2, <2>3 DEF Claiming
<1>4. ASSUME NEW s \in Sweeps, Create(s) \/ Stop(s) \/ \E w \in Workers : Start(w, s) PROVE Closing
  <2>1. CASE Create(s)
    BY <2>1, SweepsAssumption DEF Create, stages, history, IInv, TypeOK, SweepInv, Open, Statuses
  <2>2. CASE Stop(s)
    BY <2>2 DEF Stop, LeftOf, stages, history, IInv, TypeOK, Open, Statuses
  <2>3. CASE \E w \in Workers : Start(w, s)
    BY <2>3 DEF Start, tables, stages, history, IInv, TypeOK, Open, Statuses
  <2>. QED  BY <1>4, <2>1, <2>2, <2>3
<1>5. ASSUME (\E t \in Targets : Available(t)) \/ Lapse \/ Select PROVE Closing
  BY <1>5 DEF Available, Lapse, Select, tables, stages, history, IInv, TypeOK, Open, Statuses
<1>6. ASSUME (\E k \in Claims : Retire(k)) \/ Drop PROVE Results!Next
  <2>1. /\ of' = of /\ status' = status /\ published' = published
        /\ \A k \in Claims : manifest'[k] = "sealed" => manifest[k] = "sealed"
    BY <1>6 DEF Retire, Drop, tables, history, IInv, TypeOK
  <2>. QED  BY <2>1, WithdrawingStep DEF Results!Next
<1>7. ASSUME NEW w \in Workers, Seal(w) PROVE Results!Next
  <2>1. of[claim[w]] \in Targets /\ claim[w] \in Claims
    BY <1>7, ClaimedIsLive DEF Seal, OnStage, Live
  <2>. QED  BY <1>7, <2>1, PublishingStep DEF Results!Next
<1>8. ASSUME NEW x \in Scopes, Delete(x) PROVE Results!Next
  BY <1>8, ForgettingStep DEF Results!Next
<1>9. CASE UNCHANGED vars
  <2>1. published' = published /\ status' = status /\ manifest' = manifest /\ of' = of
    BY <1>9 DEF vars, tables, stages, history
  <2>. QED  BY <2>1 DEF ResultOf, HeadOf, Heads, Scope
<1>. HIDE DEF Closing
<1>. QED  BY <1>1, <1>2, <1>3, <1>4, <1>5, <1>6, <1>7, <1>8, <1>9 DEF Next

\* The leases, stages, retries, stops and deletions implement PreparedResults:
\* one result per target for good, published in the same step as the new head
\* of its scope, and no inventory ever served twice, although the processes
\* that work for it may be dead, late or superseded.
THEOREM Refinement == Spec => Refines
<1>1. Init => Results!Init
  <2>. SUFFICES ASSUME Init PROVE Results!Init
    OBVIOUS
  <2>1. \A x \in Scopes : Heads(x) = {}
    BY DEF Init, Heads
  <2>. QED  BY <2>1 DEF Init, Results!Init, ResultOf, HeadOf, Open
<1>2. IInv /\ IInv' /\ [Next]_vars => [Results!Next]_<<ResultOf, HeadOf, published>>
  BY StepRefines
<1>. QED  BY <1>1, <1>2, Inductive, PTL DEF Spec, Refines, Results!Spec
=============================================================================
