---------------------------- MODULE OverhaulSend ----------------------------
(***************************************************************************)
(* The send side of a team overhaul: backend/overhaul_api.py with the      *)
(* compare-and-swap store (overhaul_store.py) and the attempt state        *)
(* machine (overhaul_service.py), for one overhaul of one seller.          *)
(*                                                                         *)
(*   - a send request claims the seller's outgoing assets, stores one      *)
(*     attempt per selected offer, and calls the provider offer by offer;  *)
(*   - a refresh sweeps what a crashed batch left behind and reconciles    *)
(*     the attempts with the rosters read from the provider;               *)
(*   - the user reports the end of an offer by hand.                       *)
(*                                                                         *)
(* Requests run on the threads of one process.  One step is one database   *)
(* transaction, one read, or one provider call; a restart stops every      *)
(* thread and empties the in-process prepare tokens.                       *)
(***************************************************************************)
EXTENDS Integers

CONSTANTS
    Assets,        \* players and picks of the league
    Picks,         \* the picks among them
    Packages,      \* packages of the overhaul's roadmaps
    Offers,        \* offers of those packages
    PackageOf,     \* the package of an offer
    Give, Receive, \* what an offer gives and receives
    Selections,    \* the sets of offers the user may prepare
    Roster,        \* the seller's assets at first
    Sends,         \* send requests; each is the batch it may create
    Refreshers,    \* threads that serve /refresh
    Reporters,     \* threads that serve /attempts/../status
    Tokens,        \* prepare tokens
    Keys,          \* idempotency keys
    None,          \* Python's None
    Reportable,    \* ends the user may report
    ReadsFail,     \* TRUE: a live read of rosters or picks may fail
    MaxRestarts    \* bound: process restarts

Threads == Sends \cup Refreshers \cup Reporters

ASSUME OffersAssumption ==
    /\ PackageOf \in [Offers -> Packages]
    /\ Give \in [Offers -> SUBSET Assets]
    /\ Receive \in [Offers -> SUBSET Assets]
    /\ \A o \in Offers : Give[o] # {}
ASSUME PackagesAssumption ==  \* a package is an exact give set
    \A o, q \in Offers : PackageOf[o] = PackageOf[q] => Give[o] = Give[q]
ASSUME ReceiveAssumption ==  \* what the seller gives away does not come back
    \A o, q \in Offers : Receive[o] \cap Give[q] = {}
ASSUME SelectionsAssumption ==  \* a roadmap's packages are give-disjoint
    /\ Selections \subseteq SUBSET Offers
    /\ \A S \in Selections : S # {} /\ \A o, q \in S :
          PackageOf[o] # PackageOf[q] => Give[o] \cap Give[q] = {}
ASSUME ThreadsAssumption ==
    /\ Sends \cap Refreshers = {} /\ Sends \cap Reporters = {}
    /\ Refreshers \cap Reporters = {}
ASSUME BoundsAssumption ==
    /\ Roster \subseteq Assets /\ Picks \subseteq Assets /\ MaxRestarts \in Nat
    /\ Reportable \subseteq {"declined", "withdrawn", "expired"}
    /\ ReadsFail \in BOOLEAN
ASSUME NoneAssumption ==
    None \notin Tokens \cup Keys \cup Packages \cup Offers \cup [package : Packages, batch : Sends]

VARIABLES
    \* the database: attempts per batch and offer ("none": no row), active
    \* reservations, offers gone stale, the stored roster, keys of batches
    state, reserved, unavailable, snapshot, key,
    \* attempts whose row is older than LIVE_STUCK_AFTER_S
    aged,
    \* memory of the process: live prepare tokens, and what each one covers
    prepares, prepared,
    \* threads: program counter, the package a thread is freeing, and
    pc, package,
    \*   of a send: its token, stored roster, offers to send, current offer, answer
    token, roster, selected, offer, answer,
    \*   of a refresh: roster, whether it is live, phase, work left, rivals left
    mine, fresh, phase, todo, rivals,
    \*   of a report: the transition it asks for
    report,
    \* the provider: the seller's roster, each offer there, and the attempts
    \* whose offer it took while the answer to the call was a failure
    owned, remote, misreported,
    restarts

rows      == <<state, key, aged>>
stored    == <<reserved, unavailable, snapshot>>
memory    == <<prepares, prepared>>
sender    == <<token, roster, selected, offer, answer>>
refresher == <<mine, fresh, phase, todo, rivals>>
provider  == <<owned, remote, misreported>>
vars == <<rows, stored, memory, pc, package, sender, refresher, report, provider, restarts>>

------------------------------------------------------------------------------
\* The attempt state machine.

Live     == {"queued", "sending", "proposed", "outcome_unknown"}
Settled  == {"accepted", "declined", "expired", "withdrawn", "invalidated", "resolved_elsewhere"}
Terminal == Settled \cup {"send_failed", "stale"}
Attempts == Sends \X Offers

Allowed ==
    [queued          |-> {"sending", "invalidated", "stale"},
     sending         |-> {"proposed", "send_failed", "outcome_unknown"},
     proposed        |-> Settled,
     outcome_unknown |-> Settled \cup {"proposed"}]

CanTransition(from, to) == from \in DOMAIN Allowed /\ to \in Allowed[from]

StateOf(a)  == state[a[1]][a[2]]
RemoteOf(a) == remote[a[1]][a[2]]
Transition == [attempt : Attempts, from : Live, to : Terminal \cup Live]

\* transition_attempt: a compare-and-swap on the row's state.
Swaps(x) == CanTransition(x.from, x.to) /\ StateOf(x.attempt) = x.from
CAS(x) ==
    /\ Swaps(x)
    /\ state' = [state EXCEPT ![x.attempt[1]][x.attempt[2]] = x.to]
    /\ aged' = aged \ {x.attempt}
    /\ UNCHANGED key

LiveIn(p)     == {a \in Attempts : PackageOf[a[2]] = p /\ StateOf(a) \in Live}
Completed(p)  == \E a \in Attempts : PackageOf[a[2]] = p /\ StateOf(a) = "accepted"
Freed(p)      == [x \in Assets |-> IF reserved[x] # None /\ reserved[x].package = p
                                   THEN None ELSE reserved[x]]
BatchesOf(k)  == {s \in Sends : key[s] = k /\ \E o \in Offers : state[s][o] # "none"}
OffersIn(s)   == {o \in Offers : state[s][o] # "none"}
Outgoing(S)   == UNION {Give[o] : o \in S}

------------------------------------------------------------------------------
Init ==
    /\ state = [s \in Sends |-> [o \in Offers |-> "none"]]
    /\ key = [s \in Sends |-> None]
    /\ aged = {}
    /\ reserved = [x \in Assets |-> None]
    /\ unavailable = {}
    /\ snapshot = Roster
    /\ prepares = {}
    /\ prepared = [t \in Tokens |-> {}]
    /\ pc = [th \in Threads |-> "idle"]
    /\ package = [th \in Threads |-> None]
    /\ token = [s \in Sends |-> None]
    /\ roster = [s \in Sends |-> {}]
    /\ selected = [s \in Sends |-> {}]
    /\ offer = [s \in Sends |-> None]
    /\ answer = [s \in Sends |-> "none"]
    /\ mine = [r \in Refreshers |-> {}]
    /\ fresh = [r \in Refreshers |-> FALSE]
    /\ phase = [r \in Refreshers |-> "sweep"]
    /\ todo = [r \in Refreshers |-> {}]
    /\ rivals = [r \in Refreshers |-> {}]
    /\ report = [u \in Reporters |-> None]
    /\ owned = Roster
    /\ remote = [s \in Sends |-> [o \in Offers |-> "none"]]
    /\ misreported = {}
    /\ restarts = 0

Resting == {"idle", "done", "dead"}
Goto(th, step) == pc' = [pc EXCEPT ![th] = step]

------------------------------------------------------------------------------
\* A read of the seller's assets: players from the rosters; picks from the
\* provider too, or from the pick table, which lags behind it.
Players(R)     == R \ Picks
PickReads(now) == IF now THEN {owned \cap Picks} ELSE {owned \cap Picks, snapshot \cap Picks}
MayFail(now)   == now \/ ReadsFail

\* Prepare: the token binds the selection; blockers only show in the receipt.
\* It insists on live rosters.

Prepare(t, S) ==
    /\ prepared[t] = {}
    /\ prepared' = [prepared EXCEPT ![t] = S]
    /\ prepares' = prepares \cup {t}
    /\ \E picks \in PickReads(~ ReadsFail) : snapshot' = Players(owned) \cup picks
    /\ UNCHANGED <<rows, reserved, unavailable, pc, package, sender, refresher, report, provider, restarts>>

Expire(t) ==
    /\ t \in prepares
    /\ prepares' = prepares \ {t}
    /\ UNCHANGED <<rows, stored, prepared, pc, package, sender, refresher, report, provider, restarts>>

------------------------------------------------------------------------------
\* Send.

Answer(s, reply) ==
    /\ answer' = [answer EXCEPT ![s] = reply]
    /\ Goto(s, "done")

\* Load the overhaul and look the key up: a known key returns its batch.
Lookup(s, t, k) ==
    /\ pc[s] = "idle"
    /\ prepared[t] # {}
    /\ IF BatchesOf(k) # {}
       THEN /\ Answer(s, IF UNION {OffersIn(b) : b \in BatchesOf(k)} = prepared[t]
                         THEN "existing" ELSE "refused")
            /\ UNCHANGED <<token, roster, selected, key>>
       ELSE /\ Goto(s, "token")
            /\ token' = [token EXCEPT ![s] = t]
            /\ key' = [key EXCEPT ![s] = k]
            /\ roster' = [roster EXCEPT ![s] = snapshot]
            /\ UNCHANGED <<selected, answer>>
    /\ UNCHANGED <<state, aged, stored, memory, package, offer, refresher, report, provider, restarts>>

CheckToken(s) ==
    /\ pc[s] = "token"
    /\ IF token[s] \in prepares
       THEN /\ selected' = [selected EXCEPT ![s] = prepared[token[s]]]
            /\ Goto(s, "attempts")
            /\ UNCHANGED answer
       ELSE Answer(s, "refused") /\ UNCHANGED selected
    /\ UNCHANGED <<rows, stored, memory, package, token, roster, offer, refresher, report, provider, restarts>>

\* The blockers of the receipt that come from the offers, the attempts and
\* the roster loaded with the overhaul.
Sendable(s) == \A o \in selected[s] :
    /\ o \notin unavailable
    /\ LiveIn(PackageOf[o]) = {}
    /\ ~ Completed(PackageOf[o])
    /\ Give[o] \subseteq roster[s]

ReadAttempts(s) ==
    /\ pc[s] = "attempts"
    /\ IF Sendable(s) THEN Goto(s, "reservations") /\ UNCHANGED answer
                      ELSE Answer(s, "refused")
    /\ roster' = [roster EXCEPT ![s] = {}]  \* not read again
    /\ UNCHANGED <<rows, stored, memory, package, token, selected, offer, refresher, report, provider, restarts>>

\* Faulty: only reservations of the same package count.
UnreservedInPackage(s) == \A o \in selected[s] : \A x \in Give[o] :
    reserved[x] = None \/ reserved[x].package # PackageOf[o]

Unreserved(s) == \A x \in Outgoing(selected[s]) : reserved[x] = None

ReadReservations(s) ==
    /\ pc[s] = "reservations"
    /\ IF Unreserved(s) THEN Goto(s, "claim") /\ UNCHANGED answer
                        ELSE Answer(s, "refused")
    /\ UNCHANGED <<rows, stored, memory, package, token, roster, selected, offer, refresher, report, provider, restarts>>

PackageFor(S, x) == PackageOf[CHOOSE o \in S : x \in Give[o]]

\* Faulty: the claim trusts the receipt.
ClaimUnchecked(s) ==
    /\ pc[s] = "claim"
    /\ reserved' = [x \in Assets |->
            IF x \in Outgoing(selected[s])
            THEN [package |-> PackageFor(selected[s], x), batch |-> s] ELSE reserved[x]]
    /\ Goto(s, "insert")
    /\ UNCHANGED <<rows, unavailable, snapshot, memory, package, sender, refresher, report, provider, restarts>>

\* claim_reservations: all the assets or none, in one transaction.
Claim(s) ==
    /\ pc[s] = "claim"
    /\ IF Unreserved(s)
       THEN /\ reserved' = [x \in Assets |->
                    IF x \in Outgoing(selected[s])
                    THEN [package |-> PackageFor(selected[s], x), batch |-> s]
                    ELSE reserved[x]]
            /\ Goto(s, "insert")
            /\ UNCHANGED answer
       ELSE Answer(s, "refused") /\ UNCHANGED reserved
    /\ UNCHANGED <<rows, unavailable, snapshot, memory, package, token, roster, selected, offer, refresher, report, provider, restarts>>

Insert(s) ==
    /\ pc[s] = "insert"
    /\ state' = [state EXCEPT ![s] = [o \in Offers |-> IF o \in selected[s] THEN "queued" ELSE "none"]]
    /\ Goto(s, "pop")
    /\ UNCHANGED <<key, aged, stored, memory, package, sender, refresher, report, provider, restarts>>

Pop(s) ==
    /\ pc[s] = "pop"
    /\ prepares' = prepares \ {token[s]}
    /\ Goto(s, "dispatch")
    /\ UNCHANGED <<rows, stored, prepared, package, sender, refresher, report, provider, restarts>>

\* Mark the next attempt as sending; one that has moved is skipped.
Dispatch(s, o) ==
    /\ pc[s] = "dispatch"
    /\ o \in selected[s]
    /\ selected' = [selected EXCEPT ![s] = @ \ {o}]
    /\ LET x == [attempt |-> <<s, o>>, from |-> "queued", to |-> "sending"] IN
       IF Swaps(x)
       THEN CAS(x) /\ offer' = [offer EXCEPT ![s] = o] /\ Goto(s, "call")
       ELSE UNCHANGED <<rows, offer, pc>>
    /\ UNCHANGED <<stored, memory, package, token, roster, answer, refresher, report, provider, restarts>>

\* Faulty: a transport exception counts as a failure.
FailedOutcomes ==
    [refused |-> "send_failed", taken |-> "proposed", lost |-> "send_failed",
     late |-> "send_failed", failure |-> "send_failed"]
\* What a provider call did, and what the core makes of it: the core refuses
\* before it calls, the provider refuses, or it takes the offer; a transport
\* exception, or an answer that ESPN's or MFL's adapter calls unknown, leaves
\* it open whether it did.  Sleeper's adapter reports a time-out, a 5xx and an
\* answer that is not JSON as failures, also when the offer was taken.
Outcomes ==
    [refused |-> "send_failed", taken |-> "proposed", lost |-> "outcome_unknown",
     late |-> "outcome_unknown", failure |-> "send_failed"]
Possible(s, o) ==
    {"refused", "lost"}
        \cup (IF Give[o] \subseteq owned THEN {"taken", "late", "failure"} ELSE {})

Call(s, result) ==
    /\ pc[s] = "call"
    /\ result \in Possible(s, offer[s])
    /\ answer' = [answer EXCEPT ![s] = Outcomes[result]]
    /\ remote' = IF result \in {"taken", "late", "failure"}
                 THEN [remote EXCEPT ![s][offer[s]] = "pending"] ELSE remote
    /\ misreported' = IF result = "failure" THEN misreported \cup {<<s, offer[s]>>} ELSE misreported
    /\ Goto(s, "record")
    /\ UNCHANGED <<rows, stored, memory, package, token, roster, selected, offer, refresher, report, owned, restarts>>

Record(s) ==
    /\ pc[s] = "record"
    /\ LET x == [attempt |-> <<s, offer[s]>>, from |-> "sending", to |-> answer[s]] IN
       IF Swaps(x) THEN CAS(x) ELSE UNCHANGED rows
    /\ IF answer[s] = "send_failed"
       THEN Goto(s, "check") /\ package' = [package EXCEPT ![s] = PackageOf[offer[s]]]
       ELSE Goto(s, "dispatch") /\ UNCHANGED package
    /\ answer' = [answer EXCEPT ![s] = "none"]
    /\ offer' = [offer EXCEPT ![s] = None]
    /\ UNCHANGED <<stored, memory, token, roster, selected, refresher, report, provider, restarts>>

Finish(s) ==
    /\ pc[s] = "dispatch"
    /\ selected[s] = {}
    /\ Answer(s, "batch")
    /\ UNCHANGED <<rows, stored, memory, package, token, roster, selected, offer, refresher, report, provider, restarts>>

------------------------------------------------------------------------------
\* release_if_idle: the read of the live attempts and the release are apart.

After(th) == CASE th \in Sends      -> "dispatch"
               [] th \in Refreshers -> phase[th]
               [] OTHER             -> "idle"

CheckIdle(th) ==
    /\ pc[th] = "check"
    /\ Goto(th, IF LiveIn(package[th]) = {} THEN "release" ELSE After(th))
    /\ UNCHANGED <<rows, stored, memory, package, sender, refresher, report, provider, restarts>>

Release(th) ==
    /\ pc[th] = "release"
    /\ reserved' = Freed(package[th])
    /\ package' = [package EXCEPT ![th] = None]
    /\ Goto(th, After(th))
    /\ UNCHANGED <<rows, unavailable, snapshot, memory, sender, refresher, report, provider, restarts>>

------------------------------------------------------------------------------
\* Refresh.

\* A live read of the rosters, or the roster of the session when it failed.
StartRefresh(r, live) ==
    /\ pc[r] = "idle"
    /\ MayFail(live)
    /\ fresh' = [fresh EXCEPT ![r] = live]
    /\ \E read \in {owned, snapshot} :
          /\ live => read = owned
          /\ mine' = [mine EXCEPT ![r] = Players(read)]
    /\ Goto(r, "picks")
    /\ UNCHANGED <<rows, stored, memory, package, sender, phase, todo, rivals, report, provider, restarts>>

\* The picks are read after the rosters; then the snapshot is stored.
ReadPicks(r, live) ==
    /\ pc[r] = "picks"
    /\ MayFail(live)
    /\ \E picks \in PickReads(live) :
          /\ mine' = [mine EXCEPT ![r] = @ \cup picks]
          /\ snapshot' = mine[r] \cup picks
    /\ Goto(r, "list")
    /\ UNCHANGED <<rows, reserved, unavailable, memory, package, sender, fresh, phase, todo, rivals, report, provider, restarts>>

\* Faulty: the sweep leaves attempts that were being sent.
StuckQueued == [queued |-> "stale", sending |-> "sending"]
Stuck == [queued |-> "stale", sending |-> "outcome_unknown"]

ListStuck(r) ==
    /\ pc[r] = "list"
    /\ todo' = [todo EXCEPT ![r] =
            {[attempt |-> a, from |-> StateOf(a), to |-> Stuck[StateOf(a)]] : a \in aged}]
    /\ phase' = [phase EXCEPT ![r] = "sweep"]
    /\ Goto(r, "sweep")
    /\ UNCHANGED <<rows, stored, memory, package, sender, mine, fresh, rivals, report, provider, restarts>>

Drop(r, x) == todo' = [todo EXCEPT ![r] = @ \ {x}]
Free(r, x, step) ==
    /\ package' = [package EXCEPT ![r] = PackageOf[x.attempt[2]]]
    /\ Goto(r, step)

Sweep(r, x) ==
    /\ pc[r] = "sweep"
    /\ x \in todo[r]
    /\ Drop(r, x)
    /\ IF Swaps(x) THEN CAS(x) ELSE UNCHANGED rows
    /\ IF Swaps(x) /\ x.to = "stale" THEN Free(r, x, "check") ELSE UNCHANGED <<package, pc>>
    /\ UNCHANGED <<stored, memory, sender, mine, fresh, phase, rivals, report, provider, restarts>>

\* reconcile_attempt, on the roster this refresh has read.  What has not
\* arrived is no evidence when it is picks only: the table may lag.
Gone(r, o)    == Give[o] \ mine[r]
Awaited(r, o) == Receive[o] \ mine[r]
Verdict(r, o) == IF Awaited(r, o) = {} THEN "accepted" ELSE "resolved_elsewhere"
\* Faulty: only acceptances are noticed.
EvidenceAccepted(r, o) == fresh[r] /\ Gone(r, o) = Give[o] /\ Awaited(r, o) = {}
\* Faulty: picks that have not arrived count like players.
EvidenceOfPicks(r, o) ==
    /\ fresh[r]
    /\ Gone(r, o) # {}
    /\ Awaited(r, o) = {} => Gone(r, o) = Give[o]
Evidence(r, o) ==
    /\ fresh[r]
    /\ Gone(r, o) # {}
    /\ \/ Awaited(r, o) = {} /\ Gone(r, o) = Give[o]
       \/ Players(Awaited(r, o)) # {}

ListOutcomes(r) ==
    /\ pc[r] = "sweep"
    /\ todo[r] = {}
    /\ todo' = [todo EXCEPT ![r] =
            {[attempt |-> a, from |-> StateOf(a), to |-> Verdict(r, a[2])] :
             a \in {b \in Attempts : /\ StateOf(b) \in {"proposed", "outcome_unknown"}
                                     /\ Evidence(r, b[2])}}]
    /\ phase' = [phase EXCEPT ![r] = "settle"]
    /\ Goto(r, "settle")
    /\ UNCHANGED <<rows, stored, memory, package, sender, mine, fresh, rivals, report, provider, restarts>>

\* Accepted first: it settles the package before its rivals are read.
Settle(r, x) ==
    /\ pc[r] = "settle"
    /\ x \in todo[r]
    /\ (\E y \in todo[r] : y.to = "accepted") => x.to = "accepted"
    /\ Drop(r, x)
    /\ IF Swaps(x)
       THEN CAS(x) /\ Free(r, x, IF x.to = "accepted" THEN "rivals" ELSE "check")
       ELSE UNCHANGED <<rows, package, pc>>
    /\ UNCHANGED <<stored, memory, sender, mine, fresh, phase, rivals, report, provider, restarts>>

ListRivals(r) ==
    /\ pc[r] = "rivals"
    /\ rivals' = [rivals EXCEPT ![r] =
            {[attempt |-> a, from |-> StateOf(a), to |-> "invalidated"] : a \in LiveIn(package[r])}]
    /\ Goto(r, "invalidate")
    /\ UNCHANGED <<rows, stored, memory, package, sender, mine, fresh, phase, todo, report, provider, restarts>>

\* The rivals lose; one that is being sent cannot, and stays live.
Invalidate(r, x) ==
    /\ pc[r] = "invalidate"
    /\ x \in rivals[r]
    /\ rivals' = [rivals EXCEPT ![r] = @ \ {x}]
    /\ IF Swaps(x) THEN CAS(x) ELSE UNCHANGED rows
    /\ UNCHANGED <<stored, memory, pc, package, sender, mine, fresh, phase, todo, report, provider, restarts>>

\* Faulty: an acceptance keeps its reservation.
InvalidatedKeeping(r) ==
    /\ pc[r] = "invalidate"
    /\ rivals[r] = {}
    /\ Goto(r, "settle")
    /\ UNCHANGED <<rows, stored, memory, package, sender, refresher, report, provider, restarts>>

Invalidated(r) ==
    /\ pc[r] = "invalidate"
    /\ rivals[r] = {}
    /\ Goto(r, "release")
    /\ UNCHANGED <<rows, stored, memory, package, sender, refresher, report, provider, restarts>>

EndRefresh(r) ==
    /\ pc[r] = "settle"
    /\ todo[r] = {}
    /\ unavailable' = unavailable \cup {o \in Offers : ~ (Give[o] \subseteq mine[r])}
    /\ Goto(r, "idle")
    /\ mine' = [mine EXCEPT ![r] = {}]
    /\ fresh' = [fresh EXCEPT ![r] = FALSE]
    /\ UNCHANGED <<rows, reserved, snapshot, memory, package, sender, phase, todo, rivals, report, provider, restarts>>

------------------------------------------------------------------------------
\* The user reports, truthfully, that an offer is over at the provider.

ReadAttempt(u, a, to) ==
    /\ pc[u] = "idle"
    /\ StateOf(a) \in {"proposed", "outcome_unknown"}
    /\ to \in Reportable
    /\ remote[a[1]][a[2]] \notin {"pending", "accepted"}
    /\ report' = [report EXCEPT ![u] = [attempt |-> a, from |-> StateOf(a), to |-> to]]
    /\ Goto(u, "report")
    /\ UNCHANGED <<rows, stored, memory, package, sender, refresher, provider, restarts>>

Report(u) ==
    /\ pc[u] = "report"
    /\ IF Swaps(report[u])
       THEN /\ CAS(report[u])
            /\ package' = [package EXCEPT ![u] = PackageOf[report[u].attempt[2]]]
            /\ Goto(u, "check")
       ELSE UNCHANGED <<rows, package>> /\ Goto(u, "idle")
    /\ report' = [report EXCEPT ![u] = None]
    /\ UNCHANGED <<stored, memory, sender, refresher, provider, restarts>>

------------------------------------------------------------------------------
\* Time, restarts, and the provider.

\* A row can only outlive the limit when its worker is gone, or while it waits
\* behind other calls of its batch: a call ends long before the limit.
Age(s, o) ==
    /\ <<s, o>> \notin aged
    /\ \/ state[s][o] \in {"queued", "sending"} /\ pc[s] = "dead"
       \/ state[s][o] = "queued" /\ \E q \in Offers : state[s][q] \notin {"none", "queued"}
    /\ aged' = aged \cup {<<s, o>>}
    /\ UNCHANGED <<state, key, stored, memory, pc, package, sender, refresher, report, provider, restarts>>

Restart ==
    /\ restarts < MaxRestarts
    /\ restarts' = restarts + 1
    /\ prepares' = {}
    /\ pc' = [th \in Threads |-> CASE pc[th] \in Resting -> pc[th]
                                   [] th \in Sends       -> "dead"
                                   [] OTHER              -> "idle"]
    /\ package' = [th \in Threads |-> None]
    /\ token' = [s \in Sends |-> None]
    /\ roster' = [s \in Sends |-> {}]
    /\ selected' = [s \in Sends |-> {}]
    /\ offer' = [s \in Sends |-> None]
    /\ answer' = [s \in Sends |-> IF pc[s] = "done" THEN answer[s] ELSE "none"]
    /\ mine' = [r \in Refreshers |-> {}]
    /\ fresh' = [r \in Refreshers |-> FALSE]
    /\ phase' = [r \in Refreshers |-> "sweep"]
    /\ todo' = [r \in Refreshers |-> {}]
    /\ rivals' = [r \in Refreshers |-> {}]
    /\ report' = [u \in Reporters |-> None]
    /\ UNCHANGED <<rows, stored, prepared, provider>>

\* Assets that leave the seller end every offer that promised them.
Ended(gone) == [s \in Sends |-> [o \in Offers |->
    IF remote[s][o] = "pending" /\ Give[o] \cap gone # {} THEN "closed" ELSE remote[s][o]]]

Accept(s, o) ==
    /\ remote[s][o] = "pending"
    /\ owned' = (owned \ Give[o]) \cup Receive[o]
    /\ remote' = [Ended(Give[o]) EXCEPT ![s][o] = "accepted"]
    /\ UNCHANGED <<rows, stored, memory, pc, package, sender, refresher, report, misreported, restarts>>

Close(s, o) ==  \* declined, withdrawn or expired at the provider
    /\ remote[s][o] = "pending"
    /\ remote' = [remote EXCEPT ![s][o] = "closed"]
    /\ UNCHANGED <<rows, stored, memory, pc, package, sender, refresher, report, owned, misreported, restarts>>

TradeAway(x) ==  \* the seller trades an asset outside this overhaul
    /\ x \in owned \cap Outgoing(Offers)
    /\ owned' = owned \ {x}
    /\ remote' = Ended({x})
    /\ UNCHANGED <<rows, stored, memory, pc, package, sender, refresher, report, misreported, restarts>>

------------------------------------------------------------------------------
SendStep(s) ==
    \/ CheckToken(s) \/ ReadAttempts(s) \/ ReadReservations(s) \/ Claim(s) \/ Insert(s)
    \/ Pop(s) \/ Record(s) \/ Finish(s)
    \/ \E o \in Offers : Dispatch(s, o)
    \/ \E result \in DOMAIN Outcomes : Call(s, result)

RefreshStep(r) ==
    \/ \E live \in BOOLEAN : ReadPicks(r, live)
    \/ ListStuck(r) \/ ListOutcomes(r) \/ ListRivals(r) \/ Invalidated(r) \/ EndRefresh(r)
    \/ \E x \in todo[r] : Sweep(r, x) \/ Settle(r, x)
    \/ \E x \in rivals[r] : Invalidate(r, x)

ReleaseStep(th) == CheckIdle(th) \/ Release(th)

Requests ==
    \/ \E t \in Tokens, S \in Selections : Prepare(t, S)
    \/ \E t \in Tokens : Expire(t)
    \/ \E s \in Sends, t \in Tokens, k \in Keys : Lookup(s, t, k)
    \/ \E r \in Refreshers, live \in BOOLEAN : StartRefresh(r, live)
    \/ \E u \in Reporters, a \in Attempts, to \in Reportable : ReadAttempt(u, a, to)

Steps ==
    \/ \E s \in Sends : SendStep(s)
    \/ \E r \in Refreshers : RefreshStep(r)
    \/ \E u \in Reporters : Report(u)
    \/ \E th \in Threads : ReleaseStep(th)

World ==
    \/ \E s \in Sends, o \in Offers : Age(s, o) \/ Accept(s, o) \/ Close(s, o)
    \/ \E x \in Assets : TradeAway(x)

Next == Requests \/ Steps \/ World \/ Restart

Spec == Init /\ [][Next]_vars

\* Threads run, time passes, and the app keeps refreshing: it does so whenever
\* the plan is opened, and the reads of rosters and picks succeed now and then.
Fairness ==
    /\ \A s \in Sends : WF_vars(SendStep(s) \/ ReleaseStep(s)) /\ WF_vars(\E o \in Offers : Age(s, o))
    /\ \A r \in Refreshers :
          /\ WF_vars(RefreshStep(r) \/ ReleaseStep(r))
          /\ SF_vars(StartRefresh(r, TRUE)) /\ SF_vars(ReadPicks(r, TRUE))
    /\ \A u \in Reporters : WF_vars(Report(u) \/ ReleaseStep(u))

FairSpec == Spec /\ Fairness

------------------------------------------------------------------------------
\* The database, the threads and the provider are well formed.
TypeRows ==
    /\ state \in [Sends -> [Offers -> Live \cup Terminal \cup {"none"}]]
    /\ key \in [Sends -> Keys \cup {None}]
    /\ aged \subseteq Attempts

TypeStore ==
    /\ reserved \in [Assets -> [package : Packages, batch : Sends] \cup {None}]
    /\ unavailable \subseteq Offers
    /\ snapshot \subseteq Assets
    /\ prepares \subseteq Tokens
    /\ prepared \in [Tokens -> Selections \cup {{}}]

Counters ==
    Resting \cup {"token", "attempts", "reservations", "claim", "insert", "pop",
        "dispatch", "call", "record", "check", "release",
        "picks", "list", "sweep", "settle", "rivals", "invalidate", "report"}

TypeThreads ==
    /\ pc \in [Threads -> Counters]
    /\ package \in [Threads -> Packages \cup {None}]
    /\ report \in [Reporters -> Transition \cup {None}]

TypeSender ==
    /\ token \in [Sends -> Tokens \cup {None}]
    /\ roster \in [Sends -> SUBSET Assets]
    /\ selected \in [Sends -> SUBSET Offers]
    /\ offer \in [Sends -> Offers \cup {None}]
    /\ answer \in [Sends -> {"none", "existing", "refused", "batch", "proposed",
            "send_failed", "outcome_unknown"}]

TypeRefresher ==
    /\ mine \in [Refreshers -> SUBSET Assets]
    /\ fresh \in [Refreshers -> BOOLEAN]
    /\ phase \in [Refreshers -> {"sweep", "settle"}]
    /\ todo \in [Refreshers -> SUBSET Transition]
    /\ rivals \in [Refreshers -> SUBSET Transition]

TypeProvider ==
    /\ owned \subseteq Assets
    /\ remote \in [Sends -> [Offers -> {"none", "pending", "accepted", "closed"}]]
    /\ misreported \subseteq Attempts
    /\ restarts \in 0 .. MaxRestarts

TypeOK == TypeRows /\ TypeStore /\ TypeThreads /\ TypeSender /\ TypeRefresher /\ TypeProvider

Holder(a) == [package |-> PackageOf[a[2]], batch |-> a[1]]

\* "Retain reservations while any offer is pending or its remote outcome is
\* unknown": the assets of a live attempt stay reserved by its own batch,
\* until its package is complete.
LiveReserved ==
    \A a \in Attempts : StateOf(a) \in Live /\ ~ Completed(PackageOf[a[2]]) =>
        \A x \in Give[a[2]] : reserved[x] = Holder(a)

\* An offer that is pending at the provider still reserves what it promises,
\* so no other batch can promise the same asset; unless its call was answered
\* by a failure, which the code takes for an offer that was not written.
PromiseReserved ==
    \A a \in Attempts \ misreported : RemoteOf(a) = "pending" =>
        \A x \in Give[a[2]] : reserved[x] = Holder(a)

\* An attempt the store calls over (declined, stale, failed, invalidated, ...)
\* is not an offer the provider could still execute, unless the store calls it
\* failed because the provider's own answer was a failure.
TerminalPromisesNothing ==
    \A a \in Attempts : StateOf(a) \in Terminal /\ RemoteOf(a) = "pending" =>
        StateOf(a) = "send_failed" /\ a \in misreported

\* An offer the counterparty accepted is not recorded as lost to another
\* trade, although rosters and picks are read apart and the pick table lags.
\* Offers that give a pick are excepted: accepted between the two reads, they
\* are seen with the pick gone and the players not arrived.
AcceptedNotDenied ==
    \A a \in Attempts : StateOf(a) = "resolved_elsewhere" /\ Give[a[2]] \cap Picks = {} =>
        RemoteOf(a) # "accepted"

\* What the store says of an attempt that is over is true of the offer.
EndsAreTrue == TerminalPromisesNothing /\ AcceptedNotDenied

\* When no request runs, every reserved asset has a live attempt to show for
\* it: no interleaving of releases leaves a package blocked for ever.  A
\* restart does: see OrphansFreed.
NoOrphanReservation ==
    (restarts = 0 /\ \A th \in Threads : pc[th] \in Resting) =>
        \A x \in Assets : reserved[x] # None => LiveIn(reserved[x].package) # {}

\* What NoOrphanReservation says, under fairness: a reservation without a live
\* attempt is freed, or a new attempt takes it, also after a restart.
OrphansFreed ==
    \A x \in Assets :
        (reserved[x] # None /\ LiveIn(reserved[x].package) = {})
            ~> (reserved[x] = None \/ LiveIn(reserved[x].package) # {})

\* Terminal states never regress, whoever settles an attempt and however old
\* the state is that it has read.
TerminalForever ==
    [][\A a \in Attempts : StateOf(a) \in Terminal => StateOf(a)' = StateOf(a)]_vars

\* The store and the provider, one entry for each attempt.
RecordOf == [a \in Attempts |-> IF StateOf(a) \in Live THEN "open" ELSE StateOf(a)]
PlacedOf == [a \in Attempts |->
    IF RemoteOf(a) = "pending" /\ a \in misreported THEN "unseen" ELSE RemoteOf(a)]

Ledger == INSTANCE OfferLedger WITH record <- RecordOf, placed <- PlacedOf, Ends <- Terminal

\* Batches, sweeps, refreshes and reports implement what OfferLedger promises:
\* no offer is written twice or after its end, and every attempt has one end.
Refines == Ledger!Spec

\* Every attempt a batch queued is sent, swept or stopped, also when the
\* process restarts in the middle of the batch.
NothingStuck ==
    \A s \in Sends, o \in Offers : []<>(state[s][o] \notin {"queued", "sending"})

\* An attempt does not stay open for ever once the whole trade is done, or
\* once a given asset is gone and a player promised for it is not there.
\* Otherwise it may: a pick that has not arrived proves nothing, and the
\* attempt waits for the user's report.
Reconciled ==
    \A s \in Sends, o \in Offers : []<>(state[s][o] \in Live =>
        /\ ~ (Give[o] \cap owned = {} /\ Receive[o] \subseteq owned)
        /\ ~ (~ (Give[o] \subseteq owned) /\ ~ (Players(Receive[o]) \subseteq owned)))

------------------------------------------------------------------------------
\* The inductive invariant behind EndsAreTrue and TerminalForever.

Promised(o) == Give[o] \subseteq owned
Current(s)  == <<s, offer[s]>>

\* A batch has no rows before it inserts them.
RowsInv == \A a \in Attempts :
    pc[a[1]] \in {"idle", "token", "attempts", "reservations", "claim", "insert"} =>
        StateOf(a) = "none"

\* Only a dispatched attempt is at the provider, and only while the seller
\* still owns what it gives.
RemoteInv == \A a \in Attempts :
    /\ StateOf(a) \in {"none", "queued"} => RemoteOf(a) = "none"
    /\ RemoteOf(a) = "pending" => Promised(a[2])

\* A call is made for an attempt in state sending, once.
CallInv == \A s \in Sends :
    /\ pc[s] = "token" => token[s] \in Tokens
    /\ pc[s] \in {"call", "record"} => offer[s] \in Offers
    /\ pc[s] = "call" => StateOf(Current(s)) = "sending" /\ RemoteOf(Current(s)) = "none"

RecordInv == \A s \in Sends : pc[s] = "record" =>
    /\ answer[s] \in {"proposed", "send_failed", "outcome_unknown"}
    /\ answer[s] = "send_failed" /\ Current(s) \notin misreported => RemoteOf(Current(s)) # "pending"

\* Only an attempt without a worker is old in state sending.
AgedInv == \A a \in aged :
    \/ StateOf(a) = "queued"
    \/ StateOf(a) = "sending" /\ pc[a[1]] = "dead"

\* The evidence behind what a refresh has yet to write still holds.
SweepItem(x) ==
    \/ x.from = "queued" /\ x.to = "stale"
    \/ x.from = "sending" /\ x.to = "outcome_unknown" /\ pc[x.attempt[1]] = "dead"
LossItem(x) ==
    /\ x.to \in {"accepted", "resolved_elsewhere"}
    /\ ~ Promised(x.attempt[2])
    /\ x.to = "resolved_elsewhere" /\ Give[x.attempt[2]] \cap Picks = {} =>
          RemoteOf(x.attempt) # "accepted"

TodoInv == \A r \in Refreshers :
    /\ \A x \in todo[r] : SweepItem(x) \/ LossItem(x)
    /\ \A x \in rivals[r] : x.to = "invalidated" /\ ~ Promised(x.attempt[2])

WinnerInv == \A r \in Refreshers : pc[r] = "rivals" =>
    \A o \in Offers : PackageOf[o] = package[r] => ~ Promised(o)

\* Every read of the seller's assets, however old, has what the seller still
\* owns of the assets an offer gives: they only ever leave.
ReadInv == \A o \in Offers : Give[o] \cap owned \subseteq snapshot
MineInv == \A r \in Refreshers : \A o \in Offers :
    /\ pc[r] = "picks" => Players(Give[o] \cap owned) \subseteq mine[r]
    /\ pc[r] \notin Resting \cup {"picks"} => Give[o] \cap owned \subseteq mine[r]

\* What the seller got stays, and a live roster shows an accepted offer whole
\* or not at all, as far as players go.
OwnedInv == \A a \in Attempts : RemoteOf(a) = "accepted" => Receive[a[2]] \subseteq owned
SeenInv == \A r \in Refreshers, a \in Attempts :
    pc[r] \notin Resting /\ fresh[r] /\ RemoteOf(a) = "accepted" =>
        \/ Players(Receive[a[2]]) \subseteq mine[r]
        \/ Players(Give[a[2]]) \subseteq mine[r]

\* The offer a user reports over was sent, and cannot be pending again.
ReportInv == \A u \in Reporters : pc[u] = "report" =>
    /\ report[u] \in Transition
    /\ report[u].to \in Reportable
    /\ StateOf(report[u].attempt) \notin {"none", "queued", "sending"}
    /\ RemoteOf(report[u].attempt) # "pending"

EvidenceInv == TodoInv /\ WinnerInv /\ ReadInv /\ MineInv /\ OwnedInv /\ SeenInv /\ ReportInv
WorkerInv   == RowsInv /\ CallInv /\ RecordInv /\ AgedInv

IInv == TypeOK /\ WorkerInv /\ RemoteInv /\ EvidenceInv /\ EndsAreTrue
=============================================================================
