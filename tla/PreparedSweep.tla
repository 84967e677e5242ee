--------------------------- MODULE PreparedSweep ---------------------------
(***************************************************************************)
(* The silent preparation of trade inventories:                            *)
(* backend/prepared_trade_store.py and prepared_trade_store_v2.py (the     *)
(* tables and their transactions) under backend/prepared_trade_runtime.py  *)
(* (the thread that runs a sweep, one per process).                        *)
(*                                                                         *)
(* One step is one database transaction: those that touch a claim are      *)
(* serialised by the row lock of the single worker row, so a transaction   *)
(* sees the claim as it stands.  The clock is the lapse of the lease: a    *)
(* transaction stamps its time before it waits for locks, so one that      *)
(* started in time may commit after the lapse, as long as nobody has       *)
(* claimed since.  Any transaction of a target may also fail: its claim is *)
(* stale, its account was revoked, or the database refused it.             *)
(***************************************************************************)
EXTENDS Integers, FiniteSets

CONSTANTS
    Sweeps,        \* idempotency keys
    Targets,       \* target rows
    Scopes,        \* inventory scopes: a user in a league, with its format
    SweepOf,       \* the sweep of each target
    ScopeOf,       \* the scope of each target
    Workers,       \* processes: overlapping at a deploy, each with one thread
    None,          \* SQL's NULL
    MaxAttempts,   \* max_attempts
    MaxClaims,     \* bound: claims taken
    MaxDeferrals,  \* bound: claims yielded to interactive work
    MaxCrashes     \* bound: process deaths

ASSUME SweepsAssumption == SweepOf \in [Targets -> Sweeps] /\ ScopeOf \in [Targets -> Scopes]
ASSUME BoundsAssumption ==
    MaxAttempts \in Nat \ {0} /\ MaxClaims \in Nat /\ MaxDeferrals \in Nat /\ MaxCrashes \in Nat
ASSUME NoneAssumption == None \notin Int \cup Targets \cup Sweeps

VARIABLES
    \* sweeps and targets; `token` is the lease_token of a running target,
    \* `delayed` the targets whose available_at has not come
    sweep, status, attempts, token, delayed,
    \* the worker row: the token that holds it, and whether its lease_until passed
    holder, lapsed,
    \* inventory manifests by the claim that generates them, and each claim's target
    manifest, of,
    \* scopes of deleted users; the manifests a running prune has selected
    gone, doomed,
    \* the sweep thread of each process
    run, pc, claim, why,
    \* history: claims so far, of all and of each target, claims it yielded,
    \* manifests once published, deaths
    claims, taken, deferrals, published, crashes

tables  == <<sweep, status, attempts, token, delayed>>
row     == <<holder, lapsed>>
stages  == <<manifest, of>>
threads == <<run, pc, claim, why>>
history == <<claims, taken, deferrals, published, crashes>>
vars    == <<tables, row, stages, gone, doomed, threads, history>>

Claims   == 1 .. MaxClaims
Open     == {"none", "pending", "running"}
Statuses == Open \cup {"ready", "reused", "stale", "error", "cancelled", "deleted"}
Staged   == {"staging", "validating"}

TypeOK ==
    /\ sweep \in [Sweeps -> {"none", "running", "complete", "stopped"}]
    /\ status \in [Targets -> Statuses]
    /\ attempts \in [Targets -> 0 .. MaxAttempts]
    /\ token \in [Targets -> Claims \cup {None}]
    /\ delayed \in SUBSET Targets
    /\ holder \in Claims \cup {None}
    /\ lapsed \in BOOLEAN
    /\ manifest \in [Claims -> {"none", "sealed", "retired"} \cup Staged]
    /\ of \in [Claims -> Targets \cup {None}]
    /\ gone \in SUBSET Scopes
    /\ doomed \in SUBSET Claims
    /\ run \in [Workers -> Sweeps \cup {None}]
    /\ pc \in [Workers -> {"idle", "claimed", "generating", "validating",
                           "aborting", "yielding", "failing"}]
    /\ claim \in [Workers -> Claims \cup {None}]
    /\ why \in [Workers -> {"none", "busy", "changed", "failed"}]
    /\ claims \in 0 .. MaxClaims
    /\ taken \in [Targets -> Nat]
    /\ deferrals \in [Targets -> 0 .. MaxDeferrals]
    /\ published \in SUBSET Claims
    /\ crashes \in 0 .. MaxCrashes

Init ==
    /\ sweep = [s \in Sweeps |-> "none"]
    /\ status = [t \in Targets |-> "none"]
    /\ attempts = [t \in Targets |-> 0]
    /\ token = [t \in Targets |-> None]
    /\ delayed = {}
    /\ holder = None /\ lapsed = FALSE
    /\ manifest = [k \in Claims |-> "none"]
    /\ of = [k \in Claims |-> None]
    /\ gone = {} /\ doomed = {}
    /\ run = [w \in Workers |-> None]
    /\ pc = [w \in Workers |-> "idle"]
    /\ claim = [w \in Workers |-> None]
    /\ why = [w \in Workers |-> "none"]
    /\ claims = 0
    /\ taken = [t \in Targets |-> 0]
    /\ deferrals = [t \in Targets |-> 0]
    /\ published = {}
    /\ crashes = 0

Remaining(s, st) == \E t \in Targets : SweepOf[t] = s /\ st[t] \in {"pending", "running"}

\* `_finish_sweep`, for the sweeps in S, once the statuses are st.
Finished(S, st) ==
    [s \in Sweeps |-> IF s \in S /\ sweep[s] = "running" /\ ~Remaining(s, st)
                      THEN "complete" ELSE sweep[s]]

-----------------------------------------------------------------------------
(* The sweep thread: create, resume, claim *)

\* `create_sweep`: repeated keys find the sweep.  The cohort has no deleted user.
Create(s) ==
    LET cohort == {t \in Targets : SweepOf[t] = s /\ ScopeOf[t] \notin gone} IN
    /\ sweep[s] = "none"
    /\ status' = [t \in Targets |-> IF t \in cohort THEN "pending" ELSE status[t]]
    /\ sweep' = [sweep EXCEPT ![s] = IF cohort = {} THEN "complete" ELSE "running"]
    /\ UNCHANGED <<attempts, token, delayed, row, stages, gone, doomed, threads, history>>

\* `tick` finds a resumable sweep, or a new one was created, and starts its thread.
Start(w, s) ==
    /\ run[w] = None
    /\ sweep[s] = "running" /\ Remaining(s, status)
    /\ run' = [run EXCEPT ![w] = s]
    /\ UNCHANGED <<tables, row, stages, gone, doomed, pc, claim, why, history>>

\* The loop ends: the sweep was stopped, or nothing of it remains.
Leave(w) ==
    /\ pc[w] = "idle" /\ run[w] # None
    /\ sweep[run[w]] # "running" \/ ~Remaining(run[w], status)
    /\ run' = [run EXCEPT ![w] = None]
    /\ UNCHANGED <<tables, row, stages, gone, doomed, pc, claim, why, history>>

\* The worker row can be taken: nobody holds it, or its lease has passed.
Acquirable == holder = None \/ lapsed

\* `claim_target` first returns the targets of lapsed leases, then gives up
\* the pending ones that have spent their attempts.
NeverSpent(t) == FALSE
Spent(t) == attempts[t] >= MaxAttempts
NotRecovered ==
    [t \in Targets |-> IF status[t] = "pending" /\ Spent(t) THEN "error" ELSE status[t]]
Recovered ==
    [t \in Targets |-> IF status[t] \notin {"pending", "running"} THEN status[t]
                       ELSE IF Spent(t) THEN "error" ELSE "pending"]

Claimable(s) == {t \in Targets : SweepOf[t] = s /\ Recovered[t] = "pending" /\ t \notin delayed}

Claim(w, t) ==
    LET k == claims + 1 IN
    /\ pc[w] = "idle" /\ run[w] # None
    /\ Acquirable
    /\ sweep[run[w]] = "running" /\ t \in Claimable(run[w])
    /\ claims < MaxClaims
    /\ status' = [Recovered EXCEPT ![t] = "running"]
    /\ token' = [u \in Targets |-> IF u = t THEN k ELSE None]
    /\ attempts' = [attempts EXCEPT ![t] = @ + 1]
    /\ holder' = k /\ lapsed' = FALSE
    /\ of' = [of EXCEPT ![k] = t]
    /\ claims' = k
    /\ taken' = [taken EXCEPT ![t] = @ + 1]
    /\ claim' = [claim EXCEPT ![w] = k]
    /\ pc' = [pc EXCEPT ![w] = "claimed"]
    /\ UNCHANGED <<sweep, delayed, manifest, gone, doomed, run, why, deferrals, published, crashes>>

\* ... nothing to claim: the row is released, and the sweep may be complete.
ClaimNothing(w) ==
    /\ pc[w] = "idle" /\ run[w] # None
    /\ Acquirable
    /\ sweep[run[w]] # "running" \/ Claimable(run[w]) = {}
    /\ status' = Recovered
    /\ token' = [t \in Targets |-> None]
    /\ holder' = None /\ lapsed' = FALSE
    /\ sweep' = Finished({run[w]}, Recovered)
    /\ UNCHANGED <<attempts, delayed, stages, gone, doomed, threads, history>>

-----------------------------------------------------------------------------
(* The sweep thread: one target *)

ClaimedByAnyone(w) == holder # None

\* `_claimed`: the worker row and the running target both carry the token.
Claimed(w) == holder = claim[w] /\ token[of[claim[w]]] = claim[w]

Target(w) == of[claim[w]]
Scope(k)  == ScopeOf[of[k]]

\* The inventories that are served for a scope.
Heads(x)  == {k \in Claims : manifest[k] = "sealed" /\ Scope(k) = x}

\* A transaction of `_stage_work` renews a lease that is about to pass; one
\* that waited longer than the lease may renew it into the past.
Renew == lapsed' \in {lapsed, FALSE} /\ UNCHANGED holder

\* `_complete`: the target's result, the worker row free, the sweep finished.
Complete(t, result) ==
    /\ status' = [status EXCEPT ![t] = result]
    /\ token' = [token EXCEPT ![t] = None]
    /\ holder' = None /\ lapsed' = FALSE
    /\ sweep' = Finished({SweepOf[t]}, status')

Goto(w, at) == pc' = [pc EXCEPT ![w] = at]
Done(w) == Goto(w, "idle") /\ claim' = [claim EXCEPT ![w] = None]

\* The cached inventory still fits: `complete_target` with "reused", which
\* finds it again in its own transaction.
Reuse(w) ==
    /\ pc[w] = "claimed" /\ Claimed(w)
    /\ Heads(ScopeOf[Target(w)]) # {}
    /\ Complete(Target(w), "reused")
    /\ Done(w)
    /\ UNCHANGED <<attempts, delayed, stages, gone, doomed, run, why, history>>

\* `defer_target_for_interactive`: the attempt is given back.
Deferred(w) ==
    LET t == Target(w) IN
    /\ Claimed(w)
    /\ deferrals[t] < MaxDeferrals
    /\ attempts' = [attempts EXCEPT ![t] = @ - 1]
    /\ deferrals' = [deferrals EXCEPT ![t] = @ + 1]
    /\ delayed' = delayed \cup {t}
    /\ Complete(t, "pending")
    /\ Done(w)
    /\ UNCHANGED <<stages, gone, doomed, run, why, claims, taken, published, crashes>>

\* The foreground is busy before the generation begins.
Defer(w) == pc[w] = "claimed" /\ Deferred(w)

\* A failure before any stage exists reaches the thread's handler.
Raise(w) ==
    /\ pc[w] = "claimed"
    /\ Goto(w, "failing")
    /\ UNCHANGED <<tables, row, stages, gone, doomed, run, claim, why, history>>

\* `begin_inventory`.
Begin(w) ==
    /\ pc[w] = "claimed" /\ Claimed(w)
    /\ manifest' = [manifest EXCEPT ![claim[w]] = "staging"]
    /\ Goto(w, "generating")
    /\ UNCHANGED <<tables, row, of, gone, doomed, run, claim, why, history>>

\* A stage transaction is allowed: the claim and the manifest are its own.
OnStage(w, states) == Claimed(w) /\ manifest[claim[w]] \in states

\* `append_page`, `put_nodes`, `finish_metadata`, `check_generation_stage`, and
\* the heartbeat of the reader that validates.
Append(w) ==
    /\ \/ pc[w] = "generating" /\ OnStage(w, {"staging"})
       \/ pc[w] = "validating" /\ OnStage(w, Staged)
    /\ Renew
    /\ UNCHANGED <<tables, stages, gone, doomed, threads, history>>

\* `seal_inventory`, the first transaction: the content is frozen.
Freeze(w) ==
    /\ pc[w] = "generating" /\ OnStage(w, {"staging"})
    /\ Renew
    /\ manifest' = [manifest EXCEPT ![claim[w]] = "validating"]
    /\ Goto(w, "validating")
    /\ UNCHANGED <<tables, of, gone, doomed, run, claim, why, history>>

KeptHeads(x) == manifest

\* What a seal does to the manifests: the head of the scope is retired.
Replaced(x) == [k \in Claims |-> IF k \in Heads(x) THEN "retired" ELSE manifest[k]]

\* ... the second: published, and the target ready, in one transaction.
Seal(w) ==
    LET k == claim[w] IN
    /\ pc[w] = "validating" /\ OnStage(w, {"validating"})
    /\ manifest' = [Replaced(Scope(k)) EXCEPT ![k] = "sealed"]
    /\ published' = published \cup {k}
    /\ Complete(of[k], "ready")
    /\ Done(w)
    /\ UNCHANGED <<attempts, delayed, of, gone, doomed, run, why, claims, taken, deferrals, crashes>>

\* Generation ends early: interactive work, a claim that changed, an error.
GiveUp(w, reason) ==
    /\ pc[w] = "generating" \/ (pc[w] = "validating" /\ reason = "failed")
    /\ why' = [why EXCEPT ![w] = reason]
    /\ Goto(w, "aborting")
    /\ UNCHANGED <<tables, row, stages, gone, doomed, run, claim, history>>

\* The end of prepare_target after its abort: yield, leave, or report.
AfterAbort(w) ==
    /\ why' = [why EXCEPT ![w] = "none"]
    /\ IF why[w] = "changed" THEN Done(w)
       ELSE Goto(w, IF why[w] = "busy" THEN "yielding" ELSE "failing") /\ UNCHANGED claim
    /\ UNCHANGED <<tables, of, gone, doomed, run, history>>

\* `abort_inventory`.
Abort(w) ==
    /\ pc[w] = "aborting" /\ OnStage(w, Staged)
    /\ Renew
    /\ manifest' = [manifest EXCEPT ![claim[w]] = "none"]
    /\ AfterAbort(w)

\* ... which may fail: the stage is left to the retention.
AbortFails(w) ==
    /\ pc[w] = "aborting"
    /\ UNCHANGED <<row, manifest>>
    /\ AfterAbort(w)

Yield(w) == pc[w] = "yielding" /\ Deferred(w)

\* The claim changed during the cleanup: its successor is not touched.  Any
\* other failure is reported.
YieldFails(w) ==
    /\ pc[w] = "yielding"
    /\ Done(w) \/ (Goto(w, "failing") /\ UNCHANGED claim)
    /\ UNCHANGED <<tables, row, stages, gone, doomed, run, why, history>>

\* `complete_target` of a failed target, retried when its reason is transient.
Fail(w) ==
    LET t == Target(w) IN
    /\ pc[w] = "failing" /\ Claimed(w)
    /\ \/ attempts[t] < MaxAttempts /\ Complete(t, "pending") /\ delayed' = delayed \cup {t}
       \/ Complete(t, "error") /\ UNCHANGED delayed
       \/ ~(attempts[t] < MaxAttempts) /\ Complete(t, "stale") /\ UNCHANGED delayed
    /\ Done(w)
    /\ UNCHANGED <<attempts, stages, gone, doomed, run, why, history>>

\* ... and when that fails too, the thread ends with its sweep unfinished.
Die(w) ==
    /\ pc[w] = "failing"
    /\ Done(w)
    /\ run' = [run EXCEPT ![w] = None]
    /\ UNCHANGED <<tables, row, stages, gone, doomed, why, history>>

\* The process is killed anywhere.
Crash(w) ==
    /\ run[w] # None
    /\ crashes < MaxCrashes
    /\ crashes' = crashes + 1
    /\ Done(w)
    /\ run' = [run EXCEPT ![w] = None]
    /\ why' = [why EXCEPT ![w] = "none"]
    /\ UNCHANGED <<tables, row, stages, gone, doomed, claims, taken, deferrals, published>>

-----------------------------------------------------------------------------
(* Time, operators, deletion and retention *)

Lapse ==
    /\ holder # None /\ ~lapsed
    /\ lapsed' = TRUE
    /\ UNCHANGED <<tables, holder, stages, gone, doomed, threads, history>>

Available(t) ==
    /\ t \in delayed
    /\ delayed' = delayed \ {t}
    /\ UNCHANGED <<sweep, status, attempts, token, row, stages, gone, doomed, threads, history>>

KeptRow(T) ==
    /\ token' = [t \in Targets |-> IF t \in T THEN None ELSE token[t]]
    /\ UNCHANGED row

\* The claims of the targets in T are revoked, and the worker row with them.
Revoked(T) ==
    /\ token' = [t \in Targets |-> IF t \in T THEN None ELSE token[t]]
    /\ IF \E t \in T : token[t] # None /\ token[t] = holder
       THEN holder' = None /\ lapsed' = FALSE
       ELSE UNCHANGED row

RunningOf(s) == {t \in Targets : SweepOf[t] = s /\ status[t] = "running"}
LeftOf(s) == {t \in Targets : SweepOf[t] = s /\ status[t] \in {"pending", "running"}}

\* `stop_sweep`.
Stop(s) ==
    /\ sweep[s] = "running"
    /\ sweep' = [sweep EXCEPT ![s] = "stopped"]
    /\ status' = [t \in Targets |-> IF t \in LeftOf(s) THEN "cancelled" ELSE status[t]]
    /\ Revoked(LeftOf(s))
    /\ UNCHANGED <<attempts, delayed, stages, gone, doomed, threads, history>>

PrivateHeads(x) == {k \in Claims : of[k] # None /\ Scope(k) = x /\ manifest[k] = "sealed"}

\* The manifests that hold a deleted user's data: found by its index, in any state.
Private(x) == {k \in Claims : of[k] # None /\ Scope(k) = x}

\* `delete_for_users`, in the transaction of the account's deletion.
Delete(x) ==
    LET theirs == {t \in Targets : ScopeOf[t] = x /\ status[t] # "none"}
        st == [t \in Targets |-> IF t \in theirs THEN "deleted" ELSE status[t]] IN
    /\ x \notin gone
    /\ gone' = gone \cup {x}
    /\ status' = st
    /\ Revoked(theirs)
    /\ manifest' = [k \in Claims |-> IF k \in Private(x) THEN "none" ELSE manifest[k]]
    /\ sweep' = Finished({SweepOf[t] : t \in theirs}, st)
    /\ UNCHANGED <<attempts, delayed, of, doomed, threads, history>>

LapsedStages == {k \in Claims : manifest[k] \in Staged /\ k = holder /\ lapsed}

\* Stages whose generation is over, or whose lease has passed.
LiveGeneration(k) == token[of[k]] = k /\ ~lapsed
Orphans == {k \in Claims : manifest[k] \in Staged /\ ~LiveGeneration(k)}

\* `prune` selects retired and orphaned manifests, and those of any state that
\* expired ...
Select ==
    LET dead == {k \in Claims : manifest[k] = "retired"} \cup Orphans IN
    /\ doomed = {}
    /\ \E expired \in SUBSET {k \in Claims : manifest[k] = "sealed"} :
          /\ dead \cup expired # {}
          /\ doomed' = dead \cup expired
    /\ UNCHANGED <<tables, row, stages, gone, threads, history>>

\* ... and drops them by their ids, whatever they have become.
Drop ==
    /\ doomed # {}
    /\ manifest' = [k \in Claims |-> IF k \in doomed THEN "none" ELSE manifest[k]]
    /\ doomed' = {}
    /\ UNCHANGED <<tables, row, of, gone, threads, history>>

\* `retire_invalid_inventory`: a head that fails its integrity check.
Retire(k) ==
    /\ manifest[k] = "sealed"
    /\ manifest' = [manifest EXCEPT ![k] = "retired"]
    /\ UNCHANGED <<tables, row, of, gone, doomed, threads, history>>

-----------------------------------------------------------------------------
Preparing(w) ==
    \/ Reuse(w) \/ Defer(w) \/ Raise(w) \/ Begin(w) \/ Freeze(w) \/ Seal(w)
    \/ Abort(w) \/ AbortFails(w) \/ Yield(w) \/ YieldFails(w) \/ Fail(w) \/ Die(w)
    \/ \E reason \in {"busy", "changed", "failed"} : GiveUp(w, reason)

Claiming(w) == ClaimNothing(w) \/ \E t \in Targets : Claim(w, t)

Next ==
    \/ \E w \in Workers : Preparing(w) \/ Claiming(w) \/ Append(w) \/ Leave(w) \/ Crash(w)
    \/ \E w \in Workers, s \in Sweeps : Start(w, s)
    \/ \E s \in Sweeps : Create(s) \/ Stop(s)
    \/ \E t \in Targets : Available(t)
    \/ \E x \in Scopes : Delete(x)
    \/ \E k \in Claims : Retire(k)
    \/ Lapse \/ Select \/ Drop

Spec == Init /\ [][Next]_vars

\* The lease of a dead claim passes, retries become due, threads move, `tick`
\* resumes sweeps and prunes.  Nobody creates, stops, deletes or retires.
Abandoned == \A w \in Workers : claim[w] # holder
ThreadStep(w) == Preparing(w) \/ Claiming(w) \/ Leave(w) \/ \E s \in Sweeps : Start(w, s)
Fairness ==
    /\ \A w \in Workers : WF_vars(ThreadStep(w))
    /\ \A t \in Targets : WF_vars(Available(t))
    /\ WF_vars(Lapse /\ Abandoned)
    /\ WF_vars(Select \/ Drop)

FairSpec == Spec /\ Fairness
-----------------------------------------------------------------------------
(* Properties *)

\* The worker row is held by the claim of the one running target, and by
\* nothing else: no stop, deletion, completion or takeover leaves a target
\* running without the row, or the row held for a target that is not.
RowAgrees ==
    /\ \A t \in Targets : status[t] = "running" <=> token[t] # None
    /\ \A t \in Targets : token[t] # None => token[t] = holder /\ of[holder] = t
    /\ holder # None => token[of[holder]] = holder
    /\ lapsed => holder # None

\* At most one inventory is served for a scope, whatever was sealed, retired
\* or pruned before (seal_inventory retires the head it replaces).
OneHead ==
    \A k, j \in Claims :
        manifest[k] = "sealed" /\ manifest[j] = "sealed" /\ Scope(k) = Scope(j) => k = j

\* After the deletion of a user nothing of its scopes remains or comes back:
\* no manifest in any state, no target to prepare, although a process may be
\* generating for it at that moment (delete_for_users, _claimed).
NothingOfTheDeleted ==
    /\ \A k \in Claims : of[k] # None /\ Scope(k) \in gone => manifest[k] = "none"
    /\ \A t \in Targets : ScopeOf[t] \in gone => status[t] \in {"none", "deleted"}

\* A target is claimed at most max_attempts times, not counting the claims it
\* yielded to interactive work: a target that kills its process is given up.
Budget == \A t \in Targets : taken[t] <= MaxAttempts + deferrals[t]

\* A sweep that is reported complete or stopped has nothing left to prepare.
ClosedSweepsAreDone ==
    \A s \in Sweeps : sweep[s] \in {"complete", "stopped"} => ~Remaining(s, status)

\* What a reader sees of the targets and of the scopes.
ResultOf == [t \in Targets |-> IF status[t] \in Open THEN "open" ELSE status[t]]
OneOf(S) == CHOOSE k \in S : TRUE
HeadOf   == [x \in Scopes |-> IF Heads(x) = {} THEN None ELSE OneOf(Heads(x))]

Results == INSTANCE PreparedResults WITH
    result <- ResultOf, head <- HeadOf, spent <- published, Inventories <- Claims

\* The leases, stages and retries implement what PreparedResults promises: one
\* result per target for good, published together with the new head of its
\* scope, and no inventory ever served twice.
Refines == Results!Spec

\* A sweep ends, whichever processes die and whichever transactions fail.
SweepEnds == \A s \in Sweeps : sweep[s] = "running" ~> ~Remaining(s, status)

\* No stage stays behind: one that is not published is removed, also when its
\* process died or its abort failed (abort_inventory, prune).
StageDropped == \A k \in Claims : []<>(manifest[k] \notin Staged)
-----------------------------------------------------------------------------
(* The inductive invariant behind the safety properties *)

\* Claims are numbered as they are taken, and threads work on distinct ones.
ClaimInv ==
    /\ \A k \in Claims : of[k] # None <=> k <= claims
    /\ \A k \in Claims : k \notin 1 .. claims => manifest[k] = "none" /\ k \notin published
    /\ \A w \in Workers : claim[w] # None => claim[w] <= claims
    /\ \A w \in Workers : pc[w] = "idle" <=> claim[w] = None
    /\ \A v, w \in Workers : v # w /\ claim[w] # None => claim[v] # claim[w]

\* What was published is what is or was sealed.
StageInv ==
    /\ \A k \in Claims : manifest[k] \in Staged => k \notin published
    /\ \A k \in Claims : manifest[k] \in {"sealed", "retired"} => k \in published
    /\ \A w \in Workers : pc[w] \in {"claimed", "generating", "validating"} => claim[w] \notin published

\* The attempts of a target are its claims without the yielded ones.
AttemptInv ==
    \A t \in Targets : /\ taken[t] = attempts[t] + deferrals[t]
                       /\ status[t] = "running" => attempts[t] > 0
                       /\ status[t] = "none" => attempts[t] = 0

SweepInv == \A t \in Targets : sweep[SweepOf[t]] = "none" => status[t] = "none"

IInv ==
    /\ TypeOK /\ RowAgrees /\ ClaimInv /\ StageInv /\ OneHead /\ NothingOfTheDeleted
    /\ AttemptInv /\ SweepInv /\ ClosedSweepsAreDone
=============================================================================
