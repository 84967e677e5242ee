------------------------- MODULE UserDataLifecycle -------------------------
(***************************************************************************)
(* backend/user_data_lifecycle.py with its two kinds of client:            *)
(*                                                                         *)
(*   - work threads (request threads, cron loops, daemons) that take a     *)
(*     revision snapshot, read their inputs, capture a lease per user and  *)
(*     write only while the lease is active; and those that take none (the *)
(*     weekly replenishment, the receipts grader), whose leases start when *)
(*     they are captured, after their inputs were read;                    *)
(*   - account deletions (accounts.deletion_scope / delete_user_data),     *)
(*     which close every alias of an account in sorted order, drain the    *)
(*     admitted work, commit, invalidate, and open the gates again.        *)
(*                                                                         *)
(* One step is one critical section of a lock, one database transaction,   *)
(* or one thread-local computation, so all interleavings of threads        *)
(* between critical sections are explored.  A deletion holds twice, as the *)
(* route does: DELETE /api/account opens a scope and delete_user_data      *)
(* opens a nested one on the same thread.                                  *)
(***************************************************************************)
EXTENDS Integers, Sequences, FiniteSets

CONSTANTS
    Users,        \* work keys, ordered as the code sorts them
    Workers,      \* threads that do user work
    Daemons,      \* those of them that only run what they are handed
    Deleters,     \* threads that serve account deletions
    None,         \* Python's None
    MaxRequests,  \* bound: deletions requested, threads spawned and work
                  \* begun without a snapshot
    MaxLeases     \* bound: leases one unit of work captures

ASSUME UsersAssumption == Users \subseteq Nat
ASSUME ThreadsAssumption == Workers \cap Deleters = {}
ASSUME NoneAssumption == None \notin Workers \cup Deleters \cup Int
ASSUME BoundsAssumption == MaxRequests \in Nat /\ MaxLeases \in Nat

VARIABLES
    \* the registry, and one _State per user (readers is derived from stack)
    revision, generation, deletedRevision, deleting, owner, depth,
    \* work threads
    wpc, started, lease, stack, workRevision, captures,
    \* deletion threads
    dpc, level, target, keys, acquired, draining, outcome, todo, stamp, requests,
    \* the database: which users one account binds together, and of the private
    \* rows of each user those that stand for an earlier life of the person, each
    \* known by whether its writer's lease vouched for what it had read
    bound, rows,
    \* history: committed deletions per user, the counts each thread read, and
    \* the users whose data it has read again inside their lease
    deletions, seen, fresh

registry == <<revision, generation, deletedRevision>>
gates    == <<deleting, owner, depth>>
work     == <<wpc, started, lease, stack, workRevision, captures>>
deletion == <<dpc, level, target, keys, acquired, draining, outcome, todo, stamp, requests>>
database == <<bound, rows>>
views    == <<seen, fresh>>
history  == <<deletions, views>>
vars     == <<registry, gates, work, deletion, database, history>>

Levels   == {1, 2}
Revision == Nat \cup {None}
Lease    == [user : Users, generation : Nat \cup {-1}, revision : Nat, marked : BOOLEAN]
Frame    == [user : Users, marked : BOOLEAN, prior : Revision]
Outcomes == {"none", "done", "busy", "failed", "retry"}

TypeGates ==
    /\ revision \in Nat
    /\ generation \in [Users -> Nat]
    /\ deletedRevision \in [Users -> Nat]
    /\ deleting \in [Users -> BOOLEAN]
    /\ owner \in [Users -> Deleters \cup {None}]
    /\ depth \in [Users -> Nat]

TypeWork ==
    /\ wpc \in [Workers -> {"idle", "reading", "running", "entering"}]
    /\ started \in [Workers -> Revision]
    /\ lease \in [Workers -> Lease \cup {None}]
    /\ stack \in [Workers -> Seq(Frame)]
    /\ workRevision \in [Workers -> Revision]
    /\ captures \in [Workers -> Nat]
    /\ seen \in [Workers -> [Users -> Nat]]
    /\ fresh \in [Workers -> SUBSET Users]

TypeDeletion ==
    /\ dpc \in [Deleters -> {"idle", "resolve", "lock", "drain", "commit",
                             "revise", "invalidate", "release"}]
    /\ level \in [Deleters -> Levels]
    /\ target \in [Deleters -> Users \cup {None}]
    /\ draining \in [Deleters -> Users \cup {None}]
    /\ outcome \in [Deleters -> Outcomes]
    /\ stamp \in [Deleters -> Nat]
    /\ requests \in Nat

TypeScopes ==
    /\ keys \in [Deleters -> [Levels -> SUBSET Users]]
    /\ acquired \in [Deleters -> [Levels -> SUBSET Users]]
    /\ todo \in [Deleters -> SUBSET Users]

TypeData ==
    /\ bound \in SUBSET Users
    /\ rows \in [Users -> SUBSET BOOLEAN]
    /\ deletions \in [Users -> Nat]

TypeOK == TypeGates /\ TypeWork /\ TypeDeletion /\ TypeScopes /\ TypeData

Init ==
    /\ revision = 0
    /\ generation = [u \in Users |-> 0]
    /\ deletedRevision = [u \in Users |-> 0]
    /\ deleting = [u \in Users |-> FALSE]
    /\ owner = [u \in Users |-> None]
    /\ depth = [u \in Users |-> 0]
    /\ wpc = [w \in Workers |-> "idle"]
    /\ started = [w \in Workers |-> None]
    /\ lease = [w \in Workers |-> None]
    /\ stack = [w \in Workers |-> <<>>]
    /\ workRevision = [w \in Workers |-> None]
    /\ captures = [w \in Workers |-> 0]
    /\ dpc = [d \in Deleters |-> "idle"]
    /\ level = [d \in Deleters |-> 1]
    /\ target = [d \in Deleters |-> None]
    /\ keys = [d \in Deleters |-> [l \in Levels |-> {}]]
    /\ acquired = [d \in Deleters |-> [l \in Levels |-> {}]]
    /\ draining = [d \in Deleters |-> None]
    /\ outcome = [d \in Deleters |-> "none"]
    /\ todo = [d \in Deleters |-> {}]
    /\ stamp = [d \in Deleters |-> 0]
    /\ requests = 0
    /\ bound \in {B \in SUBSET Users : Cardinality(B) # 1}  \* accounts as the process finds them
    /\ rows = [u \in Users |-> {}]
    /\ deletions = [u \in Users |-> 0]
    /\ seen = [w \in Workers |-> [u \in Users |-> 0]]
    /\ fresh = [w \in Workers |-> {}]

Lesser(a, b) == IF a <= b THEN a ELSE b

-----------------------------------------------------------------------------
(* Work threads *)

Held(w)    == {stack[w][i].user : i \in DOMAIN stack[w]}
Readers(u) == {w \in Workers : u \in Held(w)}

IgnoreParent(w, s) == IF s = None THEN revision ELSE s

\* `capture`'s effective start: an admitted parent's revision caps the caller's;
\* without either, the revision of the moment.
EffectiveStart(w, s) ==
    IF workRevision[w] = None THEN (IF s = None THEN revision ELSE s)
    ELSE IF s = None THEN workRevision[w]
    ELSE Lesser(s, workRevision[w])

\* A start is marked when it goes back to a snapshot taken before the inputs
\* were read: the caller's own, or that of a lease it is already inside.
Marked(w, s) == s # None \/ \E i \in DOMAIN stack[w] : stack[w][i].marked

CaptureWithoutRevision(w, u, s) ==
    [user |-> u, generation |-> generation[u], revision |-> EffectiveStart(w, s),
     marked |-> Marked(w, s)]

CaptureGlobalRevision(w, u, s) ==
    [user |-> u,
     generation |-> IF revision > EffectiveStart(w, s) THEN -1 ELSE generation[u],
     revision |-> EffectiveStart(w, s), marked |-> Marked(w, s)]

CapturedLease(w, u, s) ==
    [user |-> u,
     generation |-> IF deletedRevision[u] > EffectiveStart(w, s) THEN -1 ELSE generation[u],
     revision |-> EffectiveStart(w, s), marked |-> Marked(w, s)]

\* Work begins: with a `snapshot()`, marked before its database or upstream
\* reads (requests, the hourly and daily ticks), or with none.
Begin(w, s) ==
    /\ wpc[w] = "idle" /\ w \notin Daemons
    /\ s = None => requests < MaxRequests
    /\ requests' = IF s = None THEN requests + 1 ELSE requests
    /\ wpc' = [wpc EXCEPT ![w] = "reading"]
    /\ started' = [started EXCEPT ![w] = s]
    /\ UNCHANGED <<registry, gates, lease, stack, workRevision, captures, dpc, level, target, keys,
                   acquired, draining, outcome, todo, stamp, database, history>>

ReadInputs(w) ==
    /\ wpc[w] = "reading"
    /\ wpc' = [wpc EXCEPT ![w] = "running"]
    /\ seen' = [seen EXCEPT ![w] = deletions]
    /\ UNCHANGED <<registry, gates, started, lease, stack, workRevision, captures, deletion, database,
                   deletions, fresh>>

\* `capture(u, started=s)`: with the work's own snapshot, or with none when it is
\* nested or took none.  Without a start the revision is read just before the
\* user's state is; a deletion in between refuses the lease as one just after it.
Capture(w, u, s) ==
    /\ wpc[w] = "running"
    /\ captures[w] < MaxLeases
    /\ s = None => workRevision[w] # None \/ started[w] = None
    /\ captures' = [captures EXCEPT ![w] = @ + 1]
    /\ lease' = [lease EXCEPT ![w] = CapturedLease(w, u, s)]
    /\ wpc' = [wpc EXCEPT ![w] = "entering"]
    /\ UNCHANGED <<registry, gates, started, stack, workRevision, deletion, database, history>>

\* The wait loop's exit: the gate is open, or this thread is already inside.
MayPass(w, u) == ~deleting[u] \/ w \in Readers(u) \/ owner[u] = w

\* `Lease.active` entered.
Admit(w) ==
    LET l == lease[w]
        prior == workRevision[w]
        frame == [user |-> l.user, marked |-> l.marked, prior |-> prior] IN
    /\ wpc[w] = "entering"
    /\ MayPass(w, l.user)
    /\ l.generation = generation[l.user]
    /\ stack' = [stack EXCEPT ![w] = Append(@, frame)]
    /\ workRevision' = [workRevision EXCEPT ![w] =
                          IF prior = None THEN l.revision ELSE Lesser(prior, l.revision)]
    /\ lease' = [lease EXCEPT ![w] = None]
    /\ wpc' = [wpc EXCEPT ![w] = "running"]
    /\ UNCHANGED <<registry, gates, started, captures, deletion, database, history>>

\* `active` yields False: the work for this user is skipped.
Refuse(w) ==
    /\ wpc[w] = "entering"
    /\ MayPass(w, lease[w].user)
    /\ lease[w].generation # generation[lease[w].user]
    /\ lease' = [lease EXCEPT ![w] = None]
    /\ wpc' = [wpc EXCEPT ![w] = "running"]
    /\ UNCHANGED <<registry, gates, started, stack, workRevision, captures, deletion, database, history>>

\* A captured lease handed to a fresh thread (session-init writes, trade jobs,
\* the event queue): ContextVars do not follow, the closure's inputs do.
\* Bound: the new thread takes no further leases.
Spawn(w, child) ==
    /\ wpc[w] = "entering"
    /\ wpc[child] = "idle" /\ child \in Daemons
    /\ requests < MaxRequests
    /\ requests' = requests + 1
    /\ lease' = [lease EXCEPT ![child] = lease[w], ![w] = None]
    /\ captures' = [captures EXCEPT ![child] = MaxLeases]
    /\ seen' = [seen EXCEPT ![child] = seen[w]]
    /\ wpc' = [wpc EXCEPT ![child] = "entering", ![w] = "running"]
    /\ UNCHANGED <<registry, gates, started, stack, workRevision, dpc, level, target, keys, acquired,
                   draining, outcome, todo, stamp, database, deletions, fresh>>

\* Inputs about u read again inside a lease for u (the preferences a push reads,
\* the impression a grade is about); a reading that finds no change is left out.
Reread(w, u) ==
    /\ wpc[w] = "running"
    /\ u \in Held(w)
    /\ seen[w][u] # deletions[u]
    /\ seen' = [seen EXCEPT ![w][u] = deletions[u]]
    /\ fresh' = [fresh EXCEPT ![w] = @ \cup {u}]
    /\ UNCHANGED <<registry, gates, work, deletion, database, deletions>>

\* w read its inputs about u after the start of the lease it holds for u.
Vouched(w, u) ==
    u \in fresh[w] \/ \E i \in DOMAIN stack[w] : stack[w][i].user = u /\ stack[w][i].marked

\* A write of u's private rows, derived from what this work read of u.
Write(w, u) ==
    /\ wpc[w] = "running"
    /\ u \in Held(w)
    /\ rows' = [rows EXCEPT ![u] = IF seen[w][u] = deletions[u] THEN @ ELSE @ \cup {Vouched(w, u)}]
    /\ UNCHANGED <<registry, gates, work, deletion, bound, history>>

\* Sign-in and link-sleeper bind two identities to one account, holding both.
Bind(w, u, v) ==
    /\ wpc[w] = "running"
    /\ {u, v} \subseteq Held(w)
    /\ u # v /\ v \notin bound
    /\ bound = {} \/ u \in bound
    /\ bound' = bound \cup {u, v}
    /\ UNCHANGED <<registry, gates, work, deletion, rows, history>>

\* Leaving the innermost `active`: its revision token is reset.
Exit(w) ==
    /\ wpc[w] = "running"
    /\ stack[w] # <<>>
    /\ workRevision' = [workRevision EXCEPT ![w] = stack[w][Len(stack[w])].prior]
    /\ stack' = [stack EXCEPT ![w] = SubSeq(@, 1, Len(@) - 1)]
    /\ fresh' = [fresh EXCEPT ![w] = @ \cap Held(w)']
    /\ UNCHANGED <<registry, gates, wpc, started, lease, captures, deletion, database, deletions, seen>>

Finish(w) ==
    /\ wpc[w] = "running"
    /\ stack[w] = <<>>
    /\ wpc' = [wpc EXCEPT ![w] = "idle"]
    /\ started' = [started EXCEPT ![w] = None]
    /\ seen' = [seen EXCEPT ![w] = [u \in Users |-> 0]]
    /\ captures' = [captures EXCEPT ![w] = 0]
    /\ UNCHANGED <<registry, gates, lease, stack, workRevision, deletion, database, deletions, fresh>>

-----------------------------------------------------------------------------
(* Deletion threads *)

\* `_user_data_scope`: every identity bound to the account of u.
Scope(u) == IF u \in bound THEN bound ELSE {u}

\* Nothing was bound to the account since its aliases were resolved.
StillComplete(d) == Scope(target[d]) \subseteq keys[d][level[d]]

\* The next alias `hold` visits: the least one it has not taken.
IsNextKey(d, u) ==
    LET left == keys[d][level[d]] \ acquired[d][level[d]]
    IN  u \in left /\ \A v \in left : u <= v

Request(d, u) ==
    /\ dpc[d] = "idle"
    /\ requests < MaxRequests
    /\ requests' = requests + 1
    /\ target' = [target EXCEPT ![d] = u]
    /\ level' = [level EXCEPT ![d] = 1]
    /\ dpc' = [dpc EXCEPT ![d] = "resolve"]
    /\ outcome' = [outcome EXCEPT ![d] = "none"]
    /\ UNCHANGED <<registry, gates, work, keys, acquired, draining, todo, stamp, database, history>>

\* deletion_scope reads the aliases to hold.
Resolve(d) ==
    /\ dpc[d] = "resolve"
    /\ keys' = [keys EXCEPT ![d][level[d]] = Scope(target[d])]
    /\ dpc' = [dpc EXCEPT ![d] = "lock"]
    /\ outcome' = [outcome EXCEPT ![d] = "none"]
    /\ UNCHANGED <<registry, gates, work, level, target, acquired, draining, todo, stamp, requests,
                   database, history>>

\* `hold`, an alias this thread already owns.
Reenter(d, u) ==
    /\ dpc[d] = "lock"
    /\ IsNextKey(d, u)
    /\ owner[u] = d
    /\ depth' = [depth EXCEPT ![u] = @ + 1]
    /\ acquired' = [acquired EXCEPT ![d][level[d]] = @ \cup {u}]
    /\ UNCHANGED <<registry, deleting, owner, work, dpc, level, target, keys, draining, outcome,
                   todo, stamp, requests, database, history>>

\* `hold`, closing the gate of the next alias to new work.
Close(d, u) ==
    /\ dpc[d] = "lock"
    /\ IsNextKey(d, u)
    /\ owner[u] # d
    /\ ~deleting[u]
    /\ deleting' = [deleting EXCEPT ![u] = TRUE]
    /\ acquired' = [acquired EXCEPT ![d][level[d]] = @ \cup {u}]
    /\ draining' = [draining EXCEPT ![d] = u]
    /\ dpc' = [dpc EXCEPT ![d] = "drain"]
    /\ UNCHANGED <<registry, owner, depth, work, level, target, keys, outcome, todo, stamp, requests,
                   database, history>>

NeverInside(u) == FALSE

\* `st.readers` is not empty.
Inside(u) == Readers(u) # {}

\* `hold`, the last admitted thread has left.
Drained(d) ==
    LET u == draining[d] IN
    /\ dpc[d] = "drain"
    /\ ~Inside(u)
    /\ owner' = [owner EXCEPT ![u] = d]
    /\ depth' = [depth EXCEPT ![u] = 1]
    /\ draining' = [draining EXCEPT ![d] = None]
    /\ dpc' = [dpc EXCEPT ![d] = "lock"]
    /\ UNCHANGED <<registry, deleting, work, level, target, keys, acquired, outcome, todo, stamp,
                   requests, database, history>>

OnlyClosing(d) == dpc[d] = "lock" /\ \E u \in Users : IsNextKey(d, u) /\ owner[u] # d /\ deleting[u]

\* `hold` is in a timed wait: for another deletion, or for its readers.
Waiting(d) ==
    \/ dpc[d] = "lock" /\ \E u \in Users : IsNextKey(d, u) /\ owner[u] # d /\ deleting[u]
    \/ dpc[d] = "drain" /\ Inside(draining[d])

\* ... and its deadline passes: UserDataBusy.
Timeout(d) ==
    /\ Waiting(d)
    /\ dpc' = [dpc EXCEPT ![d] = "release"]
    /\ outcome' = [outcome EXCEPT ![d] = "busy"]
    /\ UNCHANGED <<registry, gates, work, level, target, keys, acquired, draining, todo, stamp,
                   requests, database, history>>

\* Every alias is held: deletion_scope resolves again, and starts over if a
\* bind that was finishing has added one.
Recheck(d) ==
    /\ dpc[d] = "lock"
    /\ acquired[d][level[d]] = keys[d][level[d]]
    /\ IF StillComplete(d)
       THEN /\ IF level[d] = 1
               THEN /\ dpc' = [dpc EXCEPT ![d] = "resolve"]
                    /\ level' = [level EXCEPT ![d] = 2]
               ELSE /\ dpc' = [dpc EXCEPT ![d] = "commit"]
                    /\ UNCHANGED level
            /\ UNCHANGED outcome
       ELSE /\ dpc' = [dpc EXCEPT ![d] = "release"]
            /\ outcome' = [outcome EXCEPT ![d] = "retry"]
            /\ UNCHANGED level
    /\ UNCHANGED <<registry, gates, work, target, keys, acquired, draining, todo, stamp, requests,
                   database, history>>

\* _delete_user_data's transaction commits for the aliases it resolves itself.
Commit(d) ==
    LET gone == Scope(target[d]) IN
    /\ dpc[d] = "commit"
    /\ rows' = [u \in Users |-> IF u \in gone THEN {} ELSE rows[u]]
    /\ deletions' = [u \in Users |-> IF u \in gone THEN deletions[u] + 1 ELSE deletions[u]]
    /\ bound' = bound \ gone
    /\ todo' = [todo EXCEPT ![d] = gone]
    /\ dpc' = [dpc EXCEPT ![d] = "revise"]
    /\ UNCHANGED <<registry, gates, work, level, target, keys, acquired, draining, outcome, stamp,
                   requests, views>>

\* ... or rolls back.
CommitFails(d) ==
    /\ dpc[d] = "commit"
    /\ dpc' = [dpc EXCEPT ![d] = "release"]
    /\ outcome' = [outcome EXCEPT ![d] = "failed"]
    /\ UNCHANGED <<registry, gates, work, level, target, keys, acquired, draining, todo, stamp,
                   requests, database, history>>

\* `invalidate`: the global revision, then each alias under its own condition.
Revise(d) ==
    /\ dpc[d] = "revise"
    /\ revision' = revision + 1
    /\ stamp' = [stamp EXCEPT ![d] = revision + 1]
    /\ dpc' = [dpc EXCEPT ![d] = "invalidate"]
    /\ UNCHANGED <<generation, deletedRevision, gates, work, level, target, keys, acquired, draining,
                   outcome, todo, requests, database, history>>

Invalidate(d, u) ==
    /\ dpc[d] = "invalidate"
    /\ u \in todo[d]
    /\ generation' = [generation EXCEPT ![u] = @ + 1]
    /\ deletedRevision' = [deletedRevision EXCEPT ![u] = stamp[d]]
    /\ todo' = [todo EXCEPT ![d] = @ \ {u}]
    /\ UNCHANGED <<revision, gates, work, dpc, level, target, keys, acquired, draining, outcome,
                   stamp, requests, database, history>>

Invalidated(d) ==
    /\ dpc[d] = "invalidate"
    /\ todo[d] = {}
    /\ dpc' = [dpc EXCEPT ![d] = "release"]
    /\ outcome' = [outcome EXCEPT ![d] = "done"]
    /\ stamp' = [stamp EXCEPT ![d] = 0]
    /\ UNCHANGED <<registry, gates, work, level, target, keys, acquired, draining, todo, requests,
                   database, history>>

OpensWhenOwned(u) == depth[u] - 1 = 0

Opens(u) == depth[u] - 1 <= 0

\* `hold`'s finally clause, in reverse order of acquisition; a gate whose depth
\* reaches zero opens (a depth of -1 is a gate never drained: reset to 0).
Release(d, u) ==
    /\ dpc[d] = "release"
    /\ u \in acquired[d][level[d]]
    /\ \A v \in acquired[d][level[d]] : v <= u
    /\ acquired' = [acquired EXCEPT ![d][level[d]] = @ \ {u}]
    /\ draining' = [draining EXCEPT ![d] = IF @ = u THEN None ELSE @]
    /\ IF Opens(u)
       THEN /\ depth' = [depth EXCEPT ![u] = 0]
            /\ deleting' = [deleting EXCEPT ![u] = FALSE]
            /\ owner' = [owner EXCEPT ![u] = None]
       ELSE /\ depth' = [depth EXCEPT ![u] = @ - 1]
            /\ UNCHANGED <<deleting, owner>>
    /\ UNCHANGED <<registry, work, dpc, level, target, keys, outcome, todo, stamp, requests,
                   database, history>>

\* The scope is closed.  A retry resolves again unless the deadline has passed
\* meanwhile (UserDataBusy); everything else unwinds to the enclosing scope.
Unwind(d) ==
    /\ dpc[d] = "release"
    /\ acquired[d][level[d]] = {}
    /\ \/ /\ outcome[d] = "retry"
          /\ dpc' = [dpc EXCEPT ![d] = "resolve"]
          /\ UNCHANGED <<level, outcome, keys, target>>
       \/ /\ level[d] = 2
          /\ level' = [level EXCEPT ![d] = 1]
          /\ outcome' = [outcome EXCEPT ![d] = IF @ = "retry" THEN "busy" ELSE @]
          /\ keys' = [keys EXCEPT ![d][2] = {}]
          /\ UNCHANGED <<dpc, target>>
       \/ /\ level[d] = 1
          /\ dpc' = [dpc EXCEPT ![d] = "idle"]
          /\ outcome' = [outcome EXCEPT ![d] = "none"]
          /\ keys' = [keys EXCEPT ![d][1] = {}]
          /\ target' = [target EXCEPT ![d] = None]
          /\ UNCHANGED level
    /\ UNCHANGED <<registry, gates, work, acquired, draining, todo, stamp, requests,
                   database, history>>

-----------------------------------------------------------------------------
WorkStep(w) ==
    \/ ReadInputs(w) \/ Admit(w) \/ Refuse(w) \/ Exit(w) \/ Finish(w)
    \/ \E s \in {revision, None} : Begin(w, s)
    \/ \E u \in Users, s \in {started[w], None} : Capture(w, u, s)
    \/ \E child \in Workers : Spawn(w, child)
    \/ \E u \in Users : Reread(w, u) \/ Write(w, u)
    \/ \E u, v \in Users : Bind(w, u, v)

PromptStep(d) ==
    \/ Resolve(d) \/ Drained(d) \/ Recheck(d) \/ Commit(d) \/ CommitFails(d)
    \/ Revise(d) \/ Invalidated(d) \/ Unwind(d)
    \/ \E u \in Users : Reenter(d, u) \/ Close(d, u) \/ Invalidate(d, u) \/ Release(d, u)

DeletionStep(d) == PromptStep(d) \/ Timeout(d)

Next ==
    \/ \E w \in Workers : WorkStep(w)
    \/ \E d \in Deleters : DeletionStep(d) \/ \E u \in Users : Request(d, u)

Spec == Init /\ [][Next]_vars

\* A thread that can move does, admitted work ends, and `hold`'s timed wait
\* expires.  Nothing makes new work begin or a deletion be requested.  Each step
\* named here changes `work` or `deletion`.
Runs(w) == ReadInputs(w) \/ Admit(w) \/ Refuse(w) \/ Exit(w) \/ Finish(w)

Fairness ==
    /\ \A w \in Workers : WF_work(Runs(w))
    /\ \A d \in Deleters : WF_deletion(DeletionStep(d))

FairSpec == Spec /\ Fairness
-----------------------------------------------------------------------------
(* Properties *)

\* No row is derived from inputs read before its user's last committed
\* deletion, if the work's lease goes back to a snapshot taken before the
\* reading, or the inputs were read inside the lease: such work, queued, waiting
\* or running when the account was deleted, never writes the person back
\* (Lease.active, capture, invalidate).  Work that read first and captured a
\* lease without a start has no such promise (the weekly replenishment's inbox
\* row, server.py:31162).
NoResurrection == \A u \in Users : TRUE \notin rows[u]

\* The same seen from the thread: while work is inside a user's lease that
\* vouches for what it read, no deletion of that user has committed since, so
\* whatever it writes next is current (the drain of hold, Lease.active).
HeldInv ==
    \A w \in Workers : \A u \in Held(w) : Vouched(w, u) => seen[w][u] = deletions[u]

\* When a deletion commits, its thread owns every identity the account now
\* resolves to, and no admitted thread is inside any of them (hold's drain and
\* deletion_scope's second resolution).
CommitIsExclusive ==
    \A d \in Deleters : dpc[d] = "commit" =>
        \A u \in Scope(target[d]) : owner[u] = d /\ Readers(u) = {}

\* A gate is closed exactly while some deletion has it in its acquired list,
\* by one deletion only, and its depth counts that deletion's scopes: neither
\* a timeout, a retry nor a failed commit leaves a gate shut (hold's finally).
Claimed(d) == acquired[d][1] \cup acquired[d][2]
DepthOf(d, u) ==
    (IF u \in acquired[d][1] THEN 1 ELSE 0) + (IF u \in acquired[d][2] THEN 1 ELSE 0)
GatesAccounted ==
    /\ \A d, e \in Deleters : d # e => Claimed(d) \cap Claimed(e) = {}
    /\ \A u \in Users : deleting[u] <=> \E d \in Deleters : u \in Claimed(d)
    /\ \A u \in Users : depth[u] = IF owner[u] = None THEN 0 ELSE DepthOf(owner[u], u)

\* Work is refused only for a user who was deleted: the deletion of anyone
\* else, even at the same moment, refuses nobody (capture compares the user's
\* own deleted_revision, not the global revision).
RefusalJustified ==
    [][\A w \in Workers : Refuse(w) => deletions[lease[w].user] > 0]_vars

\* A deletion that was asked for ends, whatever the threads it waits for do
\* (hold's deadline).
DeletionEnds == \A d \in Deleters : []<>(dpc[d] = "idle")

\* Work that waits at a closed gate is eventually admitted or refused.
WaiterAnswered == \A w \in Workers : []<>(wpc[w] # "entering")
-----------------------------------------------------------------------------
(* The inductive invariant behind the safety properties *)

\* A deletion of u committed, or is being made visible, after revision r.
Pending(u) == \E d \in Deleters : dpc[d] \in {"revise", "invalidate"} /\ u \in todo[d]
DeletedSince(u, r) ==
    \/ deletedRevision[u] > r
    \/ \E d \in Deleters : u \in todo[d] /\ dpc[d] = "revise"
    \/ \E d \in Deleters : u \in todo[d] /\ dpc[d] = "invalidate" /\ stamp[d] > r

TargetInv == \A d \in Deleters : dpc[d] # "idle" => target[d] \in Users

\* Where a deletion thread is, against what it has acquired.
Phase(d) ==
    /\ level[d] = 1 => acquired[d][2] = {}
    /\ dpc[d] = "idle" => level[d] = 1 /\ acquired[d][1] = {}
    /\ dpc[d] = "resolve" => acquired[d][level[d]] = {}
    /\ dpc[d] \in {"commit", "revise", "invalidate"} => level[d] = 2
    /\ dpc[d] \notin {"revise", "invalidate"} => todo[d] = {}
    /\ dpc[d] = "drain" => draining[d] # None
    /\ draining[d] # None =>
         /\ dpc[d] \in {"drain", "release"}
         /\ draining[d] \in acquired[d][level[d]]
         /\ level[d] = 2 => draining[d] \notin acquired[d][1]

PhaseInv == \A d \in Deleters : Phase(d)

\* What a deletion is about to commit, or has committed, it holds.
CommitInv ==
    \A d \in Deleters :
        /\ dpc[d] = "commit" => Scope(target[d]) \subseteq acquired[d][2]
        /\ todo[d] \subseteq acquired[d][2]

\* One user's gate, against the scopes that claim it.
Gate(u) ==
    /\ \A d, e \in Deleters : u \in Claimed(d) /\ u \in Claimed(e) => d = e
    /\ deleting[u] <=> \E d \in Deleters : u \in Claimed(d)
    /\ \A d \in Deleters : owner[u] = d <=> u \in Claimed(d) /\ draining[d] # u
    /\ owner[u] = None => depth[u] = 0
    /\ \A d \in Deleters : owner[u] = d => depth[u] = DepthOf(d, u)

GateInv == \A u \in Users : Gate(u)

WorkerInv ==
    \A w \in Workers :
        /\ wpc[w] = "entering" => lease[w] \in Lease
        /\ wpc[w] \in {"idle", "reading"} => stack[w] = <<>>
        /\ stack[w] = <<>> => workRevision[w] = None
        /\ stack[w] # <<>> => stack[w][1].prior = None
        /\ wpc[w] = "idle" => started[w] = None
        /\ started[w] # None => started[w] <= revision

ReaderInv == \A u \in Users : owner[u] # None => Readers(u) = {}

CountInv ==
    /\ \A u \in Users : deletions[u] = generation[u] + (IF Pending(u) THEN 1 ELSE 0)
    /\ \A u \in Users : deletedRevision[u] <= revision /\ (deletedRevision[u] > 0 => generation[u] > 0)
    /\ \A d \in Deleters : dpc[d] = "invalidate" =>
         stamp[d] <= revision /\ \A u \in todo[d] : deletedRevision[u] < stamp[d]

\* Whatever w read that is out of date, capturing with start r reveals.
Reveals(w, r) == \A u \in Users : seen[w][u] # deletions[u] => DeletedSince(u, r)
Revealing(w) == {r \in 0 .. revision : Reveals(w, r)}

\* Every marked start that w may capture with, now or after leaving a lease, is in R.
MarkedIn(w, R) ==
    /\ wpc[w] \in {"running", "entering"} => started[w] \in R \cup {None}
    /\ (\E i \in DOMAIN stack[w] : stack[w][i].marked) => workRevision[w] \in R
    /\ \A i, j \in DOMAIN stack[w] : i < j /\ stack[w][i].marked => stack[w][j].prior \in R
    /\ wpc[w] = "entering" /\ lease[w].marked => lease[w].revision \in R

RevealInv == \A w \in Workers : MarkedIn(w, Revealing(w))

FreshInv == \A w \in Workers : fresh[w] \subseteq Held(w)

\* What the generation of a captured lease says of its user and its work.
LeaseGood(w) ==
    /\ lease[w].generation <= generation[lease[w].user]
    /\ lease[w].generation = -1 => generation[lease[w].user] > 0
    /\ lease[w].marked /\ lease[w].generation = deletions[lease[w].user] =>
         seen[w][lease[w].user] = deletions[lease[w].user]

LeaseInv == \A w \in Workers : wpc[w] = "entering" => LeaseGood(w)

IInv ==
    /\ TypeOK /\ TargetInv /\ PhaseInv /\ CommitInv /\ GateInv /\ WorkerInv /\ ReaderInv
    /\ CountInv /\ RevealInv /\ FreshInv /\ LeaseInv /\ HeldInv /\ NoResurrection
=============================================================================
