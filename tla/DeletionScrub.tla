---------------------------- MODULE DeletionScrub ----------------------------
(***************************************************************************)
(* The scrub of one deleted account (deletion_scrub): other users' stored  *)
(* decks name the person, and passes over them replace the name, page by   *)
(* page, until a pass that began after the grace for decks in flight has   *)
(* left none.  The job row keeps the lease, the cursor and what is done;   *)
(* the cleanup loops of all processes, the thread the deletion kicks and   *)
(* the daily tick run passes of it.                                        *)
(*                                                                         *)
(* A row stands for a page of a store, numbered in the order of the scans. *)
(* Times are kept only as far as the code compares them: a time is before  *)
(* or after the end of the grace, and a lease has lapsed or not.           *)
(***************************************************************************)
EXTENDS Integers, FiniteSets

CONSTANTS
    Loops,      \* threads of run_pending: cleanup loops, the kicked thread
    Ticks,      \* threads of the daily tick
    N,          \* the pages of the stores
    League,     \* those of the captured leagues
    Pack,       \* the page of a deck's evidence pack
    Held,       \* those that get the rows of cards held since the deletion
    Broken,     \* those with rows whose redaction may raise
    Pages,      \* the pages a run may scan
    MaxFaults,  \* bound: raises, deaths and lapses of a lease in use
    None

Threads == Loops \cup Ticks
Rows    == 1 .. N

ASSUME RowsAssumption ==
    /\ N \in Nat /\ Pack \in Rows
    /\ League \subseteq Rows /\ Held \subseteq Rows /\ Broken \subseteq Rows
ASSUME PagesAssumption == Pages \in Nat /\ MaxFaults \in Nat

VARIABLES
    names,    \* rows that name the person
    poison,   \* rows whose redaction raises
    late,     \* IN_FLIGHT_GRACE has passed since the deletion
    job,      \* the row of deletion_scrub_jobs, or None once deleted
    lease, lapsed,         \* its claimed_until, and whether that has passed
    started,  \* `now` of each thread's run: was it late?
    pc, held, work, left,  \* the lease, the pass and the pages left of its run
    upgrade,  \* the upgrade of a held card: what it found, and its page
    missed,   \* history: the pages of those that found no token for the person
    faults

cards   == <<upgrade, missed>>
data    == <<names, poison, late>>
locals  == <<started, pc, held, work, left>>
claim   == <<lease, lapsed>>
vars    == <<data, job, claim, locals, cards, faults>>

\* `scan_json`, and the state of a running pass: the rows behind the cursor
\* (N + 1 when the scans have ended), whether one failed, when it started.
Pass == [at : 0 .. N + 1, failed : BOOLEAN, late : BOOLEAN]

\* `done` is when the last finished pass began, `failed` whether last_error
\* is "row_failures", `model` whether the model store is redacted.
Job == [scan : Pass \cup {None}, done : {"never", "early", "late"},
        failed : BOOLEAN, model : BOOLEAN]

ASSUME NoneAssumption == None \notin Pass \cup Job

NoUpgrade == [found |-> "nothing", at |-> Pack]

NewJob == [scan |-> None, done |-> "never", failed |-> FALSE, model |-> FALSE]

Init ==
    /\ names \in SUBSET Rows /\ poison \in SUBSET Broken
    /\ late = FALSE
    /\ job = NewJob /\ lease = None /\ lapsed = FALSE
    /\ started = [p \in Threads |-> FALSE]
    /\ pc = [p \in Threads |-> "idle"]
    /\ held = [p \in Threads |-> None]
    /\ work = [p \in Threads |-> None]
    /\ left = [p \in Threads |-> 0]
    /\ upgrade = NoUpgrade /\ missed = {}
    /\ faults = 0

-----------------------------------------------------------------------------
(* Claims and leases *)

\* Values of claimed_until: each claim and renewal takes one no thread knows.
Stamps == 0 .. Cardinality(Threads) + 1
ASSUME LeaseAssumption == IsFiniteSet(Threads) /\ None \notin Stamps

Fresh  == CHOOSE s \in Stamps : s # lease /\ \A p \in Threads : held[p] # s

Claimable == job # None /\ (lease = None \/ lapsed)

DueOnce(p) == job.done = "never"  \* Faulty: the first pass is the last.
Due(p)     == job.done = "never" \/ (started[p] /\ job.done = "early")

Holds(p)   == job # None /\ lease = held[p]
Working(p) == pc[p] \in {"league", "scan"}
Leased(s)  == lease' = s /\ lapsed' = FALSE

Renew(p)   == Leased(Fresh) /\ held' = [held EXCEPT ![p] = Fresh]

Goto(p, l) == pc' = [pc EXCEPT ![p] = l]

\* The end of a thread's run, if it had one.
Leave(p) ==
    /\ Goto(p, IF p \in Ticks THEN "ready" ELSE "finish")
    /\ held' = [held EXCEPT ![p] = None]
    /\ work' = [work EXCEPT ![p] = None]
    /\ left' = [left EXCEPT ![p] = 0]
    /\ started' = [started EXCEPT ![p] = FALSE]

Start(p) ==
    /\ pc[p] = "idle"
    /\ started' = [started EXCEPT ![p] = late]
    /\ Goto(p, "read")
    /\ UNCHANGED <<data, job, claim, held, work, left, cards, faults>>

\* _claim_one reads the row in one transaction ...
Read(p) ==
    /\ pc[p] = "read" /\ Claimable /\ Due(p)
    /\ held' = [held EXCEPT ![p] = lease]
    /\ work' = [work EXCEPT ![p] = job.scan]
    /\ Goto(p, "take")
    /\ UNCHANGED <<data, job, claim, started, left, cards, faults>>

NothingDue(p) ==
    /\ pc[p] = "read" /\ ~(Claimable /\ Due(p))
    /\ Leave(p)
    /\ UNCHANGED <<data, job, claim, cards, faults>>

\* ... and takes the lease it read in another.
Take(p) ==
    /\ pc[p] = "take" /\ Holds(p)
    /\ Renew(p)
    /\ left' = [left EXCEPT ![p] = Pages]
    /\ Goto(p, IF work[p] = None THEN "league" ELSE "scan")
    /\ UNCHANGED <<data, job, started, work, cards, faults>>

\* Another runner has the lease: this one neither works nor writes.
Lost(p) ==
    /\ pc[p] = "take" \/ Working(p)
    /\ ~Holds(p)
    /\ Leave(p)
    /\ UNCHANGED <<data, job, claim, cards, faults>>
-----------------------------------------------------------------------------
(* A run of a pass *)

Redacted(R) == names \ (R \ poison)
Failed(R)   == R \cap poison \cap names # {}

Begun(p) == [at |-> 0, failed |-> Failed(League), late |-> started[p]]

\* The league pass, once when a pass starts.
LeaguePass(p) ==
    /\ pc[p] = "league" /\ Holds(p)
    /\ Renew(p)
    /\ names' = Redacted(League)
    /\ work' = [work EXCEPT ![p] = Begun(p)]
    /\ Goto(p, "scan")
    /\ UNCHANGED <<poison, late, job, started, left, cards, faults>>

Scanning(p) == pc[p] = "scan" /\ left[p] > 0 /\ work[p].at <= N
Page(p)     == Rows \cap {work[p].at + 1}

LastFailure(p) ==  \* Faulty: only the failures of this page are kept.
    [work[p] EXCEPT !.at = @ + 1, !.failed = Failed(Page(p))]

Advanced(p) == [work[p] EXCEPT !.at = @ + 1, !.failed = @ \/ Failed(Page(p))]

\* A page of the fallback scans; the last one is empty.
ScanPage(p) ==
    /\ Scanning(p) /\ Holds(p)
    /\ Renew(p)
    /\ names' = Redacted(Page(p))
    /\ work' = [work EXCEPT ![p] = Advanced(p)]
    /\ left' = [left EXCEPT ![p] = @ - 1]
    /\ UNCHANGED <<poison, late, job, started, pc, cards, faults>>

Ending(p) == pc[p] = "scan" /\ ~Scanning(p) /\ Holds(p)

Save(p, row, until) ==
    /\ job' = row /\ Leased(until)
    /\ Leave(p)
    /\ UNCHANGED <<data, cards, faults>>

\* The pages of the run are used up: the next run resumes at the cursor.
Suspend(p) ==
    /\ Ending(p) /\ work[p].at <= N
    /\ Save(p, [job EXCEPT !.scan = work[p], !.failed = FALSE], None)

\* Some row was not redacted: the pass runs again after a while.
Postpone(p) ==
    /\ Ending(p) /\ work[p].at = N + 1 /\ work[p].failed
    /\ Save(p, [job EXCEPT !.scan = None, !.failed = TRUE], Fresh)

DoneAtEnd(p)   == IF late THEN "late" ELSE "early"  \* Faulty: the end of the pass.
DoneAtStart(p) == IF work[p].late THEN "late" ELSE "early"

Complete(p) ==
    /\ Ending(p) /\ work[p].at = N + 1 /\ ~work[p].failed
    /\ Save(p, [job EXCEPT !.scan = None, !.failed = FALSE, !.done = DoneAtStart(p)], None)

\* A store raises: the lease is given back, the cursor stays where it was.
Raise(p) ==
    /\ pc[p] = "league" \/ Scanning(p)
    /\ faults < MaxFaults
    /\ faults' = faults + 1
    /\ IF Holds(p) THEN job' = [job EXCEPT !.failed = FALSE] /\ Leased(None)
       ELSE UNCHANGED <<job, claim>>
    /\ Leave(p)
    /\ UNCHANGED <<data, cards>>
-----------------------------------------------------------------------------
(* After the passes *)

Finished == job.model /\ job.done = "late" /\ job.scan = None

Finish(p) ==
    /\ pc[p] = "finish"
    /\ IF job # None /\ Finished THEN job' = None /\ Leased(None)
       ELSE UNCHANGED <<job, claim>>
    /\ Goto(p, "idle")
    /\ UNCHANGED <<data, started, held, work, left, cards, faults>>

\* The tick redacts the model store of a job whose rows are scrubbed, as far
\* as they can be.
Ready == job # None /\ ~job.model /\ (job.done # "never" \/ job.failed)

Check(t) ==
    /\ pc[t] = "ready"
    /\ Goto(t, IF Ready THEN "model" ELSE "finish")
    /\ UNCHANGED <<data, job, claim, started, held, work, left, cards, faults>>

RedactModel(t) ==
    /\ pc[t] = "model"
    /\ job' = IF job = None THEN None ELSE [job EXCEPT !.model = TRUE]
    /\ Goto(t, "finish")
    /\ UNCHANGED <<data, claim, started, held, work, left, cards, faults>>

RedactModelFails(t) ==
    /\ pc[t] = "model"
    /\ faults < MaxFaults
    /\ faults' = faults + 1
    /\ job' = IF job = None THEN None ELSE [job EXCEPT !.failed = FALSE]
    /\ Goto(t, "finish")
    /\ UNCHANGED <<data, claim, started, held, work, left, cards>>
-----------------------------------------------------------------------------
(* Time, deaths, the writers of decks, and repairs *)

GraceEnds == ~late /\ late' = TRUE /\ UNCHANGED <<names, poison, job, claim, locals, cards, faults>>

\* The lease of a thread that died, or the delay after a failed row, ends.
Lapse ==
    /\ job # None /\ lease # None /\ ~lapsed
    /\ ~\E p \in Threads : Working(p) /\ Holds(p)
    /\ lapsed' = TRUE
    /\ UNCHANGED <<data, job, lease, locals, cards, faults>>

\* A run takes longer than its lease.
Outlast(p) ==
    /\ Working(p) /\ Holds(p) /\ ~lapsed
    /\ faults < MaxFaults
    /\ faults' = faults + 1
    /\ lapsed' = TRUE
    /\ UNCHANGED <<data, job, lease, locals, cards>>

Die(p) ==
    /\ pc[p] # "idle"
    /\ faults < MaxFaults
    /\ faults' = faults + 1
    /\ Goto(p, "idle")
    /\ held' = [held EXCEPT ![p] = None]
    /\ work' = [work EXCEPT ![p] = None]
    /\ left' = [left EXCEPT ![p] = 0]
    /\ started' = [started EXCEPT ![p] = FALSE]
    /\ UNCHANGED <<data, job, claim, cards>>

\* A deck in flight at the deletion is written from its build-time snapshot.
Write(r) ==
    /\ ~late
    /\ names' = names \cup {r}
    /\ UNCHANGED <<poison, late, job, claim, locals, cards, faults>>

Upgrades(found, r) == upgrade' = [found |-> found, at |-> r]

\* An outcome on a card still held from before the deletion writes a full row
\* from its snapshot, which names the person.  A pack that is redacted has it
\* redacted as well, and nothing more to tell.
ReadPack(r) ==
    /\ upgrade = NoUpgrade
    /\ Pack \in names
    /\ Upgrades("named pack", r)
    /\ UNCHANGED <<data, job, claim, locals, missed, faults>>

NoToken == FALSE  \* Faulty: only a redacted pack redacts the row.
\* The map of the live tokens has the person, while the job lives.
Token   == job # None

\* The row is redacted by a token, or is to be written as it is.
ReadToken ==
    /\ upgrade.found = "named pack"
    /\ IF Token THEN upgrade' = NoUpgrade ELSE Upgrades("no token", upgrade.at)
    /\ missed' = IF job = None THEN missed \cup {upgrade.at} ELSE missed
    /\ UNCHANGED <<data, job, claim, locals, faults>>

\* The map cannot be read: an empty one will do.
ReadTokenFails ==
    /\ upgrade.found = "named pack"
    /\ faults < MaxFaults
    /\ faults' = faults + 1
    /\ Upgrades("no token", upgrade.at)
    /\ missed' = missed \cup {upgrade.at}
    /\ UNCHANGED <<data, job, claim, locals>>

WriteRow ==
    /\ upgrade.found = "no token"
    /\ names' = names \cup {upgrade.at}
    /\ upgrade' = NoUpgrade
    /\ UNCHANGED <<poison, late, job, claim, locals, missed, faults>>

Upgrade == (\E r \in Held : ReadPack(r)) \/ ReadToken \/ WriteRow

\* A row the scrub cannot rewrite is repaired by hand.
Repair(r) ==
    /\ r \in poison
    /\ poison' = poison \ {r}
    /\ UNCHANGED <<names, late, job, claim, locals, cards, faults>>
-----------------------------------------------------------------------------
Run(p) ==
    \/ Read(p) \/ NothingDue(p) \/ Take(p) \/ Lost(p)
    \/ LeaguePass(p) \/ ScanPage(p) \/ Suspend(p) \/ Postpone(p) \/ Complete(p)
    \/ Finish(p)

Phase(t) == Check(t) \/ RedactModel(t)

Fault(p) == Raise(p) \/ Outlast(p) \/ Die(p)

Environment == GraceEnds \/ Lapse \/ \E r \in Rows : Write(r) \/ Repair(r)

Next ==
    \/ \E p \in Threads : Start(p) \/ Run(p) \/ Fault(p)
    \/ \E t \in Ticks : Phase(t) \/ RedactModelFails(t)
    \/ Upgrade \/ ReadTokenFails
    \/ Environment

Spec == Init /\ [][Next]_vars

\* The cleanup loop and the daily tick come round again, runs go on, time
\* passes.  Nobody has to repair a row.  Each of these steps changes the variables
\* its condition names.
Fairness ==
    /\ \A p \in Threads : WF_locals(Start(p)) /\ WF_locals(Run(p))
    /\ \A t \in Ticks : WF_locals(Phase(t))
    /\ WF_late(GraceEnds) /\ WF_lapsed(Lapse)

FairSpec == Spec /\ Fairness
-----------------------------------------------------------------------------
(* Correctness *)

TypeOK ==
    /\ names \subseteq Rows /\ poison \subseteq Rows /\ late \in BOOLEAN
    /\ job \in Job \cup {None}
    /\ started \in [Threads -> BOOLEAN]
    /\ pc \in [Threads -> {"idle", "read", "take", "league", "scan", "ready", "model", "finish"}]
    /\ work \in [Threads -> Pass \cup {None}]
    /\ upgrade \in [found : {"nothing", "named pack", "no token"}, at : Rows]
    /\ missed \subseteq Rows

Passes == {work[p] : p \in Threads} \cup (IF job = None THEN {} ELSE {job.scan})

\* What a cursor says is true, whoever wrote it and whoever resumes it: behind
\* the cursor of a pass that began after the grace, only rows that pass has
\* counted as failed still name the person (_run_db and its scan_json), and
\* those of an upgrade that has missed the token.
CursorIsTrue ==
    \A w \in Passes \ {None} :
        w.late /\ ~w.failed => \A r \in names \ missed : r > w.at

\* A scrub that is finished, or whose pass counts as the grace pass, has left
\* no row that names the person (_finish), and none is written afterwards, but
\* by an upgrade for which the job ended between its read of the pack and its
\* read of the tokens, or which could not read these (_redacted_held_row).
DoneIsClean == job = None \/ job.done = "late" => names \subseteq missed

\* A cursor saved behind a completed grace pass, by a runner that took the
\* lease on an old read of the row.  No pass is due for it, and _finish waits
\* for its end: the job stays for ever.
Stranded == job # None /\ job.done = "late" /\ job.scan # None

\* Once no row is beyond repair the job ends, whatever raised, died or was
\* overtaken before, unless its cursor was stranded (_db_due, _finish).
ScrubEnds == poison = {} ~> (job = None \/ Stranded)
=============================================================================
