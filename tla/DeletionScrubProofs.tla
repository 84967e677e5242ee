------------------------- MODULE DeletionScrubProofs -------------------------
(***************************************************************************)
(* A finished scrub is clean, for any threads, pages and faults, and       *)
(* whether or not runners overtake each other.  That needs no lease: a     *)
(* cursor is true because it carries the start of its pass and its         *)
(* failures, not because one runner moves it.  It is the end of the job    *)
(* that rests on the lease; the last part shows that one runner holds it,  *)
(* and what alone can leave a job without an end.                          *)
(***************************************************************************)
EXTENDS DeletionScrub, FiniteSetTheorems, TLAPS

\* A pass began after the grace only if that has ended, and is true of the rows.
Fits(w) ==
    /\ w \in Pass
    /\ w.late => late
    /\ w.late /\ ~w.failed => \A r \in names \ missed : r > w.at

PassInv == \A w \in Passes \ {None} : Fits(w)

RunInv ==
    /\ \A p \in Threads : started[p] => late
    /\ \A p \in Threads : pc[p] = "scan" => work[p] # None

DoneIsLate == job = None \/ job.done = "late" => late

\* A row about to be written as it is counts as missed.
UpgradeInv == upgrade.found = "no token" => upgrade.at \in missed

IInv == TypeOK /\ PassInv /\ RunInv /\ UpgradeInv /\ DoneIsLate /\ DoneIsClean

-----------------------------------------------------------------------------
(* The rows and the passes *)

\* Passes that were true stay true while no row but a missed one is named anew.
LEMMA OldPasses ==
    ASSUME IInv, Passes' \subseteq Passes \cup {None},
           names' \ missed' \subseteq names \ missed, late' = late
    PROVE  PassInv'
<1>. SUFFICES ASSUME NEW w \in Passes' \ {None} PROVE Fits(w)'
  BY DEF PassInv
<1>1. Fits(w)
  BY DEF IInv, PassInv
<1>. QED  BY <1>1 DEF Fits

\* What the cursor of a saved pass says is what a runner that reads it gets.
LEMMA LocalPasses ==
    ASSUME NEW p \in Threads, IInv,
           work' = [work EXCEPT ![p] = None] \/ work' = work,
           job' = None \/ (job # None /\ job' # None /\ job'.scan \in Passes \cup {None})
    PROVE  Passes' \subseteq Passes \cup {None}
<1>. work \in [Threads -> Pass \cup {None}]
  BY DEF IInv, TypeOK
<1>1. {work'[q] : q \in Threads} \subseteq Passes \cup {None}
  BY DEF Passes
<1>. QED  BY <1>1 DEF Passes

\* Redacting rows names none anew.
LEMMA RedactedShrinks == ASSUME NEW R PROVE Redacted(R) \subseteq names
<1>. QED  BY DEF Redacted

\* A pass that begins is true of all rows ahead of it.
LEMMA BegunFits ==
    ASSUME NEW p \in Threads, NEW w, w = Begun(p), IInv, names' \subseteq names, late' = late, missed' = missed
    PROVE  Fits(w)'
<1>. started \in [Threads -> BOOLEAN] /\ names \subseteq Rows /\ (started[p] => late)
  BY DEF IInv, TypeOK, RunInv
<1>1. w \in Pass /\ w.at = 0 /\ w.late = started[p]
  BY RowsAssumption DEF Begun, Pass, Failed
<1>. QED  BY <1>1, RowsAssumption DEF Fits, Rows

\* A page read without a failure names no one any more.
LEMMA AdvancedFits ==
    ASSUME NEW p \in Threads, NEW w, w = Advanced(p), IInv, Scanning(p),
           names' = Redacted(Page(p)), late' = late, missed' = missed
    PROVE  Fits(w)'
<1> DEFINE v == work[p]
<1>1. v \in Pass /\ v.at <= N /\ Fits(v)
  BY DEF IInv, TypeOK, RunInv, PassInv, Passes, Scanning
<1>2. w = [at |-> v.at + 1, failed |-> v.failed \/ Failed(Page(p)), late |-> v.late]
  BY <1>1 DEF Advanced, Pass
<1>3. w \in Pass /\ (Failed(Page(p)) => w.failed)
  <2>1. w.failed = (v.failed \/ Failed(Page(p)))
    BY <1>2
  <2>2. w \in Pass
    BY <1>1, <1>2, RowsAssumption DEF Pass, Failed
  <2>3. Failed(Page(p)) => w.failed
    BY <2>1, Zenon
  <2>. QED  BY <2>2, <2>3
<1>4. ASSUME w.late, ~w.failed, NEW r \in names' \ missed' PROVE r > w.at
  <2>1. r \in names /\ r \in Rows /\ r > v.at
    <3>1. r \in names \ missed /\ names \subseteq Rows
      BY <1>4, RedactedShrinks DEF IInv, TypeOK
    <3>2. w.late = v.late /\ w.failed = (v.failed \/ Failed(Page(p)))
      BY <1>2
    <3>3. v.late /\ ~v.failed
      BY <1>4, <3>2, Zenon
    <3>. QED  BY <1>1, <3>1, <3>3 DEF Fits
  <2>2. r # v.at + 1
    <3>1. SUFFICES ASSUME r \in Page(p) PROVE FALSE
      BY <2>1 DEF Page
    <3>2. r \in poison
      BY <1>4, <3>1 DEF Redacted
    <3>3. r \in Page(p) \cap poison \cap names
      BY <2>1, <3>1, <3>2
    <3>4. Failed(Page(p))
      BY <3>3 DEF Failed
    <3>. QED  BY <1>3, <1>4, <3>4
  <2>. QED  BY <1>1, <1>2, <2>1, <2>2, RowsAssumption DEF Pass, Rows
<1>. QED  BY <1>1, <1>2, <1>3, <1>4 DEF Fits

-----------------------------------------------------------------------------
(* Every step keeps the invariant *)

LEMMA InitIInv == Init => IInv
<1>. SUFFICES ASSUME Init PROVE IInv
  OBVIOUS
<1>1. TypeOK
  BY RowsAssumption DEF Init, TypeOK, Job, NewJob, NoUpgrade
<1>2. NewJob \in Job
  BY DEF NewJob, Job
<1>3. job # None /\ job.done = "never"
  BY <1>2, NoneAssumption DEF Init, NewJob
<1>4. Passes \subseteq {None}
  BY DEF Init, Passes, NewJob
<1>. QED  BY <1>1, <1>3, <1>4 DEF Init, IInv, PassInv, RunInv, UpgradeInv, NoUpgrade, DoneIsLate, DoneIsClean

LEMMA ClaimStep ==
    ASSUME NEW p \in Threads, IInv,
           Start(p) \/ Read(p) \/ NothingDue(p) \/ Take(p) \/ Lost(p)
    PROVE  IInv'
<1>1. TypeOK'
  BY DEF Start, Read, NothingDue, Take, Lost, Leave, Renew, Leased, Goto, Claimable, data, claim, cards, IInv, TypeOK, Job
<1>2. PassInv'
  <2>. work \in [Threads -> Pass \cup {None}]
    BY DEF IInv, TypeOK
  <2>1. {work'[q] : q \in Threads} \subseteq Passes \cup {None}
    BY DEF Start, Read, NothingDue, Take, Lost, Leave, Claimable, Passes
  <2>2. Passes' \subseteq Passes \cup {None}
    BY <2>1 DEF Start, Read, NothingDue, Take, Lost, data, Passes
  <2>. QED  BY <2>2, OldPasses DEF Start, Read, NothingDue, Take, Lost, data, cards
<1>3. RunInv'
  BY DEF Start, Read, NothingDue, Take, Lost, Leave, Goto, data, IInv, RunInv, TypeOK
<1>4. DoneIsLate' /\ DoneIsClean' /\ UpgradeInv'
  BY DEF Start, Read, NothingDue, Take, Lost, data, cards, IInv, UpgradeInv, DoneIsLate, DoneIsClean
<1>. QED  BY <1>1, <1>2, <1>3, <1>4 DEF IInv

LEMMA ScanStep ==
    ASSUME NEW p \in Threads, IInv, LeaguePass(p) \/ ScanPage(p)
    PROVE  IInv'
<1>. PICK w : w = work'[p]
  OBVIOUS
<1>1. /\ late' = late /\ started' = started /\ job' = job
      /\ names' \subseteq names /\ UNCHANGED cards /\ missed' = missed
  BY DEF LeaguePass, ScanPage, Redacted, cards
<1>2. Fits(w)' /\ work' = [work EXCEPT ![p] = w]
  <2>1. CASE LeaguePass(p)
    BY <1>1, <2>1, BegunFits DEF LeaguePass, IInv, TypeOK
  <2>2. CASE ScanPage(p)
    BY <1>1, <2>2, AdvancedFits DEF ScanPage, IInv, TypeOK
  <2>. QED  BY <2>1, <2>2
<1>3. TypeOK'
  BY <1>1, <1>2 DEF LeaguePass, ScanPage, Renew, Leased, Goto, Fits, cards, IInv, TypeOK
<1>4. PassInv'
  <2>1. ASSUME NEW v \in Passes', v # None, v # w PROVE v \in Passes
    BY <1>1, <1>2, <2>1 DEF Passes, IInv, TypeOK
  <2>2. ASSUME NEW v \in Passes, v # None PROVE Fits(v)'
    BY <1>1, <2>2 DEF IInv, PassInv, Fits
  <2>. QED  BY <1>2, <2>1, <2>2 DEF PassInv
<1>5. RunInv'
  BY <1>1, <1>2, NoneAssumption DEF LeaguePass, ScanPage, Goto, Fits, IInv, RunInv, TypeOK
<1>6. DoneIsLate' /\ DoneIsClean' /\ UpgradeInv'
  BY <1>1 DEF cards, IInv, UpgradeInv, DoneIsLate, DoneIsClean
<1>. QED  BY <1>3, <1>4, <1>5, <1>6 DEF IInv

\* The steps that write the job's row: what a pass that completes says is true.
LEMMA SaveStep ==
    ASSUME NEW p \in Threads, IInv, Suspend(p) \/ Postpone(p) \/ Complete(p)
    PROVE  IInv'
<1> DEFINE v == work[p]
<1>1. /\ job \in Job /\ v \in Pass /\ Fits(v) /\ v \in Passes
      /\ names' = names /\ late' = late /\ missed' = missed /\ upgrade' = upgrade
      /\ started' = [started EXCEPT ![p] = FALSE]
      /\ work' = [work EXCEPT ![p] = None]
      /\ pc' = [pc EXCEPT ![p] = IF p \in Ticks THEN "ready" ELSE "finish"]
  BY DEF Suspend, Postpone, Complete, Ending, Holds, Save, Leave, Goto, data, cards, IInv, TypeOK, RunInv, PassInv, Passes
<1>2. job' \in Job /\ job'.scan \in {None, v}
  BY <1>1 DEF Suspend, Postpone, Complete, Save, DoneAtStart, Job
<1>3. job' # None
  BY <1>2, NoneAssumption
<1>4. TypeOK'
  BY <1>1, <1>2, RowsAssumption DEF IInv, TypeOK, Suspend, Postpone, Complete, Save, data
<1>5. PassInv'
  <2>1. Passes' \subseteq Passes \cup {None}
    BY <1>1, <1>2, <1>3 DEF Passes, IInv, TypeOK
  <2>. QED  BY <1>1, <2>1, OldPasses
<1>6. RunInv'
  BY <1>1 DEF IInv, RunInv, TypeOK
<1>7. job'.done = "late" => late /\ names \subseteq missed
  <2>1. CASE Complete(p) /\ v.late
    <3>1. late /\ ~v.failed /\ v.at = N + 1 /\ \A r \in names \ missed : r > N + 1
      BY <1>1, <2>1 DEF Complete, Fits
    <3>2. names \subseteq Rows
      BY DEF IInv, TypeOK
    <3>. QED  BY <3>1, <3>2, RowsAssumption DEF Rows
  <2>2. CASE Complete(p) /\ ~v.late
    BY <1>1, <2>2 DEF Complete, Save, DoneAtStart, Job
  <2>3. CASE Suspend(p) \/ Postpone(p)
    BY <1>1, <2>3, NoneAssumption DEF Suspend, Postpone, Save, Job, IInv, DoneIsLate, DoneIsClean
  <2>. QED  BY <2>1, <2>2, <2>3
<1>8. DoneIsLate' /\ DoneIsClean' /\ UpgradeInv'
  BY <1>1, <1>3, <1>7 DEF IInv, UpgradeInv, DoneIsLate, DoneIsClean
<1>. QED  BY <1>4, <1>5, <1>6, <1>8 DEF IInv

LEMMA RaiseStep == ASSUME NEW p \in Threads, IInv, Raise(p) PROVE IInv'
<1>1. /\ names' = names /\ poison' = poison /\ late' = late
      /\ missed' = missed /\ upgrade' = upgrade
      /\ started' = [started EXCEPT ![p] = FALSE]
      /\ work' = [work EXCEPT ![p] = None]
      /\ pc' = [pc EXCEPT ![p] = IF p \in Ticks THEN "ready" ELSE "finish"]
  BY DEF Raise, Leave, Goto, data, cards
<1>2. job' = job \/ (job \in Job /\ job' = [job EXCEPT !.failed = FALSE])
  BY DEF Raise, Holds, IInv, TypeOK
<1>3. /\ job' \in Job \cup {None} /\ (job = None <=> job' = None)
      /\ job # None => job'.scan = job.scan /\ job'.done = job.done
  <2>1. CASE job' = job
    BY <2>1 DEF IInv, TypeOK
  <2>2. CASE job \in Job /\ job' = [job EXCEPT !.failed = FALSE]
    <3>1. job' \in Job /\ job'.scan = job.scan /\ job'.done = job.done
      BY <2>2 DEF Job
    <3>. QED  BY <2>2, <3>1, NoneAssumption
  <2>. QED  BY <1>2, <2>1, <2>2
<1>4. TypeOK'
  BY <1>1, <1>3 DEF IInv, TypeOK
<1>5. PassInv'
  <2>1. Passes' \subseteq Passes \cup {None}
    BY <1>1, <1>3 DEF Passes, IInv, TypeOK
  <2>. QED  BY <1>1, <2>1, OldPasses
<1>6. RunInv' /\ UpgradeInv' /\ DoneIsLate' /\ DoneIsClean'
  BY <1>1, <1>3 DEF IInv, RunInv, UpgradeInv, DoneIsLate, DoneIsClean, TypeOK
<1>. QED  BY <1>4, <1>5, <1>6 DEF IInv

\* Only a job whose grace pass is done is deleted.
LEMMA AfterStep ==
    ASSUME NEW p \in Threads, IInv,
           Finish(p) \/ Check(p) \/ RedactModel(p) \/ RedactModelFails(p) \/ Outlast(p) \/ Die(p)
    PROVE  IInv'
<1>1. /\ names' = names /\ poison' = poison /\ late' = late
      /\ missed' = missed /\ upgrade' = upgrade
      /\ \/ work' = work /\ started' = started
         \/ /\ work' = [work EXCEPT ![p] = None] /\ pc' = [pc EXCEPT ![p] = "idle"]
            /\ started' = [started EXCEPT ![p] = FALSE]
      /\ pc' = pc \/ \E l \in {"idle", "model", "finish"} : pc' = [pc EXCEPT ![p] = l]
  BY DEF Finish, Check, RedactModel, RedactModelFails, Outlast, Die, Goto, data, locals, cards
<1>2. \/ job' = job
      \/ job' = None /\ job # None /\ job.done = "late"
      \/ job \in Job /\ (job' = [job EXCEPT !.model = TRUE] \/ job' = [job EXCEPT !.failed = FALSE])
  BY DEF Finish, Finished, Check, RedactModel, RedactModelFails, Outlast, Die, IInv, TypeOK
<1>3. /\ job' \in Job \cup {None} /\ (job = None => job' = None)
      /\ job' = None => job = None \/ job.done = "late"
      /\ job' # None => job # None /\ job'.scan = job.scan /\ job'.done = job.done
  <2>1. CASE job' = job
    BY <2>1 DEF IInv, TypeOK
  <2>2. CASE job' = None /\ job # None /\ job.done = "late"
    BY <2>2
  <2>3. CASE job \in Job /\ (job' = [job EXCEPT !.model = TRUE] \/ job' = [job EXCEPT !.failed = FALSE])
    <3>1. job' \in Job /\ job'.scan = job.scan /\ job'.done = job.done
      BY <2>3 DEF Job
    <3>. QED  BY <2>3, <3>1, NoneAssumption
  <2>. QED  BY <1>2, <2>1, <2>2, <2>3
<1>4. TypeOK'
  BY <1>1, <1>3 DEF IInv, TypeOK
<1>5. PassInv'
  <2>. work \in [Threads -> Pass \cup {None}]
    BY DEF IInv, TypeOK
  <2>1. {work'[q] : q \in Threads} \subseteq Passes \cup {None}
    BY <1>1 DEF Passes
  <2>2. Passes' \subseteq Passes \cup {None}
    BY <1>3, <2>1 DEF Passes
  <2>. QED  BY <1>1, <2>2, OldPasses
<1>6. RunInv' /\ UpgradeInv' /\ DoneIsLate' /\ DoneIsClean'
  BY <1>1, <1>3 DEF IInv, RunInv, UpgradeInv, DoneIsLate, DoneIsClean, TypeOK
<1>. QED  BY <1>4, <1>5, <1>6 DEF IInv

\* Nobody but an upgrade names the person once a pass may count as the grace
\* pass.
LEMMA EnvironmentStep == ASSUME IInv, Environment PROVE IInv'
<1>1. /\ UNCHANGED <<job, started, work, pc, upgrade, missed>>
      /\ late' \in BOOLEAN /\ (late => late')
  BY DEF Environment, GraceEnds, Lapse, Write, Repair, data, locals, cards, IInv, TypeOK
<1>2. names' \subseteq Rows /\ poison' \subseteq Rows
  BY DEF Environment, GraceEnds, Lapse, Write, Repair, data, IInv, TypeOK
<1>3. names' \subseteq names \/ ~late
  BY DEF Environment, GraceEnds, Lapse, Write, Repair, data
<1>4. TypeOK'
  BY <1>1, <1>2 DEF IInv, TypeOK
<1>5. PassInv'
  <2>1. Passes' = Passes
    BY <1>1 DEF Passes
  <2>2. ASSUME NEW w \in Passes, w # None, names' \subseteq names PROVE Fits(w)'
    BY <1>1, <2>2 DEF IInv, PassInv, Fits
  <2>3. ASSUME NEW w \in Passes, w # None, ~late PROVE Fits(w)'
    BY <1>1, <2>3 DEF IInv, PassInv, Fits
  <2>. QED  BY <1>3, <2>1, <2>2, <2>3 DEF PassInv
<1>6. RunInv' /\ UpgradeInv' /\ DoneIsLate'
  BY <1>1 DEF IInv, RunInv, UpgradeInv, DoneIsLate
<1>7. DoneIsClean'
  BY <1>1, <1>3 DEF IInv, DoneIsLate, DoneIsClean
<1>. QED  BY <1>4, <1>5, <1>6, <1>7 DEF IInv

\* An upgrade writes a name only where it has missed the token.
LEMMA UpgradeStep == ASSUME IInv, Upgrade \/ ReadTokenFails PROVE IInv'
<1>1. UNCHANGED <<job, started, work, pc, poison, late>>
  BY DEF Upgrade, ReadPack, ReadToken, ReadTokenFails, WriteRow, data, locals
<1>2. /\ upgrade \in [found : {"nothing", "named pack", "no token"}, at : Rows]
      /\ missed \subseteq Rows /\ UpgradeInv
  BY DEF IInv, TypeOK
<1>3. /\ upgrade' \in [found : {"nothing", "named pack", "no token"}, at : Rows]
      /\ missed' \subseteq Rows /\ missed \subseteq missed'
      /\ UpgradeInv'
  <2>1. CASE \E r \in Held : ReadPack(r)
    <3>1. PICK r \in Rows : ReadPack(r)
      BY <2>1, RowsAssumption
    <3>. QED  BY <1>2, <3>1 DEF ReadPack, Upgrades, UpgradeInv
  <2>2. CASE WriteRow
    BY <1>2, <2>2, RowsAssumption DEF WriteRow, NoUpgrade, UpgradeInv
  <2>3. CASE ReadTokenFails
    BY <1>2, <2>3 DEF ReadTokenFails, Upgrades, UpgradeInv
  <2>4. CASE ReadToken /\ job = None
    <3>1. upgrade' = [found |-> "no token", at |-> upgrade.at] /\ missed' = missed \cup {upgrade.at}
      BY <2>4 DEF ReadToken, Token, Upgrades
    <3>. QED  BY <1>2, <3>1 DEF UpgradeInv
  <2>5. CASE ReadToken /\ job # None
    <3>1. upgrade' = NoUpgrade /\ missed' = missed
      BY <2>5 DEF ReadToken, Token
    <3>. QED  BY <1>2, <3>1, RowsAssumption DEF NoUpgrade, UpgradeInv
  <2>. QED  BY <2>1, <2>2, <2>3, <2>4, <2>5 DEF Upgrade
<1>4. names' \subseteq Rows /\ names' \ missed' \subseteq names \ missed
  <2>1. CASE WriteRow
    BY <1>2, <1>3, <2>1 DEF WriteRow, IInv, TypeOK, UpgradeInv
  <2>2. CASE names' = names
    BY <1>3, <2>2 DEF IInv, TypeOK
  <2>. QED  BY <2>1, <2>2 DEF Upgrade, ReadPack, ReadToken, ReadTokenFails, data
<1>5. TypeOK'
  BY <1>1, <1>3, <1>4 DEF IInv, TypeOK
<1>6. PassInv'
  <2>1. Passes' = Passes
    BY <1>1 DEF Passes
  <2>. QED  BY <1>1, <1>4, <2>1, OldPasses
<1>7. RunInv' /\ DoneIsLate'
  BY <1>1 DEF IInv, RunInv, DoneIsLate
<1>8. DoneIsClean'
  BY <1>1, <1>4 DEF IInv, DoneIsClean
<1>. QED  BY <1>3, <1>5, <1>6, <1>7, <1>8 DEF IInv

LEMMA NextIInv == IInv /\ [Next]_vars => IInv'
<1>. SUFFICES ASSUME IInv, [Next]_vars PROVE IInv'
  OBVIOUS
<1>1. ASSUME NEW p \in Threads, Start(p) \/ Run(p) PROVE IInv'
  BY <1>1, ClaimStep, ScanStep, SaveStep, AfterStep DEF Run
<1>2. ASSUME NEW p \in Threads, Fault(p) PROVE IInv'
  BY <1>2, RaiseStep, AfterStep DEF Fault
<1>3. ASSUME NEW t \in Ticks, Phase(t) \/ RedactModelFails(t) PROVE IInv'
  BY <1>3, AfterStep DEF Phase, Threads
<1>4. CASE UNCHANGED vars
  BY <1>4 DEF vars, data, locals, cards, IInv, TypeOK, PassInv, Passes, Fits, RunInv, UpgradeInv, DoneIsLate, DoneIsClean
<1>. QED  BY <1>1, <1>2, <1>3, <1>4, EnvironmentStep, UpgradeStep DEF Next

-----------------------------------------------------------------------------
(* The theorems *)

\* The rows, the job and the runs stay well formed.
THEOREM TypeCorrect == Spec => []TypeOK
<1>1. IInv => TypeOK
  BY DEF IInv
<1>. QED  BY <1>1, InitIInv, NextIInv, PTL DEF Spec

\* Behind the cursor of a pass that began after the grace only rows it counted
\* as failed name the person, and those of upgrades that missed the token,
\* however often runners raised, died or overtook each other.
THEOREM CursorsAreTrue == Spec => []CursorIsTrue
<1>1. IInv => CursorIsTrue
  BY DEF IInv, PassInv, CursorIsTrue, Fits
<1>. QED  BY <1>1, InitIInv, NextIInv, PTL DEF Spec

\* A scrub is finished, or its grace pass done, only once no row names the
\* person, and none does from then on but by an upgrade that read the pack
\* before the job ended and the tokens after it, or could not read these: the
\* reads and the write of an upgrade are steps of their own, with no lock that
\* the scrub takes (_redacted_held_row).
THEOREM FinishedIsClean == Spec => []DoneIsClean
<1>1. IInv => DoneIsClean
  BY DEF IInv
<1>. QED  BY <1>1, InitIInv, NextIInv, PTL DEF Spec

-----------------------------------------------------------------------------
(* The lease *)

\* A runner at work has a value of claimed_until that no other runner has.
LeaseInv ==
    /\ lease \in Stamps \cup {None} /\ held \in [Threads -> Stamps \cup {None}]
    /\ \A p \in Threads : Working(p) => held[p] # None
    /\ \A p, q \in Threads : Working(p) /\ Working(q) /\ held[p] = held[q] => p = q

\* There is a value that is neither in the row nor with a runner.
LEMMA FreshExists ==
    ASSUME LeaseInv
    PROVE  Fresh \in Stamps /\ Fresh # lease /\ \A p \in Threads : held[p] # Fresh
<1> DEFINE T == {held[p] : p \in Threads}
           U == T \cup {lease}
<1>1. IsFiniteSet(T) /\ Cardinality(T) \in Nat /\ Cardinality(T) <= Cardinality(Threads)
  <2>1. held \in Surjection(Threads, T)
    BY DEF LeaseInv, Surjection
  <2>. QED  BY <2>1, FS_Surjection, FS_CardinalityType, LeaseAssumption
<1>2. IsFiniteSet(U) /\ Cardinality(U) <= Cardinality(Threads) + 1 /\ Cardinality(Threads) \in Nat
  <2>. HIDE DEF T
  <2>1. IsFiniteSet(U) /\ Cardinality(U) = IF lease \in T THEN Cardinality(T) ELSE Cardinality(T) + 1
    BY <1>1, FS_AddElement
  <2>2. Cardinality(Threads) \in Nat
    BY FS_CardinalityType, LeaseAssumption
  <2>. QED  BY <1>1, <2>1, <2>2
<1>3. PICK s \in Stamps : s \notin U
  <2>. HIDE DEF U
  <2>1. SUFFICES ASSUME Stamps \subseteq U PROVE FALSE
    OBVIOUS
  <2>2. Cardinality(Stamps) = Cardinality(Threads) + 2
    BY <1>2, FS_Interval DEF Stamps
  <2>3. Cardinality(Stamps) <= Cardinality(U) /\ Cardinality(U) \in Nat
    BY <1>2, <2>1, FS_Subset, FS_CardinalityType
  <2>. QED  BY <1>2, <2>2, <2>3
<1>4. s # lease /\ \A p \in Threads : held[p] # s
  BY <1>3
<1>. QED  BY <1>4 DEF Fresh

\* A renewal gives a runner a value of its own.
LEMMA RenewKeeps ==
    ASSUME NEW p \in Threads, LeaseInv, TypeOK, Renew(p),
           \A q \in Threads \ {p} : pc'[q] = pc[q]
    PROVE  LeaseInv'
<1>1. Fresh \in Stamps /\ Fresh # None /\ \A q \in Threads : held[q] # Fresh
  BY FreshExists, LeaseAssumption
<1>2. lease' = Fresh /\ held' = [held EXCEPT ![p] = Fresh]
  BY DEF Renew, Leased
<1>3. PICK s : s = Fresh
  OBVIOUS
<1>. QED  BY <1>1, <1>2, <1>3 DEF LeaseInv, Working

\* Who leaves holds nothing, and does not work.
LEMMA LeaveKeeps ==
    ASSUME NEW p \in Threads, LeaseInv, TypeOK, lease' \in Stamps \cup {None},
           held' = [held EXCEPT ![p] = None], pc'[p] \notin {"league", "scan"},
           \A q \in Threads \ {p} : pc'[q] = pc[q]
    PROVE  LeaseInv'
BY DEF LeaseInv, Working

LEMMA LeaseKept ==
    ASSUME TypeOK, LeaseInv, [Next]_vars
    PROVE  LeaseInv'
<1>. USE DEF TypeOK, Goto
<1>1. ASSUME NEW p \in Threads, Start(p) PROVE LeaseInv'
  BY <1>1 DEF Start, LeaseInv, Working, claim
<1>2. ASSUME NEW p \in Threads, Read(p) PROVE LeaseInv'
  BY <1>2 DEF Read, LeaseInv, Working, claim
<1>3. ASSUME NEW p \in Threads, NothingDue(p) \/ Lost(p) PROVE LeaseInv'
  <2>1. lease' \in Stamps \cup {None}
    BY <1>3 DEF NothingDue, Lost, LeaseInv, claim
  <2>. QED  BY <1>3, <2>1, LeaveKeeps DEF NothingDue, Lost, Leave
<1>4. ASSUME NEW p \in Threads, Take(p) \/ LeaguePass(p) \/ ScanPage(p) PROVE LeaseInv'
  BY <1>4, RenewKeeps DEF Take, LeaguePass, ScanPage
<1>5. ASSUME NEW p \in Threads, Suspend(p) \/ Postpone(p) \/ Complete(p) PROVE LeaseInv'
  <2>1. lease' \in Stamps \cup {None}
    BY <1>5, FreshExists DEF Suspend, Postpone, Complete, Save, Leased
  <2>. QED  BY <1>5, <2>1, LeaveKeeps DEF Suspend, Postpone, Complete, Save, Leave
<1>6. ASSUME NEW p \in Threads, Raise(p) PROVE LeaseInv'
  <2>1. lease' \in Stamps \cup {None}
    BY <1>6 DEF Raise, Leased, claim, LeaseInv
  <2>. QED  BY <1>6, <2>1, LeaveKeeps DEF Raise, Leave
<1>7. ASSUME NEW p \in Threads, Die(p) PROVE LeaseInv'
  BY <1>7, LeaveKeeps DEF Die, claim, LeaseInv
<1>8. ASSUME NEW p \in Threads, Finish(p) \/ Check(p) \/ RedactModel(p) \/ RedactModelFails(p)
      PROVE  LeaseInv'
  <2>1. lease' \in Stamps \cup {None} /\ held' = held
    BY <1>8 DEF Finish, Check, RedactModel, RedactModelFails, Leased, LeaseInv, claim
  <2>2. \A q \in Threads : Working(q)' => Working(q)
    BY <1>8 DEF Finish, Check, RedactModel, RedactModelFails, Working
  <2>. QED  BY <2>1, <2>2 DEF LeaseInv
<1>9. ASSUME lease' = lease, UNCHANGED locals PROVE LeaseInv'
  BY <1>9 DEF locals, LeaseInv, Working
<1>10. ASSUME NEW p \in Threads, Outlast(p) PROVE LeaseInv'
  BY <1>9, <1>10 DEF Outlast
<1>11. CASE Environment \/ Upgrade \/ ReadTokenFails \/ UNCHANGED vars
  BY <1>9, <1>11
  DEF Environment, GraceEnds, Lapse, Write, Repair, Upgrade, ReadPack, ReadToken, ReadTokenFails, WriteRow, claim, vars
<1>. QED
  BY <1>1, <1>2, <1>3, <1>4, <1>5, <1>6, <1>7, <1>8, <1>10, <1>11
  DEF Next, Run, Phase, Fault, Threads

\* At most one runner at work holds the lease, however often a lease lapses
\* under its holder and another runner takes it (the compare of claimed_until
\* in _claim_one and in the writes of a run).
OneHolder == \A p, q \in Threads : Working(p) /\ Holds(p) /\ Working(q) /\ Holds(q) => p = q
THEOREM OneRunnerHolds == Spec => []OneHolder
<1> DEFINE J == IInv /\ LeaseInv
<1>1. Init => LeaseInv
  BY DEF Init, LeaseInv, Working
<1>2. J /\ [Next]_vars => J'
  BY NextIInv, LeaseKept DEF IInv
<1>3. LeaseInv => OneHolder
  BY DEF LeaseInv, OneHolder, Holds
<1>. QED  BY <1>1, <1>2, <1>3, InitIInv, PTL DEF Spec

-----------------------------------------------------------------------------
(* Overtaking *)

\* A claim is still due when it takes the lease: the two transactions of
\* _claim_one act as one.
DueTakes == \A p \in Threads : Take(p) => Due(p)

\* A runner holds the lease only while the grace pass is to be done.
NeededInv == \A p \in Threads : Working(p) /\ Holds(p) => job.done # "late"

\* Steps that neither save a cursor nor take a lease leave what a job says of
\* its passes, or end the job.
LEMMA JobSame ==
    ASSUME NEW p \in Threads, TypeOK,
           Finish(p) \/ Check(p) \/ RedactModel(p) \/ RedactModelFails(p) \/ Raise(p)
    PROVE  job' # None => job # None /\ job'.scan = job.scan /\ job'.done = job.done
<1>1. \/ job' = job \/ job' = None
      \/ job \in Job /\ (job' = [job EXCEPT !.model = TRUE] \/ job' = [job EXCEPT !.failed = FALSE])
  BY DEF Finish, Check, RedactModel, RedactModelFails, Raise, Holds, TypeOK
<1>2. CASE job \in Job /\ (job' = [job EXCEPT !.model = TRUE] \/ job' = [job EXCEPT !.failed = FALSE])
  <2>1. job'.scan = job.scan /\ job'.done = job.done /\ job # None
    BY <1>2, NoneAssumption DEF Job
  <2>. QED  BY <2>1
<1>. QED  BY <1>1, <1>2

\* Who renews the lease is its only holder.
LEMMA RenewHolds ==
    ASSUME NEW p \in Threads, LeaseInv, Renew(p), job' = job, NEW q \in Threads, Holds(q)'
    PROVE  q = p
<1>1. Fresh # held[q] /\ held' = [held EXCEPT ![p] = Fresh] /\ lease' = Fresh
  BY FreshExists DEF Renew, Leased
<1>2. PICK s : s = Fresh
  OBVIOUS
<1>. QED  BY <1>1, <1>2 DEF Holds, LeaseInv

LEMMA NeededKept ==
    ASSUME TypeOK, LeaseInv, NeededInv, DueTakes, [Next]_vars
    PROVE  NeededInv'
<1>. SUFFICES ASSUME NEW q \in Threads, Working(q)', Holds(q)' PROVE job'.done # "late"
  BY DEF NeededInv, Working
<1>. USE DEF TypeOK, Goto
<1>0. held'[q] # None
  BY LeaseKept DEF LeaseInv, Working
<1>1. ASSUME job' = job, Working(q), Holds(q) PROVE job'.done # "late"
  BY <1>1 DEF NeededInv
<1>2. ASSUME NEW p \in Threads, Take(p) PROVE job'.done # "late"
  BY <1>2, RenewHolds DEF Take, DueTakes, Due
<1>3. ASSUME NEW p \in Threads, LeaguePass(p) \/ ScanPage(p) PROVE job'.done # "late"
  <2>1. q = p
    BY <1>3, RenewHolds DEF LeaguePass, ScanPage
  <2>. QED  BY <1>1, <1>3, <2>1 DEF LeaguePass, ScanPage, Scanning, Working
<1>4. ASSUME NEW p \in Threads, Suspend(p) \/ Postpone(p) \/ Complete(p) PROVE FALSE
  <2>1. q # p
    BY <1>4 DEF Suspend, Postpone, Complete, Save, Leave, Working
  <2>2. held'[q] = held[q] /\ held[q] # None /\ held[q] # Fresh
    BY <1>0, <1>4, <2>1, FreshExists DEF Suspend, Postpone, Complete, Save, Leave, LeaseInv
  <2>. QED  BY <1>4, <2>2 DEF Suspend, Postpone, Complete, Save, Leased, Holds
<1>5. ASSUME NEW p \in Threads, Raise(p) PROVE job'.done # "late"
  <2>1. q # p /\ Working(q) /\ held'[q] = held[q]
    BY <1>5 DEF Raise, Leave, Working, LeaseInv
  <2>2. ~ Holds(p) /\ lease' = lease /\ job' = job
    <3>1. lease' # None
      BY <1>0 DEF Holds
    <3>. QED  BY <1>5, <3>1 DEF Raise, Leased, claim
  <2>. QED  BY <1>1, <2>1, <2>2 DEF Holds
<1>6. ASSUME NEW p \in Threads, Finish(p) \/ Check(p) \/ RedactModel(p) \/ RedactModelFails(p)
      PROVE  job'.done # "late"
  <2>1. job # None /\ job'.done = job.done
    BY <1>6, JobSame DEF Holds
  <2>2. Working(q) /\ Holds(q)
    BY <1>6, <2>1 DEF Finish, Check, RedactModel, RedactModelFails, Leased, Working, Holds, claim
  <2>. QED  BY <2>1, <2>2 DEF NeededInv
<1>7. ASSUME NEW p \in Threads, Start(p) \/ Read(p) \/ NothingDue(p) \/ Lost(p) \/ Die(p)
      PROVE  job'.done # "late"
  <2>1. q # p /\ Working(q) /\ held'[q] = held[q] /\ lease' = lease /\ job' = job
    BY <1>7 DEF Start, Read, NothingDue, Lost, Die, Leave, Working, LeaseInv, claim
  <2>. QED  BY <1>1, <2>1 DEF Holds
<1>8. ASSUME lease' = lease, job' = job, UNCHANGED locals PROVE job'.done # "late"
  BY <1>1, <1>8 DEF locals, Working, Holds
<1>9. ASSUME NEW p \in Threads, Outlast(p) PROVE job'.done # "late"
  BY <1>8, <1>9 DEF Outlast
<1>10. CASE Environment \/ Upgrade \/ ReadTokenFails \/ UNCHANGED vars
  BY <1>8, <1>10
  DEF Environment, GraceEnds, Lapse, Write, Repair, Upgrade, ReadPack, ReadToken, ReadTokenFails, WriteRow, claim, vars
<1>. QED
  BY <1>2, <1>3, <1>4, <1>5, <1>6, <1>7, <1>9, <1>10 DEF Next, Run, Phase, Fault, Threads

LEMMA NotStrandedKept ==
    ASSUME TypeOK, NeededInv, ~ Stranded, [Next]_vars
    PROVE  ~ Stranded'
<1>. SUFFICES ASSUME job' # None, job'.done = "late", job'.scan # None PROVE FALSE
  BY DEF Stranded
<1>1. ASSUME job # None, job'.scan = job.scan, job'.done = job.done PROVE FALSE
  BY <1>1 DEF Stranded
<1>2. ASSUME NEW p \in Threads, Suspend(p) PROVE FALSE
  <2>1. job \in Job /\ job' = [job EXCEPT !.scan = work[p], !.failed = FALSE]
    BY <1>2 DEF Suspend, Ending, Holds, Save, TypeOK
  <2>2. job.done # "late"
    BY <1>2 DEF Suspend, Ending, NeededInv, Working
  <2>. QED  BY <2>1, <2>2 DEF Job
<1>3. ASSUME NEW p \in Threads, Postpone(p) \/ Complete(p) PROVE FALSE
  <2>1. job \in Job
    BY <1>3 DEF Postpone, Complete, Ending, Holds, TypeOK
  <2>. QED  BY <1>3, <2>1 DEF Postpone, Complete, Save, Job
<1>4. ASSUME NEW p \in Threads,
             Finish(p) \/ Check(p) \/ RedactModel(p) \/ RedactModelFails(p) \/ Raise(p)
      PROVE  FALSE
  BY <1>1, <1>4, JobSame
<1>5. ASSUME job' = job PROVE FALSE
  BY <1>1, <1>5
<1>6. CASE Environment \/ Upgrade \/ ReadTokenFails \/ UNCHANGED vars
  BY <1>5, <1>6
  DEF Environment, GraceEnds, Lapse, Write, Repair, Upgrade, ReadPack, ReadToken, ReadTokenFails, WriteRow, vars
<1>7. ASSUME NEW p \in Threads, Start(p) \/ Read(p) \/ NothingDue(p) \/ Take(p) \/ Lost(p)
             \/ LeaguePass(p) \/ ScanPage(p) \/ Outlast(p) \/ Die(p)
      PROVE  FALSE
  BY <1>5, <1>7 DEF Start, Read, NothingDue, Take, Lost, LeaguePass, ScanPage, Outlast, Die
<1>. QED  BY <1>2, <1>3, <1>4, <1>6, <1>7 DEF Next, Run, Phase, Fault, Threads

\* A claim that takes the lease on an old read of the row is the only way in
\* which a cursor is stranded behind a finished grace pass (_claim_one reads
\* the row and takes the lease in two transactions): if what is due at the read
\* is due at the take, no death, raise or lapse of a lease strands one.
THEOREM StrandedOnlyByOvertaking == Spec /\ [][DueTakes]_vars => []~Stranded
<1> DEFINE J == IInv /\ LeaseInv /\ NeededInv /\ ~Stranded
<1>1. Init => J
  <2>1. Init => LeaseInv /\ NeededInv
    BY DEF Init, LeaseInv, NeededInv, Working
  <2>2. Init => ~ Stranded
    BY DEF Init, NewJob, Stranded
  <2>. QED  BY <2>1, <2>2, InitIInv
<1>2. J /\ [Next]_vars /\ [DueTakes]_vars => J'
  <2>1. ASSUME J, [Next]_vars, DueTakes PROVE J'
    BY <2>1, NextIInv, LeaseKept, NeededKept, NotStrandedKept DEF IInv
  <2>2. ASSUME J, UNCHANGED vars PROVE J'
    <3>1. IInv' /\ LeaseInv'
      BY <2>2, NextIInv, LeaseKept DEF IInv
    <3>2. NeededInv' /\ ~ Stranded'
      BY <2>2 DEF vars, claim, locals, NeededInv, Working, Holds, Stranded
    <3>. QED  BY <3>1, <3>2
  <2>. QED  BY <2>1, <2>2
<1>. QED  BY <1>1, <1>2, PTL DEF Spec
=============================================================================
