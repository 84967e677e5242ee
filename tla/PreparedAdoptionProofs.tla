------------------------ MODULE PreparedAdoptionProofs ------------------------
(* Proofs about PreparedAdoption for any jobs, inventories and sizes, and  *)
(* that it implements Decks.                                               *)
EXTENDS PreparedAdoption, TLAPS

Job == [status : {"absent", "running", "complete", "error"}, superseded : BOOLEAN,
        cards : SUBSET Nat]
Statuses == {"complete", "error"}

-----------------------------------------------------------------------------
(* Types.                                                                  *)

LEMMA JobType ==
    ASSUME NEW x \in Job
    PROVE  /\ Revoke(x) \in Job
           /\ \A status \in Statuses : End(x, FALSE, status) \in Job
<1>1. Revoke(x) \in Job
  BY DEF Revoke, Job
<1>2. ASSUME NEW status \in Statuses PROVE [x EXCEPT !.status = status] \in Job
  BY DEF Job, Statuses
<1>. QED  BY <1>1, <1>2 DEF End

\* The fields of a well-typed state.
LEMMA Fields ==
    ASSUME TypeOK
    PROVE  /\ input.board \in Nat /\ input.local \in Nat
           /\ \A j \in Jobs : jobs[j] \in Job /\ adoption[j] \in Adoption /\ shown[j] \subseteq Nat
           /\ \A i \in Inventories : inventory[i] \in Manifest
  BY DEF TypeOK, Job

LEMMA LeavesType ==
    ASSUME TypeOK, NEW j \in Jobs, NEW step \in {"done", "searching"}, Leaves(j, step)
    PROVE  adoption' \in [Jobs -> Adoption]
<1>1. ASSUME NEW s \in Steps PROVE Returned(j, s) \in Adoption
  BY <1>1, Fields DEF Returned, NoAdoption, Adoption
<1>2. ASSUME NEW s \in Steps PROVE [Returned(j, s) EXCEPT !.claimed = TRUE] \in Adoption
  BY <1>2, Fields DEF Returned, NoAdoption, Adoption
<1>3. {"done", "searching", "closing", "missing"} \subseteq Steps
  BY DEF Steps
<1>4. adoption \in [Jobs -> Adoption]
  BY DEF TypeOK
<1>. QED  BY <1>1, <1>2, <1>3, <1>4 DEF Leaves

LEMMA RevokesType ==
    ASSUME TypeOK, NEW j \in Jobs, Stops(j)
    PROVE  adoption' \in [Jobs -> Adoption] /\ jobs' \in [Jobs -> Job]
<1>1. Revoke(jobs[j]) \in Job /\ jobs \in [Jobs -> Job]
  BY Fields, JobType DEF TypeOK, Job
<1>2. jobs' \in [Jobs -> Job]
  BY <1>1 DEF Stops
<1>. QED  BY <1>2, LeavesType DEF Stops

LEMMA EndsType ==
    ASSUME TypeOK, NEW j \in Jobs, NEW status \in Statuses, Ends(j, status)
    PROVE  jobs' \in [Jobs -> Job]
<1>1. End(jobs[j], FALSE, status) \in Job /\ jobs \in [Jobs -> Job]
  BY Fields, JobType DEF TypeOK, Job
<1>. QED  BY <1>1 DEF Ends

LEMMA FailsType ==
    ASSUME TypeOK, NEW j \in Jobs, Fails(j)
    PROVE  adoption' \in [Jobs -> Adoption] /\ jobs' \in [Jobs -> Job]
<1>1. jobs \in [Jobs -> Job]
  BY DEF TypeOK, Job
<1>. QED  BY <1>1, LeavesType, EndsType DEF Fails, Statuses

LEMMA GoesType ==
    ASSUME TypeOK, NEW j \in Jobs, NEW step \in Steps, Goes(j, step)
    PROVE  adoption' \in [Jobs -> Adoption]
<1>1. [adoption[j] EXCEPT !.at = step] \in Adoption /\ adoption \in [Jobs -> Adoption]
  BY Fields DEF Adoption, TypeOK
<1>. QED  BY <1>1 DEF Goes

LEMMA CondemnedType ==
    ASSUME TypeOK, NEW i \in Inventories
    PROVE  Condemned(i) \in [Inventories -> Manifest]
<1>1. [inventory[i] EXCEPT !.state = "condemned", !.holder = None] \in Manifest
  BY Fields DEF Manifest
<1>. QED  BY <1>1 DEF Condemned, TypeOK

LEMMA TypeInit == Init => TypeOK
<1>. SUFFICES ASSUME Init PROVE TypeOK
  OBVIOUS
<1>1. Unsealed \in Manifest /\ NoAdoption \in Adoption /\ NoJob \in Job
  BY DEF Unsealed, Manifest, NoAdoption, Adoption, Steps, NoJob, Job
<1>2. input \in [board : Nat, local : Nat] /\ fenced \in Nat
  BY DEF Init
<1>. QED  BY <1>1, <1>2 DEF Init, TypeOK, Job

LEMMA TypeAround ==
    ASSUME TypeOK,
           \/ \E i \in Inventories : Seal(i) \/ Expire(i) \/ Lapse(i)
           \/ \E here \in BOOLEAN : EditBoard(here)
           \/ EditLocal \/ Fence \/ Crash
           \/ \E j \in Jobs : Ask(j) \/ Timeout(j)
    PROVE  TypeOK'
<1>. USE DEF edits
<1>t. /\ input \in [board : Nat, local : Nat] /\ unfenced \in BOOLEAN /\ fenced \in Nat
      /\ inventory \in [Inventories -> Manifest] /\ jobs \in [Jobs -> Job]
      /\ adoption \in [Jobs -> Adoption] /\ shown \in [Jobs -> SUBSET Nat]
  BY DEF TypeOK, Job
<1>1. ASSUME NEW i \in Inventories, Seal(i) PROVE TypeOK'
  <2>1. PICK v \in 0..input.board, sound \in {TRUE, i \notin Damaged} :
          inventory' = [k \in Inventories |->
              CASE k = i -> [Unsealed EXCEPT !.state = "active", !.sound = sound, !.built = v]
                [] k # i /\ inventory[k].state = "active" ->
                     [inventory[k] EXCEPT !.state = "replaced", !.holder = None]
                [] OTHER -> inventory[k]]
    BY <1>1 DEF Seal
  <2>2. [Unsealed EXCEPT !.state = "active", !.sound = sound, !.built = v] \in Manifest
    <3>1. v \in Nat
      BY <1>t
    <3>2. sound \in BOOLEAN
      OBVIOUS
    <3>. QED  BY <3>1, <3>2 DEF Unsealed, Manifest
  <2>3. \A k \in Inventories : [inventory[k] EXCEPT !.state = "replaced", !.holder = None] \in Manifest
    BY <1>t DEF Manifest
  <2>4. inventory' \in [Inventories -> Manifest]
    BY <2>1, <2>2, <2>3, <1>t
  <2>. QED  BY <2>4, <1>1 DEF Seal, TypeOK
<1>2. ASSUME NEW i \in Inventories, Expire(i) \/ Lapse(i) PROVE TypeOK'
  <2>1. /\ [inventory[i] EXCEPT !.expiry = "card"] \in Manifest
        /\ [inventory[i] EXCEPT !.expiry = "head", !.holder = None] \in Manifest
        /\ [inventory[i] EXCEPT !.holder = None] \in Manifest
    BY <1>t DEF Manifest
  <2>2. inventory' \in [Inventories -> Manifest]
    BY <2>1, <1>t, <1>2 DEF Expire, Lapse
  <2>. QED  BY <2>2, <1>2 DEF Expire, Lapse, TypeOK
<1>3. ASSUME NEW here \in BOOLEAN, EditBoard(here) PROVE TypeOK'
  <2>1. input' \in [board : Nat, local : Nat] /\ unfenced' \in BOOLEAN
    BY <1>t, <1>3 DEF EditBoard
  <2>. QED  BY <2>1, <1>3 DEF EditBoard, TypeOK
<1>4. CASE EditLocal
  <2>1. input' \in [board : Nat, local : Nat]
    BY <1>t, <1>4 DEF EditLocal
  <2>. QED  BY <2>1, <1>4 DEF EditLocal, TypeOK
<1>5. CASE Fence
  <2>1. jobs' \in [Jobs -> Job]
    BY <1>t, <1>5, JobType DEF Fence
  <2>. QED  BY <2>1, <1>t, <1>5 DEF Fence, TypeOK, Job
<1>6. CASE Crash
  <2>1. NoJob \in Job
    BY DEF NoJob, Job
  <2>2. \A j \in Jobs : Returned(j, "done") \in Adoption
    BY <1>t DEF Returned, NoAdoption, Adoption, Steps
  <2>. QED  BY <2>1, <2>2, <1>t, <1>6 DEF Crash, TypeOK, Job
<1>7. ASSUME NEW j \in Jobs, Ask(j) PROVE TypeOK'
  <2>1. [NoJob EXCEPT !.status = "running"] \in Job
    BY DEF NoJob, Job
  <2>2. jobs' \in [Jobs -> Job]
    BY <2>1, <1>t, <1>7, JobType DEF Ask
  <2>3. adoption' \in [Jobs -> Adoption]
    BY <1>7, GoesType DEF Ask, Steps
  <2>. QED  BY <2>2, <2>3, <1>7 DEF Ask, TypeOK, Job
<1>8. ASSUME NEW j \in Jobs, Timeout(j) PROVE TypeOK'
  <2>1. [jobs[j] EXCEPT !.status = "error"] \in Job
    BY <1>t DEF Job
  <2>2. jobs' \in [Jobs -> Job]
    BY <2>1, <1>t, <1>8 DEF Timeout
  <2>. QED  BY <2>2, <1>8 DEF Timeout, TypeOK, Job
<1>. QED  BY <1>1, <1>2, <1>3, <1>4, <1>5, <1>6, <1>7, <1>8

\* What the adoptions leave alone.
LEMMA AdoptsFrame == ASSUME NEW j \in Jobs, Adopts(j) PROVE UNCHANGED edits
  BY DEF Adopts, others, Peek, CaptureActive, Compare, Claim, Mark, Check, Ensure, Checkpoint,
     Recheck, Publish, Finish, Break, Raise, Release, Search

LEMMA PublicationType ==
    ASSUME TypeOK, NEW j \in Jobs, NEW i \in Inventories
    PROVE  Publication(i, j) \in Jobs \cup {None}
  BY Fields DEF Publication, Manifest

LEMMA TypeAdopts ==
    ASSUME TypeOK, NEW j \in Jobs, Adopts(j),
           adoption[j].at \in Placed => From(j) \in Inventories
    PROVE  TypeOK'
<1>t. /\ inventory \in [Inventories -> Manifest] /\ jobs \in [Jobs -> Job]
      /\ adoption \in [Jobs -> Adoption] /\ shown \in [Jobs -> SUBSET Nat]
      /\ adoption[j] \in Adoption /\ jobs[j] \in Job
  BY Fields DEF TypeOK, Job
<1>p. /\ {"receipting", "comparing", "claiming", "marking", "checking", "ensuring",
          "checkpointing", "rechecking", "publishing", "finishing", "done"} \subseteq Steps
      /\ {"receipting", "comparing", "claiming", "marking", "checking", "ensuring",
          "checkpointing", "rechecking", "publishing", "finishing"} \subseteq Placed
  BY DEF Placed, Admitted, Holding, Batching, Steps
<1>. DEFINE Moved == jobs' \in [Jobs -> Job] /\ adoption' \in [Jobs -> Adoption]
            Good == Moved /\ inventory' \in [Inventories -> Manifest]
                          /\ shown' \in [Jobs -> SUBSET Nat]
<1>. SUFFICES Good
  BY AdoptsFrame DEF TypeOK, edits, Job
<1>m. Misses(j) \/ Stops(j) => Moved /\ UNCHANGED inventory
  BY <1>t, LeavesType, RevokesType DEF Misses, Stops
<1>g. \A step \in Steps : Goes(j, step) => adoption' \in [Jobs -> Adoption]
  BY GoesType
<1>f. Fails(j) => Moved
  BY FailsType
<1>q. Quarantines(j) /\ From(j) \in Inventories => Moved /\ inventory' \in [Inventories -> Manifest]
  BY <1>t, <1>f, CondemnedType DEF Quarantines
<1>1. CASE Peek(j)
  <2>1. ASSUME NEW i \in Inventories
        PROVE  [adoption[j] EXCEPT !.at = "receipting", !.from = i, !.guard = input.local] \in Adoption
    BY <1>t, <1>p, Fields DEF Adoption
  <2>2. adoption' \in [Jobs -> Adoption]
    BY <2>1, <1>1, <1>t, LeavesType DEF Peek
  <2>. QED  BY <2>2, <1>1, <1>t DEF Peek, others
<1>2. CASE CaptureActive(j)
  <2>1. [adoption[j] EXCEPT !.at = "comparing", !.active = input.board] \in Adoption
    BY <1>t, <1>p, Fields DEF Adoption
  <2>2. adoption' \in [Jobs -> Adoption]
    BY <2>1, <1>2, <1>t DEF CaptureActive
  <2>. QED  BY <2>2, <1>2, <1>t DEF CaptureActive, others
<1>3. CASE Compare(j)
  <2>1. From(j) \in Inventories /\ UNCHANGED shown
    BY <1>3, <1>p DEF Compare, At, others
  <2>2. Misses(j) \/ Quarantines(j) \/ (Goes(j, "claiming") /\ UNCHANGED <<inventory, jobs>>)
    BY <1>3 DEF Compare
  <2>. QED  BY <2>1, <2>2, <1>m, <1>q, <1>g, <1>p, <1>t
<1>4. CASE Claim(j)
  <2>. DEFINE i == From(j)
  <2>1. i \in Inventories /\ inventory[i] \in Manifest /\ Publication(i, j) \in Jobs \cup {None}
    BY <1>4, <1>p, Fields, PublicationType DEF Claim, At
  <2>2. [inventory[i] EXCEPT !.holder = j, !.publication = Publication(i, j), !.late = Late(i)]
            \in Manifest
    <3>1. Late(i) \in BOOLEAN
      BY <2>1 DEF Late, Manifest
    <3>. QED  BY <2>1, <3>1 DEF Manifest
  <2>3. inventory[i].prefix \in Nat
    BY <2>1 DEF Manifest
  <2>4. [adoption[j] EXCEPT !.at = "marking", !.claimed = TRUE,
             !.publication = Publication(i, j), !.prefix = inventory[i].prefix] \in Adoption
    BY <2>1, <2>3, <1>t, <1>p DEF Adoption
  <2>5. Moved /\ inventory' \in [Inventories -> Manifest]
    BY <1>4, <2>1, <2>2, <2>4, <1>m, <1>f, <1>t DEF Claim
  <2>. QED  BY <2>5, <1>4, <1>t DEF Claim, others
<1>5. CASE Mark(j)
  <2>1. [adoption[j] EXCEPT !.at = "checking", !.batch = First(j)] \in Adoption
    <3>1. First(j) \in Nat
      BY DEF First
    <3>. QED  BY <3>1, <1>t, <1>p DEF Adoption
  <2>2. [Returned(j, "closing") EXCEPT !.claimed = TRUE] \in Adoption
    BY <1>t DEF Returned, NoAdoption, Adoption, Steps
  <2>3. Moved /\ UNCHANGED inventory
    BY <2>1, <2>2, <1>5, <1>m, <1>t DEF Mark
  <2>. QED  BY <2>3, <1>5, <1>t DEF Mark, others
<1>6. CASE Check(j)
  BY <1>6, <1>m, <1>g, <1>p, <1>t DEF Check, others
<1>7. CASE Ensure(j)
  <2>. DEFINE i == From(j)
  <2>1. i \in Inventories /\ inventory[i] \in Manifest
    BY <1>7, <1>p, Fields DEF Ensure, At
  <2>2. Row(j) \in [batch : Nat, publication : Jobs \cup {None}]
    BY <1>t DEF Row, Adoption
  <2>3. Recorded(j) \in [Inventories -> Manifest]
    <3>1. [inventory[i] EXCEPT !.rows = inventory[i].rows \cup {Row(j)}] \in Manifest
      BY <2>1, <2>2 DEF Manifest
    <3>2. inventory[i].rows \cup {Row(j)} = inventory[From(j)].rows \cup {Row(j)}
      OBVIOUS
    <3>. QED  BY <3>1, <2>1, <1>t DEF Recorded
  <2>4. Unchanged(j) \in BOOLEAN
    BY DEF Unchanged
  <2>5. [adoption[j] EXCEPT !.at = "checkpointing", !.ensured = TRUE, !.fresh = Unchanged(j)]
            \in Adoption
    BY <2>4, <1>t, <1>p DEF Adoption
  <2>6. \/ Stops(j) \/ Quarantines(j)
        \/ /\ inventory' = Recorded(j)
           /\ \/ /\ adoption' = [adoption EXCEPT ![j] =
                        [@ EXCEPT !.at = "checkpointing", !.ensured = TRUE,
                                  !.fresh = Unchanged(j)]]
                 /\ UNCHANGED jobs
              \/ Fails(j)
    BY <1>7, Zenon DEF Ensure
  <2>7. Moved /\ inventory' \in [Inventories -> Manifest]
    BY <2>1, <2>3, <2>5, <2>6, <1>m, <1>q, <1>f, <1>t
  <2>. QED  BY <2>7, <1>7, <1>t DEF Ensure, others
<1>8. CASE Checkpoint(j)
  <2>. DEFINE i == From(j)
              batch == adoption[j].batch
              free == IF batch = Size[i] THEN None ELSE j
  <2>1. i \in Inventories /\ inventory[i] \in Manifest /\ batch \in Nat
    BY <1>8, <1>p, Fields DEF Checkpoint, At, Adoption
  <2>2. [inventory[i] EXCEPT !.prefix = batch, !.holder = free] \in Manifest
    BY <2>1 DEF Manifest
  <2>3. [adoption[j] EXCEPT !.at = "rechecking", !.prefix = batch] \in Adoption
    BY <2>1, <1>t, <1>p DEF Adoption
  <2>4. Moved /\ inventory' \in [Inventories -> Manifest]
    BY <1>8, <2>1, <2>2, <2>3, <1>m, <1>g, <1>p, <1>q, <1>f, <1>t DEF Checkpoint
  <2>. QED  BY <2>4, <1>8, <1>t DEF Checkpoint, others
<1>9. CASE Recheck(j)
  BY <1>9, <1>m, <1>g, <1>p, <1>t DEF Recheck, others
<1>10. CASE Publish(j)
  <2>. DEFINE batch == adoption[j].batch
  <2>1. /\ [jobs[j] EXCEPT !.cards = jobs[j].cards \cup ({batch} \ {0})] \in Job
        /\ shown[j] \cup ({batch} \ {0}) \in SUBSET Nat
    BY <1>t DEF Adoption, Job
  <2>b. batch \in Nat /\ batch + 1 \in Nat
    BY <1>t DEF Adoption
  <2>2. /\ [adoption[j] EXCEPT !.at = "finishing"] \in Adoption
        /\ [adoption[j] EXCEPT !.at = "checking", !.batch = batch + 1, !.fresh = FALSE] \in Adoption
    BY <2>b, <1>t, <1>p DEF Adoption
  <2>. QED  BY <1>10, <2>1, <2>2, <1>m, <1>t DEF Publish
<1>11. CASE Finish(j)
  BY <1>11, <1>t, EndsType, LeavesType DEF Finish, Statuses, others
<1>12. CASE Break(j)
  <2>1. From(j) \in Inventories
    BY <1>12, <1>p DEF Break, At
  <2>2. Quarantines(j) /\ UNCHANGED shown
    BY <1>12 DEF Break, others
  <2>. QED  BY <2>1, <2>2, <1>q, <1>t
<1>13. CASE Raise(j)
  BY <1>13, <1>f, <1>t DEF Raise, others
<1>14. CASE Release(j)
  <2>1. ASSUME NEW s \in Steps PROVE Returned(j, s) \in Adoption
    BY <1>t DEF Returned, NoAdoption, Adoption
  <2>2. {"done", "searching"} \subseteq Steps
    BY DEF Steps
  <2>3. From(j) \in Inventories => [inventory[From(j)] EXCEPT !.holder = None] \in Manifest
    BY <1>t DEF Manifest
  <2>4. inventory' \in [Inventories -> Manifest]
    BY <2>3, <1>14, <1>t DEF Release
  <2>. QED  BY <2>1, <2>2, <2>4, <1>14, <1>t DEF Release, others
<1>15. CASE Search(j)
  <2>1. [jobs[j] EXCEPT !.status = "complete", !.cards = {0}] \in Job
    <3>1. {0} \in SUBSET Nat
      OBVIOUS
    <3>. QED  BY <3>1, <1>t DEF Job
  <2>2. jobs' \in [Jobs -> Job]
    BY <2>1, <1>15, <1>t, EndsType DEF Search, Statuses
  <2>. QED  BY <2>2, <1>15, <1>g, <1>p, <1>t DEF Search
<1>. QED
  BY <1>1, <1>2, <1>3, <1>4, <1>5, <1>6, <1>7, <1>8, <1>9, <1>10, <1>11, <1>12, <1>13, <1>14, <1>15
  DEF Adopts

-----------------------------------------------------------------------------
(* The inductive invariant.                                                *)

LEMMA JobWrites ==
    ASSUME NEW x \in Job
    PROVE  /\ ~Live(Revoke(x), FALSE) /\ Revoke(x).cards = {}
           /\ \A status \in Statuses :
                 /\ ~Live(End(x, FALSE, status), FALSE)
                 /\ End(x, FALSE, status).cards \subseteq x.cards
<1>1. ~Live(Revoke(x), FALSE) /\ Revoke(x).cards = {}
  BY DEF Revoke, Live, Revoked, Job
<1>2. ASSUME NEW status \in Statuses
      PROVE  /\ ~Live(End(x, FALSE, status), FALSE)
             /\ End(x, FALSE, status).cards \subseteq x.cards
  <2>1. CASE Live(x, FALSE)
    BY <2>1 DEF End, Live, Job, Statuses
  <2>2. CASE ~Live(x, FALSE)
    BY <2>2, <1>1 DEF End, Live
  <2>. QED  BY <2>1, <2>2
<1>. QED  BY <1>1, <1>2

\* What no step takes back from an inventory that was sealed.
Grows(i) ==
    inventory[i].state # "unsealed" =>
        /\ inventory'[i].state # "unsealed"
        /\ inventory'[i].built = inventory[i].built
        /\ inventory'[i].prefix >= inventory[i].prefix
        /\ inventory[i].rows \subseteq inventory'[i].rows
        /\ inventory[i].publication # None => inventory'[i].publication = inventory[i].publication

\* What a step may do around a job that does not move.
Around(j) ==
    /\ shown'[j] = shown[j] /\ jobs'[j].cards \subseteq jobs[j].cards
    /\ input'.board >= input.board /\ input'.local >= input.local
    /\ \A i \in Inventories : Grows(i)

\* A job that does not move keeps what holds of it.
LEMMA Frame ==
    ASSUME TypeOK, TypeOK', NEW j \in Jobs, AdoptionInv(j), Around(j),
           adoption'[j] = adoption[j],
           IsLive(j)' => IsLive(j) /\ fenced' = fenced
    PROVE  AdoptionInv(j)'
<1>t. /\ adoption[j] \in Adoption /\ input.board \in Nat /\ input.local \in Nat
      /\ \A i \in Inventories : inventory[i] \in Manifest
      /\ fenced \in Nat
  BY Fields DEF TypeOK
<1>u. /\ input'.board \in Nat /\ input'.local \in Nat /\ adoption'[j] \in Adoption
      /\ \A i \in Inventories : inventory'[i] \in Manifest
  BY DEF TypeOK
<1>n. adoption[j].from \in Inventories \cup {None}
  BY <1>t DEF Adoption
<1>g. ASSUME adoption[j].from # None PROVE Grows(adoption[j].from) /\ inventory[adoption[j].from].state # "unsealed"
  BY <1>g, <1>n DEF Around, AdoptionInv, PlaceInv
<1>h. adoption[j].at \in Placed => adoption[j].from # None
  BY NoneAssumption DEF AdoptionInv, PlaceInv
<1>s. /\ Batching \subseteq Placed /\ Holding \subseteq Placed /\ Admitted \subseteq Placed
      /\ Batching \subseteq Holding /\ {"checkpointing", "rechecking", "publishing"} \subseteq Batching
  BY DEF Placed, Admitted, Holding, Batching
<1>1. PlaceInv(j)'
  <2>1. adoption[j].at \in Holding =>
          /\ adoption[j].publication = inventory'[adoption[j].from].publication
          /\ adoption[j].prefix <= inventory'[adoption[j].from].prefix
    BY <1>g, <1>h, <1>s, <1>t, <1>u, <1>n DEF AdoptionInv, PlaceInv, Grows, Adoption, Manifest
  <2>2. adoption[j].from # None => inventory'[adoption[j].from].state # "unsealed"
    BY <1>g DEF Grows
  <2>. QED  BY <2>1, <2>2 DEF AdoptionInv, PlaceInv
<1>2. BatchInv(j)'
  <2>1. Row(j)' = Row(j)
    BY DEF Row
  <2>2. adoption[j].at = "checkpointing" =>
          inventory[adoption[j].from].rows \subseteq inventory'[adoption[j].from].rows
    BY <1>g, <1>h, <1>s DEF Grows
  <2>. QED  BY <2>1, <2>2 DEF AdoptionInv, BatchInv
<1>3. ShownInv(j)'
  <2>1. \A b \in shown[j] \ {0} : b <= inventory'[adoption[j].from].prefix
    BY <1>g, <1>t, <1>u, <1>n, NoneAssumption, Fields DEF AdoptionInv, ShownInv, Grows, Manifest
  <2>. QED  BY <2>1 DEF AdoptionInv, ShownInv, Around
<1>4. InputInv(j)'
  <2>1. adoption[j].at \in Admitted => inventory'[adoption[j].from].built = inventory[adoption[j].from].built
    BY <1>g, <1>h, <1>s DEF Grows
  <2>2. adoption[j].guard \in Nat /\ adoption[j].active \in Nat
    BY <1>t DEF Adoption
  <2>. QED  BY <2>1, <2>2, <1>t, <1>u DEF AdoptionInv, InputInv, Around
<1>. QED  BY <1>1, <1>2, <1>3, <1>4 DEF AdoptionInv

\* Writes that leave the content of an inventory alone.
Steady(i) ==
    LET m == inventory[i]
        n == inventory'[i]
    IN  \/ n = m
        \/ /\ m.state # "unsealed" /\ n.state # "unsealed"
           /\ n.sound = m.sound /\ n.built = m.built /\ n.publication = m.publication
           /\ n.prefix = m.prefix /\ n.rows = m.rows
           /\ n.holder \in {None, m.holder}
           /\ n.late = m.late /\ (m.expiry # "ahead" => n.expiry # "ahead")
           /\ n.state = "condemned" => m.state = "condemned" \/ ~m.sound \/ n.expiry # "ahead"

Stored == \A i \in Inventories : Grows(i) /\ InventoryInv(i)'

LEMMA SteadyKeeps ==
    ASSUME TypeOK, TypeOK', NEW i \in Inventories, InventoryInv(i), Steady(i),
           input'.board >= input.board
    PROVE  Grows(i) /\ InventoryInv(i)'
<1>1. /\ inventory[i] \in Manifest /\ inventory'[i] \in Manifest
      /\ input.board \in Nat /\ input'.board \in Nat
  BY Fields DEF TypeOK
<1>2. /\ inventory[i].built \in Nat /\ inventory[i].prefix \in Nat
      /\ inventory'[i].built \in Nat /\ inventory'[i].prefix \in Nat
  BY <1>1 DEF Manifest
<1>3. Grows(i)
  BY <1>2 DEF Steady, Grows
<1>4. InventoryInv(i)'
  BY <1>1, <1>2 DEF Steady, InventoryInv, Unsealed
<1>. QED  BY <1>3, <1>4

LEMMA StoredSame ==
    ASSUME TypeOK, TypeOK', InventoriesInv, UNCHANGED inventory, input'.board >= input.board
    PROVE  Stored
  BY SteadyKeeps DEF Stored, Steady, InventoriesInv

LEMMA StoredAround ==
    ASSUME TypeOK, TypeOK', InventoriesInv,
           \/ \E i \in Inventories : Seal(i) \/ Expire(i) \/ Lapse(i)
           \/ \E here \in BOOLEAN : EditBoard(here)
           \/ EditLocal \/ Fence \/ Crash
           \/ \E j \in Jobs : Ask(j) \/ Timeout(j)
    PROVE  Stored /\ input'.board >= input.board /\ input'.local >= input.local
<1>. USE DEF edits
<1>t. /\ input \in [board : Nat, local : Nat] /\ inventory \in [Inventories -> Manifest]
  BY DEF TypeOK
<1>1. input'.board >= input.board /\ input'.local >= input.local
  <2>1. input.board \in Nat /\ input.local \in Nat
    BY Fields
  <2>2. ASSUME NEW here \in BOOLEAN, EditBoard(here)
        PROVE  input'.board >= input.board /\ input'.local >= input.local
    BY <2>1, <2>2, <1>t DEF EditBoard
  <2>3. CASE EditLocal
    BY <2>1, <2>3, <1>t DEF EditLocal
  <2>4. CASE UNCHANGED input
    BY <2>1, <2>4
  <2>. QED  BY <2>2, <2>3, <2>4 DEF Seal, Expire, Lapse, Fence, Crash, Ask, Timeout
<1>2. CASE UNCHANGED inventory
  BY <1>1, <1>2, StoredSame
<1>3. ASSUME NEW k \in Inventories, Expire(k) \/ Lapse(k) PROVE Stored
  <2>1. inventory[k] \in Manifest /\ InventoryInv(k)
    BY <1>t DEF InventoriesInv
  <2>2. inventory[k].state # "unsealed"
    <3>1. CASE Expire(k)
      BY <3>1 DEF Expire
    <3>2. CASE Lapse(k)
      BY <3>2, <2>1 DEF Lapse, InventoryInv, Unsealed
    <3>. QED  BY <1>3, <3>1, <3>2
  <2>3. ASSUME NEW i \in Inventories PROVE Steady(i)
    <3>1. CASE i # k
      BY <3>1, <1>3, <1>t DEF Expire, Lapse, Steady
    <3>2. CASE i = k /\ Expire(k)
      <4>1. \/ inventory'[k] = [inventory[k] EXCEPT !.expiry = "card"]
            \/ inventory'[k] = [inventory[k] EXCEPT !.expiry = "head", !.holder = None]
        BY <3>2, <1>t DEF Expire
      <4>. QED  BY <4>1, <3>2, <2>1, <2>2 DEF Steady, Manifest
    <3>3. CASE i = k /\ Lapse(k)
      <4>1. inventory'[k] = [inventory[k] EXCEPT !.holder = None]
        BY <3>3, <1>t DEF Lapse
      <4>. QED  BY <4>1, <3>3, <2>1, <2>2 DEF Steady, Manifest
    <3>. QED  BY <1>3, <3>1, <3>2, <3>3
  <2>. QED  BY <2>3, <1>1, SteadyKeeps DEF Stored, InventoriesInv
<1>4. ASSUME NEW k \in Inventories, Seal(k) PROVE Stored
  <2>1. PICK v \in 0..input.board, sound \in {TRUE, k \notin Damaged} :
          inventory' = [i \in Inventories |->
              CASE i = k -> [Unsealed EXCEPT !.state = "active", !.sound = sound, !.built = v]
                [] i # k /\ inventory[i].state = "active" ->
                     [inventory[i] EXCEPT !.state = "replaced", !.holder = None]
                [] OTHER -> inventory[i]]
    BY <1>4 DEF Seal
  <2>2. inventory[k].state = "unsealed" /\ UNCHANGED input
    BY <1>4 DEF Seal
  <2>3. Grows(k) /\ InventoryInv(k)'
    <3>1. inventory'[k] = [Unsealed EXCEPT !.state = "active", !.sound = sound, !.built = v]
      BY <2>1
    <3>2. v <= input.board /\ Size[k] \in Nat
      BY <1>t, SizeAssumption
    <3>. QED  BY <3>1, <3>2, <2>2 DEF Grows, InventoryInv, Unsealed
  <2>4. ASSUME NEW i \in Inventories, i # k PROVE Steady(i)
    <3>1. inventory[i] \in Manifest
      BY <1>t
    <3>. QED  BY <3>1, <2>1, <2>4 DEF Steady, Manifest
  <2>. QED  BY <2>3, <2>4, <1>1, SteadyKeeps DEF Stored, InventoriesInv
<1>. QED
  BY <1>1, <1>2, <1>3, <1>4 DEF EditBoard, EditLocal, Fence, Crash, Ask, Timeout

-----------------------------------------------------------------------------
(* The evidence of a batch.                                                *)

\* A job that holds an inventory meets neither evidence that contradicts its
\* own nor a batch without evidence, whoever wrote it.
LEMMA NoContradiction ==
    ASSUME IInv, NEW j \in Jobs
    PROVE  /\ At(j, "ensuring") /\ Holds(j) => ~Contradicted(j)
           /\ At(j, "checkpointing") => Durable(j)
<1>. DEFINE a == adoption[j]
            i == From(j)
<1>t. a \in Adoption /\ a.batch \in Nat /\ a.prefix \in Nat
  BY Fields DEF IInv, Adoption
<1>1. ASSUME At(j, "ensuring"), Holds(j) PROVE ~Contradicted(j)
  <2>1. i \in Inventories /\ a.batch <= a.prefix + 1 /\ a.prefix <= inventory[i].prefix
    BY <1>1 DEF IInv, AdoptionsInv, AdoptionInv, PlaceInv, BatchInv, At, From,
       Placed, Admitted, Holding, Batching
  <2>2. inventory[i] \in Manifest /\ inventory[i].prefix \in Nat
        /\ inventory[i].rows \subseteq [batch : Nat, publication : Jobs \cup {None}]
    BY <2>1, Fields DEF IInv, Manifest
  <2>3. ASSUME NEW row \in inventory[i].rows, row.batch = a.batch PROVE row = Row(j)
    <3>1. row.publication = a.publication
      BY <1>1, <2>1, <2>3 DEF IInv, InventoriesInv, InventoryInv, Holds
    <3>2. row \in [batch : Nat, publication : Jobs \cup {None}]
      BY <2>2, <2>3
    <3>. QED  BY <3>1, <3>2, <2>3 DEF Row
  <2>. QED  BY <2>1, <2>2, <2>3, <1>t DEF Contradicted
<1>2. ASSUME At(j, "checkpointing") PROVE Durable(j)
  <2>1. a.batch = 0 \/ Row(j) \in inventory[i].rows
    BY <1>2 DEF IInv, AdoptionsInv, AdoptionInv, BatchInv, At, From
  <2>. QED  BY <2>1 DEF Durable, Row
<1>. QED  BY <1>1, <1>2

LEMMA QuarantineSteady ==
    ASSUME TypeOK, NEW k \in Inventories, InventoryInv(k),
           ~inventory[k].sound \/ inventory[k].expiry # "ahead",
           inventory' \in {Condemned(k), inventory}
    PROVE  \A i \in Inventories : Steady(i)
<1>1. inventory \in [Inventories -> Manifest] /\ inventory[k] \in Manifest
  BY Fields DEF TypeOK
<1>2. CASE UNCHANGED inventory \/ inventory[k].state # "active"
  BY <1>1, <1>2 DEF Condemned, Steady
<1>3. CASE inventory' = Condemned(k) /\ inventory[k].state = "active"
  <2>1. \A i \in Inventories \ {k} : Steady(i)
    BY <1>1, <1>3 DEF Condemned, Steady
  <2>2. inventory'[k] = [inventory[k] EXCEPT !.state = "condemned", !.holder = None]
    BY <1>1, <1>3 DEF Condemned
  <2>3. Steady(k)
    BY <2>2, <1>1, <1>3 DEF Steady, Manifest
  <2>. QED  BY <2>1, <2>3
<1>. QED  BY <1>2, <1>3

LEMMA StoredClaim ==
    ASSUME IInv, TypeOK', NEW j \in Jobs, Claim(j) PROVE Stored
<1>i. PICK i : i = From(j)
  OBVIOUS
<1>. DEFINE m == inventory[i]
            n == inventory'[i]
<1>1. TypeOK /\ InventoriesInv /\ UNCHANGED input /\ input'.board >= input.board
  BY Fields DEF IInv, Claim, others, edits
<1>2. CASE UNCHANGED inventory
  BY <1>1, <1>2, StoredSame
<1>3. CASE Adoptable(i) /\ inventory' = [inventory EXCEPT ![i] =
               [@ EXCEPT !.holder = j, !.publication = Publication(i, j), !.late = Late(i)]]
  <2>1. i \in Inventories
    BY <1>i DEF Claim, At, From, IInv, AdoptionsInv, AdoptionInv, PlaceInv, Placed, Admitted
  <2>2. /\ m \in Manifest /\ InventoryInv(i) /\ Size[i] \in Nat
        /\ inventory \in [Inventories -> Manifest]
    BY <2>1, <1>1, Fields, SizeAssumption DEF InventoriesInv, TypeOK
  <2>3. n = [m EXCEPT !.holder = j, !.publication = Publication(i, j), !.late = Late(i)]
    BY <1>3, <2>1, <2>2
  <2>4. ASSUME m.publication = None PROVE m.rows = {} /\ m.prefix = 0
    <3>1. m.rows = {} /\ m.prefix \in Nat
      BY <2>2, <2>4 DEF InventoryInv, Manifest
    <3>2. m.prefix >= 1 => [batch |-> 1, publication |-> m.publication] \in m.rows
      BY <2>2, <3>1 DEF InventoryInv
    <3>. QED  BY <3>1, <3>2
  <2>5. Publication(i, j) # None /\ (m.publication # None => Publication(i, j) = m.publication)
    BY NoneAssumption DEF Publication
  <2>6. /\ n.state = m.state /\ n.built = m.built /\ n.prefix = m.prefix /\ n.rows = m.rows
        /\ n.sound = m.sound /\ n.publication = Publication(i, j) /\ m.state = "active"
        /\ n.expiry = m.expiry /\ (n.late => m.late \/ m.expiry # "ahead")
        /\ m.prefix \in Nat /\ m.built \in Nat
    <3>1. m.state = "active" /\ m.prefix \in Nat /\ m.built \in Nat
      BY <1>3, <2>2 DEF Adoptable, Head, Manifest
    <3>2. Late(i) => m.late \/ m.expiry # "ahead"
      BY DEF Late
    <3>. QED  BY <2>2, <2>3, <3>1, <3>2 DEF Manifest
  <2>7. Grows(i)
    BY <2>5, <2>6 DEF Grows
  <2>8. InventoryInv(i)'
    BY <2>2, <2>4, <2>5, <2>6, <1>1 DEF InventoryInv
  <2>9. ASSUME NEW k \in Inventories, k # i PROVE Steady(k)
    BY <1>3, <2>2, <2>9 DEF Steady
  <2>. QED  BY <2>7, <2>8, <2>9, <1>1, SteadyKeeps DEF Stored, InventoriesInv
<1>. QED  BY <1>2, <1>3, <1>i DEF Claim, Misses, Stops

LEMMA StoredEnsure ==
    ASSUME IInv, TypeOK', NEW j \in Jobs, Ensure(j) PROVE Stored
<1>i. PICK i : i = From(j)
  OBVIOUS
<1>. DEFINE m == inventory[i]
            n == inventory'[i]
<1>1. TypeOK /\ InventoriesInv /\ UNCHANGED input /\ input'.board >= input.board /\ At(j, "ensuring")
  BY Fields DEF IInv, Ensure, others, edits
<1>2. CASE UNCHANGED inventory
  BY <1>1, <1>2, StoredSame
<1>3. CASE Holds(j) /\ inventory' = Recorded(j)
  <2>1. i \in Inventories
    BY <1>1, <1>i DEF At, From, IInv, AdoptionsInv, AdoptionInv, PlaceInv, Placed, Admitted,
       Holding, Batching
  <2>2. /\ m \in Manifest /\ InventoryInv(i)
        /\ inventory \in [Inventories -> Manifest]
    BY <2>1, <1>1, Fields DEF InventoriesInv, TypeOK
  <2>3. CASE adoption[j].batch = 0
    BY <1>2, <1>3, <2>3 DEF Recorded
  <2>4. CASE adoption[j].batch # 0
    <3>1. n = [m EXCEPT !.rows = m.rows \cup {Row(j)}]
      BY <1>3, <1>i, <2>1, <2>2, <2>4 DEF Recorded
    <3>2. /\ n.state = m.state /\ n.built = m.built /\ n.prefix = m.prefix
          /\ n.rows = m.rows \cup {Row(j)} /\ n.holder = m.holder
          /\ n.sound = m.sound /\ n.publication = m.publication /\ m.state = "active"
          /\ n.expiry = m.expiry /\ n.late = m.late
          /\ m.prefix \in Nat /\ m.built \in Nat
      BY <1>3, <1>i, <2>2, <3>1 DEF Holds, Head, Manifest
    <3>3. Row(j).publication = m.publication /\ m.publication # None
      BY <1>3, <1>i, <2>2, NoneAssumption DEF Holds, Row, InventoryInv
    <3>4. Grows(i)
      BY <3>2 DEF Grows
    <3>5. InventoryInv(i)'
      BY <2>2, <3>2, <3>3, <1>1 DEF InventoryInv
    <3>6. ASSUME NEW k \in Inventories, k # i PROVE Steady(k)
      BY <1>3, <1>i, <2>2, <2>4, <3>6 DEF Steady, Recorded
    <3>. QED  BY <3>4, <3>5, <3>6, <1>1, SteadyKeeps DEF Stored, InventoriesInv
  <2>. QED  BY <2>3, <2>4
<1>. QED  BY <1>1, <1>2, <1>3, <1>i, NoContradiction, Zenon DEF Ensure, Stops

LEMMA StoredCheckpoint ==
    ASSUME IInv, TypeOK', NEW j \in Jobs, Checkpoint(j) PROVE Stored
<1>i. PICK i : i = From(j)
  OBVIOUS
<1>. DEFINE m == inventory[i]
            n == inventory'[i]
            batch == adoption[j].batch
            free == IF batch = Size[i] THEN None ELSE j
<1>1. TypeOK /\ InventoriesInv /\ UNCHANGED input /\ input'.board >= input.board /\ At(j, "checkpointing")
  BY Fields DEF IInv, Checkpoint, others, edits
<1>2. CASE UNCHANGED inventory
  BY <1>1, <1>2, StoredSame
<1>3. CASE Due(j) /\ Holds(j) /\ m.prefix = adoption[j].prefix
           /\ inventory' = [inventory EXCEPT ![i] = [@ EXCEPT !.prefix = batch, !.holder = free]]
  <2>1. /\ i \in Inventories /\ batch <= adoption[j].prefix + 1 /\ batch <= Size[i]
        /\ batch = 0 \/ Row(j) \in m.rows
        /\ batch = 0 <=> Size[i] = 0
    BY <1>1, <1>i DEF At, From, IInv, AdoptionsInv, AdoptionInv, PlaceInv, BatchInv, Placed, Admitted,
       Holding, Batching
  <2>2. /\ m \in Manifest /\ InventoryInv(i) /\ Size[i] \in Nat /\ batch \in Nat
        /\ inventory \in [Inventories -> Manifest]
    BY <2>1, <1>1, Fields, SizeAssumption DEF InventoriesInv, TypeOK, Adoption
  <2>3. n = [m EXCEPT !.prefix = batch, !.holder = free]
    BY <1>3, <2>1, <2>2
  <2>4. /\ n.state = m.state /\ n.built = m.built /\ n.prefix = batch
        /\ n.rows = m.rows /\ n.sound = m.sound /\ n.publication = m.publication
        /\ n.expiry = m.expiry /\ n.late = m.late
        /\ m.state = "active" /\ m.prefix \in Nat /\ m.built \in Nat
        /\ m.publication # None
    <3>1. m.state = "active" /\ m.prefix \in Nat /\ m.built \in Nat /\ m.publication # None
      BY <1>3, <1>i, <2>2, NoneAssumption DEF Holds, Head, Manifest, InventoryInv
    <3>. QED  BY <2>2, <2>3, <3>1 DEF Manifest
  <2>5. batch >= m.prefix /\ (batch = m.prefix + 1 \/ batch = m.prefix)
    BY <1>3, <1>i, <2>1, <2>2, <2>4 DEF Due, InventoryInv
  <2>6. Grows(i)
    BY <2>4, <2>5 DEF Grows
  <2>7. batch # 0 => [batch |-> batch, publication |-> m.publication] \in m.rows
    BY <1>3, <1>i, <2>1 DEF Row, Holds
  <2>8. ASSUME NEW b \in 1..batch PROVE [batch |-> b, publication |-> m.publication] \in m.rows
    <3>1. b \in 1..m.prefix \/ (b = batch /\ batch # 0)
      BY <2>2, <2>4, <2>5
    <3>. QED  BY <3>1, <2>2, <2>7 DEF InventoryInv
  <2>9. InventoryInv(i)'
    BY <2>1, <2>2, <2>4, <2>8, <1>1 DEF InventoryInv
  <2>10. ASSUME NEW k \in Inventories, k # i PROVE Steady(k)
    BY <1>3, <2>2, <2>10 DEF Steady
  <2>. QED  BY <2>6, <2>9, <2>10, <1>1, SteadyKeeps DEF Stored, InventoriesInv
<1>. QED  BY <1>1, <1>2, <1>3, <1>i, NoContradiction, Zenon DEF Checkpoint, Stops

LEMMA StoredAdopts ==
    ASSUME IInv, TypeOK', NEW j \in Jobs, Adopts(j) PROVE Stored
<1>i. PICK i : i = From(j)
  OBVIOUS
<1>1. TypeOK /\ InventoriesInv /\ UNCHANGED input /\ input'.board >= input.board
  BY AdoptsFrame, Fields DEF IInv, edits
<1>2. CASE UNCHANGED inventory
  BY <1>1, <1>2, StoredSame
<1>3. CASE Release(j)
  <2>1. CASE i \in Inventories
    <3>1. inventory[i] \in Manifest /\ InventoryInv(i) /\ inventory \in [Inventories -> Manifest]
      BY <2>1, <1>1, Fields DEF InventoriesInv, TypeOK
    <3>2. CASE UNCHANGED inventory
      BY <1>2, <3>2
    <3>3. CASE inventory[i].holder = j /\ inventory' = [inventory EXCEPT ![i].holder = None]
      <4>1. inventory[i].state # "unsealed"
        BY <3>1, <3>3, NoneAssumption DEF InventoryInv, Unsealed
      <4>2. inventory'[i] = [inventory[i] EXCEPT !.holder = None]
        BY <2>1, <3>1, <3>3
      <4>3. Steady(i)
        BY <3>1, <4>1, <4>2 DEF Steady, Manifest
      <4>4. ASSUME NEW k \in Inventories, k # i PROVE Steady(k)
        BY <3>1, <3>3, <4>4 DEF Steady
      <4>5. \A k \in Inventories : Steady(k)
        BY <4>3, <4>4
      <4>. QED  BY <4>5, <1>1, SteadyKeeps DEF Stored, InventoriesInv
    <3>. QED  BY <1>3, <1>i, <3>2, <3>3 DEF Release
  <2>2. CASE i \notin Inventories
    BY <2>2, <1>2, <1>1, <1>3, <1>i DEF Release, TypeOK
  <2>. QED  BY <2>1, <2>2
<1>4. CASE Break(j) \/ (Compare(j) /\ Quarantines(j) /\ inventory[i].expiry # "ahead")
  <2>1. i \in Inventories
    BY <1>4, <1>i DEF Break, Compare, At, From, IInv, AdoptionsInv, AdoptionInv, PlaceInv, Placed,
       Admitted, Holding, Batching
  <2>2. InventoryInv(i) /\ (~inventory[i].sound \/ inventory[i].expiry # "ahead")
    BY <1>1, <1>4, <1>i, <2>1 DEF Break, InventoriesInv, InventoryInv
  <2>3. inventory' \in {Condemned(i), inventory}
    BY <1>4, <1>i DEF Break, Quarantines
  <2>4. \A k \in Inventories : Steady(k)
    BY <1>1, <2>1, <2>2, <2>3, QuarantineSteady
  <2>. QED  BY <2>4, <1>1, SteadyKeeps DEF Stored, InventoriesInv
<1>5. \/ UNCHANGED inventory \/ Release(j) \/ Break(j)
      \/ (Compare(j) /\ Quarantines(j) /\ inventory[i].expiry # "ahead")
      \/ Claim(j) \/ Ensure(j) \/ Checkpoint(j)
  BY <1>i, Zenon DEF Adopts, others, Peek, CaptureActive, Compare, Mark, Check, Recheck, Publish, Finish,
     Raise, Search, Misses, Stops
<1>. QED  BY <1>2, <1>3, <1>4, <1>5, StoredClaim, StoredEnsure, StoredCheckpoint

-----------------------------------------------------------------------------
(* A job that moves.                                                       *)

LEMMA Sets ==
    /\ Batching \subseteq Holding /\ Holding \subseteq Admitted /\ Admitted \subseteq Placed
    /\ {"checkpointing", "rechecking", "publishing"} \subseteq Batching
    /\ \A step \in {"idle", "peeking", "closing", "missing", "searching", "done"} : step \notin Placed
  BY DEF Batching, Holding, Admitted, Placed

\* What a job has shown, seen from the next state.
LEMMA ShownKept ==
    ASSUME TypeOK, TypeOK', NEW j \in Jobs, AdoptionInv(j), Stored,
           adoption'[j].from = adoption[j].from
    PROVE  /\ adoption[j].from # None =>
                  /\ inventory[adoption[j].from].state # "unsealed"
                  /\ inventory'[adoption[j].from].state # "unsealed"
                  /\ inventory'[adoption[j].from].built = inventory[adoption[j].from].built
                  /\ inventory'[adoption[j].from].prefix >= inventory[adoption[j].from].prefix
           /\ \A b \in shown[j] \ {0} :
                  adoption[j].from \in Inventories /\ b <= inventory'[adoption[j].from].prefix
<1>. DEFINE i == adoption[j].from
<1>t. i \in Inventories \cup {None} /\ \A k \in Inventories : inventory[k] \in Manifest
      /\ shown[j] \subseteq Nat
  BY Fields DEF Adoption
<1>u. \A k \in Inventories : inventory'[k] \in Manifest
  BY DEF TypeOK
<1>1. ASSUME i # None
      PROVE  /\ inventory[i].state # "unsealed" /\ inventory'[i].state # "unsealed"
             /\ inventory'[i].built = inventory[i].built
             /\ inventory'[i].prefix >= inventory[i].prefix
  BY <1>1, <1>t DEF AdoptionInv, PlaceInv, Stored, Grows
<1>2. ASSUME NEW b \in shown[j] \ {0} PROVE i \in Inventories /\ b <= inventory'[i].prefix
  <2>1. i \in Inventories /\ b <= inventory[i].prefix /\ b \in Nat
    BY <1>t DEF AdoptionInv, ShownInv
  <2>2. inventory[i].prefix \in Nat /\ inventory'[i].prefix \in Nat
    BY <2>1, <1>t, <1>u DEF Manifest
  <2>. QED  BY <2>1, <2>2, <1>1, NoneAssumption
<1>. QED  BY <1>1, <1>2

\* A job that runs has shown no card of a search, and cards of an inventory
\* only if it committed evidence.
LEMMA Fresh ==
    ASSUME NEW j \in Jobs, AdoptionInv(j), adoption[j].at \notin {"closing", "done"}
    PROVE  0 \notin shown[j] /\ (~adoption[j].ensured => shown[j] = {})
  BY DEF AdoptionInv, ShownInv

LEMMA Leaving ==
    ASSUME TypeOK, TypeOK', NEW j \in Jobs, AdoptionInv(j), Stored, UNCHANGED edits,
           NEW step \in {"done", "searching"}, Leaves(j, step),
           adoption[j].at \notin {"closing", "done"},
           shown'[j] = shown[j], jobs'[j].cards \subseteq jobs[j].cards,
           step = "done" => ~IsLive(j)',
           step = "searching" => ~adoption[j].ensured
    PROVE  AdoptionInv(j)'
<1>. DEFINE a == adoption[j]
            b == adoption'[j]
<1>1. /\ b.from = a.from /\ b.ensured = FALSE
      /\ b.at \in IF step = "done" THEN {"closing", "done"} ELSE {"missing", "searching"}
  <2>1. adoption \in [Jobs -> Adoption]
    BY DEF TypeOK
  <2>2. b = IF a.claimed
            THEN [Returned(j, IF step = "done" THEN "closing" ELSE "missing") EXCEPT !.claimed = TRUE]
            ELSE Returned(j, step)
    BY <2>1 DEF Leaves
  <2>. QED  BY <2>2 DEF Returned, NoAdoption
<1>2. b.at \notin Placed /\ b.at \notin Admitted /\ b.at \notin Holding /\ b.at \notin Batching
      /\ b.at \notin {"checkpointing", "rechecking", "publishing"}
  BY <1>1, Sets
<1>3. PlaceInv(j)'
  BY <1>1, <1>2, ShownKept DEF PlaceInv
<1>4. BatchInv(j)'
  BY <1>2 DEF BatchInv
<1>5. ShownInv(j)'
  BY <1>1, ShownKept, Fresh DEF ShownInv, AdoptionInv
<1>6. InputInv(j)'
  BY <1>2 DEF InputInv
<1>. QED  BY <1>3, <1>4, <1>5, <1>6 DEF AdoptionInv

LEMMA WaysOut ==
    ASSUME IInv, TypeOK', NEW j \in Jobs, Stored, UNCHANGED edits, shown'[j] = shown[j],
           adoption[j].at \notin {"closing", "done"},
           Stops(j) \/ Fails(j) \/ (Misses(j) /\ ~adoption[j].ensured)
    PROVE  AdoptionInv(j)'
<1>1. /\ TypeOK /\ AdoptionInv(j) /\ jobs[j] \in Job /\ jobs \in [Jobs -> Job]
  BY Fields DEF IInv, AdoptionsInv, TypeOK, Job
<1>2. CASE Stops(j)
  <2>1. jobs'[j] = Revoke(jobs[j]) /\ Leaves(j, "done")
    BY <1>1, <1>2 DEF Stops
  <2>2. ~Live(jobs'[j], FALSE) /\ jobs'[j].cards \subseteq jobs[j].cards
    <3>1. ~Live(Revoke(jobs[j]), FALSE) /\ Revoke(jobs[j]).cards \subseteq jobs[j].cards
      BY <1>1, JobWrites, Zenon
    <3>. QED  BY <2>1, <3>1, Zenon
  <2>3. ~IsLive(j)'
    BY <2>2 DEF IsLive, Live, Revoked, Absent
  <2>. QED  BY <1>1, <2>1, <2>2, <2>3, Leaving
<1>3. CASE Fails(j) /\ adoption[j].ensured
  <2>1. jobs'[j] = End(jobs[j], FALSE, "error") /\ Leaves(j, "done")
    BY <1>1, <1>3 DEF Fails, Handled, Ends
  <2>2. ~Live(jobs'[j], FALSE) /\ jobs'[j].cards \subseteq jobs[j].cards
    <3>1. ~Live(End(jobs[j], FALSE, "error"), FALSE) /\ End(jobs[j], FALSE, "error").cards \subseteq jobs[j].cards
      BY <1>1, JobWrites, Zenon DEF Statuses
    <3>. QED  BY <2>1, <3>1, Zenon
  <2>3. ~IsLive(j)'
    BY <2>2 DEF IsLive, Live, Revoked, Absent
  <2>. QED  BY <1>1, <2>1, <2>2, <2>3, Leaving
<1>4. CASE ~adoption[j].ensured /\ Leaves(j, "searching") /\ UNCHANGED jobs
  BY <1>1, <1>4, Leaving
<1>. QED  BY <1>2, <1>3, <1>4 DEF Fails, Misses, Handled

LEMMA MovesBefore ==
    ASSUME IInv, TypeOK', NEW j \in Jobs, Stored,
           Peek(j) \/ CaptureActive(j) \/ Compare(j) \/ Claim(j)
    PROVE  AdoptionInv(j)'
<1>. DEFINE a == adoption[j]
            b == adoption'[j]
<1>1. /\ TypeOK /\ AdoptionInv(j) /\ a \in Adoption /\ adoption \in [Jobs -> Adoption]
      /\ input.board \in Nat /\ input.local \in Nat /\ fenced \in Nat /\ fenced <= input.board
      /\ \A i \in Inventories : inventory[i] \in Manifest
  BY Fields DEF IInv, AdoptionsInv, InventoriesInv, TypeOK
<1>2. a.at \in {"peeking", "receipting", "comparing", "claiming"} /\ UNCHANGED edits
      /\ UNCHANGED shown
  BY DEF Peek, CaptureActive, Compare, Claim, At, others, edits
<1>3. ~a.ensured /\ shown[j] = {} /\ a.at \notin {"closing", "done", "idle"}
  BY <1>1, <1>2, Fresh DEF AdoptionInv, PlaceInv, Holding, Batching
<1>4. UNCHANGED <<input, fenced>> /\ shown'[j] = {}
  BY <1>2, <1>3 DEF edits
<1>o. ASSUME Stops(j) \/ Fails(j) \/ Misses(j) PROVE AdoptionInv(j)'
  BY <1>o, <1>2, <1>3, WaysOut
<1>5. CASE \E i \in Inventories :
             /\ At(j, "peeking") /\ Head(i)
             /\ UNCHANGED <<inventory, jobs>>
             /\ adoption' = [adoption EXCEPT ![j] = [@ EXCEPT !.at = "receipting", !.from = i,
                                                          !.guard = input.local]]
  <2>1. PICK i \in Inventories :
             /\ inventory[i].state = "active" /\ UNCHANGED <<inventory, jobs>>
             /\ b = [a EXCEPT !.at = "receipting", !.from = i, !.guard = input.local]
    BY <1>5, <1>1 DEF Head
  <2>2. b.at = "receipting" /\ b.from = i /\ b.guard = input.local /\ b.ensured = FALSE
    BY <1>1, <1>3, <2>1 DEF Adoption
  <2>3. "receipting" \notin Holding /\ "receipting" \notin Batching /\ "receipting" \notin Admitted
    BY DEF Holding, Batching, Admitted
  <2>4. jobs'[j].cards \subseteq shown'[j]
    BY <1>1, <1>3, <1>4, <2>1 DEF AdoptionInv, ShownInv
  <2>. QED
    BY <1>1, <1>4, <2>1, <2>2, <2>3, <2>4 DEF AdoptionInv, PlaceInv, BatchInv, ShownInv, InputInv
<1>6. CASE CaptureActive(j)
  <2>1. /\ a.at = "receipting" /\ UNCHANGED <<inventory, jobs>>
        /\ b = [a EXCEPT !.at = "comparing", !.active = input.board]
    BY <1>6, <1>1 DEF CaptureActive, At
  <2>2. /\ b.at = "comparing" /\ b.from = a.from /\ b.guard = a.guard /\ b.active = input.board
        /\ b.ensured = FALSE
    BY <1>1, <1>3, <2>1 DEF Adoption
  <2>3. /\ "comparing" \notin Holding /\ "comparing" \notin Batching /\ "comparing" \notin Admitted
        /\ "receipting" \in Placed
    BY DEF Placed, Holding, Batching, Admitted
  <2>4. jobs'[j].cards \subseteq shown'[j] /\ a.from \in Inventories /\ a.guard <= input.local
    BY <1>1, <1>3, <1>4, <2>1, <2>3 DEF AdoptionInv, PlaceInv, ShownInv, InputInv
  <2>. QED
    BY <1>1, <1>4, <2>1, <2>2, <2>3, <2>4 DEF AdoptionInv, PlaceInv, BatchInv, ShownInv, InputInv
<1>7. CASE Compare(j) /\ SameInputs(j) /\ Goes(j, "claiming") /\ UNCHANGED <<inventory, jobs>>
  <2>1. a.at = "comparing" /\ b = [a EXCEPT !.at = "claiming"] /\ inventory[a.from].built = input.board
    BY <1>7, <1>1 DEF Compare, At, Goes, SameInputs, From
  <2>2. /\ b.at = "claiming" /\ b.from = a.from /\ b.guard = a.guard /\ b.active = a.active
        /\ b.ensured = FALSE
    BY <1>1, <1>3, <2>1 DEF Adoption
  <2>3. /\ "claiming" \notin Holding /\ "claiming" \notin Batching /\ "claiming" \in Admitted
        /\ "comparing" \in Placed /\ "claiming" \in Placed
    BY DEF Placed, Holding, Batching, Admitted
  <2>4. /\ jobs'[j].cards \subseteq shown'[j] /\ a.from \in Inventories /\ a.guard <= input.local
        /\ a.active <= input.board /\ inventory[a.from].state # "unsealed"
    BY <1>1, <1>3, <1>4, <1>7, <2>1, <2>3, NoneAssumption DEF AdoptionInv, PlaceInv, ShownInv, InputInv
  <2>. QED
    BY <1>1, <1>4, <1>7, <2>1, <2>2, <2>3, <2>4 DEF AdoptionInv, PlaceInv, BatchInv, ShownInv, InputInv
<1>8. ASSUME Claim(j), NEW i, i = a.from, UNCHANGED jobs,
             inventory' = [inventory EXCEPT ![i] =
                     [@ EXCEPT !.holder = j, !.publication = Publication(i, j), !.late = Late(i)]],
             adoption' = [adoption EXCEPT ![j] =
                     [@ EXCEPT !.at = "marking", !.claimed = TRUE,
                               !.publication = Publication(i, j),
                               !.prefix = inventory[i].prefix]]
      PROVE  AdoptionInv(j)'
  <2>1. a.at = "claiming" /\ "claiming" \in Admitted /\ "claiming" \in Placed
    BY <1>8 DEF Claim, At, Admitted, Placed
  <2>2. /\ i \in Inventories /\ a.guard <= input.local /\ a.active <= inventory[i].built
        /\ IsLive(j) => inventory[i].built >= fenced
        /\ a.active <= input.board /\ i # None /\ inventory[i].state # "unsealed"
    BY <1>1, <1>8, <2>1, NoneAssumption DEF AdoptionInv, PlaceInv, InputInv
  <2>3. b = [a EXCEPT !.at = "marking", !.claimed = TRUE, !.publication = Publication(i, j),
                      !.prefix = inventory[i].prefix]
    BY <1>1, <1>8
  <2>4. /\ b.at = "marking" /\ b.from = i /\ b.guard = a.guard /\ b.active = a.active /\ b.claimed
        /\ b.ensured = FALSE /\ b.publication = Publication(i, j) /\ b.prefix = inventory[i].prefix
    BY <1>1, <1>3, <1>8, <2>3 DEF Adoption
  <2>5. /\ inventory[i] \in Manifest /\ inventory \in [Inventories -> Manifest]
        /\ inventory[i].prefix \in Nat /\ inventory[i].built \in Nat
    BY <1>1, <2>2 DEF TypeOK, Manifest
  <2>6. inventory'[i] = [inventory[i] EXCEPT !.holder = j, !.publication = Publication(i, j),
                                             !.late = Late(i)]
    BY <1>8, <2>2, <2>5
  <2>7. /\ inventory'[i].publication = Publication(i, j) /\ inventory'[i].prefix = inventory[i].prefix
        /\ inventory'[i].built = inventory[i].built /\ inventory'[i].state = inventory[i].state
    BY <2>5, <2>6 DEF Manifest
  <2>8. /\ "marking" \notin Batching /\ Publication(i, j) # None /\ jobs'[j].cards \subseteq shown'[j]
    BY <1>1, <1>3, <1>4, <1>8, NoneAssumption DEF Batching, Publication, AdoptionInv, ShownInv
  <2>9. IsLive(j)' <=> IsLive(j)
    BY <1>8 DEF IsLive
  <2>10. PlaceInv(j)'
    BY <2>2, <2>4, <2>5, <2>7, <2>8 DEF PlaceInv
  <2>11. BatchInv(j)' /\ ShownInv(j)'
    BY <1>4, <2>4, <2>8 DEF BatchInv, ShownInv
  <2>12. InputInv(j)'
    BY <1>1, <1>4, <2>2, <2>4, <2>5, <2>7, <2>9 DEF InputInv
  <2>. QED  BY <2>10, <2>11, <2>12 DEF AdoptionInv
<1>9. Peek(j) => AdoptionInv(j)'
  <2>1. ASSUME ~IsLive(j), Leaves(j, "done"), UNCHANGED <<inventory, jobs>> PROVE AdoptionInv(j)'
    <3>1. ~IsLive(j)' /\ jobs'[j].cards \subseteq jobs[j].cards
      BY <2>1 DEF IsLive
    <3>. QED  BY <1>1, <1>2, <1>3, <2>1, <3>1, Leaving
  <2>. QED  BY <2>1, <1>5, <1>o DEF Peek, Misses
<1>10. Compare(j) => AdoptionInv(j)'
  BY <1>7, <1>o DEF Compare, Quarantines
<1>11. Claim(j) => AdoptionInv(j)'
  BY <1>8, <1>o DEF Claim, From
<1>. QED  BY <1>6, <1>9, <1>10, <1>11

\* What holds of a job between its claim and its end.
LEMMA WhileHolding ==
    ASSUME IInv, NEW j \in Jobs, adoption[j].at \in Holding
    PROVE  /\ TypeOK /\ AdoptionInv(j) /\ adoption \in [Jobs -> Adoption]
           /\ jobs \in [Jobs -> Job] /\ shown \in [Jobs -> SUBSET Nat]
           /\ input \in [board : Nat, local : Nat] /\ fenced \in Nat /\ fenced <= input.board
           /\ inventory \in [Inventories -> Manifest]
           /\ adoption[j].from \in Inventories /\ adoption[j].from # None
           /\ Size[adoption[j].from] \in Nat
           /\ inventory[adoption[j].from].prefix \in Nat
           /\ inventory[adoption[j].from].built \in Nat
           /\ inventory[adoption[j].from].built <= input.board
           /\ inventory[adoption[j].from].publication = adoption[j].publication
           /\ inventory[adoption[j].from].state # "unsealed"
           /\ adoption[j].prefix <= inventory[adoption[j].from].prefix
           /\ adoption[j].claimed /\ adoption[j].publication # None
           /\ adoption[j].guard <= input.local
           /\ adoption[j].active <= inventory[adoption[j].from].built
           /\ IsLive(j) => inventory[adoption[j].from].built >= fenced
           /\ jobs[j].cards \subseteq shown[j] /\ 0 \notin shown[j]
           /\ \A b \in shown[j] : b <= inventory[adoption[j].from].prefix
           /\ shown[j] # {} => adoption[j].ensured
<1>. DEFINE a == adoption[j]
            i == a.from
<1>1. /\ TypeOK /\ AdoptionInv(j) /\ adoption \in [Jobs -> Adoption]
      /\ jobs \in [Jobs -> Job] /\ shown \in [Jobs -> SUBSET Nat]
      /\ input \in [board : Nat, local : Nat] /\ fenced \in Nat /\ fenced <= input.board
      /\ inventory \in [Inventories -> Manifest]
  BY DEF IInv, AdoptionsInv, InventoriesInv, TypeOK, Job
<1>2. a.at \in Placed /\ a.at \in Admitted /\ a.at \notin {"closing", "done", "receipting"}
  BY DEF Holding, Batching, Admitted, Placed
<1>3. /\ i \in Inventories /\ i # None /\ inventory[i].state # "unsealed" /\ a.claimed
      /\ a.publication # None /\ a.publication = inventory[i].publication
      /\ a.prefix <= inventory[i].prefix
  BY <1>1, <1>2, NoneAssumption DEF AdoptionInv, PlaceInv
<1>4. /\ Size[i] \in Nat /\ inventory[i].prefix \in Nat /\ inventory[i].built \in Nat
      /\ inventory[i].built <= input.board
  BY <1>1, <1>3, SizeAssumption DEF Manifest, IInv, InventoriesInv, InventoryInv
<1>5. /\ a.guard <= input.local /\ a.active <= inventory[i].built
      /\ IsLive(j) => inventory[i].built >= fenced
  BY <1>1, <1>2 DEF AdoptionInv, InputInv
<1>6. /\ jobs[j].cards \subseteq shown[j] /\ 0 \notin shown[j] /\ (shown[j] # {} => a.ensured)
      /\ \A b \in shown[j] \ {0} : b <= inventory[i].prefix
  BY <1>1, <1>2 DEF AdoptionInv, ShownInv
<1>. QED  BY <1>1, <1>3, <1>4, <1>5, <1>6

\* A step between the claim and the end that shows nothing: what is left to
\* check of it.
LEMMA Carried ==
    ASSUME IInv, TypeOK', NEW j \in Jobs, Stored, UNCHANGED edits, UNCHANGED shown, UNCHANGED jobs,
           adoption[j].at \in Holding, adoption'[j].at \in Holding,
           adoption'[j].from = adoption[j].from, adoption'[j].guard = adoption[j].guard,
           adoption'[j].active = adoption[j].active, adoption'[j].claimed = adoption[j].claimed,
           adoption'[j].publication = adoption[j].publication,
           adoption[j].ensured => adoption'[j].ensured,
           adoption'[j].prefix <= inventory'[adoption[j].from].prefix
    PROVE  /\ BatchInv(j)' /\ InputInv(j)' => AdoptionInv(j)'
           /\ /\ adoption'[j].at \in {"checkpointing", "rechecking"} =>
                    adoption'[j].fresh \/ adoption[j].active < input.board
                                       \/ adoption[j].guard < input.local
              /\ adoption'[j].at = "publishing" => adoption'[j].fresh
              => InputInv(j)'
<1>. DEFINE a == adoption[j]
            b == adoption'[j]
            i == a.from
<1>1. i \in Inventories /\ i # None /\ inventory[i].state # "unsealed"
  BY WhileHolding
<1>2. /\ inventory'[i].state # "unsealed" /\ inventory'[i].built = inventory[i].built
      /\ inventory'[i].prefix >= inventory[i].prefix
      /\ inventory[i].publication # None => inventory'[i].publication = inventory[i].publication
  BY <1>1 DEF Stored, Grows
<1>3. a.publication # None /\ inventory[i].publication = a.publication /\ a.claimed
  BY WhileHolding
<1>4. b.at \notin {"idle", "closing", "done"}
  BY DEF Holding, Batching
<1>5. PlaceInv(j)'
  BY <1>1, <1>2, <1>3, <1>4 DEF PlaceInv
<1>6. ShownInv(j)'
  <2>1. inventory[i].prefix \in Nat /\ inventory'[i].prefix \in Nat /\ shown[j] \subseteq Nat
    BY <1>1, WhileHolding DEF TypeOK, Manifest
  <2>2. jobs[j].cards \subseteq shown[j] /\ 0 \notin shown[j] /\ (shown[j] # {} => a.ensured)
        /\ \A c \in shown[j] : c <= inventory'[i].prefix
    BY <1>2, <2>1, WhileHolding
  <2>. QED  BY <1>1, <2>2 DEF ShownInv
<1>7. /\ a.guard <= input'.local /\ a.active <= input'.board /\ a.active <= inventory'[i].built
      /\ IsLive(j)' => inventory'[i].built >= fenced'
  <2>1. input'.board = input.board /\ input'.local = input.local /\ fenced' = fenced
    BY DEF edits
  <2>2. IsLive(j)' <=> IsLive(j)
    BY DEF IsLive
  <2>3. /\ a.guard <= input.local /\ a.active <= inventory[i].built
        /\ inventory[i].built <= input.board /\ inventory[i].built \in Nat /\ input.board \in Nat
        /\ IsLive(j) => inventory[i].built >= fenced
    BY WhileHolding
  <2>4. a.active \in Nat
    BY WhileHolding, Fields DEF Adoption
  <2>. QED  BY <1>2, <2>1, <2>2, <2>3, <2>4
<1>8. ASSUME /\ b.at \in {"checkpointing", "rechecking"} =>
                    b.fresh \/ a.active < input.board \/ a.guard < input.local
             /\ b.at = "publishing" => b.fresh
      PROVE  InputInv(j)'
  <2>1. input' = input
    BY DEF edits
  <2>. QED  BY <1>7, <1>8, <2>1 DEF InputInv
<1>. QED  BY <1>5, <1>6, <1>8 DEF AdoptionInv

LEMMA MovesMark ==
    ASSUME IInv, TypeOK', NEW j \in Jobs, Stored, Mark(j) \/ Check(j)
    PROVE  AdoptionInv(j)'
<1>. DEFINE a == adoption[j]
            b == adoption'[j]
            i == a.from
<1>1. a.at \in {"marking", "checking"} /\ a.at \in Holding /\ UNCHANGED edits /\ UNCHANGED shown
  BY DEF Mark, Check, At, Holding, Batching, others
<1>2. /\ TypeOK /\ AdoptionInv(j) /\ adoption \in [Jobs -> Adoption] /\ a \in Adoption
  BY <1>1, WhileHolding
<1>o. ASSUME Stops(j) PROVE AdoptionInv(j)'
  BY <1>o, <1>1, WaysOut
<1>3. ASSUME Mark(j), UNCHANGED <<inventory, jobs>>,
             b = [a EXCEPT !.at = "checking", !.batch = First(j)]
      PROVE  AdoptionInv(j)'
  <2>1. /\ b.at = "checking" /\ b.from = i /\ b.guard = a.guard /\ b.active = a.active
        /\ b.claimed = a.claimed /\ b.publication = a.publication /\ b.ensured = a.ensured
        /\ b.prefix = a.prefix /\ b.batch = First(j)
    BY <1>2, <1>3 DEF Adoption
  <2>2. "checking" \in Holding /\ "checking" \in Batching /\ "checking" \in Admitted
    BY DEF Holding, Batching, Admitted
  <2>3. InputInv(j)' /\ (BatchInv(j)' => AdoptionInv(j)')
    BY <1>1, <1>3, <2>1, <2>2, WhileHolding, Carried
  <2>4. First(j) <= Size[i] /\ First(j) <= a.prefix + 1 /\ (First(j) = 0 <=> Size[i] = 0)
    <3>1. Size[i] \in Nat /\ a.prefix \in Nat
      BY <1>1, <1>2, WhileHolding DEF Adoption
    <3>. QED  BY <3>1 DEF First, From
  <2>5. BatchInv(j)'
    BY <2>1, <2>4 DEF BatchInv
  <2>. QED  BY <2>3, <2>5
<1>4. ASSUME Mark(j), UNCHANGED <<inventory, jobs>>, ~IsLive(j),
             b = [Returned(j, "closing") EXCEPT !.claimed = TRUE]
      PROVE  AdoptionInv(j)'
  <2>1. b.at = "closing" /\ b.from = i /\ b.ensured = FALSE
    BY <1>4 DEF Returned, NoAdoption
  <2>2. "closing" \notin Placed /\ "closing" \notin Admitted /\ "closing" \notin Holding
        /\ "closing" \notin Batching
    BY DEF Placed, Holding, Batching, Admitted
  <2>3. ~IsLive(j)'
    BY <1>4 DEF IsLive
  <2>4. PlaceInv(j)' /\ BatchInv(j)' /\ InputInv(j)'
    BY <1>1, <1>4, <2>1, <2>2, <2>3, WhileHolding DEF PlaceInv, BatchInv, InputInv
  <2>5. ShownInv(j)'
    BY <1>1, <1>4, <2>1, WhileHolding DEF ShownInv
  <2>. QED  BY <2>4, <2>5 DEF AdoptionInv
<1>5. ASSUME Check(j), Goes(j, "ensuring"), UNCHANGED <<inventory, jobs>>
      PROVE  AdoptionInv(j)'
  <2>1. a.at = "checking" /\ b = [a EXCEPT !.at = "ensuring"]
    BY <1>2, <1>5 DEF Check, At, Goes
  <2>2. /\ b.at = "ensuring" /\ b.from = i /\ b.guard = a.guard /\ b.active = a.active
        /\ b.claimed = a.claimed /\ b.publication = a.publication /\ b.ensured = a.ensured
        /\ b.prefix = a.prefix /\ b.batch = a.batch
    BY <1>2, <2>1 DEF Adoption
  <2>3. "ensuring" \in Holding /\ "checking" \in Batching
    BY DEF Holding, Batching
  <2>4. InputInv(j)' /\ (BatchInv(j)' => AdoptionInv(j)')
    BY <1>1, <1>5, <2>2, <2>3, WhileHolding, Carried
  <2>5. BatchInv(j)'
    BY <1>2, <2>1, <2>2, <2>3 DEF BatchInv, AdoptionInv
  <2>. QED  BY <2>4, <2>5
<1>6. Mark(j) => AdoptionInv(j)'
  BY <1>2, <1>3, <1>4, <1>o DEF Mark
<1>7. Check(j) => AdoptionInv(j)'
  BY <1>5, <1>o DEF Check
<1>. QED  BY <1>6, <1>7

LEMMA MovesEvidence ==
    ASSUME IInv, TypeOK', NEW j \in Jobs, Stored, Ensure(j) \/ Checkpoint(j) \/ Recheck(j)
    PROVE  AdoptionInv(j)'
<1>. DEFINE a == adoption[j]
            b == adoption'[j]
<1>i. PICK i : i = a.from
  OBVIOUS
<1>1. a.at \in {"ensuring", "checkpointing", "rechecking"} /\ a.at \in Holding /\ a.at \in Batching
      /\ UNCHANGED edits /\ UNCHANGED shown /\ a.at \notin {"closing", "done"}
  BY DEF Ensure, Checkpoint, Recheck, At, Holding, Batching, others
<1>2. /\ TypeOK /\ AdoptionInv(j) /\ adoption \in [Jobs -> Adoption] /\ a \in Adoption
      /\ a.batch \in Nat /\ a.prefix \in Nat /\ a.guard \in Nat /\ a.active \in Nat
      /\ input.board \in Nat /\ input.local \in Nat
  BY <1>1, WhileHolding, Fields DEF Adoption
<1>h. {"checkpointing", "rechecking", "publishing", "finishing"} \subseteq Holding
  BY DEF Holding, Batching
<1>3. /\ i \in Inventories /\ inventory \in [Inventories -> Manifest] /\ inventory[i] \in Manifest
      /\ inventory[i].prefix \in Nat /\ inventory'[i].prefix >= inventory[i].prefix
      /\ inventory[i].built \in Nat /\ a.prefix <= inventory[i].prefix
      /\ inventory[i].built <= input.board /\ a.guard <= input.local
      /\ a.active <= inventory[i].built
  BY <1>i, <1>1, WhileHolding DEF Stored, Grows
<1>4. /\ (a.batch = 0 <=> Size[i] = 0) /\ a.batch <= Size[i] /\ a.batch <= a.prefix + 1
      /\ a.at = "checkpointing" => a.batch = 0 \/ Row(j) \in inventory[i].rows
      /\ a.at = "rechecking" => a.batch <= a.prefix
      /\ a.at # "ensuring" => a.ensured
      /\ a.at # "ensuring" => a.fresh \/ a.active < input.board \/ a.guard < input.local
  BY <1>i, <1>1, <1>2 DEF AdoptionInv, BatchInv, InputInv
<1>o. ASSUME Stops(j) \/ Fails(j) PROVE AdoptionInv(j)'
  BY <1>o, <1>1, WaysOut
<1>5. ASSUME a.at = "ensuring", UNCHANGED jobs, inventory' = Recorded(j),
             adoption' = [adoption EXCEPT ![j] =
                        [@ EXCEPT !.at = "checkpointing", !.ensured = TRUE, !.fresh = Unchanged(j)]]
      PROVE  AdoptionInv(j)'
  <2>1. b = [a EXCEPT !.at = "checkpointing", !.ensured = TRUE, !.fresh = Unchanged(j)]
    BY <1>2, <1>5
  <2>2. /\ b.at = "checkpointing" /\ b.from = i /\ b.guard = a.guard /\ b.active = a.active
        /\ b.claimed = a.claimed /\ b.publication = a.publication /\ b.ensured
        /\ b.prefix = a.prefix /\ b.batch = a.batch
    BY <1>i, <1>2, <2>1 DEF Adoption
  <2>3. b.fresh = Unchanged(j)
    BY <1>2, <2>1, Zenon DEF Adoption
  <2>4. b.fresh \/ a.active < input.board \/ a.guard < input.local
    <3>1. Unchanged(j) \/ inventory[i].built # input.board \/ a.guard # input.local
      BY <1>i, <1>2 DEF Unchanged, From, TypeOK
    <3>. QED  BY <1>2, <1>3, <2>3, <3>1
  <2>5. b.at \in Holding /\ b.prefix <= inventory'[a.from].prefix
    <3>1. inventory'[i].prefix \in Nat
      BY <1>3 DEF TypeOK, Manifest
    <3>. QED  BY <1>h, <1>i, <1>2, <1>3, <2>2, <3>1
  <2>6. InputInv(j)' /\ (BatchInv(j)' => AdoptionInv(j)')
    BY <1>1, <1>5, <1>i, <2>2, <2>4, <2>5, Carried
  <2>7. Row(j)' = Row(j) /\ (a.batch # 0 => Row(j) \in inventory'[i].rows)
    <3>1. Row(j)' = Row(j)
      BY <2>2 DEF Row
    <3>2. ASSUME a.batch # 0 PROVE Row(j) \in inventory'[i].rows
      <4>1. inventory'[i] = [inventory[i] EXCEPT !.rows = inventory[i].rows \cup {Row(j)}]
        BY <1>3, <1>5, <1>i, <3>2 DEF Recorded, From
      <4>. QED  BY <1>3, <4>1 DEF Manifest
    <3>. QED  BY <3>1, <3>2
  <2>8. BatchInv(j)'
    BY <1>4, <2>2, <2>7 DEF BatchInv
  <2>. QED  BY <2>6, <2>8
<1>6. ASSUME a.at = "checkpointing", ~Due(j), Goes(j, "rechecking"), UNCHANGED <<inventory, jobs>>
      PROVE  AdoptionInv(j)'
  <2>1. b = [a EXCEPT !.at = "rechecking"]
    BY <1>2, <1>6 DEF Goes
  <2>2. /\ b.at = "rechecking" /\ b.from = i /\ b.guard = a.guard /\ b.active = a.active
        /\ b.claimed = a.claimed /\ b.publication = a.publication /\ b.ensured = a.ensured
        /\ b.prefix = a.prefix /\ b.batch = a.batch /\ b.fresh = a.fresh
    BY <1>i, <1>2, <2>1 DEF Adoption
  <2>3. InputInv(j)' /\ (BatchInv(j)' => AdoptionInv(j)')
    BY <1>h, <1>1, <1>3, <1>4, <1>6, <1>i, <2>2, Carried
  <2>4. a.batch <= a.prefix
    BY <1>2, <1>6 DEF Due
  <2>5. BatchInv(j)'
    BY <1>4, <1>6, <2>2, <2>4 DEF BatchInv
  <2>. QED  BY <2>3, <2>5
<1>7. ASSUME a.at = "checkpointing", UNCHANGED jobs, NEW free,
             inventory' = [inventory EXCEPT ![i] = [@ EXCEPT !.prefix = a.batch, !.holder = free]],
             adoption' = [adoption EXCEPT ![j] = [@ EXCEPT !.at = "rechecking", !.prefix = a.batch]]
      PROVE  AdoptionInv(j)'
  <2>1. /\ b = [a EXCEPT !.at = "rechecking", !.prefix = a.batch]
        /\ inventory'[i] = [inventory[i] EXCEPT !.prefix = a.batch, !.holder = free]
    BY <1>2, <1>3, <1>7
  <2>2. /\ b.at = "rechecking" /\ b.from = i /\ b.guard = a.guard /\ b.active = a.active
        /\ b.claimed = a.claimed /\ b.publication = a.publication /\ b.ensured = a.ensured
        /\ b.prefix = a.batch /\ b.batch = a.batch /\ b.fresh = a.fresh
    BY <1>i, <1>2, <2>1 DEF Adoption
  <2>3. inventory'[i].prefix = a.batch
    BY <1>3, <2>1 DEF Manifest
  <2>4. InputInv(j)' /\ (BatchInv(j)' => AdoptionInv(j)')
    BY <1>h, <1>1, <1>2, <1>4, <1>7, <1>i, <2>2, <2>3, Carried
  <2>5. BatchInv(j)'
    BY <1>2, <1>4, <1>7, <2>2 DEF BatchInv
  <2>. QED  BY <2>4, <2>5
<1>8. ASSUME a.at = "rechecking", StillCurrent(j), UNCHANGED <<inventory, jobs>>,
             Goes(j, "publishing")
      PROVE  AdoptionInv(j)'
  <2>1. b = [a EXCEPT !.at = "publishing"]
    BY <1>2, <1>8 DEF Goes
  <2>2. /\ b.at = "publishing" /\ b.from = i /\ b.guard = a.guard /\ b.active = a.active
        /\ b.claimed = a.claimed /\ b.publication = a.publication /\ b.ensured = a.ensured
        /\ b.prefix = a.prefix /\ b.batch = a.batch /\ b.fresh = a.fresh
    BY <1>i, <1>2, <2>1 DEF Adoption
  <2>3. a.fresh
    <3>1. a.active = input.board /\ a.guard = input.local
      BY <1>8 DEF StillCurrent, Seen
    <3>. QED  BY <1>2, <1>4, <1>8, <3>1
  <2>4. InputInv(j)' /\ (BatchInv(j)' => AdoptionInv(j)')
    BY <1>h, <1>1, <1>3, <1>8, <1>i, <2>2, <2>3, Carried
  <2>5. BatchInv(j)'
    BY <1>4, <1>8, <2>2 DEF BatchInv
  <2>. QED  BY <2>4, <2>5
<1>9. ASSUME Ensure(j) PROVE AdoptionInv(j)'
  <2>1. ~(At(j, "ensuring") /\ Holds(j) /\ Contradicted(j))
    BY NoContradiction
  <2>. QED  BY <1>5, <1>9, <1>o, <2>1, Zenon DEF Ensure, At
<1>10. ASSUME Checkpoint(j) PROVE AdoptionInv(j)'
  <2>1. At(j, "checkpointing") => Durable(j)
    BY NoContradiction
  <2>2. \/ Stops(j) \/ Fails(j)
        \/ ~Due(j) /\ Goes(j, "rechecking") /\ UNCHANGED <<inventory, jobs>>
        \/ /\ inventory' = [inventory EXCEPT ![From(j)] =
                       [@ EXCEPT !.prefix = a.batch,
                                 !.holder = IF a.batch = Size[From(j)] THEN None ELSE j]]
           /\ adoption' = [adoption EXCEPT ![j] =
                             [@ EXCEPT !.at = "rechecking", !.prefix = a.batch]]
           /\ UNCHANGED jobs
    BY <1>10, <2>1, Zenon DEF Checkpoint
  <2>3. At(j, "checkpointing") /\ i = From(j)
    BY <1>10, <1>i DEF Checkpoint, From
  <2>. QED  BY <1>6, <1>7, <1>o, <2>2, <2>3 DEF At
<1>11. Recheck(j) => AdoptionInv(j)'
  BY <1>8, <1>o DEF Recheck, At
<1>. QED  BY <1>9, <1>10, <1>11

LEMMA MovesPublish ==
    ASSUME IInv, TypeOK', NEW j \in Jobs, Stored, Publish(j)
    PROVE  AdoptionInv(j)'
<1>. DEFINE a == adoption[j]
            b == adoption'[j]
            batch == a.batch
            cards == {batch} \ {0}
<1>i. PICK i : i = a.from
  OBVIOUS
<1>1. a.at = "publishing" /\ a.at \in Holding /\ a.at \in Batching /\ a.at \notin {"closing", "done"}
      /\ UNCHANGED edits
  BY DEF Publish, At, Holding, Batching
<1>2. /\ TypeOK /\ AdoptionInv(j) /\ adoption \in [Jobs -> Adoption] /\ a \in Adoption
      /\ batch \in Nat /\ a.prefix \in Nat /\ input \in [board : Nat, local : Nat]
  BY <1>1, WhileHolding, Fields DEF Adoption
<1>3. /\ i \in Inventories /\ Size[i] \in Nat /\ inventory[i].prefix \in Nat
      /\ a.prefix <= inventory[i].prefix
  BY <1>i, <1>1, WhileHolding
<1>4. (batch = 0 <=> Size[i] = 0) /\ batch <= Size[i] /\ batch <= a.prefix /\ a.ensured
  BY <1>i, <1>1, <1>2 DEF AdoptionInv, BatchInv
<1>5. CASE Stops(j) /\ UNCHANGED shown
  BY <1>1, <1>5, WaysOut
<1>6. ASSUME UNCHANGED inventory, shown' = [shown EXCEPT ![j] = @ \cup cards],
             jobs' = [jobs EXCEPT ![j].cards = @ \cup cards],
             b.at = "finishing" \/ (b.at = "checking" /\ b.batch = batch + 1 /\ batch # Size[i]),
             b.from = a.from, b.guard = a.guard, b.active = a.active, b.claimed = a.claimed,
             b.publication = a.publication, b.prefix = a.prefix, b.ensured = a.ensured
      PROVE  AdoptionInv(j)'
  <2>1. b.at \in Holding /\ (b.at \in Batching => b.at = "checking")
        /\ b.at \notin {"checkpointing", "rechecking", "publishing", "idle", "closing", "done"}
    BY <1>6 DEF Holding, Batching
  <2>2. IsLive(j)' <=> IsLive(j)
    <3>1. jobs'[j] = [jobs[j] EXCEPT !.cards = jobs[j].cards \cup cards] /\ jobs[j] \in Job
      BY <1>1, <1>6, WhileHolding
    <3>2. jobs'[j].status = jobs[j].status /\ jobs'[j].superseded = jobs[j].superseded
      BY <3>1 DEF Job
    <3>. QED  BY <3>2 DEF IsLive, Live, Revoked, Absent
  <2>3. jobs'[j].cards = jobs[j].cards \cup cards /\ shown'[j] = shown[j] \cup cards
    <3>1. jobs[j] \in Job /\ shown \in [Jobs -> SUBSET Nat] /\ jobs \in [Jobs -> Job]
      BY <1>1, WhileHolding
    <3>. QED  BY <1>6, <3>1 DEF Job
  <2>4. PlaceInv(j)'
    BY <1>1, <1>6, <2>1, <2>2, WhileHolding DEF PlaceInv
  <2>5. BatchInv(j)'
    BY <1>2, <1>3, <1>4, <1>6, <1>i, <2>1 DEF BatchInv
  <2>6. ShownInv(j)'
    <3>1. \A c \in shown'[j] : c <= inventory[i].prefix /\ c # 0
      <4>1. batch <= inventory[i].prefix
        BY <1>2, <1>3, <1>4
      <4>. QED  BY <4>1, <1>1, <1>4, <1>i, <2>3, WhileHolding
    <3>2. jobs'[j].cards \subseteq shown'[j]
      BY <1>1, <2>3, WhileHolding
    <3>. QED  BY <1>3, <1>4, <1>6, <1>i, <3>1, <3>2 DEF ShownInv
  <2>7. InputInv(j)'
    <3>1. /\ a.guard <= input.local /\ a.active <= inventory[i].built
          /\ inventory[i].built <= input.board /\ inventory[i].built \in Nat
          /\ IsLive(j) => inventory[i].built >= fenced
          /\ a.active \in Nat /\ input.board \in Nat
      BY <1>1, <1>2, <1>i, WhileHolding DEF Adoption
    <3>2. a.active <= input.board
      BY <3>1
    <3>. QED  BY <1>1, <1>6, <1>i, <2>1, <2>2, <3>1, <3>2 DEF InputInv, edits
  <2>. QED  BY <2>4, <2>5, <2>6, <2>7 DEF AdoptionInv
<1>7. ASSUME batch = Size[i], b = [a EXCEPT !.at = "finishing"],
             UNCHANGED inventory, shown' = [shown EXCEPT ![j] = @ \cup cards],
             jobs' = [jobs EXCEPT ![j].cards = @ \cup cards]
      PROVE  AdoptionInv(j)'
  <2>1. /\ b.at = "finishing" /\ b.from = a.from /\ b.guard = a.guard /\ b.active = a.active
        /\ b.claimed = a.claimed /\ b.publication = a.publication /\ b.prefix = a.prefix
        /\ b.ensured = a.ensured
    BY <1>2, <1>7 DEF Adoption
  <2>. QED  BY <1>6, <1>7, <2>1
<1>8. ASSUME batch # Size[i], b = [a EXCEPT !.at = "checking", !.batch = batch + 1, !.fresh = FALSE],
             UNCHANGED inventory, shown' = [shown EXCEPT ![j] = @ \cup cards],
             jobs' = [jobs EXCEPT ![j].cards = @ \cup cards]
      PROVE  AdoptionInv(j)'
  BY <1>2, <1>6, <1>8 DEF Adoption
<1>. QED  BY <1>2, <1>5, <1>7, <1>8, <1>i DEF Publish, From

LEMMA MovesEnd ==
    ASSUME IInv, TypeOK', NEW j \in Jobs, Stored,
           Finish(j) \/ Break(j) \/ Raise(j) \/ Release(j) \/ Search(j)
    PROVE  AdoptionInv(j)'
<1>. DEFINE a == adoption[j]
            b == adoption'[j]
<1>1. /\ TypeOK /\ AdoptionInv(j) /\ adoption \in [Jobs -> Adoption] /\ jobs \in [Jobs -> Job]
      /\ jobs[j] \in Job /\ shown \in [Jobs -> SUBSET Nat] /\ a \in Adoption
  BY Fields DEF IInv, AdoptionsInv, TypeOK, Job
<1>2. UNCHANGED edits
  BY DEF Finish, Break, Raise, Release, Search, others
<1>3. CASE Finish(j)
  <2>1. jobs'[j] = End(jobs[j], FALSE, "complete") /\ a.at = "finishing"
    BY <1>1, <1>3 DEF Finish, Ends, At
  <2>2. ~Live(jobs'[j], FALSE) /\ jobs'[j].cards \subseteq jobs[j].cards
    <3>1. ~Live(End(jobs[j], FALSE, "complete"), FALSE)
          /\ End(jobs[j], FALSE, "complete").cards \subseteq jobs[j].cards
      BY <1>1, JobWrites, Zenon DEF Statuses
    <3>. QED  BY <2>1, <3>1, Zenon
  <2>3. ~IsLive(j)'
    BY <2>2 DEF IsLive, Live, Revoked, Absent
  <2>4. Leaves(j, "done") /\ UNCHANGED shown
    BY <1>3 DEF Finish, others
  <2>. QED  BY <1>1, <1>2, <2>1, <2>2, <2>3, <2>4, Leaving
<1>4. CASE Break(j) \/ Raise(j)
  <2>1. a.at \notin {"closing", "done"} /\ Fails(j) /\ UNCHANGED shown
    BY <1>4 DEF Break, Raise, Quarantines, At, others
  <2>. QED  BY <1>2, <2>1, WaysOut
<1>5. CASE Release(j)
  <2>1. /\ a.at \in {"closing", "missing"} /\ UNCHANGED <<jobs, shown>>
        /\ b = Returned(j, IF At(j, "closing") THEN "done" ELSE "searching")
    BY <1>1, <1>5 DEF Release, others
  <2>2. /\ b.at = (IF a.at = "closing" THEN "done" ELSE "searching") /\ b.from = a.from
        /\ b.ensured = FALSE
    BY <2>1 DEF Returned, NoAdoption, At
  <2>3. /\ b.at \notin Placed /\ b.at \notin Admitted /\ b.at \notin Holding /\ b.at \notin Batching
        /\ b.at \notin {"checkpointing", "rechecking", "publishing"} /\ a.at \notin Holding
    BY <2>1, <2>2, Sets
  <2>4. IsLive(j)' <=> IsLive(j)
    BY <2>1 DEF IsLive
  <2>5. PlaceInv(j)'
    BY <1>1, <2>1, <2>2, <2>3, <2>4, ShownKept DEF PlaceInv, AdoptionInv
  <2>6. BatchInv(j)' /\ InputInv(j)'
    BY <2>3 DEF BatchInv, InputInv
  <2>7. ShownInv(j)'
    <3>1. /\ jobs[j].cards \subseteq shown[j] /\ 0 \notin shown[j]
          /\ a.at = "missing" => shown[j] = {}
      BY <1>1, <2>1, <2>3 DEF AdoptionInv, ShownInv, PlaceInv
    <3>. QED  BY <1>1, <2>1, <2>2, <3>1, ShownKept DEF ShownInv
  <2>. QED  BY <2>5, <2>6, <2>7 DEF AdoptionInv
<1>6. CASE Search(j)
  <2>1. a.at = "searching" /\ b = [a EXCEPT !.at = "done"]
    BY <1>1, <1>6 DEF Search, At, Goes
  <2>2. b.at = "done" /\ b.from = a.from /\ b.ensured = a.ensured
    BY <1>1, <2>1 DEF Adoption
  <2>3. /\ b.at \notin Placed /\ b.at \notin Admitted /\ b.at \notin Holding /\ b.at \notin Batching
        /\ b.at \notin {"checkpointing", "rechecking", "publishing"} /\ a.at \notin Holding
    BY <2>1, <2>2, Sets
  <2>4. shown[j] = {} /\ jobs[j].cards = {} /\ ~a.ensured
    BY <1>1, <2>1, <2>3, Fresh DEF AdoptionInv, PlaceInv, ShownInv
  <2>5. ~IsLive(j)' /\ jobs'[j].cards \subseteq shown'[j] /\ shown'[j] \subseteq {0}
    <3>1. CASE /\ jobs' = [jobs EXCEPT ![j] = [@ EXCEPT !.status = "complete", !.cards = {0}]]
               /\ shown' = [shown EXCEPT ![j] = @ \cup {0}]
      <4>1. jobs'[j].status = "complete" /\ jobs'[j].cards = {0} /\ shown'[j] = {0}
        BY <1>1, <2>4, <3>1 DEF Job
      <4>. QED  BY <4>1 DEF IsLive, Live
    <3>2. CASE Ends(j, "error") /\ UNCHANGED shown
      <4>1. jobs'[j] = End(jobs[j], FALSE, "error")
        BY <1>1, <3>2 DEF Ends
      <4>2. ~Live(jobs'[j], FALSE) /\ jobs'[j].cards \subseteq jobs[j].cards
        <5>1. ~Live(End(jobs[j], FALSE, "error"), FALSE)
              /\ End(jobs[j], FALSE, "error").cards \subseteq jobs[j].cards
          BY <1>1, JobWrites, Zenon DEF Statuses
        <5>. QED  BY <4>1, <5>1, Zenon
      <4>3. ~IsLive(j)'
        BY <4>2 DEF IsLive, Live, Revoked, Absent
      <4>. QED  BY <2>4, <3>2, <4>2, <4>3
    <3>. QED  BY <1>6, <3>1, <3>2 DEF Search
  <2>6. PlaceInv(j)'
    BY <1>1, <2>2, <2>3, <2>4, <2>5, ShownKept DEF PlaceInv, AdoptionInv
  <2>7. BatchInv(j)' /\ InputInv(j)'
    BY <2>3 DEF BatchInv, InputInv
  <2>8. ShownInv(j)'
    BY <2>2, <2>5 DEF ShownInv
  <2>. QED  BY <2>6, <2>7, <2>8 DEF AdoptionInv
<1>. QED  BY <1>3, <1>4, <1>5, <1>6

-----------------------------------------------------------------------------
(* The step and the theorems.                                              *)

\* The jobs that do not move while j does.
LEMMA OthersStay ==
    ASSUME TypeOK, NEW j \in Jobs, Adopts(j), NEW k \in Jobs, k # j
    PROVE  jobs'[k] = jobs[k] /\ adoption'[k] = adoption[k] /\ shown'[k] = shown[k]
<1>. USE DEF others, Misses, Stops, Fails, Ends, Leaves, Goes, Quarantines
<1>t. /\ jobs \in [Jobs -> Job] /\ adoption \in [Jobs -> Adoption] /\ shown \in [Jobs -> SUBSET Nat]
  BY DEF TypeOK, Job
<1>1. CASE Peek(j) \/ CaptureActive(j) \/ Compare(j) \/ Claim(j)
  BY <1>t, <1>1 DEF Peek, CaptureActive, Compare, Claim
<1>2. CASE Mark(j) \/ Check(j) \/ Recheck(j)
  BY <1>t, <1>2 DEF Mark, Check, Recheck
<1>3. CASE Ensure(j)
  BY <1>t, <1>3 DEF Ensure
<1>4. CASE Checkpoint(j)
  BY <1>t, <1>4 DEF Checkpoint
<1>5. CASE Publish(j)
  BY <1>t, <1>5 DEF Publish
<1>6. CASE Finish(j) \/ Break(j) \/ Raise(j) \/ Release(j) \/ Search(j)
  BY <1>t, <1>6 DEF Finish, Break, Raise, Release, Search
<1>. QED  BY <1>1, <1>2, <1>3, <1>4, <1>5, <1>6 DEF Adopts

LEMMA StepAdopts ==
    ASSUME IInv, NEW j \in Jobs, Adopts(j)
    PROVE  IInv'
<1>1. TypeOK /\ (adoption[j].at \in Placed => From(j) \in Inventories)
  BY DEF IInv, AdoptionsInv, AdoptionInv, PlaceInv, From
<1>2. TypeOK'
  BY <1>1, TypeAdopts
<1>3. Stored
  BY <1>2, StoredAdopts
<1>4. UNCHANGED edits /\ input'.board >= input.board /\ input'.local >= input.local
  BY <1>1, AdoptsFrame, Fields DEF edits
<1>5. InventoriesInv'
  BY <1>3, <1>4 DEF IInv, InventoriesInv, Stored, edits
<1>6. AdoptionInv(j)'
  BY <1>2, <1>3, MovesBefore, MovesMark, MovesEvidence, MovesPublish, MovesEnd DEF Adopts
<1>7. ASSUME NEW k \in Jobs, k # j PROVE AdoptionInv(k)'
  <2>1. jobs'[k] = jobs[k] /\ adoption'[k] = adoption[k] /\ shown'[k] = shown[k]
    BY <1>1, <1>7, OthersStay
  <2>2. Around(k)
    BY <1>3, <1>4, <2>1 DEF Around, Stored
  <2>3. IsLive(k)' => IsLive(k) /\ fenced' = fenced
    BY <1>4, <2>1 DEF IsLive, edits
  <2>. QED  BY <1>1, <1>2, <2>1, <2>2, <2>3, Frame DEF IInv, AdoptionsInv
<1>8. AdoptionsInv'
  BY <1>6, <1>7 DEF AdoptionsInv
<1>. QED  BY <1>2, <1>5, <1>8 DEF IInv

LEMMA StepAround ==
    ASSUME IInv,
           \/ \E i \in Inventories : Seal(i) \/ Expire(i) \/ Lapse(i)
           \/ \E here \in BOOLEAN : EditBoard(here)
           \/ EditLocal \/ Fence \/ Crash
           \/ \E j \in Jobs : Ask(j) \/ Timeout(j)
    PROVE  IInv'
<1>1. /\ TypeOK /\ InventoriesInv /\ jobs \in [Jobs -> Job] /\ adoption \in [Jobs -> Adoption]
      /\ \A k \in Jobs : AdoptionInv(k)
  BY DEF IInv, AdoptionsInv, TypeOK, Job
<1>2. TypeOK'
  BY <1>1, TypeAround
<1>3. Stored /\ input'.board >= input.board /\ input'.local >= input.local
  BY <1>1, <1>2, StoredAround
<1>4. UNCHANGED shown
  BY DEF Seal, Expire, Lapse, EditBoard, EditLocal, Fence, Crash, Ask, Timeout
<1>5. InventoriesInv'
  <2>1. fenced' = fenced \/ (fenced' = input.board /\ input' = input)
    BY DEF Seal, Expire, Lapse, EditBoard, EditLocal, Fence, Crash, Ask, Timeout, edits
  <2>2. fenced' <= input'.board
    <3>1. /\ input.board \in Nat /\ input'.board \in Nat /\ fenced \in Nat /\ fenced <= input.board
          /\ input'.board >= input.board
      BY <1>1, <1>2, <1>3 DEF InventoriesInv, TypeOK
    <3>. QED  BY <2>1, <3>1
  <2>. QED  BY <1>3, <2>2 DEF InventoriesInv, Stored
<1>f. ASSUME NEW k \in Jobs, adoption'[k] = adoption[k], jobs'[k].cards \subseteq jobs[k].cards,
             IsLive(k)' => IsLive(k) /\ fenced' = fenced
      PROVE  AdoptionInv(k)'
  <2>1. Around(k)
    BY <1>3, <1>4, <1>f DEF Around, Stored
  <2>. QED  BY <1>1, <1>2, <1>f, <2>1, Frame
<1>6. CASE \/ \E i \in Inventories : Seal(i) \/ Expire(i) \/ Lapse(i)
           \/ \E here \in BOOLEAN : EditBoard(here)
           \/ EditLocal
  <2>1. UNCHANGED <<jobs, adoption, fenced>>
    BY <1>6 DEF Seal, Expire, Lapse, EditBoard, EditLocal, edits
  <2>2. ASSUME NEW k \in Jobs PROVE AdoptionInv(k)'
    BY <1>f, <2>1 DEF IsLive
  <2>. QED  BY <1>2, <1>5, <2>2 DEF IInv, AdoptionsInv
<1>r. ASSUME NEW k \in Jobs, jobs'[k] = Revoke(jobs[k])
      PROVE  ~IsLive(k)' /\ jobs'[k].cards \subseteq jobs[k].cards
  <2>1. jobs[k] \in Job
    BY <1>1
  <2>2. ~Live(Revoke(jobs[k]), FALSE) /\ Revoke(jobs[k]).cards = {}
    BY <2>1, JobWrites, Zenon
  <2>3. ~Live(jobs'[k], FALSE) /\ jobs'[k].cards = {}
    BY <1>r, <2>2, Zenon
  <2>. QED  BY <2>3 DEF IsLive, Live, Revoked, Absent
<1>7. CASE Fence
  <2>1. ASSUME NEW k \in Jobs PROVE ~IsLive(k)' /\ jobs'[k].cards \subseteq jobs[k].cards
    <3>1. CASE jobs'[k] = jobs[k] /\ Absent(jobs[k])
      BY <3>1 DEF IsLive, Live, Absent
    <3>2. CASE jobs'[k] = Revoke(jobs[k])
      BY <3>2, <1>r
    <3>. QED  BY <1>7, <3>1, <3>2 DEF Fence
  <2>2. ASSUME NEW k \in Jobs PROVE AdoptionInv(k)'
    BY <1>7, <1>f, <2>1 DEF Fence
  <2>. QED  BY <1>2, <1>5, <2>2 DEF IInv, AdoptionsInv
<1>8. ASSUME NEW j \in Jobs, Timeout(j) PROVE IInv'
  <2>1. UNCHANGED <<adoption, fenced>>
    BY <1>8 DEF Timeout, edits
  <2>2. ASSUME NEW k \in Jobs
        PROVE  /\ jobs'[k].cards \subseteq jobs[k].cards
               /\ IsLive(k)' => IsLive(k)
    <3>1. CASE k = j
      <4>1. jobs'[k] = [jobs[k] EXCEPT !.status = "error"] /\ jobs[k] \in Job
        BY <1>1, <1>8, <3>1 DEF Timeout
      <4>2. jobs'[k].status = "error" /\ jobs'[k].cards = jobs[k].cards
        BY <4>1 DEF Job
      <4>. QED  BY <4>2 DEF IsLive, Live
    <3>2. CASE k # j
      <4>1. jobs'[k] = jobs[k]
        BY <1>1, <1>8, <3>2 DEF Timeout
      <4>. QED  BY <4>1 DEF IsLive
    <3>. QED  BY <3>1, <3>2
  <2>3. ASSUME NEW k \in Jobs PROVE AdoptionInv(k)'
    BY <1>f, <2>1, <2>2
  <2>. QED  BY <1>2, <1>5, <2>3 DEF IInv, AdoptionsInv
<1>9. ASSUME NEW j \in Jobs, Ask(j) PROVE IInv'
  <2>1. PICK replaced \in SUBSET {k \in Jobs : IsLive(k)} :
          jobs' = [k \in Jobs |->
              CASE k = j -> [NoJob EXCEPT !.status = "running"]
                [] k # j /\ k \in replaced -> Revoke(jobs[k])
                [] OTHER -> jobs[k]]
    BY <1>9 DEF Ask
  <2>2. /\ adoption[j].at = "idle" /\ fenced' = fenced
        /\ adoption' = [adoption EXCEPT ![j].at = "peeking"]
    BY <1>9 DEF Ask, At, Goes, edits
  <2>3. ASSUME NEW k \in Jobs, k # j PROVE AdoptionInv(k)'
    <3>1. adoption'[k] = adoption[k]
      BY <1>1, <2>2, <2>3
    <3>2. CASE jobs'[k] = Revoke(jobs[k])
      BY <3>1, <3>2, <1>r, <1>f
    <3>3. CASE jobs'[k] = jobs[k]
      BY <3>1, <3>3, <2>2, <1>f DEF IsLive
    <3>. QED  BY <2>1, <2>3, <3>2, <3>3
  <2>4. AdoptionInv(j)'
    <3>1. jobs'[j].cards = {}
      BY <2>1 DEF NoJob
    <3>2. /\ adoption'[j] = [adoption[j] EXCEPT !.at = "peeking"] /\ adoption[j] \in Adoption
      BY <1>1, <2>2
    <3>3. /\ adoption'[j].at = "peeking" /\ adoption'[j].from = adoption[j].from
          /\ adoption'[j].ensured = adoption[j].ensured
      BY <3>2 DEF Adoption
    <3>4. /\ "peeking" \notin Placed /\ "peeking" \notin Admitted /\ "peeking" \notin Holding
          /\ "peeking" \notin Batching /\ "idle" \notin Holding
      BY Sets
    <3>5. ~adoption[j].ensured /\ shown'[j] = {}
      BY <1>1, <1>4, <2>2, <3>4, Fresh DEF AdoptionInv, PlaceInv
    <3>6. PlaceInv(j)'
      BY <1>1, <1>2, <1>3, <3>3, <3>4, <3>5, ShownKept DEF PlaceInv
    <3>7. BatchInv(j)' /\ InputInv(j)' /\ ShownInv(j)'
      BY <3>1, <3>3, <3>4, <3>5 DEF BatchInv, InputInv, ShownInv
    <3>. QED  BY <3>6, <3>7 DEF AdoptionInv
  <2>. QED  BY <1>2, <1>5, <2>3, <2>4 DEF IInv, AdoptionsInv
<1>10. CASE Crash
  <2>1. ASSUME NEW k \in Jobs PROVE ~IsLive(k)' /\ jobs'[k].cards = {}
    BY <1>10 DEF Crash, IsLive, Live, NoJob
  <2>2. ASSUME NEW k \in Jobs PROVE AdoptionInv(k)'
    <3>1. CASE At(k, "idle")
      <4>1. adoption'[k] = adoption[k]
        BY <1>10, <3>1 DEF Crash
      <4>2. jobs'[k].cards \subseteq jobs[k].cards
        BY <2>1
      <4>. QED  BY <1>f, <2>1, <4>1, <4>2
    <3>2. CASE ~At(k, "idle")
      <4>1. /\ adoption'[k].at = "done" /\ adoption'[k].from = adoption[k].from
            /\ adoption'[k].ensured = FALSE
        BY <1>10, <3>2 DEF Crash, Returned, NoAdoption
      <4>2. /\ "done" \notin Placed /\ "done" \notin Admitted /\ "done" \notin Holding
            /\ "done" \notin Batching
        BY Sets
      <4>3. PlaceInv(k)'
        BY <1>1, <1>2, <1>3, <2>1, <4>1, <4>2, ShownKept DEF PlaceInv
      <4>4. BatchInv(k)' /\ InputInv(k)'
        BY <4>1, <4>2 DEF BatchInv, InputInv
      <4>5. ShownInv(k)'
        <5>1. 0 \in shown[k] => shown[k] = {0}
          BY <1>1 DEF AdoptionInv, ShownInv
        <5>. QED  BY <1>1, <1>2, <1>3, <1>4, <2>1, <4>1, <5>1, ShownKept DEF ShownInv
      <4>. QED  BY <4>3, <4>4, <4>5 DEF AdoptionInv
    <3>. QED  BY <3>1, <3>2
  <2>. QED  BY <1>2, <1>5, <2>2 DEF IInv, AdoptionsInv
<1>. QED  BY <1>6, <1>7, <1>8, <1>9, <1>10

LEMMA InitInv == Init => IInv
<1>. SUFFICES ASSUME Init PROVE IInv
  OBVIOUS
<1>1. TypeOK
  BY TypeInit
<1>2. InventoriesInv
  <2>1. ASSUME NEW i \in Inventories PROVE InventoryInv(i)
    <3>1. inventory[i] = Unsealed /\ input.board = 0 /\ Size[i] \in Nat
      BY SizeAssumption DEF Init
    <3>2. Unsealed.built = 0 /\ Unsealed.prefix = 0 /\ Unsealed.rows = {} /\ Unsealed.holder = None
          /\ Unsealed.state = "unsealed" /\ Unsealed.late = FALSE
      BY DEF Unsealed
    <3>. QED  BY <3>1, <3>2 DEF InventoryInv
  <2>. QED  BY <2>1 DEF Init, InventoriesInv
<1>3. ASSUME NEW j \in Jobs PROVE AdoptionInv(j)
  <2>1. /\ adoption[j].at = "idle" /\ adoption[j].from = None /\ adoption[j].ensured = FALSE
        /\ jobs[j].cards = {} /\ shown[j] = {} /\ jobs[j].status = "absent"
    BY DEF Init, NoAdoption, NoJob
  <2>2. "idle" \notin Placed /\ "idle" \notin Admitted /\ "idle" \notin Holding /\ "idle" \notin Batching
    BY Sets
  <2>3. PlaceInv(j) /\ BatchInv(j) /\ InputInv(j)
    BY <2>1, <2>2 DEF PlaceInv, BatchInv, InputInv, IsLive, Live
  <2>4. ShownInv(j)
    BY <2>1 DEF ShownInv
  <2>. QED  BY <2>3, <2>4 DEF AdoptionInv
<1>. QED  BY <1>1, <1>2, <1>3 DEF IInv, AdoptionsInv

LEMMA StutterInv == IInv /\ UNCHANGED vars => IInv'
<1>. SUFFICES ASSUME IInv, UNCHANGED vars PROVE IInv'
  OBVIOUS
<1>1. TypeOK'
  BY DEF IInv, TypeOK, vars
<1>2. InventoriesInv'
  BY DEF IInv, InventoriesInv, InventoryInv, vars
<1>3. AdoptionsInv'
  <2>1. UNCHANGED <<input, fenced, inventory, jobs, adoption, shown>>
    BY DEF vars
  <2>2. TypeOK /\ TypeOK' /\ InventoriesInv
    BY <1>1 DEF IInv
  <2>3. Stored /\ input'.board >= input.board /\ input'.local >= input.local
    BY <2>1, <2>2, StoredSame, Fields
  <2>4. ASSUME NEW j \in Jobs PROVE AdoptionInv(j)'
    <3>1. Around(j)
      BY <2>1, <2>3 DEF Around, Stored
    <3>2. IsLive(j)' => IsLive(j)
      BY <2>1 DEF IsLive
    <3>. QED  BY <2>1, <2>2, <3>1, <3>2, Frame DEF IInv, AdoptionsInv
  <2>. QED  BY <2>4 DEF AdoptionsInv
<1>. QED  BY <1>1, <1>2, <1>3 DEF IInv

LEMMA StepInv == IInv /\ [Next]_vars => IInv'
  BY StepAdopts, StepAround, StutterInv DEF Next

\* The inductive invariant, and with it the types, in every reachable state.
THEOREM Invariance == Spec => []IInv
<1>. QED  BY InitInv, StepInv, PTL DEF Spec

LEMMA Shown ==
    ASSUME IInv, NEW j \in Jobs, NEW b \in shown[j] \ {0}
    PROVE  /\ From(j) \in Inventories /\ b <= inventory[From(j)].prefix
           /\ \E row \in inventory[From(j)].rows : row.batch = b
<1>1. From(j) \in Inventories /\ b <= inventory[From(j)].prefix /\ b \in Nat
  BY Fields DEF IInv, AdoptionsInv, AdoptionInv, ShownInv, From
<1>2. inventory[From(j)].prefix \in Nat
  BY <1>1, Fields DEF IInv, Manifest
<1>3. [batch |-> b, publication |-> inventory[From(j)].publication] \in inventory[From(j)].rows
  <2>1. b \in 1..inventory[From(j)].prefix
    BY <1>1, <1>2
  <2>. QED  BY <1>1, <2>1 DEF IInv, InventoriesInv, InventoryInv
<1>. QED  BY <1>1, <1>3

\* Whatever a job ever published of an inventory has its evidence committed and
\* lies within the durable prefix, across crashes, lapsed claims and adoptions
\* by other jobs (ensure_adoption_evidence, checkpoint_adoption).
THEOREM ShownDurable == Spec => []ShownIsDurable
<1>1. IInv => ShownIsDurable
  BY Shown DEF ShownIsDurable
<1>. QED  BY <1>1, Invariance, PTL

\* The deck of a job is of an inventory or of a search, never of both: after the
\* first evidence every way out ends the job (prepared_adoption_incomplete).
THEOREM OneKind == Spec => []OneKindOfDeck
<1>1. IInv => OneKindOfDeck
  BY DEF IInv, AdoptionsInv, AdoptionInv, ShownInv, OneKindOfDeck
<1>. QED  BY <1>1, Invariance, PTL

\* No interleaving of adoptions, lapses and crashes makes sound evidence look
\* damaged: what retire_invalid_inventory takes out of use is damaged, or a card
\* of it or the head itself has expired.
THEOREM SoundKept == Spec => []SoundIsKept
<1>1. IInv => SoundIsKept
  BY DEF IInv, InventoriesInv, InventoryInv, SoundIsKept
<1>. QED  BY <1>1, Invariance, PTL

\* A live job shows cards only of an inventory built on inputs no older than the
\* last revocation (_invalidate_trade_jobs), though it compared its inputs
\* before it claimed and other processes edit them.
THEOREM LiveCurrent == Spec => []LiveIsCurrent
<1>1. ASSUME IInv, NEW j \in Jobs, IsLive(j), jobs[j].cards \ {0} # {}
      PROVE  inventory[From(j)].built >= fenced
  <2>1. AdoptionInv(j)
    BY <1>1 DEF IInv, AdoptionsInv
  <2>2. shown[j] # {} /\ adoption[j].at \notin {"closing", "done"}
    BY <1>1, <2>1 DEF AdoptionInv, ShownInv, PlaceInv
  <2>3. adoption[j].at \in Admitted
    BY <2>1, <2>2 DEF AdoptionInv, ShownInv, PlaceInv, Admitted
  <2>. QED  BY <1>1, <2>1, <2>3 DEF AdoptionInv, InputInv, From
<1>2. IInv => LiveIsCurrent
  BY <1>1 DEF LiveIsCurrent
<1>. QED  BY <1>2, Invariance, PTL

\* A batch is shown only if, when its evidence was committed, the inputs were
\* still those the inventory was built on and the read guard had seen, although
\* the reads before and after that commit are the only ones (still_current).
THEOREM NoStale == Spec => NothingStale
<1>1. ASSUME IInv, [Next]_vars, NEW j \in Jobs, NEW b \in (shown'[j] \ shown[j]) \ {0}
      PROVE  adoption[j].fresh
  <2>1. shown \in [Jobs -> SUBSET Nat] /\ TypeOK
    BY <1>1 DEF IInv, TypeOK
  <2>2. shown' # shown
    BY <1>1
  <2>3. PICK k \in Jobs : Publish(k) \/ Search(k)
    BY <1>1, <2>2, Zenon DEF Next, Adopts, vars, Seal, Expire, Lapse, EditBoard, EditLocal, Fence, Crash, Ask,
       Timeout, Peek, CaptureActive, Compare, Claim, Mark, Check, Ensure, Checkpoint, Recheck,
       Finish, Break, Raise, Release, others
  <2>4. k = j
    BY <1>1, <2>1, <2>3 DEF Publish, Search
  <2>5. ~Search(j)
    BY <1>1, <2>1 DEF Search
  <2>6. adoption[j].at = "publishing"
    BY <2>3, <2>4, <2>5 DEF Publish, At
  <2>. QED  BY <1>1, <2>6 DEF IInv, AdoptionsInv, AdoptionInv, InputInv
<1>2. IInv /\ [Next]_vars => \A j \in Jobs : \A b \in (shown'[j] \ shown[j]) \ {0} : adoption[j].fresh
  BY <1>1
<1>3. QED  BY <1>2, Invariance, PTL DEF Spec, NothingStale

-----------------------------------------------------------------------------
(* The decks (Decks).                                                      *)

\* The writes of an adoption to its job.
Shows(j) ==
    IsLive(j) /\ \E C \in SUBSET (Batches \cup {0}), status \in {"running", "complete"} :
        /\ jobs'[j] = [jobs[j] EXCEPT !.status = status, !.cards = C]
        /\ Deck!Continues(jobs[j].cards, C)

Writes(j) ==
    \/ jobs'[j] = jobs[j]
    \/ jobs'[j] = Revoke(jobs[j])
    \/ \E status \in Statuses : jobs'[j] = End(jobs[j], FALSE, status)
    \/ Shows(j)

LEMMA NoZero == Batches \subseteq Nat \ {0}
<1>1. ASSUME NEW i \in Inventories PROVE 1..Size[i] \subseteq Nat \ {0}
  BY SizeAssumption
<1>. QED  BY <1>1 DEF Batches

\* A job that runs and has shown cards has shown batches of its inventory.
LEMMA OwnBatches ==
    ASSUME IInv, NEW j \in Jobs, adoption[j].at \notin {"closing", "done"}
    PROVE  jobs[j].cards \subseteq Batches
<1>1. AdoptionInv(j) /\ jobs[j].cards \subseteq shown[j] /\ shown[j] \subseteq Nat /\ 0 \notin shown[j]
  BY Fields, Fresh DEF IInv, AdoptionsInv, AdoptionInv, ShownInv
<1>2. ASSUME NEW b \in jobs[j].cards PROVE b \in Batches
  <2>1. PICK i \in Inventories : b <= inventory[i].prefix
    BY <1>1 DEF AdoptionInv, ShownInv
  <2>2. inventory[i].prefix \in Nat /\ inventory[i].prefix <= Size[i] /\ Size[i] \in Nat
    BY Fields, SizeAssumption DEF IInv, InventoriesInv, InventoryInv, Manifest
  <2>3. b \in 1..Size[i]
    BY <1>1, <2>1, <2>2
  <2>. QED  BY <2>3 DEF Batches
<1>. QED  BY <1>2

LEMMA PublishShows ==
    ASSUME IInv, NEW j \in Jobs, Publish(j), IsLive(j)
    PROVE  Shows(j)
<1>1. PICK b : b = adoption[j].batch
  OBVIOUS
<1>2. /\ jobs[j] \in Job /\ jobs'[j] = [jobs[j] EXCEPT !.cards = jobs[j].cards \cup ({b} \ {0})]
      /\ adoption[j].at = "publishing" /\ jobs[j].status = "running"
  BY <1>1, Fields DEF Publish, At, IInv, TypeOK, IsLive, Live
<1>3. b \in Nat /\ From(j) \in Inventories /\ b <= Size[From(j)] /\ Size[From(j)] \in Nat
  BY <1>1, <1>2, Fields, Sets, SizeAssumption
  DEF IInv, AdoptionsInv, AdoptionInv, PlaceInv, BatchInv, Adoption, From
<1>4. {b} \ {0} \subseteq Batches
  BY <1>3 DEF Batches
<1>5. jobs[j].cards \subseteq Batches
  BY <1>2, OwnBatches
<1>6. PICK C \in SUBSET Batches : C = jobs[j].cards \cup ({b} \ {0})
  BY <1>4, <1>5
<1>7. Deck!Continues(jobs[j].cards, C) /\ C \in SUBSET (Batches \cup {0})
  BY <1>6 DEF Deck!Continues
<1>8. jobs'[j] = [jobs[j] EXCEPT !.status = "running", !.cards = C]
  BY <1>2, <1>6 DEF Job
<1>. QED  BY <1>7, <1>8 DEF Shows

LEMMA SearchShows ==
    ASSUME IInv, NEW j \in Jobs, Search(j)
    PROVE  Shows(j) \/ jobs'[j] = End(jobs[j], FALSE, "error")
<1>1. adoption[j].at = "searching" /\ jobs \in [Jobs -> Job]
  BY DEF Search, At, IInv, TypeOK, Job
<1>2. ASSUME IsLive(j), jobs' = [jobs EXCEPT ![j] = [@ EXCEPT !.status = "complete", !.cards = {0}]]
      PROVE  Shows(j)
  <2>1. AdoptionInv(j) /\ ~adoption[j].ensured
    BY <1>1, Sets DEF IInv, AdoptionsInv, AdoptionInv, PlaceInv
  <2>2. jobs[j].cards = {}
    BY <1>1, <2>1, Fresh DEF AdoptionInv, ShownInv
  <2>3. PICK C \in SUBSET (Batches \cup {0}) : C = {0}
    OBVIOUS
  <2>4. Deck!Continues(jobs[j].cards, C)
    BY <2>2, <2>3, NoZero DEF Deck!Continues
  <2>5. jobs'[j] = [jobs[j] EXCEPT !.status = "complete", !.cards = C]
    BY <1>1, <1>2, <2>3
  <2>. QED  BY <1>2, <2>4, <2>5 DEF Shows
<1>3. CASE Ends(j, "error")
  BY <1>1, <1>3 DEF Ends
<1>. QED  BY <1>2, <1>3 DEF Search

LEMMA FailsWrites ==
    ASSUME IInv, NEW j \in Jobs, Fails(j) \/ Stops(j)
    PROVE  Writes(j) /\ adoption'[j].at # "idle"
<1>1. jobs \in [Jobs -> Job] /\ adoption \in [Jobs -> Adoption]
  BY DEF IInv, TypeOK, Job
<1>2. ASSUME NEW step \in {"done", "searching"}, Leaves(j, step) PROVE adoption'[j].at # "idle"
  BY <1>1, <1>2 DEF Leaves, Returned, NoAdoption
<1>3. CASE Stops(j)
  BY <1>1, <1>2, <1>3 DEF Stops, Writes
<1>4. CASE Fails(j)
  BY <1>1, <1>2, <1>4 DEF Fails, Ends, Writes, Statuses
<1>. QED  BY <1>3, <1>4

LEMMA AdoptWrites ==
    ASSUME IInv, NEW j \in Jobs, Adopts(j)
    PROVE  Writes(j) /\ adoption'[j].at # "idle" /\ adoption[j].at \notin {"idle", "done"}
<1>1. jobs \in [Jobs -> Job] /\ adoption \in [Jobs -> Adoption]
  BY DEF IInv, TypeOK, Job
<1>2. ASSUME NEW step, Goes(j, step) PROVE adoption'[j].at = step
  BY <1>1, <1>2 DEF Goes, Adoption
<1>3. ASSUME NEW step \in {"done", "searching"}, Leaves(j, step) PROVE adoption'[j].at # "idle"
  BY <1>1, <1>3 DEF Leaves, Returned, NoAdoption
<1>4. ASSUME UNCHANGED jobs PROVE Writes(j)
  BY <1>4 DEF Writes
<1>. USE <1>1 DEF At, Misses, Quarantines
<1>5. CASE Peek(j) \/ CaptureActive(j)
  BY <1>3, <1>4, <1>5 DEF Peek, CaptureActive, Adoption
<1>6. CASE Compare(j)
  BY <1>2, <1>3, <1>4, <1>6, FailsWrites DEF Compare
<1>7. CASE Claim(j)
  BY <1>3, <1>4, <1>7, FailsWrites DEF Claim, Adoption
<1>8. CASE Mark(j)
  <2>1. CASE Stops(j)
    BY <1>8, <2>1, FailsWrites DEF Mark
  <2>2. CASE UNCHANGED jobs /\ ~Stops(j)
    BY <1>4, <1>8, <2>2 DEF Mark, Adoption, Returned, NoAdoption
  <2>. QED  BY <1>8, <2>1, <2>2 DEF Mark
<1>9. CASE Check(j) \/ Recheck(j)
  BY <1>2, <1>4, <1>9, FailsWrites DEF Check, Recheck
<1>10. CASE Ensure(j)
  BY <1>4, <1>10, FailsWrites DEF Ensure, Adoption
<1>11. CASE Checkpoint(j)
  BY <1>2, <1>4, <1>11, FailsWrites DEF Checkpoint, Adoption
<1>12. CASE Publish(j)
  <2>1. adoption[j].at = "publishing" /\ adoption[j] \in Adoption
    BY <1>12 DEF Publish
  <2>2. CASE IsLive(j)
    <3>1. \/ adoption' = [adoption EXCEPT ![j] = [adoption[j] EXCEPT !.at = "finishing"]]
          \/ \E b : adoption' = [adoption EXCEPT ![j] =
                 [adoption[j] EXCEPT !.at = "checking", !.batch = b, !.fresh = FALSE]]
      BY <1>12, <2>2 DEF Publish
    <3>2. adoption'[j].at # "idle"
      BY <2>1, <3>1 DEF Adoption
    <3>. QED  BY <1>12, <2>1, <2>2, <3>2, PublishShows DEF Writes
  <2>3. CASE ~IsLive(j)
    BY <1>12, <2>1, <2>3, FailsWrites DEF Publish
  <2>. QED  BY <2>2, <2>3
<1>13. CASE Finish(j)
  BY <1>3, <1>13 DEF Finish, Ends, Writes, Statuses
<1>14. CASE Break(j) \/ Raise(j)
  BY <1>14, FailsWrites DEF Break, Raise
<1>15. CASE Release(j)
  BY <1>4, <1>15 DEF Release, Returned, NoAdoption, others
<1>16. CASE Search(j)
  BY <1>2, <1>16, SearchShows DEF Search, Writes, Statuses
<1>. QED
  BY <1>5, <1>6, <1>7, <1>8, <1>9, <1>10, <1>11, <1>12, <1>13, <1>14, <1>15, <1>16 DEF Adopts

\* A job is absent until it is asked for, and again only when the process died.
Present ==
    \A j \in Jobs :
        /\ adoption[j].at = "idle" => Absent(jobs[j])
        /\ adoption[j].at \notin {"idle", "done"} => ~Absent(jobs[j])

LEMMA WritesPresent ==
    ASSUME TypeOK, NEW j \in Jobs, ~Absent(jobs[j]), Writes(j)
    PROVE  ~Absent(jobs'[j])
<1>1. jobs[j] \in Job
  BY Fields
<1>2. ~Absent(Revoke(jobs[j])) /\ \A status \in Statuses : ~Absent(End(jobs[j], FALSE, status))
  BY <1>1 DEF Revoke, End, Absent, Job, Statuses
<1>3. Shows(j) => ~Absent(jobs'[j])
  BY <1>1 DEF Shows, Absent, Job
<1>. QED  BY <1>2, <1>3 DEF Writes

LEMMA PresentStep == IInv /\ Present /\ [Next]_vars => Present'
<1>. SUFFICES ASSUME IInv, Present, [Next]_vars PROVE Present'
  OBVIOUS
<1>1. TypeOK /\ jobs \in [Jobs -> Job] /\ adoption \in [Jobs -> Adoption]
  BY DEF IInv, TypeOK, Job
<1>2. ASSUME NEW j \in Jobs, Adopts(j) PROVE Present'
  <2>1. ASSUME NEW k \in Jobs, k # j PROVE jobs'[k] = jobs[k] /\ adoption'[k] = adoption[k]
    BY <1>1, <1>2, <2>1, OthersStay
  <2>. QED  BY <1>1, <1>2, <2>1, AdoptWrites, WritesPresent DEF Present
<1>3. ASSUME UNCHANGED <<jobs, adoption>> PROVE Present'
  BY <1>3 DEF Present
<1>4. CASE Fence
  BY <1>1, <1>4, WritesPresent DEF Fence, Present, Writes
<1>5. CASE Crash
  <2>1. \A j \in Jobs : Absent(jobs'[j]) /\ adoption'[j].at \in {"idle", "done"}
    BY <1>1, <1>5 DEF Crash, NoJob, Absent, At, Returned, NoAdoption
  <2>. QED  BY <2>1 DEF Present
<1>6. ASSUME NEW j \in Jobs, Ask(j) PROVE Present'
  <2>1. PICK J \in SUBSET {k \in Jobs : IsLive(k)} :
          jobs' = [k \in Jobs |->
              CASE k = j -> [NoJob EXCEPT !.status = "running"]
                [] k # j /\ k \in J -> Revoke(jobs[k])
                [] OTHER -> jobs[k]]
    BY <1>6 DEF Ask
  <2>2. ~Absent(jobs'[j]) /\ adoption'[j].at = "peeking"
    BY <1>1, <1>6, <2>1 DEF Ask, Goes, NoJob, Absent, Adoption
  <2>3. ASSUME NEW k \in Jobs, k # j PROVE adoption'[k] = adoption[k] /\ (Absent(jobs'[k]) <=> Absent(jobs[k]))
    BY <1>1, <1>6, <2>1, <2>3, WritesPresent DEF Ask, Goes, Writes, IsLive, Live, Revoked
  <2>. QED  BY <2>2, <2>3 DEF Present
<1>7. ASSUME NEW j \in Jobs, Timeout(j) PROVE Present'
  BY <1>1, <1>7 DEF Timeout, Present, Absent, Job
<1>. QED
  BY <1>2, <1>3, <1>4, <1>5, <1>6, <1>7
  DEF Next, vars, Seal, Expire, Lapse, EditBoard, EditLocal

LEMMA AlwaysPresent == Spec => []Present
<1>1. Init => Present
  BY DEF Init, Present, NoJob, NoAdoption, Absent
<1>. QED  BY <1>1, PresentStep, Invariance, PTL DEF Spec

\* The states of a deck, case by case.
LEMMA DeckStates ==
    ASSUME NEW x \in Job, NEW asked \in BOOLEAN
    PROVE  /\ Absent(x) => DeckState(x, FALSE, asked) = IF asked THEN "gone" ELSE "none"
           /\ ~Absent(x) /\ x.superseded => DeckState(x, FALSE, asked) = "withdrawn"
           /\ Live(x, FALSE) <=> DeckState(x, FALSE, asked) = "open"
           /\ x.status \in Statuses /\ ~x.superseded => DeckState(x, FALSE, asked) = x.status
BY DEF DeckState, Live, Revoked, Absent, Job, Statuses

\* A job whose record stays keeps its deck.
LEMMA SameDeck ==
    ASSUME Present, Present', NEW j \in Jobs, jobs'[j] = jobs[j],
           adoption[j].at = "idle" <=> adoption'[j].at = "idle"
    PROVE  DeckOf(j)' = DeckOf(j)
<1>1. StateOf(j)' = StateOf(j)
  BY DEF StateOf, At
<1>. QED  BY <1>1 DEF DeckOf

LEMMA DecksWithdraw ==
    ASSUME NEW J \in SUBSET Jobs, \A j \in J : StateOf(j) # "gone",
           \A j \in J : DeckOf(j)' = Deck!Empty("withdrawn"),
           \A j \in Jobs \ J : DeckOf(j)' = DeckOf(j)
    PROVE  Deck!Next
<1>1. Deck!Withdraw(J)
  BY DEF Deck!Withdraw, Deck!Emptied, DeckOf
<1>. QED  BY <1>1 DEF Deck!Next

LEMMA RevokeDeck ==
    ASSUME TypeOK, NEW j \in Jobs, ~Absent(jobs[j]), jobs'[j] = Revoke(jobs[j])
    PROVE  StateOf(j) # "gone" /\ DeckOf(j)' = Deck!Empty("withdrawn")
<1>1. jobs[j] \in Job /\ Revoke(jobs[j]) \in Job
  BY Fields, JobType
<1>2. PICK x \in Job : x = jobs[j]
  BY <1>1
<1>3. PICK y \in Job : y = jobs'[j]
  BY <1>1
<1>4. y.superseded /\ y.cards = {} /\ ~Absent(y)
  BY <1>2, <1>3 DEF Revoke, Job, Absent
<1>5. \A asked \in BOOLEAN : DeckState(y, FALSE, asked) = "withdrawn" /\ DeckState(x, FALSE, asked) # "gone"
  BY <1>2, <1>4, DeckStates DEF DeckState, Job, Absent
<1>6. StateOf(j)' = "withdrawn" /\ StateOf(j) # "gone"
  BY <1>2, <1>3, <1>5 DEF StateOf
<1>. QED  BY <1>3, <1>4, <1>6 DEF DeckOf, Deck!Empty

\* Jobs that are revoked together.
LEMMA RevokeDecks ==
    ASSUME IInv, Present, Present', NEW J \in SUBSET Jobs,
           \A j \in J : ~Absent(jobs[j]) /\ jobs'[j] = Revoke(jobs[j]),
           \A j \in Jobs \ J : jobs'[j] = jobs[j],
           \A j \in Jobs : adoption[j].at = "idle" <=> adoption'[j].at = "idle"
    PROVE  Deck!Next
<1>1. \A j \in J : StateOf(j) # "gone" /\ DeckOf(j)' = Deck!Empty("withdrawn")
  BY RevokeDeck DEF IInv
<1>2. \A j \in Jobs \ J : DeckOf(j)' = DeckOf(j)
  BY SameDeck
<1>. QED  BY <1>1, <1>2, DecksWithdraw

\* A job that ends, be it by its worker or by the clean-up loop.
LEMMA CloseDeck ==
    ASSUME IInv, NEW j \in Jobs, NEW status \in Statuses, IsLive(j),
           jobs'[j] = [jobs[j] EXCEPT !.status = status],
           \A k \in Jobs \ {j} : DeckOf(k)' = DeckOf(k)
    PROVE  Deck!Next
<1>1. PICK x \in Job : x = jobs[j]
  BY Fields DEF IInv
<1>2. PICK y \in Job : y = jobs'[j]
  BY <1>1 DEF Job, Statuses
<1>3. y.status = status /\ ~y.superseded /\ y.cards = x.cards /\ Live(x, FALSE)
  BY <1>1, <1>2 DEF Job, IsLive, Live, Revoked
<1>4. \A asked \in BOOLEAN : DeckState(x, FALSE, asked) = "open" /\ DeckState(y, FALSE, asked) = status
  BY <1>3, DeckStates
<1>5. StateOf(j) = "open" /\ StateOf(j)' = status
  BY <1>1, <1>2, <1>4 DEF StateOf
<1>6. DeckOf(j)' = [DeckOf(j) EXCEPT !.state = status]
  BY <1>1, <1>2, <1>3, <1>5 DEF DeckOf
<1>7. Deck!Close(j, status)
  BY <1>5, <1>6 DEF Deck!Close, DeckOf
<1>. QED  BY <1>7 DEF Deck!Next, Statuses

LEMMA ShowDeck ==
    ASSUME IInv, NEW j \in Jobs, Shows(j), \A k \in Jobs \ {j} : DeckOf(k)' = DeckOf(k)
    PROVE  Deck!Next
<1>1. PICK x \in Job : x = jobs[j]
  BY Fields DEF IInv
<1>2. PICK C \in SUBSET (Batches \cup {0}), status \in {"running", "complete"} :
          /\ jobs'[j] = [x EXCEPT !.status = status, !.cards = C]
          /\ Deck!Continues(x.cards, C)
  BY <1>1 DEF Shows
<1>3. PICK y \in Job : y = jobs'[j]
  <2>1. C \in SUBSET Nat
    BY NoZero
  <2>. QED  BY <1>1, <1>2, <2>1 DEF Job
<1>4. y.status = status /\ ~y.superseded /\ y.cards = C /\ Live(x, FALSE)
  BY <1>1, <1>2, <1>3 DEF Job, Shows, IsLive, Live, Revoked
<1>5. PICK next \in {"open", "complete"} : next = IF status = "running" THEN "open" ELSE "complete"
  OBVIOUS
<1>6. \A asked \in BOOLEAN : DeckState(x, FALSE, asked) = "open" /\ DeckState(y, FALSE, asked) = next
  BY <1>4, <1>5, DeckStates DEF Live, Revoked, Absent, Statuses
<1>7. StateOf(j) = "open" /\ StateOf(j)' = next
  BY <1>1, <1>3, <1>6 DEF StateOf
<1>8. DeckOf(j)' = [state |-> next, cards |-> C] /\ Deck!Continues(DeckOf(j).cards, C)
  BY <1>1, <1>2, <1>3, <1>4, <1>7 DEF DeckOf
<1>9. Deck!Show(j)
  BY <1>7, <1>8 DEF Deck!Show, DeckOf
<1>. QED  BY <1>9 DEF Deck!Next

LEMMA AdoptsDecks ==
    ASSUME IInv, Present, Present', NEW j \in Jobs, Adopts(j)
    PROVE  Deck!Next \/ \A k \in Jobs : DeckOf(k)' = DeckOf(k)
<1>1. Writes(j) /\ ~Absent(jobs[j]) /\ (adoption[j].at = "idle" <=> adoption'[j].at = "idle")
  BY AdoptWrites DEF Present
<1>2. ASSUME NEW k \in Jobs \ {j}
      PROVE  jobs'[k] = jobs[k] /\ (adoption[k].at = "idle" <=> adoption'[k].at = "idle")
  BY OthersStay DEF IInv
<1>3. \A k \in Jobs \ {j} : DeckOf(k)' = DeckOf(k)
  BY <1>2, SameDeck
<1>4. CASE jobs'[j] = jobs[j]
  BY <1>1, <1>3, <1>4, SameDeck
<1>5. CASE jobs'[j] = Revoke(jobs[j])
  <2>1. PICK J \in SUBSET Jobs : J = {j}
    OBVIOUS
  <2>. QED  BY <1>1, <1>2, <1>5, <2>1, RevokeDecks
<1>6. ASSUME NEW status \in Statuses, jobs'[j] = End(jobs[j], FALSE, status)
      PROVE  Deck!Next \/ \A k \in Jobs : DeckOf(k)' = DeckOf(k)
  BY <1>3, <1>4, <1>5, <1>6, CloseDeck DEF End, IsLive
<1>. QED  BY <1>1, <1>3, <1>4, <1>5, <1>6, ShowDeck DEF Writes

LEMMA AskDecks ==
    ASSUME IInv, Present, Present', NEW j \in Jobs, Ask(j)
    PROVE  Deck!Next
<1>1. PICK J \in SUBSET {k \in Jobs : IsLive(k)} :
          jobs' = [k \in Jobs |->
              CASE k = j -> [NoJob EXCEPT !.status = "running"]
                [] k # j /\ k \in J -> Revoke(jobs[k])
                [] OTHER -> jobs[k]]
  BY DEF Ask
<1>2. adoption[j].at = "idle" /\ Absent(jobs[j]) /\ j \notin J
      /\ \A k \in Jobs \ {j} : adoption'[k] = adoption[k]
  BY <1>1 DEF Ask, At, Goes, Present, IInv, TypeOK, IsLive, Live, Revoked
<1>3. StateOf(j) = "none"
  BY <1>2 DEF StateOf, DeckState, At, Live, Revoked
<1>4. DeckOf(j)' = Deck!Empty("open")
  <2>1. PICK y \in Job : y = [NoJob EXCEPT !.status = "running"]
    BY DEF Job, NoJob
  <2>2. jobs'[j] = y /\ Live(y, FALSE) /\ y.cards = {}
    BY <1>1, <2>1 DEF Live, Revoked, Absent, NoJob
  <2>3. \A asked \in BOOLEAN : DeckState(y, FALSE, asked) = "open"
    BY <2>2, DeckStates
  <2>4. StateOf(j)' = "open"
    BY <2>2, <2>3 DEF StateOf
  <2>. QED  BY <2>2, <2>4 DEF DeckOf, Deck!Empty
<1>5. \A k \in J : StateOf(k) = "open" /\ DeckOf(k)' = Deck!Empty("withdrawn")
  <2>. SUFFICES ASSUME NEW k \in J PROVE StateOf(k) = "open" /\ DeckOf(k)' = Deck!Empty("withdrawn")
    OBVIOUS
  <2>1. k \in Jobs /\ IsLive(k) /\ ~Absent(jobs[k]) /\ jobs'[k] = Revoke(jobs[k])
    BY <1>1, <1>2 DEF IsLive, Live, Revoked
  <2>2. PICK x \in Job : x = jobs[k]
    BY <2>1, Fields DEF IInv
  <2>3. \A asked \in BOOLEAN : DeckState(x, FALSE, asked) = "open"
    BY <2>1, <2>2, DeckStates DEF IsLive
  <2>4. StateOf(k) = "open"
    BY <2>2, <2>3 DEF StateOf
  <2>. QED  BY <2>1, <2>4, RevokeDeck DEF IInv
<1>6. \A k \in Jobs \ (J \cup {j}) : DeckOf(k)' = DeckOf(k)
  <2>1. \A k \in Jobs \ (J \cup {j}) : jobs'[k] = jobs[k] /\ adoption'[k] = adoption[k]
    BY <1>1, <1>2
  <2>. QED  BY <2>1, SameDeck
<1>7. Deck!Open(j, J)
  BY <1>2, <1>3, <1>4, <1>5, <1>6 DEF Deck!Open, Deck!Emptied, DeckOf
<1>8. J \in SUBSET Jobs /\ j \in Jobs \ J
  BY <1>2
<1>. QED  BY <1>7, <1>8 DEF Deck!Next

LEMMA FenceDecks ==
    ASSUME IInv, Present, Present', Fence
    PROVE  Deck!Next
<1>1. PICK J \in SUBSET Jobs : J = {j \in Jobs : ~Absent(jobs[j])}
  OBVIOUS
<1>2. /\ \A j \in J : ~Absent(jobs[j]) /\ jobs'[j] = Revoke(jobs[j])
      /\ \A j \in Jobs \ J : jobs'[j] = jobs[j]
      /\ adoption' = adoption
  BY <1>1 DEF Fence
<1>. QED  BY <1>2, RevokeDecks

LEMMA TimeoutDecks ==
    ASSUME IInv, Present, Present', NEW j \in Jobs, Timeout(j)
    PROVE  Deck!Next \/ \A k \in Jobs : DeckOf(k)' = DeckOf(k)
<1>1. /\ jobs[j] \in Job /\ jobs[j].status = "running" /\ adoption' = adoption
      /\ jobs'[j] = [jobs[j] EXCEPT !.status = "error"]
      /\ \A k \in Jobs \ {j} : jobs'[k] = jobs[k]
  BY Fields DEF Timeout, IInv, TypeOK
<1>2. \A k \in Jobs \ {j} : DeckOf(k)' = DeckOf(k)
  BY <1>1, SameDeck
<1>3. CASE IsLive(j)
  BY <1>1, <1>2, <1>3, CloseDeck DEF Statuses
<1>4. CASE ~IsLive(j)
  <2>1. PICK x \in Job, y \in Job : x = jobs[j] /\ y = jobs'[j]
    BY <1>1 DEF Job
  <2>2. ~Absent(x) /\ x.superseded /\ ~Absent(y) /\ y.superseded /\ x.cards = y.cards
    BY <1>1, <1>4, <2>1 DEF IsLive, Live, Revoked, Absent, Job
  <2>3. \A asked \in BOOLEAN : /\ DeckState(x, FALSE, asked) = "withdrawn"
                               /\ DeckState(y, FALSE, asked) = "withdrawn"
    BY <2>2, DeckStates
  <2>4. StateOf(j)' = StateOf(j)
    BY <2>1, <2>3 DEF StateOf
  <2>. QED  BY <1>2, <2>1, <2>2, <2>4 DEF DeckOf
<1>. QED  BY <1>3, <1>4

LEMMA CrashDecks ==
    ASSUME IInv, Present, Crash
    PROVE  Deck!Next
<1>1. PICK J \in SUBSET Jobs : J = {j \in Jobs : adoption[j].at # "idle"}
  OBVIOUS
<1>2. PICK y \in Job : y = NoJob /\ Absent(y) /\ y.cards = {}
  <2>1. NoJob \in Job /\ Absent(NoJob) /\ NoJob.cards = {}
    BY DEF Job, NoJob, Absent
  <2>. QED  BY <2>1
<1>3. \A j \in Jobs : jobs'[j] = y
  BY <1>2 DEF Crash
<1>4. \A j \in J : DeckOf(j)' = Deck!Empty("gone")
  <2>1. \A j \in J : At(j, "idle")' = FALSE
    BY <1>1 DEF Crash, At, Returned, NoAdoption
  <2>2. DeckState(y, FALSE, TRUE) = "gone"
    BY <1>2, DeckStates
  <2>3. \A j \in J : StateOf(j)' = "gone"
    BY <1>3, <2>1, <2>2 DEF StateOf
  <2>. QED  BY <1>2, <1>3, <2>3 DEF DeckOf, Deck!Empty
<1>5. \A j \in Jobs \ J : DeckOf(j)' = DeckOf(j)
  <2>. SUFFICES ASSUME NEW j \in Jobs \ J PROVE DeckOf(j)' = DeckOf(j)
    OBVIOUS
  <2>1. /\ At(j, "idle") = TRUE /\ At(j, "idle")' = TRUE /\ Absent(jobs[j])
        /\ jobs[j] \in Job /\ AdoptionInv(j) /\ adoption[j].at = "idle"
    BY <1>1, Fields DEF Crash, At, Present, IInv, AdoptionsInv
  <2>2. jobs[j].cards = {}
    BY <2>1, Sets DEF AdoptionInv, ShownInv, PlaceInv
  <2>3. \A x \in Job : Absent(x) => DeckState(x, FALSE, FALSE) = "none"
    BY DeckStates
  <2>4. StateOf(j) = "none" /\ StateOf(j)' = "none"
    BY <1>2, <1>3, <2>1, <2>3 DEF StateOf
  <2>. QED  BY <1>2, <1>3, <2>2, <2>4 DEF DeckOf
<1>6. Deck!Drop(J)
  BY <1>4, <1>5 DEF Deck!Drop, Deck!Emptied
<1>. QED  BY <1>6 DEF Deck!Next

\* Clients of the service may rely on Decks whatever becomes of the adoptions: a
\* deck is emptied only when it is withdrawn or forgotten, it is not reopened by
\* what a worker does later, and no search mixes with a batch (try_adopt,
\* _run_trade_job, _invalidate_trade_jobs, the clean-up loop, a crash).
THEOREM Refinement == Spec => ImplementsDecks
<1>1. Init => Deck!Init
  <2>. SUFFICES ASSUME Init, NEW j \in Jobs PROVE DeckOf(j) = Deck!Empty("none")
    BY DEF Deck!Init
  <2>1. At(j, "idle") /\ Absent(jobs[j]) /\ jobs[j].cards = {}
    BY DEF Init, NoAdoption, NoJob, At, Absent
  <2>2. StateOf(j) = "none"
    BY <2>1 DEF StateOf, DeckState, Live, Revoked
  <2>. QED  BY <2>1, <2>2 DEF DeckOf, Deck!Empty
<1>2. ASSUME IInv, Present, Present', [Next]_vars
      PROVE  Deck!Next \/ \A j \in Jobs : DeckOf(j)' = DeckOf(j)
  <2>1. ASSUME UNCHANGED <<jobs, adoption>> PROVE \A j \in Jobs : DeckOf(j)' = DeckOf(j)
    BY <1>2, <2>1, SameDeck
  <2>2. CASE \/ \E i \in Inventories : Seal(i) \/ Expire(i) \/ Lapse(i)
             \/ \E here \in BOOLEAN : EditBoard(here)
             \/ EditLocal \/ UNCHANGED vars
    BY <2>1, <2>2 DEF Seal, Expire, Lapse, EditBoard, EditLocal, vars
  <2>3. CASE Fence \/ Crash \/ \E j \in Jobs : Ask(j) \/ Timeout(j) \/ Adopts(j)
    BY <1>2, <2>3, FenceDecks, CrashDecks, AskDecks, TimeoutDecks, AdoptsDecks
  <2>. QED  BY <1>2, <2>2, <2>3 DEF Next
<1>3. IInv /\ Present /\ Present' /\ [Next]_vars => [Deck!Next]_([j \in Jobs |-> DeckOf(j)])
  <2>. SUFFICES ASSUME IInv, Present, Present', [Next]_vars, ~Deck!Next
                PROVE  [j \in Jobs |-> DeckOf(j)]' = [j \in Jobs |-> DeckOf(j)]
    OBVIOUS
  <2>1. \A j \in Jobs : DeckOf(j)' = DeckOf(j)
    BY <1>2
  <2>. QED  BY <2>1
<1>. QED  BY <1>1, <1>3, Invariance, AlwaysPresent, PTL DEF Spec, ImplementsDecks, Deck!Spec
===============================================================================
