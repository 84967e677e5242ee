--------------------------- MODULE PreparedAdoption ---------------------------
(***************************************************************************)
(* A trade job that serves a prepared inventory instead of a search        *)
(* (prepared_trade_runtime_v2.try_adopt over prepared_trade_store_v2).     *)
(* The job compares its inputs with those of the sealed inventory, claims  *)
(* it for a time, and for each batch of cards commits the evidence, moves  *)
(* the durable prefix, reads the inputs again and shows the cards.  Where  *)
(* it cannot, it searches afresh, ends with an error, or is revoked.       *)
(*                                                                         *)
(* All jobs are of one viewer and scope.  `board` is what the dependency   *)
(* receipts compare, `local` what the read guard compares: each the        *)
(* version of a group of stored inputs.  A transaction is one step; one    *)
(* that commits may still raise.                                           *)
(***************************************************************************)
EXTENDS Naturals, TradeJob

CONSTANTS
    Jobs,         \* the jobs the viewer starts
    Inventories,  \* the inventories of the scope, numbered as they are sealed
    Size,         \* the batches of each
    Damaged,      \* bound: those that may be damaged in the database
    Expiring,     \* bound: those that may expire
    MaxEdits,     \* bound: the edits of the inputs
    None

ASSUME SizeAssumption == Inventories \subseteq Nat /\ Size \in [Inventories -> Nat]
ASSUME NoneAssumption == None \notin Jobs /\ None \notin Inventories

VARIABLES
    input,      \* the versions stored
    unfenced,   \* an edit of this process has committed and not revoked yet
    fenced,     \* history: the version of `board` the last revocation covered
    inventory,  \* prepared_trade_manifests_v2, and the impressions of each
    jobs,       \* _trade_jobs
    adoption,   \* the locals of try_adopt in each job
    shown       \* history: what a job ever published; 0 is a card of a search

edits == <<input, unfenced, fenced>>
vars == <<input, unfenced, fenced, inventory, jobs, adoption, shown>>

Steps == {"idle", "peeking", "receipting", "comparing", "claiming", "marking",
          "checking", "ensuring", "checkpointing", "rechecking", "publishing", "finishing",
          "closing", "missing", "searching", "done"}

NoJob == [status |-> "absent", superseded |-> FALSE, cards |-> {}]

NoAdoption ==
    [at |-> "idle", from |-> None, guard |-> 0, active |-> 0, claimed |-> FALSE,
     publication |-> None, prefix |-> 0, batch |-> 0, ensured |-> FALSE,
     fresh |-> FALSE]

Unsealed ==
    [state |-> "unsealed", sound |-> TRUE, built |-> 0, holder |-> None,
     publication |-> None, late |-> FALSE, prefix |-> 0, rows |-> {}, expiry |-> "ahead"]

Init ==
    /\ input = [board |-> 0, local |-> 0]
    /\ unfenced = FALSE /\ fenced = 0
    /\ inventory = [i \in Inventories |-> Unsealed]
    /\ jobs = [j \in Jobs |-> NoJob]
    /\ adoption = [j \in Jobs |-> NoAdoption]
    /\ shown = [j \in Jobs |-> {}]

\* The input tokens of the viewer fence the viewer's jobs all at once, with the
\* revocation itself (TradeJobs has them one by one).
IsLive(j) == Live(jobs[j], FALSE)

At(j, step) == adoption[j].at = step
Goes(j, step) == adoption' = [adoption EXCEPT ![j].at = step]
From(j) == adoption[j].from
Returned(j, step) == [NoAdoption EXCEPT !.at = step, !.from = adoption[j].from]

-----------------------------------------------------------------------------
(* What happens around an adoption.                                        *)

\* A preparation seals an inventory built on inputs it read some time ago, and
\* the head before it is retired.  What is stored may be damaged later.
Seal(i) ==
    /\ inventory[i].state = "unsealed"
    /\ \A k \in Inventories : k < i => inventory[k].state # "unsealed"
    /\ \E v \in 0..input.board, sound \in {TRUE, i \notin Damaged} :
          inventory' = [k \in Inventories |->
              CASE k = i -> [Unsealed EXCEPT !.state = "active", !.sound = sound, !.built = v]
                [] k # i /\ inventory[k].state = "active" ->
                     [inventory[k] EXCEPT !.state = "replaced", !.holder = None]
                [] OTHER -> inventory[k]]
    /\ UNCHANGED <<edits, jobs, adoption, shown>>

\* expires_at of one of the cards, or of the head itself, passes.  A row past
\* its own stays the head, though no transaction takes it for one; of a row
\* that is retired the time is not told.
Expire(i) ==
    /\ i \in Expiring
    /\ inventory[i].state = "active"
    /\ \/ /\ inventory[i].expiry = "ahead" /\ Size[i] > 0
          /\ inventory' = [inventory EXCEPT ![i].expiry = "card"]
       \/ /\ inventory[i].expiry # "head"
          /\ inventory' = [inventory EXCEPT ![i] = [@ EXCEPT !.expiry = "head", !.holder = None]]
    /\ UNCHANGED <<edits, jobs, adoption, shown>>

Head(i) == inventory[i].state = "active" /\ inventory[i].expiry # "head"

\* adoption_lease_until passes: from then on the claim is as good as released.
Lapse(i) ==
    /\ inventory[i].holder # None
    /\ inventory' = [inventory EXCEPT ![i].holder = None]
    /\ UNCHANGED <<edits, jobs, adoption, shown>>

\* An edit commits, in this process (`here`) or in another one.
EditBoard(here) ==
    /\ input.board + input.local < MaxEdits
    /\ input' = [input EXCEPT !.board = @ + 1]
    /\ unfenced' = (unfenced \/ here)
    /\ UNCHANGED <<fenced, inventory, jobs, adoption, shown>>

EditLocal ==
    /\ input.board + input.local < MaxEdits
    /\ input' = [input EXCEPT !.local = @ + 1]
    /\ UNCHANGED <<unfenced, fenced, inventory, jobs, adoption, shown>>

\* _invalidate_trade_jobs, after an edit of this process.
Fence ==
    /\ unfenced
    /\ unfenced' = FALSE
    /\ fenced' = input.board
    /\ jobs' = [j \in Jobs |-> IF Absent(jobs[j]) THEN jobs[j] ELSE Revoke(jobs[j])]
    /\ UNCHANGED <<input, inventory, adoption, shown>>

\* The viewer asks for a deck; the job before it, if it runs, may be replaced.
Ask(j) ==
    /\ At(j, "idle")
    /\ \E replaced \in SUBSET {k \in Jobs : IsLive(k)} :
          jobs' = [k \in Jobs |->
              CASE k = j -> [NoJob EXCEPT !.status = "running"]
                [] k # j /\ k \in replaced -> Revoke(jobs[k])
                [] OTHER -> jobs[k]]
    /\ Goes(j, "peeking")
    /\ UNCHANGED <<edits, inventory, shown>>

\* The clean-up loop ends a job that makes no progress; its worker runs on.
Timeout(j) ==
    /\ jobs[j].status = "running"
    /\ jobs' = [jobs EXCEPT ![j].status = "error"]
    /\ UNCHANGED <<edits, inventory, adoption, shown>>

\* The process dies with the registry and the workers; what it committed stays.
Crash ==
    /\ jobs' = [j \in Jobs |-> NoJob]
    /\ adoption' = [j \in Jobs |-> IF At(j, "idle") THEN adoption[j] ELSE Returned(j, "done")]
    /\ unfenced' = FALSE
    /\ UNCHANGED <<input, fenced, inventory, shown>>

-----------------------------------------------------------------------------
(* Before the claim: is there an inventory, and was it built on the inputs *)
(* of this job?                                                            *)

others == <<edits, shown>>

Ends(j, status) == jobs' = [jobs EXCEPT ![j] = End(@, FALSE, status)]

\* try_adopt returns: True and the worker is done, or False and it searches
\* afresh.  A claim is released first.
Leaves(j, step) ==
    adoption' = [adoption EXCEPT ![j] =
        IF @.claimed
        THEN [Returned(j, IF step = "done" THEN "closing" ELSE "missing") EXCEPT !.claimed = TRUE]
        ELSE Returned(j, step)]

Misses(j) == Leaves(j, "searching") /\ UNCHANGED <<inventory, jobs>>

\* StaleWork, inputs_changed and account_deleted: the job is revoked.
Stops(j) ==
    /\ jobs' = [jobs EXCEPT ![j] = Revoke(@)]
    /\ Leaves(j, "done")
    /\ UNCHANGED inventory

NeverHandled(j) == FALSE  \* Faulty: a failure always falls back to a search.
\* published or handled_evidence: nothing is published before its evidence.
Handled(j) == adoption[j].ensured

\* Any other exception: with evidence committed the job ends, without it the
\* job searches afresh.
Fails(j) ==
    IF Handled(j) THEN Ends(j, "error") /\ Leaves(j, "done")
    ELSE Leaves(j, "searching") /\ UNCHANGED jobs

\* retire_invalid_inventory changes an active row only, expired or not.
Condemned(i) ==
    [inventory EXCEPT ![i] = IF @.state = "active"
                             THEN [@ EXCEPT !.state = "condemned", !.holder = None] ELSE @]

Quarantines(j) == inventory' \in {Condemned(From(j)), inventory} /\ Fails(j)

\* The worker starts if its job is still live.  peek_inventory gives None also
\* where the head cannot be read; the model and the rosters of the provider may
\* differ; if not, the read guard is taken, which no expired card gets.
Peek(j) ==
    /\ At(j, "peeking")
    /\ \/ /\ IsLive(j)
          /\ \E i \in Inventories :
                /\ Head(i) /\ inventory[i].expiry = "ahead"
                /\ adoption' = [adoption EXCEPT ![j] = [@ EXCEPT !.at = "receipting", !.from = i,
                                                             !.guard = input.local]]
       \/ IsLive(j) /\ Leaves(j, "searching")
       \/ ~IsLive(j) /\ Leaves(j, "done")
    /\ UNCHANGED <<inventory, jobs, others>>

\* active_dependency_receipt, before the comparison that admits.
CaptureActive(j) ==
    /\ At(j, "receipting")
    /\ adoption' = [adoption EXCEPT ![j] = [@ EXCEPT !.at = "comparing", !.active = input.board]]
    /\ UNCHANGED <<inventory, jobs, others>>

AnyInputs(j) == TRUE  \* Faulty: the stored receipt is not compared.
SameInputs(j) == inventory[From(j)].built = input.board

\* The admission, open_attested_inventory, reads the head and each entry of its
\* index: what has expired meanwhile counts as damage.
Compare(j) ==
    /\ At(j, "comparing")
    /\ IF ~SameInputs(j) THEN Misses(j)
       ELSE IF inventory[From(j)].expiry # "ahead" THEN Quarantines(j)
       ELSE Goes(j, "claiming") /\ UNCHANGED <<inventory, jobs>>
    /\ UNCHANGED others

Adoptable(i) == Head(i) /\ inventory[i].holder = None

\* Faulty: each adoption publishes anew.
PublishedBy(i, j) == j
\* adoption_json keeps the publication of the first adoption.
Publication(i, j) ==
    IF inventory[i].publication = None THEN j ELSE inventory[i].publication

\* A card had expired when the publication, whose served_at the cards are
\* compared with, was first stored.
Late(i) ==
    \/ inventory[i].late
    \/ inventory[i].publication = None /\ inventory[i].expiry # "ahead"

\* claim_adoption, whose commit may raise: the claim is then not released.  A
\* participant may have left and come back.
Claim(j) ==
    /\ At(j, "claiming")
    /\ LET i == From(j)
           publication == Publication(i, j)
       IN  \/ /\ Adoptable(i)
              /\ inventory' = [inventory EXCEPT ![i] =
                     [@ EXCEPT !.holder = j, !.publication = publication, !.late = Late(i)]]
              /\ \/ /\ adoption' = [adoption EXCEPT ![j] =
                           [@ EXCEPT !.at = "marking", !.claimed = TRUE,
                                     !.publication = publication,
                                     !.prefix = inventory[i].prefix]]
                    /\ UNCHANGED jobs
                 \/ Fails(j)
           \/ ~Adoptable(i) /\ Misses(j)
           \/ Stops(j)
    /\ UNCHANGED others

-----------------------------------------------------------------------------
(* Batch by batch: evidence, durable prefix, inputs, exposure.             *)

\* An empty inventory has one batch, without a card: its end is committed too.
First(j) == IF Size[From(j)] = 0 THEN 0 ELSE 1

\* The leases of the participants may be refused; a job that is no longer live
\* is left as it is.
Mark(j) ==
    /\ At(j, "marking")
    /\ \/ Stops(j)
       \/ /\ adoption' = [adoption EXCEPT ![j] =
                 IF IsLive(j)
                 THEN [@ EXCEPT !.at = "checking", !.batch = First(j)]
                 ELSE [Returned(j, "closing") EXCEPT !.claimed = TRUE]]
          /\ UNCHANGED <<inventory, jobs>>
    /\ UNCHANGED others

\* The inputs the job was admitted with.
Seen(j) == [board |-> adoption[j].active, local |-> adoption[j].guard]

\* Faulty: the read guard is only kept for the readers.
CurrentBoard(j) ==
    IsLive(j) /\ inventory[From(j)].expiry = "ahead" /\ adoption[j].active = input.board
\* still_current: the read guard expires with the first card.
StillCurrent(j) ==
    /\ IsLive(j)
    /\ inventory[From(j)].expiry = "ahead"
    /\ input = Seen(j)

\* The guard is also refused where it is too old or cannot be read.
Check(j) ==
    /\ At(j, "checking")
    /\ \/ StillCurrent(j) /\ Goes(j, "ensuring") /\ UNCHANGED <<inventory, jobs>>
       \/ Stops(j)
    /\ UNCHANGED others

\* _adoption_work
Holds(j) ==
    LET i == inventory[From(j)]
    IN  /\ Head(From(j)) /\ i.holder = j
        /\ i.publication = adoption[j].publication

Row(j) == [batch |-> adoption[j].batch, publication |-> adoption[j].publication]

\* The rows that the batch must not contradict, and the prefix it must not skip.
Contradicted(j) ==
    LET i == inventory[From(j)]
    IN  \/ adoption[j].batch > i.prefix + 1
        \/ \E row \in i.rows : row.batch = adoption[j].batch /\ row # Row(j)

\* History: nothing has changed since the inventory was built and the guard taken.
Unchanged(j) == input = [board |-> inventory[From(j)].built, local |-> adoption[j].guard]

Recorded(j) ==
    IF adoption[j].batch = 0 THEN inventory
    ELSE [inventory EXCEPT ![From(j)].rows = inventory[From(j)].rows \cup {Row(j)}]

\* ensure_adoption_evidence, whose commit may raise.
Ensure(j) ==
    /\ At(j, "ensuring")
    /\ IF ~Holds(j) THEN Stops(j)
       ELSE IF Contradicted(j) THEN Quarantines(j)
       ELSE /\ inventory' = Recorded(j)
            /\ \/ /\ adoption' = [adoption EXCEPT ![j] =
                         [@ EXCEPT !.at = "checkpointing", !.ensured = TRUE,
                                   !.fresh = Unchanged(j)]]
                  /\ UNCHANGED jobs
               \/ Fails(j)
    /\ UNCHANGED others

\* Faulty: off by one.
DueAfterNext(j) == adoption[j].batch > adoption[j].prefix + 1 \/ Size[From(j)] = 0
\* A batch of an earlier adoption is durable already.
Due(j) == adoption[j].batch > adoption[j].prefix \/ Size[From(j)] = 0

Durable(j) ==
    adoption[j].batch = 0 \/ \E row \in inventory[From(j)].rows : row.batch = adoption[j].batch

\* checkpoint_adoption, whose commit may raise; the last one gives up the claim.
Checkpoint(j) ==
    /\ At(j, "checkpointing")
    /\ LET i == From(j)
           batch == adoption[j].batch
       IN  IF ~Due(j) THEN Goes(j, "rechecking") /\ UNCHANGED <<inventory, jobs>>
           ELSE IF ~Holds(j) \/ inventory[i].prefix # adoption[j].prefix THEN Stops(j)
           ELSE IF ~Durable(j) THEN Quarantines(j)
           ELSE /\ inventory' = [inventory EXCEPT ![i] =
                       [@ EXCEPT !.prefix = batch,
                                 !.holder = IF batch = Size[i] THEN None ELSE j]]
                /\ \/ /\ adoption' = [adoption EXCEPT ![j] =
                             [@ EXCEPT !.at = "rechecking", !.prefix = batch]]
                      /\ UNCHANGED jobs
                   \/ Fails(j)
    /\ UNCHANGED others

Recheck(j) ==
    /\ At(j, "rechecking")
    /\ \/ StillCurrent(j) /\ Goes(j, "publishing") /\ UNCHANGED <<inventory, jobs>>
       \/ Stops(j)
    /\ UNCHANGED others

\* Under the registry's lock: the cards are shown, if the job is still live.
Publish(j) ==
    /\ At(j, "publishing")
    /\ LET batch == adoption[j].batch
       IN  IF IsLive(j)
           THEN /\ jobs' = [jobs EXCEPT ![j].cards = @ \cup ({batch} \ {0})]
                /\ shown' = [shown EXCEPT ![j] = @ \cup ({batch} \ {0})]
                /\ adoption' = [adoption EXCEPT ![j] =
                       IF batch = Size[From(j)] THEN [@ EXCEPT !.at = "finishing"]
                       ELSE [@ EXCEPT !.at = "checking", !.batch = batch + 1, !.fresh = FALSE]]
                /\ UNCHANGED inventory
           ELSE Stops(j) /\ UNCHANGED shown
    /\ UNCHANGED edits

Finish(j) ==
    /\ At(j, "finishing")
    /\ Ends(j, "complete") /\ Leaves(j, "done")
    /\ UNCHANGED <<inventory, others>>

-----------------------------------------------------------------------------
(* The ways out.                                                           *)

\* A damaged header, page or proof is found where it is read.  An expired card
\* is taken for one, first by the admission (Compare), then by each batch.
Break(j) ==
    /\ \/ /\ adoption[j].at \in {"receipting", "comparing", "claiming", "checking", "ensuring",
                                "checkpointing"}
          /\ ~inventory[From(j)].sound
       \/ At(j, "checking") /\ inventory[From(j)].late
    /\ Quarantines(j)
    /\ UNCHANGED others

\* Any other exception.
Raise(j) ==
    /\ adoption[j].at \in Steps \ {"idle", "closing", "missing", "searching", "done"}
    /\ Fails(j)
    /\ UNCHANGED <<inventory, others>>

\* finally: the claim is released, or left to lapse where that fails.
Release(j) ==
    /\ adoption[j].at \in {"closing", "missing"}
    /\ adoption' = [adoption EXCEPT ![j] =
           Returned(j, IF At(j, "closing") THEN "done" ELSE "searching")]
    /\ LET i == From(j)
       IN  \/ UNCHANGED inventory
           \/ /\ adoption[j].claimed /\ inventory[i].holder = j
              /\ inventory' = [inventory EXCEPT ![i].holder = None]
    /\ UNCHANGED <<jobs, others>>

\* The search, as far as its cards replace those of the job (TradeJobs has it
\* step by step).
Search(j) ==
    /\ At(j, "searching")
    /\ \/ /\ IsLive(j)
          /\ jobs' = [jobs EXCEPT ![j] = [@ EXCEPT !.status = "complete", !.cards = {0}]]
          /\ shown' = [shown EXCEPT ![j] = @ \cup {0}]
       \/ Ends(j, "error") /\ UNCHANGED shown
    /\ Goes(j, "done")
    /\ UNCHANGED <<edits, inventory>>

-----------------------------------------------------------------------------
Adopts(j) ==
    \/ Peek(j) \/ CaptureActive(j) \/ Compare(j) \/ Claim(j)
    \/ Mark(j) \/ Check(j) \/ Ensure(j) \/ Checkpoint(j) \/ Recheck(j) \/ Publish(j)
    \/ Finish(j) \/ Break(j) \/ Raise(j) \/ Release(j) \/ Search(j)

Next ==
    \/ \E i \in Inventories : Seal(i) \/ Expire(i) \/ Lapse(i)
    \/ \E here \in BOOLEAN : EditBoard(here)
    \/ EditLocal \/ Fence \/ Crash
    \/ \E j \in Jobs : Ask(j) \/ Timeout(j) \/ Adopts(j)

Spec == Init /\ [][Next]_vars

-----------------------------------------------------------------------------
Manifest ==
    [state : {"unsealed", "active", "replaced", "condemned"}, sound : BOOLEAN,
     expiry : {"ahead", "card", "head"}, late : BOOLEAN, built : Nat,
     holder : Jobs \cup {None}, publication : Jobs \cup {None}, prefix : Nat,
     rows : SUBSET [batch : Nat, publication : Jobs \cup {None}]]

Adoption ==
    [at : Steps, from : Inventories \cup {None}, guard : Nat, active : Nat, claimed : BOOLEAN,
     publication : Jobs \cup {None}, prefix : Nat, batch : Nat, ensured : BOOLEAN,
     fresh : BOOLEAN]

\* Types of the inputs, the manifests, the jobs and the adoptions.
TypeOK ==
    /\ input \in [board : Nat, local : Nat] /\ unfenced \in BOOLEAN /\ fenced \in Nat
    /\ inventory \in [Inventories -> Manifest]
    /\ jobs \in [Jobs -> [status : {"absent", "running", "complete", "error"},
                         superseded : BOOLEAN, cards : SUBSET Nat]]
    /\ adoption \in [Jobs -> Adoption]
    /\ shown \in [Jobs -> SUBSET Nat]

\* What the proofs add to the properties.  The rows of an inventory carry its
\* one publication and reach to its prefix.
InventoryInv(i) ==
    LET m == inventory[i]
    IN  /\ m.state = "unsealed" => m = Unsealed
        /\ m.state = "condemned" => ~m.sound \/ m.expiry # "ahead"
        /\ m.late => m.expiry # "ahead"
        /\ m.holder # None => m.publication # None
        /\ m.built <= input.board
        /\ m.prefix <= Size[i]
        /\ \A row \in m.rows : row.publication = m.publication /\ m.publication # None
        /\ \A b \in 1..m.prefix : [batch |-> b, publication |-> m.publication] \in m.rows

InventoriesInv == fenced <= input.board /\ \A i \in Inventories : InventoryInv(i)

Batching == {"checking", "ensuring", "checkpointing", "rechecking", "publishing"}
Holding == Batching \cup {"marking", "finishing"}
Admitted == Holding \cup {"claiming"}
Placed == Admitted \cup {"receipting", "comparing"}

PlaceInv(j) ==
    LET a == adoption[j]
    IN  /\ a.at \in Placed => a.from \in Inventories
        /\ a.from # None => inventory[a.from].state # "unsealed"
        /\ a.at \in Holding =>
              /\ a.claimed /\ a.publication # None
              /\ a.publication = inventory[a.from].publication
              /\ a.prefix <= inventory[a.from].prefix
        /\ a.at \notin Holding => ~a.ensured
        /\ IsLive(j) => a.at \notin {"idle", "closing", "done"}

BatchInv(j) ==
    LET a == adoption[j]
    IN  /\ a.at \in Batching =>
              /\ a.batch = 0 <=> Size[a.from] = 0
              /\ a.batch <= Size[a.from] /\ a.batch <= a.prefix + 1
        /\ a.at = "checkpointing" => a.batch = 0 \/ Row(j) \in inventory[a.from].rows
        /\ a.at \in {"rechecking", "publishing"} => a.batch <= a.prefix
        /\ a.at \in {"checkpointing", "rechecking", "publishing"} => a.ensured

ShownInv(j) ==
    LET a == adoption[j]
    IN  /\ jobs[j].cards \subseteq shown[j]
        /\ 0 \in shown[j] => a.at = "done" /\ shown[j] = {0}
        /\ shown[j] # {} => a.ensured \/ a.at \in {"closing", "done"}
        /\ \A b \in shown[j] \ {0} :
              a.from \in Inventories /\ b <= inventory[a.from].prefix

\* The guard and the active receipt are taken before the inputs are compared:
\* an inventory that is still current then was current all the time.
InputInv(j) ==
    LET a == adoption[j]
    IN  /\ a.at \in Placed => a.guard <= input.local
        /\ a.at \in Placed \ {"receipting"} => a.active <= input.board
        /\ a.at \in Admitted => a.active <= inventory[a.from].built
        /\ a.at \in Admitted /\ IsLive(j) => inventory[a.from].built >= fenced
        /\ a.at \in {"checkpointing", "rechecking"} =>
              a.fresh \/ a.active < input.board \/ a.guard < input.local
        /\ a.at = "publishing" => a.fresh

AdoptionInv(j) == PlaceInv(j) /\ BatchInv(j) /\ ShownInv(j) /\ InputInv(j)

AdoptionsInv == \A j \in Jobs : AdoptionInv(j)

IInv == TypeOK /\ InventoriesInv /\ AdoptionsInv

\* What was shown of an inventory is durable, batch by batch, whatever crashed
\* since: the prefix is moved before the cards are published, and the evidence
\* committed before the prefix (checkpoint_adoption).
ShownIsDurable ==
    \A j \in Jobs : \A b \in shown[j] \ {0} :
        /\ b <= inventory[From(j)].prefix
        /\ \E row \in inventory[From(j)].rows : row.batch = b

\* A job that has shown a part of an inventory never goes on with cards of a
\* search, and the other way round (prepared_adoption_incomplete).
OneKindOfDeck == \A j \in Jobs : 0 \in shown[j] => shown[j] = {0}

\* Only what is damaged or expired is quarantined: an adoption that takes over
\* from another repeats its evidence to the letter, so no race of adoptions is
\* taken for damage.  That an expired card is (is_artifact_error), although its
\* inventory is sound, retire_invalid_inventory does not promise.
SoundIsKept ==
    \A i \in Inventories :
        inventory[i].state = "condemned" => ~inventory[i].sound \/ inventory[i].expiry # "ahead"

\* A live job shows no inventory that was built before the last revocation.
LiveIsCurrent ==
    \A j \in Jobs : IsLive(j) /\ jobs[j].cards \ {0} # {} =>
        inventory[From(j)].built >= fenced

\* No batch is shown if the inputs had changed when its evidence was committed,
\* be it in another process: they are read again after the commit.
NothingStale ==
    [][\A j \in Jobs : \A b \in (shown'[j] \ shown[j]) \ {0} :
          adoption[j].fresh]_vars

\* The deck of each job.
StateOf(j) == DeckState(jobs[j], FALSE, ~At(j, "idle"))

DeckOf(j) == [state |-> StateOf(j), cards |-> jobs[j].cards]

Batches == UNION {1..Size[i] : i \in Inventories}

Deck == INSTANCE Decks WITH
    Cards <- Batches \cup {0}, Prepared <- Batches,
    deck <- [j \in Jobs |-> DeckOf(j)]

\* Adoptions, searches, edits, time-outs and crashes implement Decks: in
\* particular no job goes on with a search once it has shown an inventory.
ImplementsDecks == Deck!Spec
===============================================================================
