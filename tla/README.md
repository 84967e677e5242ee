# Formal models of Fleeced (fantasy-trade-finder)

TLA+ models of the concurrent core of the backend, model-checked with TLC on
small instances and, for the safety properties, proved with TLAPS for every
value of the constants. Paths below are relative to the repository.

- [The system](#the-system)
- [What is modelled](#what-is-modelled)
- [UserDataLifecycle](#userdatalifecycle), [OverhaulSend](#overhaulsend),
  [OutlookResultCache](#outlookresultcache), [PreparedSweep](#preparedsweep),
  [TradeJobs](#tradejobs), [PreparedAdoption](#preparedadoption),
  [DeletionScrub](#deletionscrub)
- [The runs](#the-runs), [The proofs](#the-proofs), [Findings](#findings)
- [What is not modelled](#what-is-not-modelled), [Plan](#plan)

## The system

The backend is a Flask application in one gunicorn process with four threads
(`render.yaml:16`: `--workers 1 --threads 4 --timeout 120`), over Postgres in
production and SQLite locally. Three kinds of threads share its memory and its
database: request threads, daemon threads that a request or the cron starts,
and the maintenance loop. At a deploy the old and the new process overlap for a
while, so whatever lives in the database is also shared by two processes.
Clients (the React Native app, the web page, the browser extension) retry, and
the providers (Sleeper, ESPN, MFL) answer late, twice or not at all.

| Component | State it keeps | Operations | Interacts with |
|---|---|---|---|
| User-data leases (`user_data_lifecycle.py`) | revision, generation, gate, owner and depth per user, in memory | `snapshot`, `capture`, `Lease.active`, `hold`, `invalidate` | every route and job that writes a user's rows; account deletion |
| Account deletion (`accounts.py`, `server.py`) | identities bound to an account | `deletion_scope`, `delete_user_data`, sign-in and link | leases, all private tables, caches |
| Deletion scrub (`deletion_scrub.py`) | a leased, resumable job per deletion | claim, renew, page, suspend, postpone, complete, model step, finish | account deletion; the decks and packs of other users; clean-up loop and daily tick |
| Overhaul planning (`overhaul_*.py`) | plan, settings, offers, roadmaps, with revisions | create, settings, generate, decide, assemble, prioritise | trade engine, overhaul send |
| Overhaul send (`overhaul_*.py`) | attempts, reservations, prepare tokens | prepare-send, send, refresh, report a status | provider, roster reads |
| Prepared inventories: sweeps (`prepared_trade_store*.py`, `prepared_trade_runtime.py`) | sweeps, targets, worker lease, staged and sealed inventories | create, claim, stage, seal, defer, fail, stop, delete, prune | one thread per process; account deletion |
| Prepared inventories: adoption (`prepared_trade_runtime_v2.py`, `prepared_trade_store_v2.py`) | adoption claim, evidence rows, durable prefix | peek, claim, evidence, checkpoint, expose, quarantine, release | sealed inventories, trade jobs |
| Trade jobs and decks (`server.py`) | job registry, key index, input epochs | ask, join, replace, pre-build, publish, end, time out, evict, revoke, poll | trade engine, leases, edits of inputs |
| Deck evidence (`server.py`, `suggestion_telemetry.py`) | impression rows, audit queue | write in the background, wait, audit | decks, leases |
| Sessions (`server.py`) | sessions in memory and in the database | sign-in, restore, init (single flight), revoke | account deletion |
| Outlook result cache (`outlook_result_cache.py`) | LRU entries, flights | get or compute, purge, clear | outlook routes; account deletion |
| Roster freshness (`roster_refresh.py`, `sleeper_http.py`) | fingerprints, league status, circuit breaker | refresh, compare-and-set, trip, retry | Sleeper |
| Win Now jobs (`win_now_*.py`) | durable job rows | enqueue, claim, expire, finish | optimizer |
| Entitlements (`entitlements.py`) | billing events, entitlements | store event, project | billing webhooks, paywall |
| Ranking, trade engine, projections | Elo ratings; otherwise none | numeric functions | everything that shows a card |
| Database layer, provider adapters, analytics, experiments, draft board, daily tick, clients | see `PROJECT.json` | | |

What is hard in this system, and what the properties are about:

- **Deleting a person while work for that person is in flight.** Work reads its
  inputs, computes for seconds or minutes, and writes. A deletion in between
  must not be undone by the write. Three mechanisms deal with it: the leases,
  the purge of the caches, and the private deletes of the prepared inventories.
- **Two-transaction decisions.** Several routes read in one transaction and
  write in the next (release of reservations, claim and insert of a batch,
  selection and deletion in the retention).
- **Calls whose outcome is unknown.** A trade offer may have been taken by the
  provider although the call raised.
- **Leases that lapse.** A process that lost its claim is usually still alive.
- **Passes that are interrupted.** The scrub of other users' decks takes many
  runs, by several threads and processes, while decks are still being written
  from snapshots that name the person.
- **Decks built on inputs that change.** A deck reads the inputs of every member
  of a league for seconds; edits, roster moves and deletions fall in between,
  and the worker, the registry and the polls all act on what they read earlier.
- **Threads that wait for each other.** Gates, flights and drains; everything
  that waits must be answered, also when what it waits for fails.

`PROJECT.json` lists the individual hazards, each at the line where it bites,
with the properties that would notice it going wrong.

## What is modelled

| Module | What it is |
|---|---|
| `UserDataLifecycle` | the lease registry, work threads and deletion threads |
| `OfferLedger` | abstract specification: what sending offers promises |
| `OverhaulSend` | sends, reservations, reconciliation, provider, restarts; implements `OfferLedger` |
| `OutlookResultCache` | the single-flight LRU cache |
| `PreparedResults` | abstract specification: what preparing inventories promises |
| `PreparedSweep` | sweeps, claims, stages and seals; implements `PreparedResults` |
| `Decks` | abstract specification: what a client that polls its deck may rely on |
| `TradeJob` | one entry of the job registry, and the writes that revoke and end it |
| `TradeJobs` | the registry: requests, workers, edits, deletions, polls; uses `TradeJob`, implements `Decks` |
| `PreparedAdoption` | jobs that serve a prepared inventory; uses `TradeJob`, implements `Decks` |
| `DeletionScrub` | the scrub job of one deletion: lease, cursor, passes, grace, end |
| `MC<Module>` | the small instances of a module for TLC |
| `<Module>Proofs` | its theorems and their proofs |

Conventions. A step is one critical section of a lock, one database
transaction, one provider call or one thread-local computation, so threads
interleave wherever the code lets them. Actions carry the code's names where
there is one. History variables (`deletions`, `seen`, `fresh`, `misreported`,
`purged`, `spared`, `source`, `taken`, `published`, `fenced`, `shown`, `missed`) never
decide what a modelled statement does. Every
bound is a constant named `Max...`, or the size of a set of requests, threads or
polls, each of which acts once. An operator marked *Faulty*, or one that
only stands beside the definition it varies, is a plausible mistake: it is not
used by the specification, and the `mutants` of `PROJECT.json` say which
property notices it.

### UserDataLifecycle

`backend/user_data_lifecycle.py` with its clients: work threads
(`Begin`, `ReadInputs`, `Capture`, `Admit`, `Refuse`, `Spawn`, `Reread`, `Write`,
`Bind`, `Exit`, `Finish`) and deletion threads (`Request`, `Resolve`, `Reenter`,
`Close`, `Drained`, `Timeout`, `Recheck`, `Commit`, `CommitFails`, `Revise`,
`Invalidate`, `Invalidated`, `Release`, `Unwind`).

- `revision`, `generation`, `deletedRevision` are `_revision` and the fields of
  `_State`; `deleting`, `owner`, `depth` are the gate; `readers` is derived from
  the stack of leases of each thread. `workRevision` is the ContextVar that a
  nested capture inherits, and `Spawn` is a thread that starts without it; the
  bound `MaxRequests` counts deletions and spawned threads, `Daemons` are the
  threads that begin no work of their own.
- Work begins with a snapshot or with none. A `capture` without a start takes the
  revision of its parent, or, outside any lease, that of the moment
  (`user_data_lifecycle.py:88-89`), although its caller has read its inputs by then:
  `database.py:18188` and `server.py:14714` do so. Such a start is not `marked`: the
  lease keeps out deletions after the capture, but says nothing of one between the
  reads and the capture.
- What makes up for that in the receipts grader is that it looks up its impression
  again inside the lease (`database.py:18197-18203`): that is `Reread`, and `fresh` are
  the users a thread has read again inside their lease. `Vouched` puts both together:
  the lease goes back to a snapshot taken before the reads, or the reads were repeated
  inside it. The weekly replenishment does neither ([findings](#findings)).
- A deletion holds twice: the route opens a scope, `delete_user_data` a nested
  one on the same thread, which is why gates have a depth. `Users` are work
  keys, identity keys included; `bound` is the one account that has several.
- `Timeout` is the deadline of `hold`, which is the only thing that breaks the
  circular wait of a deletion and a thread that entered its leases in another
  order (`database.py:18188`).
- Abstracted: the deletion itself is one atomic transaction over `rows`; of the rows
  of a user only those are kept that stand for an earlier life of the person, and of
  each only whether its writer's lease vouched for what it had read.

Properties: `NoResurrection` (work whose lease vouches for its reads writes no row
from inputs read before the last deletion; the proof also gives `HeldInv`, the same
of a thread inside its lease; of other work the code promises nothing, and neither do
they), `CommitIsExclusive` (a deletion commits owning every identity the account has
*now*, with nobody inside), `GatesAccounted` (no time-out, retry or failure
leaves a gate shut), `RefusalJustified` (only the deleted user's work is
refused), `DeletionEnds`, `WaiterAnswered`.

### OverhaulSend

The send side of a team overhaul, for one overhaul of one seller:
`prepare-send` (`Prepare`, `Expire`), `send` (`Lookup`, `CheckToken`,
`ReadAttempts`, `ReadReservations`, `Claim`, `Insert`, `Pop`, `Dispatch`,
`Call`, `Record`, `Finish`), `release_if_idle` (`CheckIdle`, `Release`),
`refresh` (`StartRefresh`, `ReadPicks`, `ListStuck`, `Sweep`, `ListOutcomes`, `Settle`,
`ListRivals`, `Invalidate`, `Invalidated`, `EndRefresh`) and the status report
(`ReadAttempt`, `Report`), with `Restart` and the provider (`Accept`, `Close`,
`TradeAway`).

- `state` holds the attempt rows, `reserved` the active reservations, `prepares`
  the in-process tokens. `CAS` is `transition_attempt`, a compare-and-swap.
- The provider takes an offer only while the seller owns what it gives. A call
  may raise before or after the offer was taken (`lost`, `late`), which is an
  unknown outcome. It may also answer with a failure after the offer was taken
  (`failure`): Sleeper's adapter reports a time-out, a 5xx and an answer that is not
  JSON so (`sleeper_write.py:369-383`), those of ESPN and MFL call them unknown. The store
  then says `send_failed` and the package is released with the offer pending;
  `misreported` is the set of these attempts. Every run and every theorem includes
  them, and what does not hold of them is excepted by name ([findings](#findings)).
- A refresh reads the rosters, then the picks. With `ReadsFail` either read may fail:
  without live rosters a refresh works with those of the session, which are no evidence
  that assets are gone, and without the provider's picks with the pick table, which
  lags. So picks that have not arrived are no evidence (`overhaul_service.py:870-877`):
  an offer that awaits only `Picks` is never settled by `Evidence`.
- Assumed of a plan (named `ASSUME`s): a package is an exact give set, the
  packages of a roadmap are give-disjoint, and what the seller gives away does
  not come back in another offer. Users report truthfully. A provider call ends
  long before `LIVE_STUCK_AFTER_S`, so only a row without a worker is swept.
- Left out: the refresh throttle (a run has one refresher instead), and revisions of
  the plan.

Properties: `LiveReserved`, `PromiseReserved` (an offer pending at the provider
reserves what it promises, so no second batch can promise it, the misreported ones
excepted), `EndsAreTrue` (what the store calls over cannot still be executed, but for a
`send_failed` that is misreported; and an offer that was accepted is not recorded as
lost to another trade, unless it gives a pick: accepted between the two reads of a
refresh, such an offer is seen with the pick gone and the players not arrived),
`NoOrphanReservation` (while no request runs, a reservation has a live attempt),
`NothingStuck`, `Reconciled` (an attempt does not stay open once the whole trade is
done, or once something it gives is gone and a player it awaits is not there; one that
awaits picks only may stay open until the user reports), `Refines`, and
`OrphansFreed`, which does not hold.

`OfferLedger` is what is left when requests, reservations, sweeps and restarts are
taken away: an offer is stored before it is written, written at most once and only
while its attempt is open, and an attempt has one end, which it does not get while the
provider could still execute the offer; one that went stale was never written. An
offer may be placed "unseen", which is how a misreported one is mapped: only
`send_failed` can end its attempt while it is pending. The refinement maps every live
state to "open", and any other outcome of an offer at the provider to itself. It
implies `TerminalForever`, which is proved apart.

### OutlookResultCache

`get_or_compute` in its sections (`Hit`, `Join`, `Lead`, `Compute`, `Raise`,
`Store`, `Pop`, `Set`, `Wake`), `purge_callers` (`Purge`), `clear` (`Clear`) and
the TTL (`Expire`, at any time).

- `newer` is the order of the OrderedDict as a relation; `Oldest` is what
  `popitem(last=False)` removes. A key stands for its digest, and `Caller` is
  slot `[3]` of it. The counters and the copy made by `for_caller` are left out.

Properties: `SingleFlight`, `NoRefill` (nothing computed before a purge of its
caller is stored after it), `LeaderPresent` (nobody waits for a computation no
thread runs, and no finished flight blocks its key), `Bounded`, `Answered`.
The purge is called inside a deletion scope (`server.py`, the route that deletes
an account) by a thread that may hold leases; the composition with
`UserDataLifecycle` is planned.

### PreparedSweep

The tables and transactions of `prepared_trade_store.py` and
`prepared_trade_store_v2.py` under the thread of `prepared_trade_runtime.py`:
`Create`, `Start`, `Leave`, `Claim`, `ClaimNothing`, `Reuse`, `Defer`, `Begin`,
`Append`, `Freeze`, `Seal`, `GiveUp`, `Abort`, `AbortFails`, `Yield`, `Fail`,
`Die`, `Crash`, `Stop`, `Delete`, `Select`, `Drop`, `Retire`.

- A claim is numbered; its number is the lease token of its target and of the
  worker row (`token`, `holder`) and the id of the inventory it stages
  (`manifest`). `lapsed` is the clock: the lease of the row has passed.
- Transactions that touch a claim lock the single worker row, so each is one
  step. Time is stamped before that lock is waited for, so a transaction that
  began in time may commit after the lapse, if nobody claimed meanwhile.
- Any transaction of a target may fail (`Raise`, `GiveUp`, `AbortFails`,
  `YieldFails`, `Die`): stale receipts, revoked identities and database errors
  are not told apart.
- The retention selects by state and deletes by id; under READ COMMITTED the
  row may have changed in between, hence `Select` and `Drop`.
- Left out: the v1 writers, which the runtime no longer calls; the kill switch;
  the expiry of a stage while it is written; the foreground wait. An empty
  inventory is a ready one. `tick` resumes the oldest sweep, the model any.

Properties: `RowAgrees` (the worker row is held for the one running target and
for nothing else), `OneHead`, `NothingOfTheDeleted`, `Budget`,
`ClosedSweepsAreDone`, `SweepEnds`, `StageDropped`, and `Refines`.

`PreparedResults` says what all of that is for: a target gets one result for
good; an inventory is published together with that result and replaces the head
of its scope in the same step; an inventory that was a head once never becomes
one again. The refinement maps the statuses none, pending and running to
"open", the sealed manifest of a scope to its head, and `published` to `spent`.

### TradeJobs

The in-memory registry of trade jobs of `server.py`, for one league. A request
(`Begin`, `ReadRequest`, then `Route` for the generate route or `Warm` for the
pre-build of session init, `CaptureMembers`, `Admit`) hands out, joins, replaces
or starts a job; its worker (`CaptureFailed`, `Start`, `Cancelled`, `Load`,
`Publish`, `PublishFinal`, `Finish`, `Fail`) reads the inputs of every member and
writes cards; `Change` and `Fence` are an edit and `_invalidate_trade_jobs` after
it, `Leave` and `RevokeNaming` an account deletion, `Timeout` and `Evict` the
clean-up loop, `RosterMoved` a refresh that changed rosters; `Copy`, `Project`
and `Deliver` are the status route.

- A scope is a stored input with an epoch of its own; `Capture` hands out tokens
  and `Fence` makes them outdated. `jobs[r].tokens` and `poll[p].copy.tokens` are
  what a job and the copy made by a poll still hold.
- `input` and `jobs[r].read` are versions: the specification never looks inside a
  card, it asks which version of each input a deck was built on.
- Where the code compares two requests (fairness, intent, policy, rosters) the
  model tries both answers (`same`), and `RosterMoved` picks any set of jobs.
- A deletion reads the leagues of the person before it commits (`Leave`). If that read
  fails the set is empty (`server.py:3001-3010`), and `RevokeNaming` revokes the jobs
  that name the person already, but none for running: `spared` are the running jobs
  it leaves alone. The revocation itself may raise part of the way, which is only
  logged (`RevokeFails`).
- `TradeJob` holds `Revoke` and `End`, the two writes every thread shares.
- `Decks` is what is left of the registry for a client: a deck opens once, shows
  cards only while it is open, has one end and keeps its cards then, gets no
  others once it is withdrawn, and is dropped for good. `DeckOf` maps a job to its
  deck: "open" while the job is live, "withdrawn" once it is superseded or one of
  its tokens is outdated, and otherwise the way it ended.
- Left out: the stored first pages, the evidence of a deck, and the revocation by
  a changed owner model (`server.py:13007`).

Properties: `NoStaleDeck` (what may still be served or joined was built on no input
older than the last revocation), `LiveIsIndexed` (the one live job that may be shared
is the one every request finds), `NoneOfTheDeleted` (after a deletion revoked the jobs
that name the person, a deck that names them was built on what was stored after it, or
is that of a `spared` job), `ImplementsDecks` with `DeadStaysDead` (a late write of a
worker neither revives a job nor gives it cards), `DeliveredIsCurrent` (a poll hands
out nothing revoked since it copied the job), `DecksEnd`. `DeliveredIsCurrent` says
nothing of a job that was superseded and evicted within one poll: its entry is gone,
and the copy keeps only the tokens.

### PreparedAdoption

A job that serves a prepared inventory instead of a search:
`prepared_trade_runtime_v2.try_adopt` over `prepared_trade_store_v2.py`, step by
step (`Peek`, `CaptureActive`, `Compare`, `Claim`, `Mark`, and for each batch
`Check`, `Ensure`, `Checkpoint`, `Recheck`, `Publish`; then `Finish`; `Break`,
`Raise`, `Release` and `Search` are the ways out). Around it: `Seal`, `Expire` and
`Lapse` of the inventories, `EditBoard`, `EditLocal` and `Fence` of the inputs,
`Ask`, `Timeout` and `Crash` of the jobs.

- `input.board` stands for what the dependency receipts compare, `input.local`
  for what the read guard compares. An edit may come from another process, which
  revokes nothing here: then only the reads of `StillCurrent` notice.
- `expiry` is what has passed of an inventory: nothing, the time of a card, or that of
  the head. An expired card or header is an artifact error
  (`prepared_trade_payload_v2.py:442`, `545`, `593`), so `Compare` quarantines an
  inventory that expired since the peek, undamaged as it is
  (`prepared_trade_runtime_v2.py:182-184`). A batch is compared with `served_at` instead,
  which the first claim fixes: `late` says that a card had expired by then, and `Break`
  finds it when it checks the batch.
- The lease token of a claim is its holder; `publication` is what
  `adoption_json` keeps, so that a second adoption repeats the rows of the first.
- A transaction that commits may still raise, hence the second alternatives of
  `Claim`, `Ensure` and `Checkpoint`. An empty inventory is one batch without a
  card, numbered 0.
- `shown` is history: what a client may have seen, 0 being a card of a search.
- Left out: the single-document store of `prepared_trade_runtime.try_adopt`, the
  guard that a poll checks again (`server.py:3729`), the projection of
  dispositions, ghost impressions, and an account deletion, which `PreparedSweep`
  has for the inventories and `TradeJobs` for the jobs.

Properties: `ShownIsDurable` (whatever was shown lies within the durable prefix and
has its evidence, also after a crash), `OneKindOfDeck` (no job mixes an inventory with
a search), `SoundIsKept` (only what is damaged or expired is quarantined: no race of
adoptions is taken for damage), `LiveIsCurrent` (a live job shows nothing built before
the last revocation), `NothingStale` (a batch is shown only if nothing had changed
when its evidence was committed), and `ImplementsDecks`: the cards of an inventory are
the `Prepared` ones of `Decks`, which only grow and never share a deck with those of a
search. A crash drops every deck that was asked for.

### DeletionScrub

The job of one account deletion, over `N` pages of rows that may name the person. A
run of the clean-up loop, of the thread the deletion kicks, or of the daily tick is
`Start`, `Read`, `Take` (or `NothingDue`), `LeaguePass`, `ScanPage`, and one of
`Suspend`, `Postpone`, `Complete`, `Lost` and `Raise`; then `Finish`, before it in the
tick `Check` and `RedactModel`. Around them: `Write` is a deck in flight that lands
late, `ReadPack`, `ReadToken` (or `ReadTokenFails`) and `WriteRow` an action on a card
held since before the deletion (`_deck_evidence_upgrade`), `Repair` an engineer who
fixes a row by hand, `Lapse`, `Outlast`, `Die` and `GraceEnds` the clock and the
process.

- `job` is the row of `deletion_scrub_jobs`, `lease` its `claimed_until`, with a
  value of its own for each claim, or `None`. `job.scan` is `scan_json` and
  `work[p]` the copy a run works on; `started` is the `now` of a run.
- `_claim_one` reads and takes in two transactions, hence `Read` and `Take`.
- Times are kept as far as they are compared: before or after the end of
  `IN_FLIGHT_GRACE`, lapsed or not.
- `poison` are the rows whose redaction raises, some of those of the `Broken` pages. A
  row whose JSON does not parse to a dict is passed over and not counted as a failure
  (`deletion_scrub.py:450-452`, `1464-1466`): it is no row that names the person here.
- An upgrade reads the pack, reads the live tokens and writes its row in three
  transactions (`server.py:6003`, `5888`, `6018`), under a lock the scrub does not take;
  `Held` are the pages it may write to. `missed` are the pages of the upgrades that found
  no token, because the job had ended since they read the pack or because the tokens
  could not be read: they write the name, and nothing scrubs it any more.
- Assumed: a deck in flight at the deletion is written before the grace ends,
  which is what `IN_FLIGHT_GRACE` is for.
- Left out: what is replaced in each store, several jobs in one run, a new
  `SCRUB_VERSION`, the escalation, and the content of the model store.

Properties: `CursorIsTrue` (behind the cursor of a pass that began after the grace
and had no failure, no row names the person but a `missed` one, whoever resumed it;
it does not rest on the lease), `DoneIsClean` (once the grace pass is recorded, or the
job is gone, no row but a missed one names the person or ever will), `ScrubEnds` (once
no row is beyond repair, the job ends). `ScrubEnds` excepts `Stranded`, the state of a
[finding](#findings), so it does not count for the claim in two transactions.

## The runs

| Run | Instance | Shows | States |
|---|---|---|---|
| `lease_deletions` | 2 users, a work thread with 2 leases, a thread it may hand a lease to, 2 deletion threads; 2 deletions, or one and a handed lease | `NoResurrection`, `RefusalJustified`, `CommitIsExclusive`, `GatesAccounted`, `DeletionEnds`, `WaiterAnswered`, with writes, binds, spawned threads, captures without a start, reads inside a lease and time-outs | 757 k |
| `overhaul_rivals` | 2 sends of overlapping packages, a refresh | no asset is promised to two batches, but by misreported offers: `LiveReserved`, `PromiseReserved` | 2.7 M |
| `overhaul_liveness` | a race of two tied offers, one for a player and one for a pick, reads that fail, a refresh, a report, a restart | `EndsAreTrue`, `NoOrphanReservation`, `NothingStuck`, `Reconciled`, and the refinement | 269 k |
| `overhaul_release_race`, `overhaul_crash_orphan` | 2 sends and 2 reports; 1 send, a refresh, a restart | the [findings](#findings) | |
| `outlook_cache` | 2 threads, a shared key, two keys of one caller, 2 entries, 3 computations | the whole cache | 245 k |
| `prepared_heads` | 2 sweeps of one scope, 2 processes, 3 claims | `RowAgrees`, `OneHead`, `NothingOfTheDeleted`, `ClosedSweepsAreDone`, and the refinement | 311 k |
| `prepared_retries` | 1 sweep, 2 processes, 2 attempts, a deferral, a crash | `Budget`, `SweepEnds`, `StageDropped` | 121 k |
| `jobs_registry` | 2 requests (search, forced, pre-build) of one viewer, an edit of an input of either member | `NoStaleDeck`, `LiveIsIndexed`, and the refinement | 707 k |
| `jobs_fair` | 1 request (search, pre-build, pinned), a poll, an edit, the other member leaves, with a league read and a revocation that may fail | `NoneOfTheDeleted`, `DeliveredIsCurrent`, `DecksEnd` | 469 k |
| `adoption_deck` | 2 jobs, an inventory of two batches that may be damaged and then an empty one, expiries, an edit, crashes | the five properties of an adoption | 2.2 M |
| `scrub_pass` | 1 loop and the tick, 2 pages (one of a captured league, one with the pack), an upgrade of a held card, 2 pages a run, 1 fault | `CursorIsTrue`, `DoneIsClean`, `ScrubEnds` | 667 k |

**Why the bounds are enough to be interesting.** Two users are needed to tell
the global revision from a user's own, and two users bound together with two
deletions to have overlapping alias sets, one alias joined late. Two leases of
the work thread give nesting, and so the inherited revision and an unsorted entry;
work threads wait for deletions and never for each other, so a second one only
runs what the first hands it. Two
sends with two tokens give every interleaving of claim, release and
reconciliation of overlapping packages; a race of two offers gives a rival to
invalidate. Three keys and two entries make the cache evict, and three
computations let one key be computed, purged and computed again. In
`prepared_heads` three claims give two inventories of one scope and a process
that lost its claim to another; a target there has one attempt and may yield
once, and the two sweeps differ only in name. In `prepared_retries` three claims
are exactly the two attempts and the yielded one, so the bound never stops the
retries. Two requests give a job to join, to replace and to find dead; the second
job of a key is to the first what a third would be to the second. An edit is what
separates the versions of an input; a second one only repeats it. In
`adoption_deck` two batches give a prefix that is neither empty nor full when the
first job loses its claim to the second, and the empty inventory its own commit; it is
the first inventory that may be damaged or expire (`Damaged`, `Expiring`).
In `scrub_pass` the first page is redacted by the league pass as well as by the
scan, the second by the scan alone; the end of a scan takes a page of its own, so
two pages a run suspend every pass once, and one fault separates a run from the
one that resumes it or overtakes it. The first page has the rows that cannot be
redacted and gets those of the held cards (`Broken`, `Held`): it is the page both passes
visit, and the second would repeat it.

`CHECK_DEADLOCK FALSE` is set where the system may stop: the prepared runs end
when every sweep is closed, or when the bound on claims is reached; the job and
adoption runs end when every request, poll and edit has been made; and
`overhaul_release_race` ends when all of its requests have been served. Symmetry
is used only in runs without liveness properties.

**Fairness, and why the code justifies it.**

- `UserDataLifecycle`: each work thread runs (its admitted work ends: every
  `with lease.active()` block does), and each deletion thread runs, its wait
  ending by the deadline at the latest. No new work or deletion is promised.
  Deletions are finitely many; a gate that is closed again and again could keep
  one waiter out, as any condition variable may.
- `OverhaulSend`: threads run, time passes, and the app refreshes again and
  again with live rosters and picks (strong fairness of `StartRefresh(r, TRUE)` and
  `ReadPicks(r, TRUE)`): it does so whenever a plan is opened, and provider reads are
  assumed to recover.
  Nothing is assumed of the user or of the other side of the trade.
- `OutlookResultCache`: computations end and threads run; nobody has to call.
- `PreparedSweep`: the thread of each process runs, the maintenance loop resumes
  a sweep and prunes every hour, retries become due and the lease of an
  abandoned claim passes. Deferrals to interactive work are bounded, since an
  app that is never quiet defers for ever by design.
- `TradeJobs`: a request runs on, a poll ends, and the clean-up loop ticks
  (`Timeout`). Nothing is assumed of the workers, which may hang in a provider
  call: that the deck ends all the same is what `DecksEnd` says.
- `DeletionScrub`: the clean-up loop and the daily tick come round again, a run
  that started goes on, the grace ends and a lease nobody renews passes. Faults
  are bounded, since a pass that raises each time never ends; `Repair` is not fair.
- `PreparedAdoption`: safety only; that its jobs end is `DecksEnd`.

## The proofs

Each `<Module>Proofs` proves `IInv` inductive (`Init => IInv` and
`IInv /\ [Next]_vars => IInv'`, one lemma or step per action), and derives the
properties from it. TLC checked each `IInv` before it was proved; the runs keep
the properties that follow from them.

| Module | Theorems | Argument |
|---|---|---|
| `UserDataLifecycleProofs` | `TypeCorrect`, `NothingResurrected`, `HeldWorkIsCurrent`, `CommitsAreExclusive`, `GatesAreAccounted`, `RefusalsAreJustified`, `DeletionsWaitInOrder`, `NestedScopesPass` | `RevealInv`: whatever a thread read that is out of date, every marked start it can still capture with, and every lease it has that goes back to one, lies before the revision of that deletion, or the deletion still has to announce it. Of starts that are not marked nothing is claimed; `FreshInv` says that what was read again inside a lease is given up with it. Together with `CountInv` (a generation counts the deletions that are announced) a stale lease never carries the current generation. `GateInv` and `PhaseInv` say what each deletion has claimed at each point of `hold`. `ScopeInv`: what a scope still has to take lies above what it has, and the nested scope has nothing to take; so waits among deletions form no circle, and only the route's scope can end busy. |
| `OverhaulSendProofs` | `Inductive`, `TypeCorrect`, `EndsTrue`, `TerminalsAreForever`, `OffersAreWrittenOnce`, `Refinement`, `NoOrphans`, and on conditions [below](#reservations-under-conditions) those of the reservations | The evidence behind every verdict that is still to be written is stable: an asset that left the seller does not come back (`ReceiveAssumption`), an aged row has no worker (`AgedInv`), a call that failed and is not misreported stays refused (`RecordInv`). What a refresh has read of an offer that gives no picks was true of the rosters at one moment, so a missing asset and a player who has not arrived exclude an acceptance. `OrphanInv`: every reservation is accounted for by a live attempt, by a batch about to store one, or by a thread that will come to free it; so when all rest only live attempts are left. |
| `OutlookResultCacheProofs` | `TypeCorrect`, `OneComputation`, `PurgesHold`, `NobodyAbandoned`, `CacheBounded`, `StoredResultsStay` | A flight has one owner, the table names the flights that are led, and a flight that may store is younger than the last purge of its caller. `CapInv`: any set of entries has an oldest one (so an eviction finds it), and their number is within the cap. |
| `PreparedSweepProofs` | `Inductive`, `RowsAgree`, `OneHeadServed`, `DeletedStaysDeleted`, `BudgetKept`, `ClosedIsDone`, `Refinement` | A claim that passes `_claimed` is the newest one, on a running target of a user who is not deleted, with an inventory never published (`ClaimInv`, `StageInv`). `Refinement` maps each step to a publication, a closing, a withdrawal, a forgetting, or a stutter. |
| `TradeJobsProofs` | `Invariance`, `StaleDecksAreGone`, `DeletedAreNotServed`, `OneLiveJob`, `DeadJobsStayDead`, `PollsAreCurrent`, `Refinement` | A request captures the tokens of a scope before anything of it is read (`RequestInv`), so tokens that are still current vouch for every read they cover (`CurrentReads`), in the job, in the request and in the copy a poll made. A running job is as far as its worker's place says (`RunningInv`); the index points to nothing but jobs of its viewer that may be shared, and to the live one if there is one. `Refinement` maps each step to one of `Decks`; an edit withdraws, in one step, every deck that holds the token it outdates. |
| `PreparedAdoptionProofs` | `Invariance`, `ShownDurable`, `OneKind`, `SoundKept`, `LiveCurrent`, `NoStale`, `Refinement` | The rows of an inventory carry its one publication and reach its prefix (`InventoryInv`); what a job holds follows from its place (`PlaceInv`, `BatchInv`), and what it showed lies below the prefix (`ShownInv`). `InputInv`: the guard and the active receipt are taken before the comparison that admits, so a batch whose inputs are current when it is shown was current all along. `Refinement` adds `Present` (a job is absent until it is asked for, and again only after a crash) and `OwnBatches`: until it ends, an adopting job holds batches alone, and a job that searches holds nothing. |
| `DeletionScrubProofs` | `TypeCorrect`, `CursorsAreTrue`, `FinishedIsClean`, `OneRunnerHolds`, `StrandedOnlyByOvertaking` | A pass carries whether it began after the grace and whether a row failed, in a run as in the saved cursor (`PassInv`), and no row but a missed one is named anew after the grace (`DoneIsLate`). `UpgradeInv`: only an upgrade that missed the token still writes the name, so `names \ missed` only shrinks after the grace. None of this uses the lease: overtaken and outlasted runs write true cursors too. It is the end of the job that needs it: `LeaseInv` says that no two runners at work took it with the same value, and `NeededInv` that whoever holds it has the grace pass to do, as long as what is due at the read is due at the take. |

They rest on the named `ASSUME`s of the modules only: shapes of the constants,
and for `OverhaulSend` the three facts about plans listed above. A hypothesis
beyond these (those of the next section, and `DueTakes` of
`StrandedOnlyByOvertaking`) is part of the theorem. The bounds
(`MaxRequests`, `MaxClaims`, `MaxEdits`, ...) are arbitrary there, and so are the
numbers of threads, users, jobs, scopes, inventories and batches.

### Reservations, under conditions

`LiveReserved` and `PromiseReserved` fail in general: that is a [finding](#findings).
The theorems say what exactly is missing. `LiveAttemptsStayReserved` has the
hypothesis `[][SpareReleases]_vars` on a behaviour: whoever releases a package
finds it complete, or without a live attempt and without a batch that has claimed
it and is about to store its attempts. So a release that a claim overtook is the
only way in which a live attempt loses its reservation. The second half of the
condition shows that doing the check and the release in one transaction is not
enough, since a batch claims before it stores. `OneOfferEach`, a package has one offer,
implies the condition (`OneOfferLiveReserved`), whatever requests and restarts overlap:
then only the thread that settled the attempt frees the package, and it does so before
the package can be claimed again. The finding needs a race of offers.

`PendingPromisesStayReserved` and `OneOfferPromiseReserved` say the same of the offers
that are pending at the provider, those of `misreported` attempts excepted. From the
first follows `NothingPromisedTwice`: two such offers that give the same asset belong to
one batch and one package.

### What is only model-checked

Every safety property of the passing runs is stated by a theorem, the two above on
their conditions. `NothingStuck`, `Reconciled`, `DeletionEnds`, `WaiterAnswered`,
`Answered`, `SweepEnds`, `StageDropped`, `DecksEnd` and `ScrubEnds` are liveness under
fairness, which is out of the prover's reach; `OrphansFreed` is violated. The safety
half of some is proved: `DeletionsWaitInOrder` excludes a deadlock of deletions,
`LeaderPresent` a waiter nobody will answer, `StrandedOnlyByOvertaking` the one state
a scrub job does not leave.

The other way round, `DeadStaysDead` and the refinement by `PreparedAdoption` are
proved and not part of a run: what a client sees of the first is in the refinement
that `jobs_registry` checks, and the second takes TLC longer than the other
properties of `adoption_deck` together.

## Findings

- **A release can free another batch's reservation** (`overhaul_release_race`).
  `release_if_idle` (`backend/overhaul_api.py:1085`) reads the live attempts and
  releases the package in two transactions. Two reports end the same package,
  both see no live attempt; the first release lets a new send claim and
  propose; the second frees what that send has promised. `LiveAttemptsStayReserved`
  shows that there is no other way.
- **A crash between claim and insert blocks a package**
  (`overhaul_crash_orphan`). Reservations and attempts are written in two
  transactions (`overhaul_api.py:1027`); nothing looks for reservations without
  attempts. The same happens when the process dies between the transition that
  ends an attempt and the release after it.

`PROJECT.json` quotes the documents each of these departs from.

More observations, which have no run of their own: where a property of a passing run
holds but for such a case, it excepts the case by name.

- **An overtaken runner strands a scrub job.** `_take` compares `claimed_until` with
  the value read, and between runs that value is `NULL` again: a runner that read
  the row takes the lease although another one has worked the job meanwhile, in
  whole runs, with the cursor it read. If its pass is then suspended after the
  grace pass of the other was recorded, `scan_json` is set beside a `db_done_at` past
  the grace: `_db_due` is false for ever, and `_finish` wants `scan_json` NULL, so the
  job stays and is escalated for ever. `deletion_scrub.py:1554` says "Of two runners
  that read the same row, one wins", `scope-deletion-scrub.md:58` that two instances
  never run one job twice. TLC finds it when `Stranded` is dropped from `ScrubEnds`;
  the rows are clean all the same (`FinishedIsClean` does not rest on the lease).
  `StrandedOnlyByOvertaking` shows that deaths, raises and lapsing leases alone never
  strand a job: a take that checked again whether the pass is due would be enough.
- **The model store may be trained on rows that name the person.** It is redacted
  once, when any pass is recorded or has row failures
  (`deletion_scrub.py:1769-1771`), and `model_done_at` keeps it from being redacted
  again. Rows that are written until the grace ends, or that wait for a repair,
  are there for the refit that follows (`server.py:31957-31958`), although `tick`
  says that "the refit after it trains on scrubbed data". The model has `model_done_at`
  but not the content of that store.
- **A 5xx is called a failure.** Sleeper's adapter reports a 5xx, a time-out and an
  answer that is not JSON after the write as `ok: False` (`sleeper_write.py:369-383`);
  `overhaul_api.py:1072-1077` records `send_failed` and releases the reservation, with the
  offer perhaps pending. `write_outcome.py:24-34` and `ENGINEERING-SPEC.md:198` call that
  outcome unknown. The model does what the code does; `PromiseReserved`, `EndsAreTrue` and
  `OfferLedger` except the attempts concerned by name (`misreported`), and fail at once
  without the exception.
- **One key may get two batches.** `Lookup` and `Insert` are apart, so a double
  submission of one key may pass the look-up twice. While the first batch is live
  its reservations refuse the second. But if the first fails definitively and
  releases before the second claims, one key gets two batches, where
  `docs/plans/team-overhaul/BUILD-CONTRACT.md:218` promises the existing one.
- **An accepted offer may be recorded as lost.** A refresh reads the rosters, then the
  picks (`overhaul_api.py:210`). An offer that gives a pick and is accepted between the
  two is seen with the pick gone and the players not arrived, which counts as resolved
  elsewhere, for good. `AcceptedNotDenied` excepts these offers.
- **The weekly replenishment is outside every lease.** It takes no snapshot, although
  `user_data_lifecycle.py:3` says "Capture before reading work inputs": its marker is
  written outside any lease (`server.py:31142`), and its inbox row under one that is
  captured after the reads (`server.py:31162`). Rows of such work may outlive a deletion;
  `NoResurrection` does not cover them.
- **A failed league read spares running jobs.** Then a job that does not name the person
  yet is not revoked and may do so afterwards (`server.py:3001-3010`), although
  `server.py:3018-3019` says that every job still running in one of their leagues is.
- **An expired inventory is quarantined as a damaged one.** `retire_invalid_inventory`
  is for "the proven-invalid active root" only (`prepared_trade_store_v2.py:873-877`), but
  an expiry counts as an artifact error, and an undamaged inventory is retired when
  one of its cards expires between the peek and the admission.
- **A held card may write the name after the scrub has ended.** Its upgrade reads the
  pack and the tokens in two transactions. If the scrub redacts the pack and the job
  ends between them, there is no token any more and the row is written with the name
  (`server.py:6003`, `5888`, `6018`); the same when the tokens cannot be read.
  `database.py:7645` says "no write after a deletion re-creates the id".

## What is not modelled

`PROJECT.json` has a reason for each component. In short: the components of the
plan below are not reached yet; ranking, trade search, projections and
simulations are floating-point functions without state between calls; provider
adapters, analytics, experiments, configuration and clients are input and
output around single statements. `accounts.py` and `database.py` appear as far
as the modelled components use them.

Known limits of what is there: one overhaul and one seller; one account with several
identities; one target per sweep; at most one restart or crash (several in `PreparedAdoption`); one league for the job
registry, one scope for the adoptions and one job for the scrub. Components that meet
are composed only where they share a module: `TradeJobs` and `PreparedAdoption` agree
on `TradeJob` and both implement `Decks`, and `PreparedAdoption` takes from
`PreparedSweep` that a scope has one head. A deletion that runs leases, cache purge,
job revocation and inventory deletes in one scope, and leaves a scrub job behind, is
checked part by part, not as a whole.

## Plan

Done: the leases first, since every other component relies on them; then the
overhaul sends, the only place where the system promises assets to others; the
cache; the sweeps with their abstract specification; the registry of trade jobs;
the adoption of prepared inventories by those jobs; and the scrub that a deletion
leaves behind.

Next, in this order:

1. `RosterFreshness` and `SleeperCircuit`: which refresh wins, and the breaker.
2. `SessionInit`, `DeckEvidence`: the single flight and the waits in `server.py`,
   against a deletion.
3. `WinNowJobs` and `Entitlements`: durable queues with late finishers and
   redelivered events.
4. The players refresh, and Elo updates and tiers as pure operators over bounded
   inputs with a reference definition.

Compositions: an account deletion over leases, cache, jobs and prepared
inventories, with the abstract promise that nothing of the person is written or
served after it, which `TradeJobs` and `UserDataLifecycle` together implement.
