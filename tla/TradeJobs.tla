------------------------------ MODULE TradeJobs ------------------------------
(***************************************************************************)
(* The in-memory registry of trade jobs of server.py.  A request reads the *)
(* viewer's preferences, then joins, replaces or starts a job under the    *)
(* registry's lock; the job's worker reads the inputs of every member of   *)
(* the league, publishes cards as it goes and ends the job; edits of those *)
(* inputs, other requests, the time-out, an account deletion and roster    *)
(* changes revoke jobs in between; clients poll.                           *)
(*                                                                         *)
(* Every action that the code runs under _trade_jobs_lock is one step; so  *)
(* is every read of stored inputs.  Whether two requests ask for the same  *)
(* search (fairness, intent, policy, rosters) is left open: wherever the   *)
(* code compares them the model tries both answers.                        *)
(***************************************************************************)
EXTENDS Naturals, TradeJob

CONSTANTS
    Users,        \* the members of one league
    Scopes,       \* the stored inputs that have an input epoch of their own
    Owner,        \* the member each belongs to
    Preferences,  \* the scopes a request reads itself: its viewer's preferences
    Requests,     \* the requests for a deck; a request starts at most one job
    Viewers,      \* the members who ask for decks
    Kinds,        \* what they may be, of AllKinds
    Polls,        \* the status requests of clients
    Editors,      \* the requests that change inputs
    Leaving,      \* the members who may delete their account
    None

\* A plain search, one with `force`, the pre-build of session init, and one
\* with pinned assets or a single opponent, which never shares its job.
AllKinds == {"search", "forced", "warm", "pinned"}

ASSUME UsersAssumption == Owner \in [Scopes -> Users] /\ Viewers \subseteq Users
ASSUME ScopesAssumption == Preferences \subseteq Scopes
ASSUME KindsAssumption == Kinds \subseteq AllKinds
ASSUME NoneAssumption == None \notin Requests

VARIABLES
    input,      \* the version stored for each scope
    epoch,      \* the input token of each scope that a capture would hand out
    fenced,     \* history: the version the last revocation of a scope covered
    editor,     \* the edits: where each is and the scope it changes
    request,    \* the requests
    jobs,       \* _trade_jobs: the job of each request
    work,       \* where the worker of each job is
    index,      \* _trade_jobs_by_key: the job the viewer's key points to
    poll,       \* the status requests
    leaving,    \* the account deletions
    purged,     \* history: the versions stored when a member's jobs were revoked
    spared      \* history: the running jobs this revocation left alone

inputs == <<input, epoch, fenced, editor>>
registry == <<jobs, index>>
history == <<purged, spared>>
vars == <<input, epoch, fenced, editor, request, jobs, work, index, poll,
          leaving, purged, spared>>

Tokens == Scopes \X Nat
Steps == {"idle", "reading", "routing", "capturing", "admitting", "answered"}
Works == {"none", "broken", "queued", "loading", "building", "ending", "done"}

Unread == [s \in Scopes |-> None]

\* A job that is not in the registry.
NoJob == [status |-> "absent", superseded |-> FALSE, tokens |-> {},
          prefs |-> Unread, read |-> Unread, cards |-> {}]

ScopesOf(u) == {s \in Scopes : Owner[s] = u}
PreferencesOf(u) == ScopesOf(u) \cap Preferences

\* _capture_trade_input_epochs for some members.
Capture(U) == {<<s, epoch[s]>> : s \in {t \in Scopes : Owner[t] \in U}}

\* A token is revoked once its scope hands out a later one.
Outdated(tokens) == \E t \in tokens : epoch[t[1]] # t[2]

IsRevoked(i) == Revoked(jobs[i], Outdated(jobs[i].tokens))
IsLive(i) == Live(jobs[i], Outdated(jobs[i].tokens))

Shared(r) == request[r].kind # "pinned"
Existing(r) == index[request[r].viewer]

\* The stored preferences of a viewer, as a request reads them.
ReadPreferences(u) == [s \in Scopes |-> IF s \in PreferencesOf(u) THEN input[s] ELSE None]

\* A finished deck may be handed out again, a running one joined, when it was
\* asked for with the same preferences; `same` stands for the rest.
Fresh(i, r, same) ==
    /\ same
    /\ jobs[i].status = "complete" /\ ~IsRevoked(i)
    /\ request[r].prefs # Unread /\ jobs[i].prefs = request[r].prefs

Joinable(i, r, same) ==
    same /\ IsLive(i) /\ request[r].prefs # Unread /\ jobs[i].prefs = request[r].prefs

Init ==
    /\ input = [s \in Scopes |-> 0]
    /\ epoch = [s \in Scopes |-> 0]
    /\ fenced = [s \in Scopes |-> 0]
    /\ editor = [e \in Editors |-> [step |-> "idle", scope |-> None]]
    /\ request = [r \in Requests |-> [step |-> "idle", kind |-> None, viewer |-> None,
                                      tokens |-> {}, prefs |-> Unread, broken |-> FALSE,
                                      answer |-> None]]
    /\ jobs = [r \in Requests |-> NoJob]
    /\ work = [r \in Requests |-> "none"]
    /\ index = [u \in Users |-> None]
    /\ poll = [p \in Polls |-> [step |-> "idle", job |-> None, copy |-> NoJob, cards |-> {}]]
    /\ leaving = [u \in Leaving |-> "stays"]
    /\ purged = [s \in Scopes |-> 0]
    /\ spared = {}

-----------------------------------------------------------------------------
(* A request for a deck.                                                   *)

Moves(r, step) == request' = [request EXCEPT ![r].step = step]

Answer(r, i) == request' = [request EXCEPT ![r] = [@ EXCEPT !.step = "answered", !.answer = i]]

\* The request captures the viewer's tokens before it reads anything.
Begin(r, u, k) ==
    /\ request[r].step = "idle"
    /\ request' = [request EXCEPT ![r] = [@ EXCEPT !.step = "reading", !.kind = k,
                                               !.viewer = u, !.tokens = Capture({u})]]
    /\ UNCHANGED <<inputs, registry, work, poll, leaving, history>>

\* It reads the preferences the deck is asked for with; the read may fail.
ReadRequest(r) ==
    /\ request[r].step = "reading"
    /\ \E p \in {ReadPreferences(request[r].viewer), Unread} :
           request' = [request EXCEPT ![r] = [@ EXCEPT !.step = "routing", !.prefs = p]]
    /\ UNCHANGED <<inputs, registry, work, poll, leaving, history>>

Kept(j) == j  \* Faulty: the job that is replaced runs on.

\* The key's job, when it cannot answer the request.
Replaced(j) == IF j.status = "running" THEN Revoke(j) ELSE j

\* /api/trades/generate: hand out the key's job, or drop it from the index.
Route(r) ==
    /\ request[r].step = "routing" /\ request[r].kind # "warm"
    /\ \/ /\ ~Shared(r) \/ Outdated(request[r].tokens) \/ Existing(r) = None
          /\ Moves(r, "capturing")
          /\ UNCHANGED registry
       \/ /\ Shared(r) /\ ~Outdated(request[r].tokens) /\ Existing(r) # None
          /\ \E same \in BOOLEAN :
                LET i == Existing(r)
                    force == request[r].kind = "forced"
                    reuse == ~force /\ (Fresh(i, r, same) \/ Joinable(i, r, same))
                IN  IF reuse
                    THEN Answer(r, i) /\ UNCHANGED registry
                    ELSE /\ Moves(r, "capturing")
                         /\ jobs' = [jobs EXCEPT ![i] = Replaced(@)]
                         /\ index' = [index EXCEPT ![request[r].viewer] = None]
    /\ UNCHANGED <<inputs, work, poll, leaving, history>>

\* session/init: build nothing when the key's job is fresh or runs under the
\* current policy, whatever it was asked for with; nothing either when the
\* preferences could not be read.
Warm(r) ==
    /\ request[r].step = "routing" /\ request[r].kind = "warm"
    /\ \/ request[r].prefs # Unread /\ Moves(r, "capturing")
       \/ request[r].prefs = Unread /\ Answer(r, None)
       \/ /\ Existing(r) # None
          /\ Fresh(Existing(r), r, TRUE) \/ IsLive(Existing(r))
          /\ Answer(r, Existing(r))
    /\ UNCHANGED <<inputs, registry, work, poll, leaving, history>>

NoTokens == {}  \* Faulty: only the viewer's inputs are fenced.
MemberTokens == Capture(Users)

\* _kickoff_trade_job before its lock: the tokens of every member, beside the
\* viewer's first ones, and a second try at the preferences.  The session may
\* have gone: the job is then registered all the same, to report it.
CaptureMembers(r) ==
    /\ request[r].step = "capturing"
    /\ \/ \E p \in {request[r].prefs, ReadPreferences(request[r].viewer)} :
             /\ request[r].prefs # Unread => p = request[r].prefs
             /\ request' = [request EXCEPT ![r] = [@ EXCEPT !.step = "admitting", !.prefs = p,
                                                        !.tokens = request[r].tokens \cup MemberTokens]]
       \/ request' = [request EXCEPT ![r] = [@ EXCEPT !.step = "admitting", !.broken = TRUE]]
    /\ UNCHANGED <<inputs, registry, work, poll, leaving, history>>

NewJob(r, status) ==
    [status |-> status, superseded |-> FALSE, tokens |-> request[r].tokens,
     prefs |-> request[r].prefs, read |-> request[r].prefs,
     cards |-> {}]

\* The claim of _kickoff_trade_job: revoked inputs are reported, a usable job
\* is joined, a running one is replaced.
Admit(r) ==
    /\ request[r].step = "admitting"
    /\ IF Outdated(request[r].tokens)
       THEN /\ jobs' = [jobs EXCEPT ![r] = NewJob(r, "error")]
            /\ Answer(r, r)
            /\ UNCHANGED <<index, work>>
       ELSE \E same \in BOOLEAN :
              LET i == IF Shared(r) THEN Existing(r) ELSE None
                  force == request[r].kind = "forced"
                  join == /\ i # None /\ ~force
                          /\ \/ Fresh(i, r, same) \/ Joinable(i, r, same)
                             \/ request[r].kind = "warm" /\ same /\ IsLive(i)
              IN  IF join
                  THEN Answer(r, i) /\ UNCHANGED <<registry, work>>
                  ELSE /\ jobs' = [j \in Requests |->
                              CASE j = r -> NewJob(r, "running")
                                [] j = i /\ IsLive(j) -> Revoke(jobs[j])
                                [] OTHER -> jobs[j]]
                       /\ index' = IF Shared(r)
                                   THEN [index EXCEPT ![request[r].viewer] = r] ELSE index
                       /\ work' = [work EXCEPT ![r] =
                              IF request[r].broken THEN "broken" ELSE "queued"]
                       /\ Answer(r, r)
    /\ UNCHANGED <<inputs, poll, leaving, history>>

-----------------------------------------------------------------------------
(* The worker of a job.                                                    *)

EndJob(r, status) ==
    /\ jobs' = [jobs EXCEPT ![r] = End(@, Outdated(@.tokens), status)]
    /\ work' = [work EXCEPT ![r] = "done"]

At(r, w) == work[r] = w
Goes(r, w) == work' = [work EXCEPT ![r] = w]

\* The job of a session that was gone is only registered to report it.
CaptureFailed(r) == At(r, "broken") /\ EndJob(r, "error")

\* The thread may not start, and the user lease may be refused; a job revoked
\* while it waited is left alone.
Start(r) ==
    /\ At(r, "queued")
    /\ \/ EndJob(r, "error")
       \/ Goes(r, IF IsLive(r) THEN "loading" ELSE "done") /\ UNCHANGED jobs

\* check_current, at every checkpoint: a job that is no longer live is
\* abandoned.
Cancelled(r) == work[r] \in {"loading", "building"} /\ ~IsLive(r) /\ EndJob(r, "error")

\* The worker reads the stored inputs one after the other.
Load(r) ==
    /\ At(r, "loading") /\ IsLive(r)
    /\ \/ \E s \in Scopes : /\ jobs[r].read[s] = None
                            /\ jobs' = [jobs EXCEPT ![r].read[s] = input[s]]
          /\ UNCHANGED work
       \/ /\ \A s \in Scopes : jobs[r].read[s] # None
          /\ Goes(r, "building") /\ UNCHANGED jobs

SetCards(r) ==
    \E partners \in SUBSET (Users \ {request[r].viewer}) :
       jobs' = [jobs EXCEPT ![r].cards = IF IsLive(r) THEN partners ELSE @]

\* The progress callback, after each opponent, and the final publication.
Publish(r) == At(r, "building") /\ SetCards(r) /\ UNCHANGED work
PublishFinal(r) == At(r, "building") /\ SetCards(r) /\ Goes(r, "ending")

Finish(r) == At(r, "ending") /\ EndJob(r, "complete")

\* Any exception the worker meets.
Fail(r) == work[r] \in {"loading", "building", "ending"} /\ EndJob(r, "error")

Worker(r) ==
    /\ \/ CaptureFailed(r) \/ Start(r) \/ Cancelled(r) \/ Load(r)
       \/ Publish(r) \/ PublishFinal(r) \/ Finish(r) \/ Fail(r)
    /\ UNCHANGED <<inputs, request, index, poll, leaving, history>>

-----------------------------------------------------------------------------
(* What revokes, ends and evicts jobs from outside.                        *)

RevokeAll(J) == jobs' = [i \in Requests |-> IF i \in J THEN Revoke(jobs[i]) ELSE jobs[i]]

\* The index forgets the jobs it points to.
Forget(J) == index' = [u \in Users |-> IF index[u] \in J THEN None ELSE index[u]]

\* An edit of a stored input commits, or fails after it may have committed.
Change(e, s) ==
    /\ editor[e].step = "idle"
    /\ \E v \in {input[s], input[s] + 1} : input' = [input EXCEPT ![s] = v]
    /\ editor' = [editor EXCEPT ![e] = [step |-> "written", scope |-> s]]
    /\ UNCHANGED <<epoch, fenced, request, registry, work, poll, leaving, history>>

\* _invalidate_trade_jobs, once the write has ended either way: the scope's
\* token is revoked, and so is every job of its owner or that holds it.
Fence(e) ==
    /\ editor[e].step = "written"
    /\ LET s == editor[e].scope
           J == {i \in Requests : /\ ~Absent(jobs[i])
                                 /\ \/ request[i].viewer = Owner[s]
                                    \/ <<s, epoch[s]>> \in jobs[i].tokens}
       IN  /\ epoch' = [epoch EXCEPT ![s] = @ + 1]
           /\ fenced' = [fenced EXCEPT ![s] = input[s]]
           /\ RevokeAll(J)
           /\ Forget(J)
    /\ editor' = [editor EXCEPT ![e].step = "done"]
    /\ UNCHANGED <<input, request, work, poll, leaving, history>>

\* An account deletion reads the leagues of the person, a read that may fail,
\* and commits: the person's rows are gone.
Leave(u) ==
    /\ leaving[u] = "stays"
    /\ \E league \in {"known", "unknown"} : leaving' = [leaving EXCEPT ![u] = league]
    /\ input' = [s \in Scopes |-> IF Owner[s] = u THEN input[s] + 1 ELSE input[s]]
    /\ UNCHANGED <<epoch, fenced, editor, request, registry, work, poll, history>>

\* Faulty: a running job may name the person yet.
NamingOnly(u) == {i \in Requests : u \in jobs[i].cards /\ ~IsRevoked(i)}
\* _revoke_trade_jobs_naming: the jobs whose cards name the person and, of the
\* leagues that were read, those that still run.
Naming(u) ==
    {i \in Requests : /\ \/ u \in jobs[i].cards
                         \/ leaving[u] = "known" /\ jobs[i].status = "running"
                      /\ ~IsRevoked(i)}

RevokeNaming(u) ==
    /\ leaving[u] \in {"known", "unknown"}
    /\ leaving' = [leaving EXCEPT ![u] = "gone"]
    /\ RevokeAll(Naming(u))
    /\ purged' = [s \in Scopes |-> IF Owner[s] = u THEN input[s] ELSE purged[s]]
    /\ spared' = IF leaving[u] = "known" THEN spared
                 ELSE spared \cup {<<u, i>> : i \in {r \in Requests : IsLive(r)}}
    /\ UNCHANGED <<inputs, request, index, work, poll>>

\* It may raise part of the way, which is only logged.
RevokeFails(u) ==
    /\ leaving[u] \in {"known", "unknown"}
    /\ leaving' = [leaving EXCEPT ![u] = "gone"]
    /\ \E J \in SUBSET Naming(u) : RevokeAll(J)
    /\ UNCHANGED <<inputs, request, index, work, poll, history>>

\* Faulty: a job that has cards is left alone.
TimeoutUnlessPublished(r) ==
    /\ jobs[r].status = "running" /\ jobs[r].cards = {}
    /\ jobs' = [jobs EXCEPT ![r].status = "error"]
    /\ UNCHANGED <<inputs, request, index, work, poll, leaving, history>>

\* The clean-up loop: a job that stalled is ended and keeps its cards ...
Timeout(r) ==
    /\ jobs[r].status = "running"
    /\ jobs' = [jobs EXCEPT ![r].status = "error"]
    /\ UNCHANGED <<inputs, request, index, work, poll, leaving, history>>

\* ... and one that ended long ago is dropped.
Evict(r) ==
    /\ jobs[r].status \in {"complete", "error"}
    /\ jobs' = [jobs EXCEPT ![r] = NoJob]
    /\ Forget({r})
    /\ UNCHANGED <<inputs, request, work, poll, leaving, history>>

\* A refresh committed rosters that moved: it revokes the jobs built on an
\* older read that a rebuild would improve.
RosterMoved ==
    /\ \E J \in SUBSET {i \in Requests : ~Absent(jobs[i]) /\ ~jobs[i].superseded} :
          RevokeAll(J) /\ Forget(J)
    /\ UNCHANGED <<inputs, request, work, poll, leaving, history>>

-----------------------------------------------------------------------------
(* /api/trades/status.                                                     *)

\* The job is copied under the lock; an evicted one is not found.
Copy(p) ==
    /\ poll[p].step = "idle"
    /\ \E i \in Requests :
          /\ ~Absent(jobs[i])
          /\ poll' = [poll EXCEPT ![p] = [step |-> "copied", job |-> i,
                                         copy |-> jobs[i], cards |-> {}]]
    /\ UNCHANGED <<inputs, request, registry, work, leaving, history>>

\* Faulty: an evicted job is nobody's.
WithdrawnInRegistry(p) == ~Absent(jobs[poll[p].job]) /\ IsRevoked(poll[p].job)

\* revocation_error: the tokens of the copy, and the retained job.
Withdrawn(p) ==
    \/ Revoked(poll[p].copy, Outdated(poll[p].copy.tokens))
    \/ ~Absent(jobs[poll[p].job]) /\ IsRevoked(poll[p].job)

\* Its first check, and its second once the dispositions and rosters are read.
Project(p) ==
    /\ poll[p].step = "copied"
    /\ poll' = [poll EXCEPT ![p] = [@ EXCEPT !.step = "projected",
                                    !.cards = IF Withdrawn(p) THEN {} ELSE poll[p].copy.cards]]
    /\ UNCHANGED <<inputs, request, registry, work, leaving, history>>

Deliver(p) ==
    /\ poll[p].step = "projected"
    /\ poll' = [poll EXCEPT ![p] = [@ EXCEPT !.step = "delivered",
                                    !.cards = IF Withdrawn(p) THEN {} ELSE poll[p].cards]]
    /\ UNCHANGED <<inputs, request, registry, work, leaving, history>>

-----------------------------------------------------------------------------
Asks(r) ==
    \/ \E u \in Viewers, k \in Kinds : Begin(r, u, k)
    \/ ReadRequest(r) \/ Route(r) \/ Warm(r) \/ CaptureMembers(r) \/ Admit(r)

Next ==
    \/ \E r \in Requests : Asks(r) \/ Worker(r) \/ Timeout(r) \/ Evict(r)
    \/ \E e \in Editors : (\E s \in Scopes : Change(e, s)) \/ Fence(e)
    \/ \E u \in Leaving : Leave(u) \/ RevokeNaming(u) \/ RevokeFails(u)
    \/ RosterMoved
    \/ \E p \in Polls : Copy(p) \/ Project(p) \/ Deliver(p)

Spec == Init /\ [][Next]_vars
\* A request runs on, the clean-up loop ticks and a poll ends; nothing is
\* promised of the editors, and nothing of the workers: a call to a provider
\* may never return.
Fairness ==
    /\ \A r \in Requests :
          /\ WF_vars(ReadRequest(r) \/ Route(r) \/ Warm(r) \/ CaptureMembers(r) \/ Admit(r))
          /\ WF_vars(Timeout(r))
    /\ \A p \in Polls : WF_vars(Project(p) \/ Deliver(p))

FairSpec == Spec /\ Fairness

-----------------------------------------------------------------------------
Reads == [Scopes -> Nat \cup {None}]

Job == [status : {"absent", "running", "complete", "error"}, superseded : BOOLEAN,
        tokens : SUBSET Tokens, prefs : Reads, read : Reads, cards : SUBSET Users]

Asking == [step : Steps, kind : AllKinds \cup {None}, viewer : Users \cup {None},
           tokens : SUBSET Tokens, prefs : Reads, broken : BOOLEAN,
           answer : Requests \cup {None}]

Polling == [step : {"idle", "copied", "projected", "delivered"},
            job : Requests \cup {None}, copy : Job, cards : SUBSET Users]

RequestsType ==
    /\ request \in [Requests -> Asking]
    /\ \A r \in Requests : request[r].step # "idle" => request[r].viewer \in Users

\* Types of the registry, the requests and what surrounds them.
TypeOK ==
    /\ input \in [Scopes -> Nat] /\ epoch \in [Scopes -> Nat] /\ fenced \in [Scopes -> Nat]
    /\ purged \in [Scopes -> Nat]
    /\ editor \in [Editors -> [step : {"idle", "written", "done"}, scope : Scopes \cup {None}]]
    /\ \A e \in Editors : editor[e].step = "written" => editor[e].scope \in Scopes
    /\ RequestsType
    /\ jobs \in [Requests -> Job] /\ work \in [Requests -> Works]
    /\ index \in [Users -> Requests \cup {None}]
    /\ poll \in [Polls -> Polling]
    /\ leaving \in [Leaving -> {"stays", "known", "unknown", "gone"}]
    /\ spared \subseteq Leaving \X Requests

\* What the proofs add to the properties.  No token was issued before its time.
TokensIssued ==
    /\ \A r \in Requests : \A t \in request[r].tokens \cup jobs[r].tokens : t[2] <= epoch[t[1]]
    /\ \A p \in Polls : \A t \in poll[p].copy.tokens : t[2] <= epoch[t[1]]

Recorded == \A s \in Scopes : fenced[s] <= input[s] /\ purged[s] <= input[s]

\* Whether some tokens are those of every scope in S, and reads of scopes they
\* cover that are as new as the last revocation.
Current(tokens, S) == \A s \in S : <<s, epoch[s]>> \in tokens

CurrentReads(tokens, reads) ==
    \A s \in Scopes : reads[s] # None =>
        /\ <<s, epoch[s]>> \in tokens
        /\ reads[s] >= fenced[s]

RequestInv(r) ==
    /\ request[r].step \in {"idle", "answered"} \/ Absent(jobs[r])
    /\ request[r].step \notin {"idle", "answered"} /\ ~Outdated(request[r].tokens) =>
          /\ Current(request[r].tokens, ScopesOf(request[r].viewer))
          /\ CurrentReads(request[r].tokens, request[r].prefs)
          /\ request[r].step = "admitting" /\ ~request[r].broken =>
                Current(request[r].tokens, Scopes)
    /\ \A s \in Scopes : request[r].prefs[s] # None => Owner[s] = request[r].viewer
    /\ request[r].step \in {"idle", "reading"} => request[r].prefs = Unread

RequestsInv == \A r \in Requests : RequestInv(r)

\* A job that runs is as far as its worker's place says.
RunningInv(r) ==
    /\ ~IsRevoked(r)
    /\ work[r] \notin {"none", "done"}
    /\ work[r] # "broken" => Current(jobs[r].tokens, Scopes)
    /\ IF work[r] \in {"building", "ending"}
       THEN \A s \in Scopes : jobs[r].read[s] # None
       ELSE jobs[r].cards = {}
    /\ \A s \in Scopes : jobs[r].read[s] # None =>
          \/ Owner[s] = request[r].viewer
          \/ <<Owner[s], r>> \in spared
          \/ jobs[r].read[s] >= purged[s]

JobInv(r) ==
    /\ Absent(jobs[r]) => jobs[r] = NoJob
    /\ ~Absent(jobs[r]) => request[r].step = "answered"
    /\ jobs[r].status = "running" => RunningInv(r)
    /\ ~IsRevoked(r) => CurrentReads(jobs[r].tokens, jobs[r].read)
    /\ request[r].viewer \notin jobs[r].cards

JobsInv == \A r \in Requests : JobInv(r)

IndexInv ==
    \A w \in Users : index[w] # None =>
        /\ ~Absent(jobs[index[w]])
        /\ request[index[w]].viewer = w /\ Shared(index[w])

\* The job a poll copied, as far as its tokens still tell.
PollsInv ==
    \A p \in Polls :
        /\ poll[p].step # "idle" => poll[p].job \in Requests
        /\ ~Revoked(poll[p].copy, Outdated(poll[p].copy.tokens)) =>
              CurrentReads(poll[p].copy.tokens, poll[p].copy.read)

\* A deck that may still be served or joined was built on no input older than
\* the last revocation of it: the tokens are captured before the reads and
\* held by the job, and an edit is fenced after its write (_invalidate_trade_jobs).
NoStaleDeck ==
    \A i \in Requests : ~IsRevoked(i) =>
        \A s \in Scopes : jobs[i].read[s] # None => jobs[i].read[s] >= fenced[s]

\* Once a deletion has revoked the jobs that name the person, a deck that
\* names them was built on what was stored after it, unless the person's
\* leagues could not be read and the job was running then: such a job is left
\* alone, also when it turns to naming the person (_revoke_trade_jobs_naming).
NoneOfTheDeleted ==
    \A i \in Requests, u \in Users : ~IsRevoked(i) /\ u \in jobs[i].cards =>
        \/ <<u, i>> \in spared
        \/ \A s \in ScopesOf(u) : jobs[i].read[s] # None /\ jobs[i].read[s] >= purged[s]

\* A live job that may be shared is the one its key points to: a viewer has at
\* most one, and every request finds it.
LiveIsIndexed ==
    \A i \in Requests : IsLive(i) /\ Shared(i) => index[request[i].viewer] = i

IInv ==
    /\ TypeOK /\ TokensIssued /\ Recorded /\ RequestsInv /\ JobsInv /\ IndexInv /\ PollsInv
    /\ NoneOfTheDeleted /\ LiveIsIndexed

\* A job that was timed out, superseded or revoked stays so until it is
\* evicted: no late write of its worker gives it cards or another status.
DeadStaysDead ==
    [][\A i \in Requests : ~Absent(jobs[i]) /\ ~IsLive(i) =>
          \/ Absent(jobs'[i])
          \/ /\ jobs'[i].status = jobs[i].status
             /\ jobs'[i].cards \subseteq jobs[i].cards
             /\ jobs[i].superseded => jobs'[i].superseded]_vars

\* The deck of each request; one that was answered with another job has none.
StateOf(i) == DeckState(jobs[i], Outdated(jobs[i].tokens), request[i].step = "answered")

DeckOf(i) == [state |-> StateOf(i), cards |-> jobs[i].cards]

Deck == INSTANCE Decks WITH
    Jobs <- Requests, Cards <- Users, Prepared <- {},
    deck <- [i \in Requests |-> DeckOf(i)]

\* Requests, workers, edits, deletions and the clean-up loop implement Decks: in
\* particular no late write of a worker revives a deck or changes its end.
ImplementsDecks == Deck!Spec

\* A poll never hands out cards built on inputs revoked since it copied the
\* job, nor those of a job that has been superseded in the registry.
DeliveredIsCurrent ==
    [][\A p \in Polls : poll'[p].step = "delivered" /\ poll'[p] # poll[p]
                        /\ poll'[p].cards # {} =>
          /\ \A s \in Scopes : poll[p].copy.read[s] # None =>
                 poll[p].copy.read[s] >= fenced[s]
          /\ ~jobs[poll[p].job].superseded]_vars

\* A client that asked is answered, and whatever its worker does the job it
\* polls does not run for ever.
DecksEnd ==
    /\ \A r \in Requests : /\ []<>(request[r].step \in {"idle", "answered"})
                            /\ []<>(jobs[r].status # "running")
    /\ \A p \in Polls : []<>(poll[p].step \in {"idle", "delivered"})
===============================================================================
