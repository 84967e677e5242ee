--------------------------- MODULE TradeJobsProofs ---------------------------
(* Proofs about TradeJobs for any league, requests, editors and polls, and *)
(* that it implements Decks.                                               *)
EXTENDS TradeJobs, TLAPS

USE DEF history

\* The writes of the registry keep its type.
LEMMA RevokeType == ASSUME NEW j \in Job PROVE Revoke(j) \in Job
  BY DEF Revoke, Job

LEMMA EndType ==
    ASSUME NEW j \in Job, NEW f \in BOOLEAN, NEW w \in {"complete", "error"}
    PROVE  End(j, f, w) \in Job
  BY RevokeType DEF End, Live, Revoked, Absent, Job

LEMMA UnreadType == Unread \in Reads /\ NoJob \in Job
  BY DEF Unread, Reads, NoJob, Job

LEMMA TokensType ==
    ASSUME TypeOK, NEW U \in SUBSET Users
    PROVE  Capture(U) \in SUBSET Tokens
  BY DEF Capture, Tokens, TypeOK

\* The fields of well-typed requests, jobs and polls.
LEMMA RequestFields ==
    ASSUME TypeOK, NEW r \in Requests
    PROVE  /\ request[r] \in Asking
           /\ request[r].step \in Steps /\ request[r].kind \in AllKinds \cup {None}
           /\ request[r].viewer \in Users \cup {None} /\ request[r].tokens \in SUBSET Tokens
           /\ request[r].prefs \in Reads /\ request[r].broken \in BOOLEAN
           /\ request[r].answer \in Requests \cup {None}
<1>1. request[r] \in Asking
  BY DEF TypeOK, RequestsType
<1>. QED  BY <1>1 DEF Asking

LEMMA JobFields ==
    ASSUME NEW j \in Job
    PROVE  /\ j.status \in {"absent", "running", "complete", "error"}
           /\ j.superseded \in BOOLEAN /\ j.tokens \in SUBSET Tokens
           /\ j.prefs \in Reads /\ j.read \in Reads /\ j.cards \in SUBSET Users
  BY DEF Job

LEMMA PollFields ==
    ASSUME TypeOK, NEW p \in Polls
    PROVE  /\ poll[p] \in Polling /\ poll[p].step \in {"idle", "copied", "projected", "delivered"}
           /\ poll[p].job \in Requests \cup {None} /\ poll[p].copy \in Job
           /\ poll[p].cards \in SUBSET Users
<1>1. poll[p] \in Polling
  BY DEF TypeOK
<1>. QED  BY <1>1 DEF Polling

LEMMA NewJobType ==
    ASSUME TypeOK, NEW r \in Requests, NEW w \in {"running", "error"}
    PROVE  NewJob(r, w) \in Job
<1>1. request[r].tokens \in SUBSET Tokens /\ request[r].prefs \in Reads
  BY RequestFields
<1>. QED  BY <1>1 DEF NewJob, Job

LEMMA TypeInit == Init => TypeOK
<1>. SUFFICES ASSUME Init PROVE TypeOK
  OBVIOUS
<1>1. jobs \in [Requests -> Job] /\ poll \in [Polls -> Polling]
  BY UnreadType DEF Init, Polling
<1>2. request \in [Requests -> Asking]
  BY UnreadType DEF Init, Steps, Asking
<1>. QED  BY <1>1, <1>2 DEF Init, TypeOK, Works, RequestsType

\* Updates of one request, by what they write.
LEMMA AskingType ==
    ASSUME TypeOK, NEW r \in Requests, NEW x \in Asking, x.viewer \in Users,
           request' = [request EXCEPT ![r] = x]
    PROVE  RequestsType'
  BY DEF TypeOK, RequestsType

LEMMA MovesType ==
    ASSUME TypeOK, NEW r \in Requests, request[r].step # "idle"
    PROVE  /\ \A w \in Steps : Moves(r, w) => RequestsType'
           /\ \A i \in Requests \cup {None} : Answer(r, i) => RequestsType'
<1>1. request[r].viewer \in Users
  BY DEF TypeOK, RequestsType
<1>2. ASSUME NEW w \in Steps, Moves(r, w) PROVE RequestsType'
  <2>1. request' = [request EXCEPT ![r] = [request[r] EXCEPT !.step = w]]
    BY <1>2 DEF Moves
  <2>2. [request[r] EXCEPT !.step = w] \in Asking /\ [request[r] EXCEPT !.step = w].viewer = request[r].viewer
    BY RequestFields DEF Asking
  <2>. QED  BY <1>1, <2>1, <2>2, AskingType
<1>3. ASSUME NEW i \in Requests \cup {None}, Answer(r, i) PROVE RequestsType'
  <2>. DEFINE x == [request[r] EXCEPT !.step = "answered", !.answer = i]
  <2>1. request' = [request EXCEPT ![r] = x]
    BY <1>3 DEF Answer
  <2>2. x \in Asking /\ x.viewer = request[r].viewer
    BY RequestFields DEF Asking, Steps
  <2>. HIDE DEF x
  <2>. QED  BY <1>1, <2>1, <2>2, AskingType
<1>. QED  BY <1>2, <1>3

\* Each action keeps the types.
LEMMA TypeStep == TypeOK /\ [Next]_vars => TypeOK'
<1>. SUFFICES ASSUME TypeOK, [Next]_vars PROVE TypeOK'
  OBVIOUS
<1>. USE DEF inputs, registry
<1>1. ASSUME NEW r \in Requests, NEW u \in Viewers, NEW k \in Kinds, Begin(r, u, k) PROVE TypeOK'
  <2>. DEFINE x == [request[r] EXCEPT !.step = "reading", !.kind = k, !.viewer = u, !.tokens = Capture({u})]
  <2>1. Capture({u}) \in SUBSET Tokens /\ u \in Users /\ k \in AllKinds
    BY TokensType, UsersAssumption, KindsAssumption
  <2>2. x \in Asking /\ x.viewer \in Users
    BY <2>1, RequestFields DEF Asking, Steps
  <2>3. request' = [request EXCEPT ![r] = x]
    BY <1>1 DEF Begin
  <2>. HIDE DEF x
  <2>4. RequestsType'
    BY <2>2, <2>3, AskingType
  <2>. QED  BY <1>1, <2>4 DEF Begin, TypeOK
<1>2. ASSUME NEW r \in Requests, ReadRequest(r) PROVE TypeOK'
  <2>. DEFINE x(q) == [request[r] EXCEPT !.step = "routing", !.prefs = q]
  <2>1. ReadPreferences(request[r].viewer) \in Reads /\ request[r].viewer \in Users
    BY <1>2 DEF ReadPreferences, Reads, TypeOK, RequestsType, ReadRequest
  <2>2. \A q \in Reads : x(q) \in Asking /\ x(q).viewer \in Users
    BY <2>1, RequestFields DEF Asking, Steps
  <2>3. \E q \in Reads : request' = [request EXCEPT ![r] = x(q)]
    BY <1>2, <2>1, UnreadType DEF ReadRequest
  <2>. HIDE DEF x
  <2>4. RequestsType'
    BY <2>2, <2>3, AskingType
  <2>. QED  BY <1>2, <2>4 DEF ReadRequest, TypeOK
<1>3. ASSUME NEW r \in Requests, Route(r) PROVE TypeOK'
  <2>1. RequestsType'
    <3>1. Existing(r) # None => Existing(r) \in Requests
      BY <1>3 DEF Existing, TypeOK, RequestsType, Route
    <3>2. request[r].step # "idle" /\ "capturing" \in Steps
      BY <1>3 DEF Route, Steps
    <3>. QED  BY <1>3, <3>1, <3>2, MovesType DEF Route
  <2>2. jobs' \in [Requests -> Job] /\ index' \in [Users -> Requests \cup {None}]
    <3>1. \A i \in Requests : jobs[i] \in Job /\ Revoke(jobs[i]) \in Job
      BY RevokeType DEF TypeOK
    <3>2. \A i \in Requests : Replaced(jobs[i]) \in Job
      BY <3>1 DEF Replaced
    <3>. QED  BY <1>3, <3>2 DEF Route, TypeOK
  <2>. QED  BY <1>3, <2>1, <2>2 DEF Route, TypeOK
<1>4. ASSUME NEW r \in Requests, Warm(r) PROVE TypeOK'
  <2>1. RequestsType'
    <3>1. Existing(r) # None => Existing(r) \in Requests
      BY <1>4 DEF Existing, TypeOK, RequestsType, Warm
    <3>2. request[r].step # "idle" /\ "capturing" \in Steps
      BY <1>4 DEF Warm, Steps
    <3>. QED  BY <1>4, <3>1, <3>2, MovesType DEF Warm
  <2>. QED  BY <1>4, <2>1 DEF Warm, TypeOK
<1>5. ASSUME NEW r \in Requests, CaptureMembers(r) PROVE TypeOK'
  <2>. DEFINE x(q) == [request[r] EXCEPT !.step = "admitting", !.prefs = q,
                                         !.tokens = request[r].tokens \cup MemberTokens]
              y == [request[r] EXCEPT !.step = "admitting", !.broken = TRUE]
  <2>1. /\ ReadPreferences(request[r].viewer) \in Reads /\ request[r].prefs \in Reads
        /\ Capture(Users) \in SUBSET Tokens /\ request[r].viewer \in Users
    BY <1>5, TokensType, RequestFields DEF ReadPreferences, Reads, TypeOK, RequestsType, CaptureMembers
  <2>2. \A q \in Reads : x(q) \in Asking /\ x(q).viewer \in Users
    BY <2>1, RequestFields DEF Asking, Steps, MemberTokens
  <2>3. y \in Asking /\ y.viewer \in Users
    BY <2>1, RequestFields DEF Asking, Steps
  <2>4. \/ \E q \in Reads : request' = [request EXCEPT ![r] = x(q)]
        \/ request' = [request EXCEPT ![r] = y]
    <3>1. CASE \E q \in {request[r].prefs, ReadPreferences(request[r].viewer)} :
                   request' = [request EXCEPT ![r] = x(q)]
      BY <2>1, <3>1
    <3>2. CASE request' = [request EXCEPT ![r] = y]
      BY <3>2
    <3>. HIDE DEF x
    <3>3. \/ \E q \in {request[r].prefs, ReadPreferences(request[r].viewer)} :
                request' = [request EXCEPT ![r] = x(q)]
          \/ request' = [request EXCEPT ![r] = y]
      BY <1>5 DEF CaptureMembers, x
    <3>. QED  BY <3>1, <3>2, <3>3
  <2>. HIDE DEF x, y
  <2>5. RequestsType'
    BY <2>2, <2>3, <2>4, AskingType
  <2>. QED  BY <1>5, <2>5 DEF CaptureMembers, TypeOK
<1>6. ASSUME NEW r \in Requests, Admit(r) PROVE TypeOK'
  <2>1. RequestsType'
    <3>1. Existing(r) # None => Existing(r) \in Requests
      BY <1>6 DEF Existing, TypeOK, RequestsType, Admit
    <3>2. request[r].step # "idle"
      BY <1>6 DEF Admit
    <3>. QED  BY <1>6, <3>1, <3>2, MovesType DEF Admit
  <2>2. jobs' \in [Requests -> Job]
    BY <1>6, RevokeType, NewJobType DEF Admit, TypeOK
  <2>. QED  BY <1>6, <2>1, <2>2 DEF Admit, TypeOK, Works
<1>7. ASSUME NEW r \in Requests, Worker(r) PROVE TypeOK'
  <2>1. ASSUME NEW w \in {"complete", "error"}, EndJob(r, w)
        PROVE  jobs' \in [Requests -> Job] /\ work' \in [Requests -> Works]
    <3>1. Outdated(jobs[r].tokens) \in BOOLEAN
      BY DEF Outdated
    <3>. QED  BY <2>1, <3>1, EndType DEF EndJob, TypeOK, Works
  <2>2. ASSUME Load(r) PROVE jobs' \in [Requests -> Job] /\ work' \in [Requests -> Works]
    <3>1. \A s \in Scopes : [jobs[r] EXCEPT !.read[s] = input[s]] \in Job
      <4>. SUFFICES ASSUME NEW s \in Scopes PROVE [jobs[r] EXCEPT !.read[s] = input[s]] \in Job
        OBVIOUS
      <4>1. jobs[r] \in Job /\ input[s] \in Nat
        BY DEF TypeOK
      <4>2. [jobs[r].read EXCEPT ![s] = input[s]] \in Reads
        BY <4>1, JobFields DEF Reads
      <4>. QED  BY <4>1, <4>2 DEF Job
    <3>. QED  BY <2>2, <3>1 DEF Load, Goes, TypeOK, Works
  <2>3. ASSUME SetCards(r) PROVE jobs' \in [Requests -> Job]
    <3>1. jobs[r] \in Job
      BY DEF TypeOK
    <3>2. \A c \in SUBSET Users : [jobs[r] EXCEPT !.cards = c] \in Job
      BY <3>1 DEF Job
    <3>3. jobs[r].cards \in SUBSET Users
      BY <3>1, JobFields
    <3>4. PICK c \in SUBSET Users : jobs' = [jobs EXCEPT ![r] = [jobs[r] EXCEPT !.cards = c]]
      BY <2>3, <3>3 DEF SetCards
    <3>. QED  BY <3>2, <3>4 DEF TypeOK
  <2>4. jobs' \in [Requests -> Job] /\ work' \in [Requests -> Works]
    <3>1. CASE CaptureFailed(r) BY <3>1, <2>1 DEF CaptureFailed
    <3>2. CASE Start(r) BY <3>2, <2>1 DEF Start, Goes, TypeOK, Works
    <3>3. CASE Cancelled(r) BY <3>3, <2>1 DEF Cancelled
    <3>4. CASE Load(r) BY <3>4, <2>2
    <3>5. CASE Publish(r) BY <3>5, <2>3 DEF Publish, TypeOK
    <3>6. CASE PublishFinal(r) BY <3>6, <2>3 DEF PublishFinal, Goes, TypeOK, Works
    <3>7. CASE Finish(r) BY <3>7, <2>1 DEF Finish
    <3>8. CASE Fail(r) BY <3>8, <2>1 DEF Fail
    <3>. QED  BY <1>7, <3>1, <3>2, <3>3, <3>4, <3>5, <3>6, <3>7, <3>8 DEF Worker
  <2>. QED  BY <1>7, <2>4 DEF Worker, TypeOK, RequestsType
<1>8. ASSUME NEW r \in Requests, Timeout(r) \/ Evict(r) PROVE TypeOK'
  <2>1. jobs' \in [Requests -> Job]
    <3>1. [jobs[r] EXCEPT !.status = "error"] \in Job
      BY DEF TypeOK, Job
    <3>. QED  BY <1>8, <3>1, UnreadType DEF Timeout, Evict, TypeOK
  <2>. QED  BY <1>8, <2>1 DEF Timeout, Evict, Forget, TypeOK, RequestsType
<1>9. ASSUME NEW e \in Editors, NEW s \in Scopes, Change(e, s) PROVE TypeOK'
  BY <1>9 DEF Change, TypeOK, RequestsType
<1>10. ASSUME NEW e \in Editors, Fence(e) PROVE TypeOK'
  <2>1. jobs' \in [Requests -> Job] /\ index' \in [Users -> Requests \cup {None}]
    BY <1>10, RevokeType DEF Fence, RevokeAll, Forget, TypeOK
  <2>. QED  BY <1>10, <2>1 DEF Fence, TypeOK, RequestsType
<1>11. ASSUME NEW u \in Leaving, Leave(u) \/ RevokeNaming(u) \/ RevokeFails(u) PROVE TypeOK'
  <2>1. jobs' \in [Requests -> Job]
    BY <1>11, RevokeType DEF Leave, RevokeNaming, RevokeFails, RevokeAll, TypeOK
  <2>. QED  BY <1>11, <2>1 DEF Leave, RevokeNaming, RevokeFails, TypeOK, RequestsType
<1>12. CASE RosterMoved
  <2>1. jobs' \in [Requests -> Job] /\ index' \in [Users -> Requests \cup {None}]
    BY <1>12, RevokeType DEF RosterMoved, RevokeAll, Forget, TypeOK
  <2>. QED  BY <1>12, <2>1 DEF RosterMoved, TypeOK, RequestsType
<1>13. ASSUME NEW p \in Polls, Copy(p) \/ Project(p) \/ Deliver(p) PROVE TypeOK'
  <2>1. \A i \in Requests : jobs[i] \in Job
    BY DEF TypeOK
  <2>2. poll[p].copy.cards \in SUBSET Users
    BY PollFields, JobFields
  <2>3. /\ \A c \in SUBSET Users, w \in {"projected", "delivered"} :
             [poll[p] EXCEPT !.step = w, !.cards = c] \in Polling
        /\ \A i \in Requests :
             [step |-> "copied", job |-> i, copy |-> jobs[i], cards |-> {}] \in Polling
    BY <2>1, PollFields DEF Polling
  <2>4. poll' \in [Polls -> Polling]
    <3>1. CASE Copy(p)
      BY <2>3, <3>1 DEF Copy, TypeOK
    <3>2. ASSUME NEW w \in {"projected", "delivered"}, NEW c \in SUBSET Users,
                 poll' = [poll EXCEPT ![p] = [poll[p] EXCEPT !.step = w, !.cards = c]]
          PROVE  poll' \in [Polls -> Polling]
      <4>1. [poll[p] EXCEPT !.step = w, !.cards = c] \in Polling
        BY <2>3
      <4>. QED  BY <3>2, <4>1 DEF TypeOK
    <3>3. CASE Project(p)
      <4>1. \E c \in SUBSET Users : poll' = [poll EXCEPT ![p] = [poll[p] EXCEPT !.step = "projected", !.cards = c]]
        BY <2>2, <3>3 DEF Project
      <4>. QED  BY <3>2, <4>1
    <3>4. CASE Deliver(p)
      <4>1. \E c \in SUBSET Users : poll' = [poll EXCEPT ![p] = [poll[p] EXCEPT !.step = "delivered", !.cards = c]]
        <5>1. poll[p].cards \in SUBSET Users
          BY PollFields
        <5>. QED  BY <3>4, <5>1 DEF Deliver
      <4>. QED  BY <3>2, <4>1
    <3>. QED  BY <1>13, <3>1, <3>3, <3>4
  <2>. QED  BY <1>13, <2>4 DEF Copy, Project, Deliver, TypeOK, RequestsType
<1>14. CASE UNCHANGED vars
  BY <1>14 DEF vars, TypeOK, RequestsType
<1>. QED  BY <1>1, <1>2, <1>3, <1>4, <1>5, <1>6, <1>7, <1>8, <1>9, <1>10, <1>11, <1>12,
             <1>13, <1>14 DEF Next, Asks
-----------------------------------------------------------------------------
\* A step is calm for a job when it leaves it, ends it, revokes it or evicts it.
Calm(i) ==
    \/ jobs'[i] = jobs[i]
    \/ jobs'[i] = NoJob /\ jobs[i].status # "running"
    \/ /\ ~Absent(jobs[i])
       /\ jobs'[i].status \in {"complete", "error"}
       /\ jobs'[i].tokens = jobs[i].tokens /\ jobs'[i].read = jobs[i].read
       /\ jobs'[i].cards \subseteq jobs[i].cards
       /\ jobs[i].superseded => jobs'[i].superseded

LEMMA RevokeCalms ==
    ASSUME TypeOK, NEW i \in Requests, ~Absent(jobs[i]), jobs'[i] = Revoke(jobs[i])
    PROVE  Calm(i)
<1>1. jobs[i] \in Job
  BY DEF TypeOK
<1>. QED  BY <1>1 DEF Calm, Revoke, Job, Absent

LEMMA EndCalms ==
    ASSUME TypeOK, NEW i \in Requests, NEW w \in {"complete", "error"},
           jobs'[i] = End(jobs[i], Outdated(jobs[i].tokens), w)
    PROVE  Calm(i) /\ jobs'[i].status # "running"
<1>1. jobs[i] \in Job
  BY DEF TypeOK
<1>2. CASE jobs'[i] = [jobs[i] EXCEPT !.status = w] /\ jobs[i].status = "running"
  BY <1>1, <1>2 DEF Calm, Job, Absent
<1>3. CASE jobs'[i] = Revoke(jobs[i]) /\ jobs[i].status = "running"
  BY <1>1, <1>3 DEF Calm, Job, Absent, Revoke
<1>4. CASE jobs'[i] = jobs[i] /\ jobs[i].status # "running"
  BY <1>4 DEF Calm
<1>. QED  BY <1>2, <1>3, <1>4 DEF End, Live

\* What a calm step of the registry may change beside the jobs.
Quiet ==
    /\ UNCHANGED <<input, epoch, fenced, history, poll>>
    /\ \A i \in Requests :
          /\ Calm(i)
          /\ request'[i].viewer = request[i].viewer /\ request'[i].kind = request[i].kind
          /\ request'[i].tokens = request[i].tokens
          /\ ~Absent(jobs[i]) => request'[i].step = request[i].step
          /\ jobs'[i].status = "running" =>
                \/ work'[i] = work[i]
                \/ work[i] = "queued" /\ work'[i] = "loading"
          /\ jobs'[i].status = "running" /\ Shared(i) =>
                index'[request[i].viewer] = index[request[i].viewer]
    /\ \A w \in Users : index'[w] # None => index'[w] = index[w] /\ ~Absent(jobs'[index[w]])

LEMMA QuietStep ==
    ASSUME IInv, TypeOK', Quiet
    PROVE  /\ TokensIssued' /\ Recorded' /\ JobsInv' /\ IndexInv' /\ PollsInv'
           /\ NoneOfTheDeleted' /\ LiveIsIndexed'
<1>. USE DEF IInv
<1>1. UNCHANGED <<input, epoch, fenced, history, poll>>
  BY DEF Quiet
<1>2. \A S : Outdated(S)' = Outdated(S)
  BY <1>1 DEF Outdated
<1>3. TokensIssued'
  BY <1>1 DEF Quiet, Calm, TokensIssued, NoJob
<1>4. Recorded'
  BY <1>1 DEF Recorded
<1>5. PollsInv'
  BY <1>1, <1>2 DEF PollsInv, Revoked, CurrentReads
<1>6. ASSUME NEW i \in Requests, jobs'[i].status = "running" PROVE jobs'[i] = jobs[i]
  BY <1>6 DEF Quiet, Calm, NoJob
<1>7. ASSUME NEW i \in Requests, ~IsRevoked(i)'
      PROVE  ~IsRevoked(i) /\ jobs'[i].tokens = jobs[i].tokens /\ jobs'[i].read = jobs[i].read
             /\ jobs'[i].cards \subseteq jobs[i].cards
  BY <1>1, <1>7 DEF Quiet, Calm, NoJob, IsRevoked, Revoked, Outdated, Absent
<1>8. JobsInv'
  <2>. SUFFICES ASSUME NEW r \in Requests PROVE JobInv(r)'
    BY DEF JobsInv
  <2>. USE DEF JobsInv, JobInv
  <2>1. (Absent(jobs[r]) => jobs[r] = NoJob)'
    BY DEF Quiet, Calm, Absent
  <2>2. (~Absent(jobs[r]) => request[r].step = "answered")'
    BY DEF Quiet, Calm, NoJob, Absent
  <2>3. ASSUME jobs'[r].status = "running" PROVE RunningInv(r)'
    <3>1. jobs'[r] = jobs[r] /\ jobs[r].status = "running" /\ request'[r].viewer = request[r].viewer
      BY <1>6, <2>3 DEF Quiet
    <3>2. ~IsRevoked(r)'
      BY <1>1, <3>1 DEF RunningInv, IsRevoked, Revoked, Outdated
    <3>3. work'[r] = work[r] \/ (work[r] = "queued" /\ work'[r] = "loading")
      BY <2>3 DEF Quiet
    <3>. QED  BY <1>1, <3>1, <3>2, <3>3 DEF RunningInv, Current
  <2>4. (~IsRevoked(r) => CurrentReads(jobs[r].tokens, jobs[r].read))'
    BY <1>1, <1>7 DEF CurrentReads
  <2>5. (request[r].viewer \notin jobs[r].cards)'
    BY DEF Quiet, Calm, NoJob
  <2>. QED  BY <2>1, <2>2, <2>3, <2>4, <2>5
<1>9. IndexInv'
  BY DEF Quiet, IndexInv, Shared, TypeOK
<1>10. NoneOfTheDeleted'
  BY <1>1, <1>7 DEF NoneOfTheDeleted
<1>11. LiveIsIndexed'
  <2>. SUFFICES ASSUME NEW i \in Requests, IsLive(i)', Shared(i)'
       PROVE  index'[request'[i].viewer] = i
    BY DEF LiveIsIndexed
  <2>1. jobs'[i].status = "running" /\ jobs'[i] = jobs[i]
    BY <1>6 DEF IsLive, Live
  <2>2. IsLive(i) /\ Shared(i)
    BY <1>1, <2>1 DEF IsLive, Live, Revoked, Outdated, Quiet, Shared
  <2>. QED  BY <2>1, <2>2 DEF LiveIsIndexed, Quiet
<1>. QED  BY <1>3, <1>4, <1>5, <1>8, <1>9, <1>10, <1>11
-----------------------------------------------------------------------------
LEMMA IInvInit == Init => IInv
<1>. SUFFICES ASSUME Init PROVE IInv
  OBVIOUS
<1>. USE DEF Init
<1>1. TypeOK
  BY TypeInit
<1>2. TokensIssued
  BY DEF TokensIssued, NoJob
<1>3. Recorded
  BY DEF Recorded
<1>4. RequestsInv
  BY DEF RequestsInv, RequestInv, Unread, Absent, NoJob
<1>5. JobsInv /\ IndexInv /\ PollsInv
  BY NoneAssumption DEF JobsInv, JobInv, IndexInv, PollsInv, Absent, NoJob, IsRevoked, Revoked
<1>6. NoneOfTheDeleted /\ LiveIsIndexed
  BY DEF NoneOfTheDeleted, LiveIsIndexed, NoJob, IsRevoked, IsLive, Live, Revoked, Absent
<1>. QED  BY <1>1, <1>2, <1>3, <1>4, <1>5, <1>6 DEF IInv

\* A step that leaves the registry alone and writes requests only keeps what is
\* said of the rest.
LEMMA RequestStep ==
    ASSUME IInv, TypeOK', NEW r \in Requests, UNCHANGED <<inputs, registry, work, poll, leaving, history>>,
           Absent(jobs[r]),
           \A i \in Requests \ {r} : request'[i] = request[i],
           RequestInv(r)', \A k \in request'[r].tokens : k[2] <= epoch[k[1]],
           request'[r].step # "idle"
    PROVE  IInv'
<1>. USE DEF IInv, inputs, registry
<1>1. UNCHANGED <<input, epoch, fenced, history, jobs, index, work, poll>>
  OBVIOUS
<1>2. \A S : Outdated(S)' = Outdated(S)
  BY <1>1 DEF Outdated
<1>3. \A i \in Requests : ~Absent(jobs[i]) => i # r /\ request'[i] = request[i]
  OBVIOUS
<1>4. TokensIssued'
  BY <1>1 DEF TokensIssued
<1>5. Recorded'
  BY <1>1 DEF Recorded
<1>6. RequestsInv'
  <2>. SUFFICES ASSUME NEW i \in Requests, i # r PROVE RequestInv(i)'
    BY DEF RequestsInv
  <2>. QED  BY <1>1, <1>2 DEF RequestsInv, RequestInv, Current, CurrentReads
<1>7. JobsInv'
  <2>. SUFFICES ASSUME NEW i \in Requests PROVE JobInv(i)'
    BY DEF JobsInv
  <2>1. CASE i = r
    <3>1. jobs'[i] = NoJob
      BY <1>1, <2>1 DEF JobsInv, JobInv
    <3>. QED  BY <3>1 DEF JobInv, NoJob, Absent, IsRevoked, Revoked
  <2>2. CASE i # r
    BY <1>1, <1>2, <2>2 DEF JobsInv, JobInv, RunningInv, Current, CurrentReads, IsRevoked, Revoked
  <2>. QED  BY <2>1, <2>2
<1>8. IndexInv'
  BY <1>1, <1>3 DEF IndexInv, Shared, TypeOK
<1>9. PollsInv'
  BY <1>1, <1>2 DEF PollsInv, Revoked, CurrentReads
<1>10. NoneOfTheDeleted'
  BY <1>1, <1>2 DEF NoneOfTheDeleted, IsRevoked, Revoked
<1>11. LiveIsIndexed'
  BY <1>1, <1>2, <1>3 DEF LiveIsIndexed, IsLive, Live, Revoked, Shared
<1>. QED  BY <1>4, <1>5, <1>6, <1>7, <1>8, <1>9, <1>10, <1>11

\* A captured token is the one its scope hands out.
LEMMA Captured ==
    ASSUME TypeOK, NEW U \in SUBSET Users
    PROVE  /\ \A s \in Scopes : Owner[s] \in U => <<s, epoch[s]>> \in Capture(U)
           /\ \A k \in Capture(U) : k[2] <= epoch[k[1]] /\ epoch[k[1]] = k[2]
  BY DEF Capture, TypeOK

LEMMA BeginStep ==
    ASSUME IInv, TypeOK', NEW r \in Requests, NEW u \in Viewers, NEW k \in Kinds, Begin(r, u, k)
    PROVE  IInv'
<1>1. /\ request'[r].step = "reading" /\ request'[r].viewer = u /\ request'[r].tokens = Capture({u})
      /\ request'[r].prefs = request[r].prefs
      /\ \A i \in Requests \ {r} : request'[i] = request[i]
      /\ UNCHANGED <<epoch, fenced, jobs>>
  <2>1. request[r] \in Asking
    BY RequestFields DEF IInv
  <2>. QED  BY <2>1 DEF Begin, IInv, TypeOK, RequestsType, Asking, inputs, registry
<1>2. u \in Users /\ request[r].prefs = Unread /\ Absent(jobs[r])
  BY UsersAssumption DEF Begin, IInv, RequestsInv, RequestInv, JobsInv, JobInv
<1>3. RequestInv(r)'
  BY <1>1, <1>2, Captured DEF RequestInv, Unread, Current, CurrentReads, ScopesOf, IInv
<1>. QED  BY <1>1, <1>2, <1>3, Captured, RequestStep DEF Begin, IInv
LEMMA MovesFields ==
    ASSUME TypeOK, NEW r \in Requests
    PROVE  /\ \A w \in Steps : Moves(r, w) =>
                /\ request'[r].step = w
                /\ request'[r].viewer = request[r].viewer /\ request'[r].tokens = request[r].tokens
                /\ request'[r].prefs = request[r].prefs /\ request'[r].kind = request[r].kind
                /\ \A i \in Requests \ {r} : request'[i] = request[i]
           /\ \A j \in Requests \cup {None} : Answer(r, j) =>
                /\ request'[r].step = "answered"
                /\ request'[r].viewer = request[r].viewer /\ request'[r].tokens = request[r].tokens
                /\ request'[r].prefs = request[r].prefs /\ request'[r].kind = request[r].kind
                /\ \A i \in Requests \ {r} : request'[i] = request[i]
<1>1. request[r] \in Asking /\ request \in [Requests -> Asking]
  BY RequestFields DEF TypeOK, RequestsType
<1>2. ASSUME NEW w \in Steps, Moves(r, w)
      PROVE  request'[r] = [request[r] EXCEPT !.step = w]
             /\ \A i \in Requests \ {r} : request'[i] = request[i]
  BY <1>1, <1>2 DEF Moves
<1>3. ASSUME NEW j \in Requests \cup {None}, Answer(r, j)
      PROVE  request'[r] = [request[r] EXCEPT !.step = "answered", !.answer = j]
             /\ \A i \in Requests \ {r} : request'[i] = request[i]
  BY <1>1, <1>3 DEF Answer
<1>. QED  BY <1>1, <1>2, <1>3 DEF Asking

LEMMA ReadRequestStep ==
    ASSUME IInv, TypeOK', NEW r \in Requests, ReadRequest(r)
    PROVE  IInv'
<1>1. PICK q \in {ReadPreferences(request[r].viewer), Unread} :
         request' = [request EXCEPT ![r] = [request[r] EXCEPT !.step = "routing", !.prefs = q]]
  BY DEF ReadRequest
<1>2. /\ request'[r].step = "routing" /\ request'[r].viewer = request[r].viewer
      /\ request'[r].tokens = request[r].tokens /\ request'[r].prefs = q
      /\ \A i \in Requests \ {r} : request'[i] = request[i]
      /\ UNCHANGED <<epoch, fenced, jobs>>
  <2>1. request[r] \in Asking
    BY RequestFields DEF IInv
  <2>. QED  BY <1>1, <2>1 DEF ReadRequest, IInv, TypeOK, RequestsType, Asking, inputs, registry
<1>3. /\ request[r].step = "reading" /\ RequestInv(r) /\ Absent(jobs[r])
      /\ request[r].viewer \in Users
  BY DEF ReadRequest, IInv, RequestsInv, RequestInv, JobsInv, JobInv, TypeOK, RequestsType
<1>4. \A s \in Scopes : q[s] # None => Owner[s] = request[r].viewer /\ q[s] = input[s] /\ input[s] >= fenced[s]
  BY DEF ReadPreferences, PreferencesOf, ScopesOf, Unread, IInv, Recorded, TypeOK
<1>5. RequestInv(r)'
  BY <1>2, <1>3, <1>4 DEF RequestInv, Outdated, Current, CurrentReads, ScopesOf, IInv, Absent
<1>6. \A k \in request'[r].tokens : k[2] <= epoch[k[1]]
  BY <1>2 DEF IInv, TokensIssued
<1>. QED  BY <1>2, <1>3, <1>5, <1>6, RequestStep DEF ReadRequest

LEMMA WarmStep ==
    ASSUME IInv, TypeOK', NEW r \in Requests, Warm(r)
    PROVE  IInv'
<1>1. /\ request'[r].step \in {"capturing", "answered"} /\ request'[r].viewer = request[r].viewer
      /\ request'[r].tokens = request[r].tokens /\ request'[r].prefs = request[r].prefs
      /\ \A i \in Requests \ {r} : request'[i] = request[i]
      /\ UNCHANGED <<epoch, fenced, jobs>>
  <2>1. Existing(r) # None => Existing(r) \in Requests
    BY DEF Warm, Existing, IInv, TypeOK, RequestsType
  <2>2. "capturing" \in Steps
    BY DEF Steps
  <2>3. Moves(r, "capturing") \/ \E i \in Requests \cup {None} : Answer(r, i)
    BY <2>1 DEF Warm
  <2>. QED  BY <2>2, <2>3, MovesFields DEF Warm, IInv, inputs, registry
<1>2. request[r].step = "routing" /\ RequestInv(r) /\ Absent(jobs[r])
  BY DEF Warm, IInv, RequestsInv, RequestInv, JobsInv, JobInv
<1>3. RequestInv(r)'
  BY <1>1, <1>2 DEF RequestInv, Outdated, Current, CurrentReads, ScopesOf, Absent
<1>4. \A k \in request'[r].tokens : k[2] <= epoch[k[1]]
  BY <1>1 DEF IInv, TokensIssued
<1>. QED  BY <1>1, <1>2, <1>3, <1>4, RequestStep DEF Warm

LEMMA CaptureMembersStep ==
    ASSUME IInv, TypeOK', NEW r \in Requests, CaptureMembers(r)
    PROVE  IInv'
<1>1. /\ request[r].step = "capturing" /\ RequestInv(r) /\ Absent(jobs[r])
      /\ request[r].viewer \in Users /\ request[r] \in Asking
  BY RequestFields DEF CaptureMembers, IInv, RequestsInv, RequestInv, JobsInv, JobInv, TypeOK, RequestsType
<1>2. UNCHANGED <<epoch, fenced, jobs, input>>
  BY DEF CaptureMembers, inputs, registry
<1>3. \A k \in request[r].tokens : k[2] <= epoch[k[1]]
  BY DEF IInv, TokensIssued
<1>4. ASSUME NEW q \in {request[r].prefs, ReadPreferences(request[r].viewer)},
             request' = [request EXCEPT ![r] = [request[r] EXCEPT !.step = "admitting", !.prefs = q,
                                                  !.tokens = request[r].tokens \cup MemberTokens]]
      PROVE  IInv'
  <2>1. /\ request'[r].step = "admitting" /\ request'[r].viewer = request[r].viewer
        /\ request'[r].tokens = request[r].tokens \cup Capture(Users) /\ request'[r].prefs = q
        /\ \A i \in Requests \ {r} : request'[i] = request[i]
    BY <1>1, <1>4 DEF IInv, TypeOK, RequestsType, Asking, MemberTokens
  <2>2. \A s \in Scopes : q[s] # None =>
           Owner[s] = request[r].viewer /\ (q = request[r].prefs \/ q[s] >= fenced[s])
    BY <1>1 DEF RequestInv, ReadPreferences, PreferencesOf, ScopesOf, IInv, Recorded, TypeOK
  <2>3. \A s \in Scopes : <<s, epoch[s]>> \in Capture(Users)
    BY Captured, UsersAssumption DEF IInv
  <2>4. ~Outdated(request[r].tokens)' => ~Outdated(request[r].tokens)
    BY <1>2, <2>1 DEF Outdated
  <2>5. RequestInv(r)'
    BY <1>1, <1>2, <2>1, <2>2, <2>3, <2>4 DEF RequestInv, Outdated, Current, CurrentReads, ScopesOf, Absent
  <2>6. \A k \in request'[r].tokens : k[2] <= epoch[k[1]]
    BY <1>3, <2>1, Captured DEF IInv
  <2>. QED  BY <1>1, <2>1, <2>5, <2>6, RequestStep DEF CaptureMembers
<1>5. ASSUME request' = [request EXCEPT ![r] = [request[r] EXCEPT !.step = "admitting", !.broken = TRUE]]
      PROVE  IInv'
  <2>1. /\ request'[r].step = "admitting" /\ request'[r].viewer = request[r].viewer
        /\ request'[r].tokens = request[r].tokens /\ request'[r].prefs = request[r].prefs
        /\ request'[r].broken
        /\ \A i \in Requests \ {r} : request'[i] = request[i]
    BY <1>1, <1>5 DEF IInv, TypeOK, RequestsType, Asking
  <2>2. RequestInv(r)'
    BY <1>1, <1>2, <2>1 DEF RequestInv, Outdated, Current, CurrentReads, ScopesOf, Absent
  <2>. QED  BY <1>1, <1>3, <2>1, <2>2, RequestStep DEF CaptureMembers
<1>. QED  BY <1>4, <1>5 DEF CaptureMembers

\* A calm step keeps the requests that have no job yet.
LEMMA QuietRequests ==
    ASSUME IInv, TypeOK', Quiet, request' = request
    PROVE  IInv'
<1>1. UNCHANGED <<epoch, fenced>> /\ \A i \in Requests : Absent(jobs[i]) => Absent(jobs'[i])
  BY DEF Quiet, Calm, Absent, NoJob
<1>2. RequestsInv'
  BY <1>1 DEF IInv, RequestsInv, RequestInv, Outdated, Current, CurrentReads
<1>. QED  BY <1>2, QuietStep DEF IInv

LEMMA RouteStep ==
    ASSUME IInv, TypeOK', NEW r \in Requests, Route(r)
    PROVE  IInv'
<1>1. /\ request'[r].step \in {"capturing", "answered"} /\ request'[r].viewer = request[r].viewer
      /\ request'[r].tokens = request[r].tokens /\ request'[r].prefs = request[r].prefs
      /\ request'[r].kind = request[r].kind
      /\ \A i \in Requests \ {r} : request'[i] = request[i]
  <2>1. Existing(r) # None => Existing(r) \in Requests
    BY DEF Route, Existing, IInv, TypeOK, RequestsType
  <2>2. "capturing" \in Steps
    BY DEF Steps
  <2>3. Moves(r, "capturing") \/ \E i \in Requests \cup {None} : Answer(r, i)
    BY <2>1 DEF Route
  <2>. QED  BY <2>2, <2>3, MovesFields DEF IInv
<1>2. /\ UNCHANGED <<input, epoch, fenced, history, poll, work>>
      /\ request[r].step = "routing" /\ RequestInv(r) /\ Absent(jobs[r]) /\ request[r].viewer \in Users
  BY DEF Route, inputs, IInv, RequestsInv, RequestInv, TypeOK, RequestsType
<1>3. CASE UNCHANGED registry
  <2>1. RequestInv(r)'
    BY <1>1, <1>2, <1>3 DEF RequestInv, Outdated, Current, CurrentReads, ScopesOf, Absent, registry
  <2>2. \A k \in request'[r].tokens : k[2] <= epoch[k[1]]
    BY <1>1 DEF IInv, TokensIssued
  <2>. QED  BY <1>1, <1>2, <1>3, <2>1, <2>2, RequestStep DEF Route
<1>4. CASE /\ Existing(r) # None
           /\ jobs' = [jobs EXCEPT ![Existing(r)] = Replaced(@)]
           /\ index' = [index EXCEPT ![request[r].viewer] = None]
  <2>. DEFINE i == Existing(r)
  <2>1. i \in Requests /\ ~Absent(jobs[i]) /\ i # r /\ request[i].viewer = request[r].viewer /\ Shared(i)
    BY <1>2, <1>4 DEF Existing, IInv, TypeOK, IndexInv
  <2>2. Calm(i) /\ jobs'[i].status # "running"
    <3>1. CASE jobs[i].status = "running"
      <4>1. jobs'[i] = Revoke(jobs[i]) /\ jobs[i] \in Job
        BY <1>4, <2>1, <3>1 DEF IInv, TypeOK, Replaced
      <4>. QED  BY <2>1, <3>1, <4>1, RevokeCalms DEF IInv, Revoke, Job
    <3>2. CASE jobs[i].status # "running"
      BY <1>4, <2>1, <3>2 DEF IInv, TypeOK, Calm, Replaced
    <3>. QED  BY <3>1, <3>2
  <2>3. \A j \in Requests : j # i => jobs'[j] = jobs[j] /\ Calm(j)
    BY <1>4, <2>1 DEF IInv, TypeOK, Calm
  <2>4. \A j \in Requests : jobs'[j].status = "running" /\ Shared(j) =>
                              index'[request[j].viewer] = index[request[j].viewer]
    <3>. SUFFICES ASSUME NEW j \in Requests, jobs'[j].status = "running", Shared(j)
         PROVE index'[request[j].viewer] = index[request[j].viewer]
      OBVIOUS
    <3>1. j # i /\ jobs[j].status = "running"
      BY <2>2, <2>3
    <3>2. index[request[j].viewer] = j
      BY <3>1 DEF IInv, JobsInv, JobInv, RunningInv, LiveIsIndexed, IsLive, Live, IsRevoked
    <3>3. request[j].viewer # request[r].viewer
      BY <3>1, <3>2 DEF Existing
    <3>. QED  BY <1>4, <3>3 DEF IInv, TypeOK
  <2>5. \A w \in Users : index'[w] # None => index'[w] = index[w] /\ ~Absent(jobs'[index[w]])
    BY <1>2, <1>4, <2>1, <2>2, <2>3 DEF IInv, TypeOK, IndexInv, Absent, Revoke, Existing
  <2>6. Quiet
    BY <1>1, <1>2, <2>2, <2>3, <2>4, <2>5 DEF Quiet
  <2>7. RequestsInv'
    <3>1. RequestInv(r)'
      BY <1>1, <1>2, <2>1, <2>3 DEF RequestInv, Outdated, Current, CurrentReads, ScopesOf, Absent
    <3>2. ASSUME NEW j \in Requests, j # r PROVE RequestInv(j)'
      <4>1. Absent(jobs[j]) => Absent(jobs'[j])
        BY <2>1, <2>3 DEF Absent
      <4>. QED  BY <1>1, <1>2, <3>2, <4>1 DEF IInv, RequestsInv, RequestInv, Outdated, Current, CurrentReads
    <3>. QED  BY <3>1, <3>2 DEF RequestsInv
  <2>. QED  BY <2>6, <2>7, QuietStep DEF IInv
<1>. QED  BY <1>3, <1>4 DEF Route
LEMMA AdmitStep ==
    ASSUME IInv, TypeOK', NEW r \in Requests, Admit(r)
    PROVE  IInv'
<1>1. /\ request[r].step = "admitting" /\ request[r].viewer \in Users
      /\ RequestInv(r) /\ Absent(jobs[r])
      /\ UNCHANGED <<input, epoch, fenced, editor, poll, leaving, history>>
      /\ \A k \in request[r].tokens : k[2] <= epoch[k[1]]
  BY DEF Admit, inputs, IInv, RequestsInv, RequestInv, TokensIssued, TypeOK, RequestsType
<1>2. \A S : Outdated(S)' = Outdated(S)
  BY <1>1 DEF Outdated
<1>3. \A i \in Requests \cup {None} : Answer(r, i) =>
         /\ request'[r].step = "answered" /\ request'[r].viewer = request[r].viewer
         /\ request'[r].tokens = request[r].tokens /\ request'[r].prefs = request[r].prefs
         /\ request'[r].kind = request[r].kind
         /\ \A j \in Requests \ {r} : request'[j] = request[j]
  BY MovesFields DEF IInv
<1>4. ASSUME NEW i \in Requests, Answer(r, i), UNCHANGED <<registry, work>> PROVE IInv'
  <2>1. RequestInv(r)'
    BY <1>1, <1>3, <1>4 DEF RequestInv, registry
  <2>. QED  BY <1>1, <1>3, <1>4, <2>1, RequestStep DEF inputs
<1>5. ASSUME NEW w \in {"running", "error"}, Answer(r, r),
             jobs'[r] = NewJob(r, w),
             \A j \in Requests : j # r => jobs'[j] = jobs[j] \/ (IsLive(j) /\ jobs'[j] = Revoke(jobs[j])),
             \A j \in Requests : j # r => work'[j] = work[j],
             \/ w = "error" /\ Outdated(request[r].tokens) /\ index' = index
                   /\ \A j \in Requests : j # r => jobs'[j] = jobs[j]
             \/ /\ w = "running" /\ ~Outdated(request[r].tokens)
                /\ work'[r] = (IF request[r].broken THEN "broken" ELSE "queued")
                /\ index' = IF Shared(r) THEN [index EXCEPT ![request[r].viewer] = r] ELSE index
                /\ Shared(r) => \A j \in Requests : j = Existing(r) /\ IsLive(j) =>
                                    jobs'[j] = Revoke(jobs[j])
      PROVE  IInv'
  <2>1. /\ jobs'[r].status = w /\ jobs'[r].superseded = FALSE
        /\ jobs'[r].tokens = request[r].tokens /\ jobs'[r].read = request[r].prefs
        /\ jobs'[r].cards = {} /\ ~Absent(jobs'[r])
    BY <1>5 DEF NewJob, Absent
  <2>2. \A j \in Requests \ {r} : request'[j] = request[j]
    BY <1>3, <1>5
  <2>3. /\ request'[r].step = "answered" /\ request'[r].viewer = request[r].viewer
        /\ request'[r].tokens = request[r].tokens /\ request'[r].prefs = request[r].prefs
        /\ request'[r].kind = request[r].kind
    BY <1>3, <1>5
  <2>4. ASSUME NEW j \in Requests, j # r
        PROVE  /\ jobs'[j].tokens = jobs[j].tokens /\ jobs'[j].read = jobs[j].read
               /\ jobs'[j].cards \subseteq jobs[j].cards /\ (Absent(jobs'[j]) <=> Absent(jobs[j]))
               /\ jobs'[j].status = "running" => jobs'[j] = jobs[j]
               /\ ~IsRevoked(j)' => ~IsRevoked(j)
               /\ Absent(jobs[j]) => jobs'[j] = jobs[j]
    <3>1. CASE jobs'[j] = jobs[j]
      BY <1>2, <3>1 DEF IsRevoked
    <3>2. CASE IsLive(j) /\ jobs'[j] = Revoke(jobs[j])
      <4>1. jobs[j] \in Job
        BY DEF IInv, TypeOK
      <4>. QED  BY <3>2, <4>1 DEF Revoke, Job, IsLive, Live, IsRevoked, Revoked, Absent
    <3>. QED  BY <1>5, <2>4, <3>1, <3>2
  <2>5. TokensIssued'
    <3>1. \A j \in Requests : request'[j].tokens = request[j].tokens
      BY <2>2, <2>3
    <3>2. \A j \in Requests : j # r => jobs'[j].tokens = jobs[j].tokens
      BY <2>4
    <3>. QED  BY <1>1, <2>1, <3>1, <3>2 DEF IInv, TokensIssued
  <2>6. Recorded'
    BY <1>1 DEF IInv, Recorded
  <2>7. RequestsInv'
    <3>1. RequestInv(r)'
      BY <1>1, <2>3 DEF RequestInv
    <3>2. ASSUME NEW j \in Requests, j # r PROVE RequestInv(j)'
      BY <1>1, <1>2, <2>2, <2>4, <3>2 DEF IInv, RequestsInv, RequestInv, Current, CurrentReads
    <3>. QED  BY <3>1, <3>2 DEF RequestsInv
  <2>8. JobsInv'
    <3>1. JobInv(r)'
      <4>1. jobs'[r].status = "running" => RunningInv(r)'
        <5>. SUFFICES ASSUME w = "running" PROVE RunningInv(r)'
          BY <2>1
        <5>1. ~Outdated(request[r].tokens) /\ work'[r] = (IF request[r].broken THEN "broken" ELSE "queued")
          BY <1>5
        <5>2. ~IsRevoked(r)'
          BY <1>2, <2>1, <5>1 DEF IsRevoked, Revoked
        <5>3. work'[r] # "broken" => Current(jobs[r].tokens, Scopes)'
          BY <1>1, <2>1, <5>1 DEF RequestInv, Current
        <5>. QED  BY <1>1, <2>1, <2>3, <5>1, <5>2, <5>3 DEF RunningInv, RequestInv
      <4>2. ~IsRevoked(r)' => CurrentReads(jobs[r].tokens, jobs[r].read)'
        BY <1>1, <1>2, <2>1 DEF IsRevoked, Revoked, RequestInv, CurrentReads
      <4>. QED  BY <2>1, <2>3, <4>1, <4>2 DEF JobInv
    <3>2. ASSUME NEW j \in Requests, j # r PROVE JobInv(j)'
      <4>1. JobInv(j) /\ request'[j] = request[j] /\ work'[j] = work[j]
        BY <1>5, <2>2, <3>2 DEF IInv, JobsInv
      <4>2. jobs'[j].status = "running" => RunningInv(j)'
        BY <1>1, <1>2, <2>4, <3>2, <4>1 DEF JobInv, RunningInv, Current, IsRevoked
      <4>3. ~IsRevoked(j)' => CurrentReads(jobs[j].tokens, jobs[j].read)'
        BY <1>1, <2>4, <3>2, <4>1 DEF JobInv, CurrentReads
      <4>4. (Absent(jobs[j]) => jobs[j] = NoJob)'
        BY <2>4, <3>2, <4>1 DEF JobInv
      <4>. QED  BY <2>4, <3>2, <4>1, <4>2, <4>3, <4>4 DEF JobInv
    <3>. QED  BY <3>1, <3>2 DEF JobsInv
  <2>9. IndexInv'
    <3>. SUFFICES ASSUME NEW u \in Users, index'[u] # None
         PROVE /\ ~Absent(jobs'[index'[u]])
               /\ request'[index'[u]].viewer = u /\ request'[index'[u]].kind # "pinned"
      BY DEF IndexInv, Shared
    <3>1. CASE index'[u] = r
      <4>1. index[u] # r
        BY <1>1, NoneAssumption DEF IInv, IndexInv
      <4>2. Shared(r) /\ u = request[r].viewer
        BY <1>5, <3>1, <4>1 DEF IInv, TypeOK
      <4>. QED  BY <2>1, <2>3, <3>1, <4>2 DEF Shared
    <3>2. CASE index'[u] # r
      <4>1. index'[u] = index[u] /\ index[u] \in Requests
        BY <1>5, <3>2 DEF IInv, TypeOK
      <4>. QED  BY <2>2, <2>4, <3>2, <4>1 DEF IInv, IndexInv, Shared
    <3>. QED  BY <3>1, <3>2
  <2>10. PollsInv'
    BY <1>1, <1>2 DEF IInv, PollsInv, Revoked, CurrentReads
  <2>11. NoneOfTheDeleted'
    <3>. SUFFICES ASSUME NEW j \in Requests, NEW u \in Users, ~IsRevoked(j)', u \in jobs'[j].cards
         PROVE  \/ <<u, j>> \in spared'
                \/ \A s \in ScopesOf(u) : jobs'[j].read[s] # None /\ jobs'[j].read[s] >= purged'[s]
      BY DEF NoneOfTheDeleted
    <3>1. j # r
      BY <2>1
    <3>. QED  BY <1>1, <2>4, <3>1 DEF IInv, NoneOfTheDeleted
  <2>12. LiveIsIndexed'
    <3>. SUFFICES ASSUME NEW j \in Requests, IsLive(j)', Shared(j)'
         PROVE  index'[request'[j].viewer] = j
      BY DEF LiveIsIndexed
    <3>1. CASE j = r
      BY <1>1, <1>5, <2>1, <2>3, <3>1 DEF IsLive, Live, Shared, IInv, TypeOK
    <3>2. CASE j # r
      <4>1. jobs'[j] = jobs[j] /\ jobs[j].status = "running" /\ IsLive(j) /\ Shared(j)
        BY <1>2, <2>2, <2>4, <3>2 DEF IsLive, Live, Shared
      <4>2. index[request[j].viewer] = j /\ request'[j] = request[j]
        BY <2>2, <3>2, <4>1 DEF IInv, LiveIsIndexed
      <4>3. CASE Shared(r) /\ request[r].viewer = request[j].viewer /\ w = "running"
        <5>1. j = Existing(r)
          BY <4>2, <4>3 DEF Existing
        <5>2. jobs'[j] = Revoke(jobs[j])
          BY <1>5, <4>1, <4>3, <5>1
        <5>3. jobs[j] \in Job
          BY DEF IInv, TypeOK
        <5>. QED  BY <4>1, <5>2, <5>3 DEF Revoke, Job
      <4>4. CASE ~(Shared(r) /\ request[r].viewer = request[j].viewer /\ w = "running")
        <5>1. request[j].viewer \in Users
          BY <4>1 DEF IInv, JobsInv, JobInv, Absent, TypeOK, RequestsType
        <5>2. index'[request[j].viewer] = index[request[j].viewer]
          BY <1>1, <1>5, <4>4, <5>1 DEF IInv, TypeOK
        <5>. QED  BY <4>2, <5>2
      <4>. QED  BY <4>3, <4>4
    <3>. QED  BY <3>1, <3>2
  <2>. QED  BY <2>5, <2>6, <2>7, <2>8, <2>9, <2>10, <2>11, <2>12 DEF IInv
<1>6. CASE Outdated(request[r].tokens)
  <2>1. /\ jobs' = [jobs EXCEPT ![r] = NewJob(r, "error")] /\ Answer(r, r)
        /\ index' = index /\ work' = work
    BY <1>6 DEF Admit
  <2>. QED  BY <1>5, <1>6, <2>1 DEF IInv, TypeOK
<1>7. CASE ~Outdated(request[r].tokens)
  <2>. DEFINE i == IF Shared(r) THEN Existing(r) ELSE None
  <2>1. i = None \/ (i \in Requests /\ i # r)
    BY <1>1 DEF Existing, IInv, TypeOK, IndexInv
  <2>2. \/ i # None /\ Answer(r, i) /\ UNCHANGED <<registry, work>>
        \/ /\ jobs' = [j \in Requests |->
                  CASE j = r -> NewJob(r, "running")
                    [] j = i /\ IsLive(j) -> Revoke(jobs[j])
                    [] OTHER -> jobs[j]]
           /\ index' = IF Shared(r) THEN [index EXCEPT ![request[r].viewer] = r] ELSE index
           /\ work' = [work EXCEPT ![r] = IF request[r].broken THEN "broken" ELSE "queued"]
           /\ Answer(r, r)
    BY <1>7 DEF Admit
  <2>. HIDE DEF i
  <2>3. CASE i # None /\ Answer(r, i) /\ UNCHANGED <<registry, work>>
    BY <1>4, <2>1, <2>3
  <2>4. CASE /\ jobs' = [j \in Requests |->
                  CASE j = r -> NewJob(r, "running")
                    [] j = i /\ IsLive(j) -> Revoke(jobs[j])
                    [] OTHER -> jobs[j]]
             /\ index' = IF Shared(r) THEN [index EXCEPT ![request[r].viewer] = r] ELSE index
             /\ work' = [work EXCEPT ![r] = IF request[r].broken THEN "broken" ELSE "queued"]
             /\ Answer(r, r)
    <3>1. jobs'[r] = NewJob(r, "running")
      BY <2>1, <2>4, NoneAssumption
    <3>2. \A j \in Requests : j # r => jobs'[j] = jobs[j] \/ (IsLive(j) /\ jobs'[j] = Revoke(jobs[j]))
      BY <2>4
    <3>3. Shared(r) => \A j \in Requests : j = Existing(r) /\ IsLive(j) => jobs'[j] = Revoke(jobs[j])
      BY <2>1, <2>4 DEF i
    <3>4. /\ work'[r] = (IF request[r].broken THEN "broken" ELSE "queued")
          /\ \A j \in Requests : j # r => work'[j] = work[j]
      BY <2>4 DEF IInv, TypeOK
    <3>. QED  BY <1>5, <1>7, <2>4, <3>1, <3>2, <3>3, <3>4
  <2>. QED  BY <2>2, <2>3, <2>4
<1>. QED  BY <1>6, <1>7
-----------------------------------------------------------------------------
\* The worker's last write, whatever ends the job, is calm.
LEMMA EndJobStep ==
    ASSUME IInv, TypeOK', NEW r \in Requests, NEW w \in {"complete", "error"}, EndJob(r, w),
           UNCHANGED <<inputs, request, index, poll, leaving, history>>
    PROVE  IInv'
<1>1. jobs'[r] = End(jobs[r], Outdated(jobs[r].tokens), w)
  BY DEF EndJob, IInv, TypeOK
<1>2. Calm(r) /\ jobs'[r].status # "running"
  BY <1>1, EndCalms DEF IInv
<1>3. \A j \in Requests : j # r => jobs'[j] = jobs[j] /\ work'[j] = work[j] /\ Calm(j)
  BY DEF EndJob, IInv, TypeOK, Calm
<1>4. \A j \in Requests : ~Absent(jobs[j]) => ~Absent(jobs'[j])
  <2>1. ~Absent(jobs[r]) => ~Absent(jobs'[r])
    BY <1>1 DEF End, Revoke, Absent, IInv, TypeOK, Job
  <2>. QED  BY <1>3, <2>1
<1>5. Quiet
  BY <1>2, <1>3, <1>4 DEF Quiet, inputs, IInv, IndexInv, TypeOK
<1>. QED  BY <1>5, QuietRequests

LEMMA StartStep ==
    ASSUME IInv, TypeOK', NEW r \in Requests, Start(r),
           UNCHANGED <<inputs, request, index, poll, leaving, history>>
    PROVE  IInv'
<1>1. CASE EndJob(r, "error")
  BY <1>1, EndJobStep
<1>2. CASE Goes(r, IF IsLive(r) THEN "loading" ELSE "done") /\ UNCHANGED jobs
  <2>1. \A j \in Requests : Calm(j)
    BY <1>2 DEF Calm
  <2>2. ASSUME NEW j \in Requests, jobs'[j].status = "running"
        PROVE work'[j] = work[j] \/ (work[j] = "queued" /\ work'[j] = "loading")
    <3>1. CASE j # r
      BY <1>2, <3>1 DEF Goes, IInv, TypeOK
    <3>2. CASE j = r
      <4>1. IsLive(r)
        BY <1>2, <2>2, <3>2 DEF IInv, JobsInv, JobInv, RunningInv, IsLive, Live, IsRevoked
      <4>. QED  BY <1>2, <3>2, <4>1 DEF Start, At, Goes, IInv, TypeOK
    <3>. QED  BY <3>1, <3>2
  <2>3. Quiet
    BY <1>2, <2>1, <2>2 DEF Quiet, inputs, IInv, IndexInv, TypeOK
  <2>. QED  BY <2>3, QuietRequests
<1>. QED  BY <1>1, <1>2 DEF Start

LEMMA TimeoutStep ==
    ASSUME IInv, TypeOK', NEW r \in Requests, Timeout(r)
    PROVE  IInv'
<1>1. jobs[r] \in Job /\ jobs'[r] = [jobs[r] EXCEPT !.status = "error"] /\ jobs[r].status = "running"
  BY DEF Timeout, IInv, TypeOK
<1>2. Calm(r) /\ jobs'[r].status = "error"
  BY <1>1 DEF Calm, Job, Absent
<1>3. \A j \in Requests : j # r => jobs'[j] = jobs[j] /\ Calm(j)
  BY DEF Timeout, IInv, TypeOK, Calm
<1>4. Quiet
  BY <1>2, <1>3 DEF Timeout, Quiet, inputs, IInv, IndexInv, TypeOK, Absent
<1>. QED  BY <1>4, QuietRequests DEF Timeout

LEMMA EvictStep ==
    ASSUME IInv, TypeOK', NEW r \in Requests, Evict(r)
    PROVE  IInv'
<1>1. jobs'[r] = NoJob /\ jobs[r].status # "running" /\ Calm(r)
  BY DEF Evict, IInv, TypeOK, Calm
<1>2. \A j \in Requests : j # r => jobs'[j] = jobs[j] /\ Calm(j)
  BY DEF Evict, IInv, TypeOK, Calm
<1>3. \A u \in Users : index'[u] = IF index[u] = r THEN None ELSE index[u]
  BY DEF Evict, Forget
<1>4. \A j \in Requests : jobs'[j].status = "running" /\ Shared(j) =>
                            index'[request[j].viewer] = index[request[j].viewer]
  <2>. SUFFICES ASSUME NEW j \in Requests, jobs'[j].status = "running", Shared(j)
       PROVE index'[request[j].viewer] = index[request[j].viewer]
    OBVIOUS
  <2>1. j # r
    BY <1>1 DEF NoJob
  <2>2. request[j].viewer \in Users /\ index[request[j].viewer] = j
    BY <1>2, <2>1 DEF IInv, JobsInv, JobInv, RunningInv, LiveIsIndexed, IsLive, Live, IsRevoked,
                      TypeOK, RequestsType, Absent
  <2>. QED  BY <1>3, <2>1, <2>2
<1>5. Quiet
  BY <1>1, <1>2, <1>3, <1>4 DEF Evict, Quiet, inputs, IInv, IndexInv, TypeOK
<1>. QED  BY <1>5, QuietRequests DEF Evict

LEMMA RosterMovedStep ==
    ASSUME IInv, TypeOK', RosterMoved
    PROVE  IInv'
<1>1. PICK J \in SUBSET {i \in Requests : ~Absent(jobs[i]) /\ ~jobs[i].superseded} :
         RevokeAll(J) /\ Forget(J)
  BY DEF RosterMoved
<1>2. \A j \in Requests : jobs'[j] = IF j \in J THEN Revoke(jobs[j]) ELSE jobs[j]
  BY <1>1 DEF RevokeAll
<1>3. \A j \in J : jobs'[j].status # "running" /\ ~Absent(jobs'[j])
  BY <1>2 DEF Revoke, IInv, TypeOK, Job, Absent
<1>4. \A j \in Requests : Calm(j)
  <2>1. \A j \in J : Calm(j)
    BY <1>2, RevokeCalms DEF IInv
  <2>. QED  BY <1>2, <2>1 DEF Calm
<1>5. \A u \in Users : index'[u] = IF index[u] \in J THEN None ELSE index[u]
  BY <1>1 DEF Forget
<1>6. \A j \in Requests : jobs'[j].status = "running" /\ Shared(j) =>
                            index'[request[j].viewer] = index[request[j].viewer]
  <2>. SUFFICES ASSUME NEW j \in Requests, jobs'[j].status = "running", Shared(j)
       PROVE index'[request[j].viewer] = index[request[j].viewer]
    OBVIOUS
  <2>1. j \notin J
    BY <1>3
  <2>2. request[j].viewer \in Users /\ index[request[j].viewer] = j
    BY <1>2, <2>1 DEF IInv, JobsInv, JobInv, RunningInv, LiveIsIndexed, IsLive, Live, IsRevoked,
                      TypeOK, RequestsType, Absent
  <2>. QED  BY <1>5, <2>1, <2>2
<1>7. \A u \in Users : index'[u] # None => index'[u] = index[u] /\ ~Absent(jobs'[index[u]])
  BY <1>2, <1>3, <1>5 DEF IInv, IndexInv, TypeOK
<1>8. Quiet
  BY <1>2, <1>3, <1>4, <1>6, <1>7 DEF RosterMoved, Quiet, inputs
<1>. QED  BY <1>8, QuietRequests DEF RosterMoved
\* A step that changes the stored inputs only.
LEMMA InputStep ==
    ASSUME IInv, TypeOK', \A s \in Scopes : input'[s] >= input[s],
           UNCHANGED <<epoch, fenced, request, registry, work, poll, history>>
    PROVE  IInv'
<1>. USE DEF IInv, registry
<1>1. UNCHANGED <<epoch, fenced, request, jobs, index, work, poll, history>>
  OBVIOUS
<1>2. \A S : Outdated(S)' = Outdated(S)
  BY <1>1 DEF Outdated
<1>3. Recorded'
  BY <1>1 DEF Recorded, TypeOK
<1>4. TokensIssued' /\ PollsInv' /\ IndexInv'
  BY <1>1, <1>2 DEF TokensIssued, PollsInv, IndexInv, Revoked, CurrentReads, Shared
<1>5. RequestsInv'
  BY <1>1, <1>2 DEF RequestsInv, RequestInv, Current, CurrentReads
<1>6. JobsInv'
  BY <1>1, <1>2 DEF JobsInv, JobInv, RunningInv, Current, CurrentReads, IsRevoked, Revoked
<1>7. NoneOfTheDeleted' /\ LiveIsIndexed'
  BY <1>1, <1>2 DEF NoneOfTheDeleted, LiveIsIndexed, IsRevoked, IsLive, Live, Revoked, Shared
<1>. QED  BY <1>3, <1>4, <1>5, <1>6, <1>7

LEMMA ChangeStep ==
    ASSUME IInv, TypeOK', NEW e \in Editors, NEW s \in Scopes, Change(e, s)
    PROVE  IInv'
<1>1. \A k \in Scopes : input'[k] >= input[k]
  BY DEF Change, IInv, TypeOK
<1>. QED  BY <1>1, InputStep DEF Change

LEMMA LeaveStep ==
    ASSUME IInv, TypeOK', NEW u \in Leaving, Leave(u)
    PROVE  IInv'
<1>1. \A k \in Scopes : input'[k] >= input[k]
  BY DEF Leave, IInv, TypeOK
<1>. QED  BY <1>1, InputStep DEF Leave

\* The revocation of a scope: no token of it stays valid, and whatever is built
\* without one was built after it.
LEMMA FenceStep ==
    ASSUME IInv, TypeOK', NEW e \in Editors, Fence(e)
    PROVE  IInv'
<1>. USE DEF IInv
<1>. DEFINE s == editor[e].scope
            J == {i \in Requests : /\ ~Absent(jobs[i])
                                  /\ \/ request[i].viewer = Owner[s]
                                     \/ <<s, epoch[s]>> \in jobs[i].tokens}
<1>1. /\ s \in Scopes
      /\ epoch' = [epoch EXCEPT ![s] = @ + 1] /\ fenced' = [fenced EXCEPT ![s] = input[s]]
      /\ RevokeAll(J) /\ Forget(J)
      /\ UNCHANGED <<input, request, work, poll, history>>
  BY DEF Fence, TypeOK
<1>2. \A j \in Requests : jobs'[j] = IF j \in J THEN Revoke(jobs[j]) ELSE jobs[j]
  BY <1>1 DEF RevokeAll
<1>3. \A j \in Requests :
         /\ jobs'[j].tokens = jobs[j].tokens /\ jobs'[j].read = jobs[j].read
         /\ jobs'[j].cards \subseteq jobs[j].cards /\ (Absent(jobs'[j]) <=> Absent(jobs[j]))
         /\ jobs[j].superseded => jobs'[j].superseded
         /\ Absent(jobs[j]) => jobs'[j] = jobs[j]
         /\ j \in J => jobs'[j].superseded /\ jobs'[j].status # "running"
         /\ j \notin J => jobs'[j] = jobs[j]
  <2>. SUFFICES ASSUME NEW j \in Requests
       PROVE /\ jobs'[j].tokens = jobs[j].tokens /\ jobs'[j].read = jobs[j].read
             /\ jobs'[j].cards \subseteq jobs[j].cards /\ (Absent(jobs'[j]) <=> Absent(jobs[j]))
             /\ jobs[j].superseded => jobs'[j].superseded
             /\ Absent(jobs[j]) => jobs'[j] = jobs[j]
             /\ j \in J => jobs'[j].superseded /\ jobs'[j].status # "running"
             /\ j \notin J => jobs'[j] = jobs[j]
    OBVIOUS
  <2>1. jobs[j] \in Job
    BY DEF TypeOK
  <2>2. CASE j \in J
    BY <1>2, <2>1, <2>2 DEF Revoke, Job, Absent
  <2>3. CASE j \notin J
    BY <1>2, <2>3
  <2>. QED  BY <2>2, <2>3
<1>. HIDE DEF J
\* A set of tokens issued so far that is valid now was valid and has none of s.
<1>4. ASSUME NEW S \in SUBSET Tokens, \A k \in S : k[2] <= epoch[k[1]], ~Outdated(S)'
      PROVE  /\ ~Outdated(S) /\ <<s, epoch[s]>> \notin S
             /\ \A k \in Scopes : k # s => epoch'[k] = epoch[k] /\ fenced'[k] = fenced[k]
             /\ \A k \in S : k[1] # s
  <2>1. \A k \in S : k[1] \in Scopes /\ k[2] \in Nat /\ epoch'[k[1]] = k[2]
    BY <1>4 DEF Outdated, Tokens
  <2>2. \A k \in S : k[1] # s
    BY <1>1, <1>4, <2>1 DEF TypeOK
  <2>. QED  BY <1>1, <2>1, <2>2 DEF Outdated, TypeOK
<1>5. TokensIssued'
  <2>1. \A k \in Scopes : epoch'[k] >= epoch[k] /\ epoch'[k] \in Nat /\ epoch[k] \in Nat
    BY <1>1 DEF TypeOK
  <2>2. /\ \A r \in Requests : request[r].tokens \in SUBSET Tokens /\ jobs[r].tokens \in SUBSET Tokens
        /\ \A p \in Polls : poll[p].copy.tokens \in SUBSET Tokens
    <3>1. \A r \in Requests : jobs[r] \in Job
      BY DEF TypeOK
    <3>. QED  BY <3>1, RequestFields, JobFields, PollFields
  <2>3. ASSUME NEW k \in Tokens, k[2] <= epoch[k[1]] PROVE k[2] <= epoch'[k[1]]
    BY <2>1, <2>3 DEF Tokens
  <2>. QED  BY <1>1, <1>3, <2>2, <2>3 DEF TokensIssued
<1>6. Recorded'
  BY <1>1 DEF Recorded, TypeOK
<1>7. RequestsInv'
  <2>. SUFFICES ASSUME NEW r \in Requests PROVE RequestInv(r)'
    BY DEF RequestsInv
  <2>1. request[r].tokens \in SUBSET Tokens /\ \A k \in request[r].tokens : k[2] <= epoch[k[1]]
    BY RequestFields DEF TokensIssued
  <2>2. CASE Outdated(request[r].tokens)'
    BY <1>1, <1>3, <2>2 DEF RequestsInv, RequestInv
  <2>3. CASE ~Outdated(request[r].tokens)'
    <3>1. /\ ~Outdated(request[r].tokens) /\ <<s, epoch[s]>> \notin request[r].tokens
          /\ \A k \in Scopes : k # s => epoch'[k] = epoch[k] /\ fenced'[k] = fenced[k]
      <4>1. ~(\E k \in request[r].tokens : epoch'[k[1]] # k[2])
        BY <1>1, <2>3 DEF Outdated
      <4>. QED  BY <1>4, <2>1, <4>1 DEF Outdated
    <3>2. RequestInv(r) /\ request'[r] = request[r] /\ (Absent(jobs'[r]) <=> Absent(jobs[r]))
      BY <1>1, <1>3 DEF RequestsInv
    <3>3. Current(request[r].tokens, ScopesOf(request[r].viewer)) =>
            Current(request[r].tokens, ScopesOf(request[r].viewer))'
      BY <3>1, <3>2 DEF Current, ScopesOf
    <3>4. CurrentReads(request[r].tokens, request[r].prefs) => CurrentReads(request[r].tokens, request[r].prefs)'
      BY <3>1, <3>2 DEF CurrentReads
    <3>5. Current(request[r].tokens, Scopes) => Current(request[r].tokens, Scopes)'
      BY <3>1, <3>2 DEF Current
    <3>. QED  BY <3>1, <3>2, <3>3, <3>4, <3>5 DEF RequestInv
  <2>. QED  BY <2>2, <2>3
<1>8. ASSUME NEW j \in Requests, ~IsRevoked(j)'
      PROVE  /\ ~IsRevoked(j) /\ jobs'[j] = jobs[j]
             /\ \A k \in jobs[j].tokens : k[1] # s
             /\ <<s, epoch[s]>> \notin jobs[j].tokens
             /\ \A k \in Scopes : k # s => epoch'[k] = epoch[k] /\ fenced'[k] = fenced[k]
  <2>1. jobs[j] \in Job
    BY DEF TypeOK
  <2>2. jobs[j].tokens \in SUBSET Tokens /\ \A k \in jobs[j].tokens : k[2] <= epoch[k[1]]
    BY <2>1, JobFields DEF TokensIssued
  <2>3. j \notin J /\ jobs'[j] = jobs[j]
    BY <1>3, <1>8 DEF IsRevoked, Revoked
  <2>4. ~Outdated(jobs[j].tokens)'
    BY <1>8 DEF IsRevoked, Revoked
  <2>5. ~Outdated(jobs[j].tokens) /\ <<s, epoch[s]>> \notin jobs[j].tokens
        /\ (\A k \in Scopes : k # s => epoch'[k] = epoch[k] /\ fenced'[k] = fenced[k])
        /\ (\A k \in jobs[j].tokens : k[1] # s)
    <3>1. ~(\E k \in jobs[j].tokens : epoch'[k[1]] # k[2])
      BY <2>3, <2>4 DEF Outdated
    <3>. QED  BY <1>4, <2>2, <3>1 DEF Outdated
  <2>. QED  BY <1>8, <2>3, <2>5 DEF IsRevoked, Revoked
<1>9. JobsInv'
  <2>. SUFFICES ASSUME NEW j \in Requests PROVE JobInv(j)'
    BY DEF JobsInv
  <2>1. JobInv(j) /\ jobs[j] \in Job /\ request'[j] = request[j] /\ work'[j] = work[j]
    BY <1>1 DEF JobsInv, TypeOK
  <2>2. ASSUME jobs'[j].status = "running" PROVE RunningInv(j)'
    <3>1. j \notin J /\ jobs'[j] = jobs[j] /\ RunningInv(j)
      BY <1>3, <2>1, <2>2 DEF JobInv
    <3>2. <<s, epoch[s]>> \notin jobs[j].tokens
      BY <2>2, <3>1 DEF J, Absent
    <3>3. jobs[j].tokens \in SUBSET Tokens /\ \A k \in jobs[j].tokens : epoch[k[1]] = k[2]
      BY <2>1, <3>1, JobFields DEF RunningInv, IsRevoked, Revoked, Outdated
    <3>4. \A k \in jobs[j].tokens : k[1] # s /\ k[1] \in Scopes
      BY <3>2, <3>3 DEF Tokens
    <3>5. \A k \in Scopes : k # s => epoch'[k] = epoch[k]
      BY <1>1 DEF TypeOK
    <3>6. ~Outdated(jobs[j].tokens)'
      BY <3>1, <3>3, <3>4, <3>5 DEF Outdated
    <3>7. ~IsRevoked(j)'
      BY <3>1, <3>6 DEF RunningInv, IsRevoked, Revoked, Outdated
    <3>8. work[j] = "broken"
      BY <1>1, <3>1, <3>2 DEF RunningInv, Current
    <3>. QED  BY <1>1, <2>1, <3>1, <3>7, <3>8 DEF RunningInv
  <2>3. (~IsRevoked(j) => CurrentReads(jobs[j].tokens, jobs[j].read))'
    BY <1>8, <2>1 DEF JobInv, CurrentReads
  <2>. QED  BY <1>3, <2>1, <2>2, <2>3 DEF JobInv
<1>10. IndexInv'
  BY <1>1, <1>3 DEF IndexInv, Shared, Forget, TypeOK
<1>11. PollsInv'
  <2>. SUFFICES ASSUME NEW p \in Polls, ~Revoked(poll[p].copy, Outdated(poll[p].copy.tokens))'
       PROVE  CurrentReads(poll[p].copy.tokens, poll[p].copy.read)'
    BY <1>1 DEF PollsInv
  <2>1. poll[p].copy.tokens \in SUBSET Tokens /\ \A k \in poll[p].copy.tokens : k[2] <= epoch[k[1]]
    BY PollFields, JobFields DEF TokensIssued
  <2>2. ~(\E k \in poll[p].copy.tokens : epoch'[k[1]] # k[2])
    BY <1>1 DEF Revoked, Outdated
  <2>3. ~Outdated(poll[p].copy.tokens) /\ <<s, epoch[s]>> \notin poll[p].copy.tokens
        /\ \A k \in Scopes : k # s => epoch'[k] = epoch[k] /\ fenced'[k] = fenced[k]
    BY <1>4, <2>1, <2>2 DEF Outdated
  <2>4. CurrentReads(poll[p].copy.tokens, poll[p].copy.read)
    BY <1>1, <2>3 DEF PollsInv, Revoked
  <2>. QED  BY <1>1, <2>3, <2>4 DEF CurrentReads
<1>12. NoneOfTheDeleted'
  BY <1>1, <1>8 DEF NoneOfTheDeleted
<1>13. LiveIsIndexed'
  <2>. SUFFICES ASSUME NEW j \in Requests, IsLive(j)', Shared(j)'
       PROVE  index'[request'[j].viewer] = j
    BY DEF LiveIsIndexed
  <2>1. jobs'[j].status = "running" /\ ~IsRevoked(j)'
    BY DEF IsLive, Live, IsRevoked
  <2>2. j \notin J /\ jobs'[j] = jobs[j] /\ ~IsRevoked(j)
    BY <1>3, <1>8, <2>1
  <2>3. index[request[j].viewer] = j /\ request[j].viewer \in Users
    BY <1>1, <2>1, <2>2 DEF LiveIsIndexed, IsLive, Live, IsRevoked, Shared, JobsInv, JobInv, Absent,
                            TypeOK, RequestsType
  <2>. QED  BY <1>1, <2>2, <2>3 DEF Forget
<1>. QED  BY <1>5, <1>6, <1>7, <1>9, <1>10, <1>11, <1>12, <1>13

\* The revocation that follows a deletion, of some jobs: either nothing is
\* promised of the person's inputs, or whoever names the person is revoked and
\* whoever runs on is spared.
LEMMA RevokeSomeStep ==
    ASSUME IInv, TypeOK', NEW u \in Leaving, NEW J \in SUBSET Requests, RevokeAll(J),
           \A j \in J : ~IsRevoked(j),
           UNCHANGED <<input, epoch, fenced, request, work, index, poll>>, spared \subseteq spared',
           \/ purged' = purged
           \/ /\ purged' = [s \in Scopes |-> IF Owner[s] = u THEN input[s] ELSE purged[s]]
              /\ \A j \in Requests \ J : ~IsRevoked(j) =>
                    /\ u \notin jobs[j].cards
                    /\ jobs[j].status = "running" => <<u, j>> \in spared'
    PROVE  IInv'
<1>. USE DEF IInv
<1>2. \A j \in Requests : jobs'[j] = IF j \in J THEN Revoke(jobs[j]) ELSE jobs[j]
  BY DEF RevokeAll
<1>3. \A S : Outdated(S)' = Outdated(S)
  BY DEF Outdated
<1>4. \A j \in Requests :
         /\ jobs'[j].tokens = jobs[j].tokens /\ jobs'[j].read = jobs[j].read
         /\ jobs'[j].cards \subseteq jobs[j].cards /\ (Absent(jobs'[j]) <=> Absent(jobs[j]))
         /\ Absent(jobs[j]) => jobs'[j] = jobs[j]
         /\ jobs'[j].status = "running" => jobs'[j] = jobs[j] /\ j \notin J
         /\ ~IsRevoked(j)' => ~IsRevoked(j) /\ j \notin J /\ jobs'[j] = jobs[j]
  <2>. SUFFICES ASSUME NEW j \in Requests
       PROVE /\ jobs'[j].tokens = jobs[j].tokens /\ jobs'[j].read = jobs[j].read
             /\ jobs'[j].cards \subseteq jobs[j].cards /\ (Absent(jobs'[j]) <=> Absent(jobs[j]))
             /\ Absent(jobs[j]) => jobs'[j] = jobs[j]
             /\ jobs'[j].status = "running" => jobs'[j] = jobs[j] /\ j \notin J
             /\ ~IsRevoked(j)' => ~IsRevoked(j) /\ j \notin J /\ jobs'[j] = jobs[j]
    OBVIOUS
  <2>1. jobs[j] \in Job
    BY DEF TypeOK
  <2>2. CASE j \in J
    <3>1. jobs'[j] = Revoke(jobs[j])
      BY <1>2, <2>2
    <3>2. ~Absent(jobs[j])
      BY <2>2 DEF IsRevoked, Revoked
    <3>. QED  BY <2>1, <3>1, <3>2 DEF Revoke, Job, Absent, IsRevoked, Revoked
  <2>3. CASE j \notin J
    <3>1. jobs'[j] = jobs[j] /\ IsRevoked(j)' = IsRevoked(j)
      BY <1>2, <1>3, <2>3 DEF IsRevoked
    <3>. QED  BY <2>3, <3>1
  <2>. QED  BY <2>2, <2>3
<1>5. TokensIssued' /\ PollsInv'
  BY <1>3, <1>4 DEF TokensIssued, PollsInv, Revoked, CurrentReads
<1>6. Recorded'
  BY DEF Recorded, TypeOK
<1>7. RequestsInv'
  BY <1>3, <1>4 DEF RequestsInv, RequestInv, Current, CurrentReads
<1>8. JobsInv'
  <2>. SUFFICES ASSUME NEW j \in Requests PROVE JobInv(j)'
    BY DEF JobsInv
  <2>. USE DEF JobsInv, JobInv
  <2>1. ASSUME jobs'[j].status = "running" PROVE RunningInv(j)'
    <3>1. jobs'[j] = jobs[j] /\ j \notin J /\ RunningInv(j)
      BY <1>4, <2>1
    <3>2. ~IsRevoked(j)'
      BY <1>3, <3>1 DEF RunningInv, IsRevoked
    <3>3. ASSUME NEW s \in Scopes, jobs[j].read[s] # None
          PROVE  \/ Owner[s] = request[j].viewer
                 \/ <<Owner[s], j>> \in spared'
                 \/ jobs[j].read[s] >= purged'[s]
      BY <2>1, <3>1, <3>3 DEF RunningInv
    <3>. QED  BY <3>1, <3>2, <3>3 DEF RunningInv, Current
  <2>. QED  BY <1>4, <2>1 DEF CurrentReads
<1>9. IndexInv' /\ LiveIsIndexed'
  <2>1. \A j \in Requests : IsLive(j)' => IsLive(j)
    BY <1>3, <1>4 DEF IsLive, Live, Revoked
  <2>. QED  BY <1>4, <2>1 DEF IndexInv, Shared, LiveIsIndexed, TypeOK
<1>10. NoneOfTheDeleted'
  <2>. SUFFICES ASSUME NEW j \in Requests, NEW w \in Users, ~IsRevoked(j)', w \in jobs'[j].cards
       PROVE  \/ <<w, j>> \in spared'
              \/ \A s \in ScopesOf(w) : jobs'[j].read[s] # None /\ jobs'[j].read[s] >= purged'[s]
    BY DEF NoneOfTheDeleted
  <2>1. ~IsRevoked(j) /\ j \notin J /\ jobs'[j] = jobs[j]
    BY <1>4
  <2>2. \A s \in ScopesOf(w) : purged'[s] = purged[s]
    BY <2>1 DEF ScopesOf
  <2>. QED  BY <2>1, <2>2 DEF NoneOfTheDeleted
<1>. QED  BY <1>5, <1>6, <1>7, <1>8, <1>9, <1>10

LEMMA RevokeNamingStep ==
    ASSUME IInv, TypeOK', NEW u \in Leaving, RevokeNaming(u) \/ RevokeFails(u)
    PROVE  IInv'
<1>1. CASE RevokeNaming(u)
  <2>1. PICK J \in SUBSET Requests : J = Naming(u)
    BY DEF Naming
  <2>2. \A j \in J : ~IsRevoked(j)
    BY <2>1 DEF Naming
  <2>3. ASSUME NEW j \in Requests \ J, ~IsRevoked(j)
        PROVE  u \notin jobs[j].cards /\ (jobs[j].status = "running" => <<u, j>> \in spared')
    <3>1. u \notin jobs[j].cards /\ (jobs[j].status = "running" => leaving[u] # "known")
      BY <2>1, <2>3 DEF Naming
    <3>. QED  BY <1>1, <2>3, <3>1 DEF RevokeNaming, IsRevoked, IsLive, Live
  <2>. QED  BY <1>1, <2>1, <2>2, <2>3, RevokeSomeStep DEF RevokeNaming, inputs
<1>2. CASE RevokeFails(u)
  <2>1. PICK J \in SUBSET Naming(u) : RevokeAll(J)
    BY <1>2 DEF RevokeFails
  <2>2. J \in SUBSET Requests /\ \A j \in J : ~IsRevoked(j)
    BY DEF Naming
  <2>. QED  BY <1>2, <2>1, <2>2, RevokeSomeStep DEF RevokeFails, inputs
<1>. QED  BY <1>1, <1>2

-----------------------------------------------------------------------------
LEMMA LoadStep ==
    ASSUME IInv, TypeOK', NEW r \in Requests, Load(r),
           UNCHANGED <<inputs, request, index, poll, leaving, history>>
    PROVE  IInv'
<1>. USE DEF IInv, inputs
<1>1. /\ work[r] = "loading" /\ jobs[r].status = "running" /\ RunningInv(r) /\ JobInv(r)
      /\ jobs[r] \in Job /\ ~Absent(jobs[r])
  BY DEF Load, At, IsLive, Live, JobsInv, JobInv, TypeOK, Absent
<1>2. \A S : Outdated(S)' = Outdated(S)
  BY DEF Outdated
<1>3. ASSUME NEW s \in Scopes, jobs' = [jobs EXCEPT ![r].read[s] = input[s]], work' = work
      PROVE  IInv'
  <2>1. /\ jobs'[r].status = "running" /\ jobs'[r].superseded = jobs[r].superseded
        /\ jobs'[r].tokens = jobs[r].tokens /\ jobs'[r].cards = jobs[r].cards
        /\ jobs'[r].read = [jobs[r].read EXCEPT ![s] = input[s]]
    BY <1>1, <1>3 DEF TypeOK, Job
  <2>2. \A j \in Requests : j # r => jobs'[j] = jobs[j]
    BY <1>3 DEF TypeOK
  <2>3. jobs[r].read \in Reads /\ input[s] \in Nat /\ input[s] >= fenced[s] /\ input[s] >= purged[s]
    BY <1>1, JobFields DEF TypeOK, Recorded
  <2>4. \A k \in Scopes : jobs'[r].read[k] = IF k = s THEN input[s] ELSE jobs[r].read[k]
    BY <2>1, <2>3 DEF Reads
  <2>5. ~IsRevoked(r)' /\ ~Absent(jobs'[r])
    BY <1>1, <2>1 DEF RunningInv, IsRevoked, Revoked, Absent, Outdated
  <2>6. TokensIssued' /\ Recorded' /\ PollsInv'
    BY <1>2, <2>1, <2>2 DEF TokensIssued, Recorded, PollsInv, Revoked, CurrentReads
  <2>7. RequestsInv'
    BY <1>1, <1>2, <2>2, <2>5 DEF RequestsInv, RequestInv, Current, CurrentReads, JobInv
  <2>8. JobsInv'
    <3>. SUFFICES ASSUME NEW j \in Requests PROVE JobInv(j)'
      BY DEF JobsInv
    <3>1. CASE j = r
      <4>1. RunningInv(r)'
        BY <1>1, <1>3, <2>1, <2>3, <2>4, <2>5 DEF RunningInv, Current
      <4>2. CurrentReads(jobs[r].tokens, jobs[r].read)'
        BY <1>1, <2>1, <2>3, <2>4 DEF RunningInv, Current, CurrentReads, JobInv
      <4>. QED  BY <1>1, <2>1, <2>5, <3>1, <4>1, <4>2 DEF JobInv
    <3>2. CASE j # r
      BY <1>2, <1>3, <2>2, <3>2 DEF JobsInv, JobInv, RunningInv, Current, CurrentReads, IsRevoked, Revoked
    <3>. QED  BY <3>1, <3>2
  <2>9. IndexInv' /\ LiveIsIndexed'
    <3>1. \A j \in Requests : (Absent(jobs'[j]) <=> Absent(jobs[j])) /\ (IsLive(j)' => IsLive(j))
      <4>1. IsLive(r)
        BY DEF Load
      <4>. QED  BY <1>1, <1>2, <2>2, <2>5, <4>1 DEF IsLive
    <3>. QED  BY <3>1 DEF IndexInv, Shared, LiveIsIndexed, TypeOK
  <2>10. NoneOfTheDeleted'
    <3>1. jobs'[r].cards = {}
      BY <1>1, <2>1 DEF RunningInv
    <3>. QED  BY <1>2, <2>2, <3>1 DEF NoneOfTheDeleted, IsRevoked
  <2>. QED  BY <2>6, <2>7, <2>8, <2>9, <2>10
<1>4. CASE /\ \A s \in Scopes : jobs[r].read[s] # None
           /\ Goes(r, "building") /\ UNCHANGED jobs
  <2>1. work'[r] = "building" /\ \A j \in Requests : j # r => work'[j] = work[j]
    BY <1>4 DEF Goes, TypeOK
  <2>2. JobsInv'
    <3>. SUFFICES ASSUME NEW j \in Requests PROVE JobInv(j)'
      BY DEF JobsInv
    <3>1. CASE j = r
      BY <1>1, <1>2, <1>4, <2>1, <3>1 DEF JobInv, RunningInv, Current, CurrentReads, IsRevoked
    <3>2. CASE j # r
      BY <1>2, <1>4, <2>1, <3>2 DEF JobsInv, JobInv, RunningInv, Current, CurrentReads, IsRevoked
    <3>. QED  BY <3>1, <3>2
  <2>3. TokensIssued' /\ Recorded' /\ RequestsInv' /\ PollsInv' /\ IndexInv'
    BY <1>2, <1>4 DEF TokensIssued, Recorded, RequestsInv, RequestInv, Current, CurrentReads,
                      PollsInv, Revoked, IndexInv, Shared
  <2>4. NoneOfTheDeleted' /\ LiveIsIndexed'
    BY <1>2, <1>4 DEF NoneOfTheDeleted, LiveIsIndexed, IsRevoked, IsLive, Shared
  <2>. QED  BY <2>2, <2>3, <2>4
<1>. QED  BY <1>3, <1>4 DEF Load

\* The cards of a live job name members whose inputs it has read.
LEMMA CardsStep ==
    ASSUME IInv, TypeOK', NEW r \in Requests, work[r] = "building", SetCards(r),
           \/ work' = work
           \/ Goes(r, "ending"),
           UNCHANGED <<inputs, request, index, poll, leaving, history>>
    PROVE  IInv'
<1>. USE DEF IInv, inputs
<1>1. PICK U \in SUBSET (Users \ {request[r].viewer}) :
         jobs' = [jobs EXCEPT ![r] = [jobs[r] EXCEPT !.cards = IF IsLive(r) THEN U ELSE jobs[r].cards]]
  BY DEF SetCards
<1>2. \A S : Outdated(S)' = Outdated(S)
  BY DEF Outdated
<1>3. /\ jobs[r] \in Job /\ JobInv(r)
      /\ work'[r] \in {"building", "ending"} /\ \A j \in Requests : j # r => work'[j] = work[j]
  BY DEF JobsInv, TypeOK, Goes
<1>4. /\ jobs'[r].status = jobs[r].status /\ jobs'[r].superseded = jobs[r].superseded
      /\ jobs'[r].tokens = jobs[r].tokens /\ jobs'[r].read = jobs[r].read
      /\ jobs'[r].cards = IF IsLive(r) THEN U ELSE jobs[r].cards
  BY <1>1, <1>3 DEF Job, TypeOK
<1>5. \A j \in Requests : j # r => jobs'[j] = jobs[j]
  BY <1>1 DEF TypeOK
<1>6. /\ IsRevoked(r)' = IsRevoked(r) /\ (Absent(jobs'[r]) <=> Absent(jobs[r]))
      /\ IsLive(r)' = IsLive(r) /\ (~IsLive(r) => jobs'[r] = jobs[r])
  <2>1. IsRevoked(r)' = IsRevoked(r) /\ (Absent(jobs'[r]) <=> Absent(jobs[r]))
    BY <1>2, <1>4 DEF IsRevoked, Revoked, Absent
  <2>2. IsLive(r)' = IsLive(r)
    BY <1>2, <1>4 DEF IsLive, Live, Revoked, Absent
  <2>3. ~IsLive(r) => jobs'[r] = jobs[r]
    BY <1>1, <1>3 DEF TypeOK, Job
  <2>. QED  BY <2>1, <2>2, <2>3
<1>7. TokensIssued' /\ Recorded' /\ PollsInv'
  BY <1>2, <1>4, <1>5 DEF TokensIssued, Recorded, PollsInv, Revoked, CurrentReads
<1>8. RequestsInv'
  BY <1>2, <1>5, <1>6 DEF RequestsInv, RequestInv, Current, CurrentReads
<1>9. JobsInv'
  <2>. SUFFICES ASSUME NEW j \in Requests PROVE JobInv(j)'
    BY DEF JobsInv
  <2>1. CASE j = r
    <3>1. CASE IsLive(r)
      <4>1. jobs[r].status = "running" /\ RunningInv(r) /\ ~Absent(jobs'[r])
        BY <1>3, <1>6, <3>1 DEF IsLive, Live, JobInv, Absent
      <4>2. RunningInv(r)'
        BY <1>3, <1>4, <1>6, <4>1 DEF RunningInv, Current
      <4>. QED  BY <1>3, <1>4, <1>6, <2>1, <3>1, <4>1, <4>2 DEF JobInv, CurrentReads
    <3>2. CASE ~IsLive(r)
      <4>1. jobs[r].status # "running"
        BY <1>3, <3>2 DEF JobInv, RunningInv, IsLive, Live, IsRevoked
      <4>2. jobs'[r] = jobs[r] /\ request' = request /\ UNCHANGED <<epoch, fenced>>
        BY <1>6, <3>2
      <4>3. (~IsRevoked(r) => CurrentReads(jobs[r].tokens, jobs[r].read))'
        BY <1>3, <1>6, <4>2 DEF JobInv, CurrentReads
      <4>. QED  BY <1>3, <2>1, <4>1, <4>2, <4>3 DEF JobInv
    <3>. QED  BY <3>1, <3>2
  <2>2. CASE j # r
    BY <1>2, <1>3, <1>5, <2>2 DEF JobsInv, JobInv, RunningInv, Current, CurrentReads, IsRevoked, Revoked
  <2>. QED  BY <2>1, <2>2
<1>10. IndexInv' /\ LiveIsIndexed'
  <2>1. \A j \in Requests : (Absent(jobs'[j]) <=> Absent(jobs[j])) /\ (IsLive(j)' => IsLive(j))
    <3>1. ASSUME NEW j \in Requests, j # r PROVE IsLive(j)' = IsLive(j)
      BY <1>2, <1>5, <3>1 DEF IsLive, Live, Revoked
    <3>. QED  BY <1>5, <1>6, <3>1
  <2>. QED  BY <2>1 DEF IndexInv, Shared, LiveIsIndexed, TypeOK
<1>11. NoneOfTheDeleted'
  <2>. SUFFICES ASSUME NEW j \in Requests, NEW u \in Users, ~IsRevoked(j)', u \in jobs'[j].cards
       PROVE  \/ <<u, j>> \in spared'
              \/ \A s \in ScopesOf(u) : jobs'[j].read[s] # None /\ jobs'[j].read[s] >= purged'[s]
    BY DEF NoneOfTheDeleted
  <2>1. CASE j = r /\ IsLive(r)
    <3>1. RunningInv(r) /\ u # request[r].viewer /\ work[r] = "building"
      BY <1>3, <1>4, <2>1 DEF IsLive, Live, JobInv
    <3>. QED  BY <1>4, <2>1, <3>1 DEF RunningInv, ScopesOf
  <2>2. CASE j # r \/ ~IsLive(r)
    <3>1. CASE j # r
      BY <1>2, <1>5, <2>2, <3>1 DEF NoneOfTheDeleted, IsRevoked, Revoked
    <3>2. CASE j = r
      BY <1>6, <2>2, <3>2 DEF NoneOfTheDeleted
    <3>. QED  BY <3>1, <3>2
  <2>. QED  BY <2>1, <2>2
<1>. QED  BY <1>7, <1>8, <1>9, <1>10, <1>11

LEMMA WorkerStep ==
    ASSUME IInv, TypeOK', NEW r \in Requests, Worker(r)
    PROVE  IInv'
<1>1. CASE CaptureFailed(r) BY <1>1, EndJobStep DEF CaptureFailed, Worker
<1>2. CASE Start(r) BY <1>2, StartStep DEF Worker
<1>3. CASE Cancelled(r) BY <1>3, EndJobStep DEF Cancelled, Worker
<1>4. CASE Load(r) BY <1>4, LoadStep DEF Worker
<1>5. CASE Publish(r) BY <1>5, CardsStep DEF Publish, At, Worker
<1>6. CASE PublishFinal(r) BY <1>6, CardsStep DEF PublishFinal, At, Worker
<1>7. CASE Finish(r) BY <1>7, EndJobStep DEF Finish, Worker
<1>8. CASE Fail(r) BY <1>8, EndJobStep DEF Fail, Worker
<1>. QED  BY <1>1, <1>2, <1>3, <1>4, <1>5, <1>6, <1>7, <1>8 DEF Worker

-----------------------------------------------------------------------------
\* A poll keeps a copy; it writes nothing else.
LEMMA PollStep ==
    ASSUME IInv, TypeOK', NEW p \in Polls, Copy(p) \/ Project(p) \/ Deliver(p)
    PROVE  IInv'
<1>. USE DEF IInv, inputs, registry
<1>1. UNCHANGED <<input, epoch, fenced, request, jobs, index, work, history>>
  BY DEF Copy, Project, Deliver
<1>2. \A S : Outdated(S)' = Outdated(S)
  BY <1>1 DEF Outdated
<1>3. /\ \A q \in Polls : q # p => poll'[q] = poll[q]
      /\ \/ /\ poll'[p].copy = poll[p].copy /\ poll'[p].job = poll[p].job
            /\ poll[p].step # "idle"
         \/ \E i \in Requests : poll'[p].copy = jobs[i] /\ poll'[p].job = i
  <2>1. poll[p] \in Polling /\ poll \in [Polls -> Polling]
    BY PollFields DEF TypeOK
  <2>2. CASE Copy(p)
    BY <2>1, <2>2 DEF Copy
  <2>3. CASE Project(p)
    <3>1. PICK c : poll' = [poll EXCEPT ![p] = [poll[p] EXCEPT !.step = "projected", !.cards = c]]
      BY <2>3 DEF Project
    <3>. QED  BY <2>1, <2>3, <3>1 DEF Polling, Project
  <2>4. CASE Deliver(p)
    <3>1. PICK c : poll' = [poll EXCEPT ![p] = [poll[p] EXCEPT !.step = "delivered", !.cards = c]]
      BY <2>4 DEF Deliver
    <3>. QED  BY <2>1, <2>4, <3>1 DEF Polling, Deliver
  <2>. QED  BY <2>2, <2>3, <2>4
<1>4. TokensIssued'
  BY <1>1, <1>3 DEF TokensIssued
<1>5. PollsInv'
  <2>. SUFFICES ASSUME NEW q \in Polls
       PROVE /\ poll'[q].step # "idle" => poll'[q].job \in Requests
             /\ ~Revoked(poll[q].copy, Outdated(poll[q].copy.tokens))' =>
                   CurrentReads(poll[q].copy.tokens, poll[q].copy.read)'
    BY DEF PollsInv
  <2>1. CASE \E i \in Requests : poll'[q].copy = jobs[i] /\ poll'[q].job = i
    BY <1>1, <1>2, <2>1 DEF JobsInv, JobInv, IsRevoked, CurrentReads, Revoked
  <2>2. CASE poll'[q].copy = poll[q].copy /\ poll'[q].job = poll[q].job
              /\ (poll'[q].step = poll[q].step \/ poll[q].step # "idle")
    BY <1>1, <1>2, <2>2 DEF PollsInv, CurrentReads, Revoked
  <2>. QED  BY <1>3, <2>1, <2>2
<1>6. Recorded' /\ RequestsInv' /\ JobsInv' /\ IndexInv'
  BY <1>1, <1>2 DEF Recorded, RequestsInv, RequestInv, JobsInv, JobInv, RunningInv, IndexInv,
                    Current, CurrentReads, IsRevoked, Shared
<1>7. NoneOfTheDeleted' /\ LiveIsIndexed'
  BY <1>1, <1>2 DEF NoneOfTheDeleted, LiveIsIndexed, IsRevoked, IsLive, Shared
<1>. QED  BY <1>4, <1>5, <1>6, <1>7

LEMMA IInvStep == IInv /\ [Next]_vars => IInv'
<1>. SUFFICES ASSUME IInv, [Next]_vars PROVE IInv'
  OBVIOUS
<1>. TypeOK'
  BY TypeStep DEF IInv
<1>1. ASSUME NEW r \in Requests, Asks(r) PROVE IInv'
  BY <1>1, BeginStep, ReadRequestStep, RouteStep, WarmStep, CaptureMembersStep, AdmitStep DEF Asks
<1>2. ASSUME NEW r \in Requests, Worker(r) \/ Timeout(r) \/ Evict(r) PROVE IInv'
  BY <1>2, WorkerStep, TimeoutStep, EvictStep
<1>3. ASSUME NEW e \in Editors, (\E s \in Scopes : Change(e, s)) \/ Fence(e) PROVE IInv'
  BY <1>3, ChangeStep, FenceStep
<1>4. ASSUME NEW u \in Leaving, Leave(u) \/ RevokeNaming(u) \/ RevokeFails(u) PROVE IInv'
  BY <1>4, LeaveStep, RevokeNamingStep
<1>5. CASE RosterMoved BY <1>5, RosterMovedStep
<1>6. ASSUME NEW p \in Polls, Copy(p) \/ Project(p) \/ Deliver(p) PROVE IInv'
  BY <1>6, PollStep
<1>7. CASE UNCHANGED vars
  <2>. USE DEF vars, IInv
  <2>1. \A S : Outdated(S)' = Outdated(S)
    BY <1>7 DEF Outdated
  <2>2. TokensIssued' /\ Recorded' /\ RequestsInv' /\ JobsInv' /\ IndexInv' /\ PollsInv'
    BY <1>7, <2>1 DEF TokensIssued, Recorded, RequestsInv, RequestInv, JobsInv, JobInv, RunningInv,
                      IndexInv, PollsInv, Current, CurrentReads, IsRevoked, Revoked, Shared
  <2>. QED  BY <1>7, <2>1, <2>2 DEF NoneOfTheDeleted, LiveIsIndexed, IsRevoked, IsLive, Shared
<1>. QED  BY <1>1, <1>2, <1>3, <1>4, <1>5, <1>6, <1>7 DEF Next

-----------------------------------------------------------------------------
\* The registry keeps its types and every part of the inductive invariant.
THEOREM Invariance == Spec => []IInv
  BY IInvInit, IInvStep, PTL DEF Spec

\* No deck that may still be served or joined is older than the last revocation
\* of an input it was built on.
THEOREM StaleDecksAreGone == Spec => []NoStaleDeck
<1>1. IInv => NoStaleDeck
  BY DEF IInv, NoStaleDeck, JobsInv, JobInv, CurrentReads
<1>. QED  BY <1>1, Invariance, PTL

\* After a deletion's revocation, a deck that names the person was built on what
\* is stored since, but for the jobs that ran unnamed while the leagues of the
\* person could not be read (_deletion_scrub_leagues); a revocation that raised
\* promises nothing.
THEOREM DeletedAreNotServed == Spec => []NoneOfTheDeleted
<1>1. IInv => NoneOfTheDeleted
  BY DEF IInv
<1>. QED  BY <1>1, Invariance, PTL

\* The live shared job of a viewer is the one the key points to.
THEOREM OneLiveJob == Spec => []LiveIsIndexed
<1>1. IInv => LiveIsIndexed
  BY DEF IInv
<1>. QED  BY <1>1, Invariance, PTL

-----------------------------------------------------------------------------
\* What a step leaves of a job that is no longer live.
Dead(i) ==
    \/ Absent(jobs'[i])
    \/ /\ jobs'[i].status = jobs[i].status
       /\ jobs'[i].cards \subseteq jobs[i].cards
       /\ jobs[i].superseded => jobs'[i].superseded

LEMMA RevokeIsDead ==
    ASSUME IInv, NEW i \in Requests, ~IsLive(i), jobs'[i] = Revoke(jobs[i])
    PROVE  Dead(i)
<1>1. jobs[i] \in Job /\ jobs[i].status # "running"
  BY DEF IInv, TypeOK, JobsInv, JobInv, RunningInv, IsLive, Live, IsRevoked
<1>. QED  BY <1>1 DEF Dead, Revoke, Job

LEMMA EndIsDead ==
    ASSUME IInv, NEW r \in Requests, NEW w \in {"complete", "error"}, EndJob(r, w),
           NEW i \in Requests, ~IsLive(i)
    PROVE  Dead(i)
<1>1. jobs[i].status # "running"
  BY DEF IInv, JobsInv, JobInv, RunningInv, IsLive, Live, IsRevoked
<1>2. jobs'[i] = jobs[i]
  BY <1>1 DEF EndJob, End, Live, IInv, TypeOK
<1>. QED  BY <1>2 DEF Dead

\* A job that ended, was revoked or timed out never gets cards or another
\* status, and a revoked one stays so.
THEOREM DeadJobsStayDead == Spec => DeadStaysDead
<1>1. ASSUME IInv, [Next]_vars, NEW i \in Requests, ~Absent(jobs[i]), ~IsLive(i)
      PROVE  Dead(i)
  <2>. USE DEF inputs, registry
  <2>0. \A r \in Requests : request[r].step \notin {"idle", "answered"} => r # i
    BY <1>1 DEF IInv, RequestsInv, RequestInv
  <2>1. CASE jobs' = jobs
    BY <2>1 DEF Dead
  <2>2. ASSUME NEW r \in Requests, Route(r) PROVE Dead(i)
    <3>1. jobs'[i] = jobs[i] \/ jobs'[i] = Revoke(jobs[i])
      BY <1>1, <2>2 DEF Route, IInv, TypeOK, Replaced
    <3>. QED  BY <1>1, <3>1, RevokeIsDead DEF Dead
  <2>3. ASSUME NEW r \in Requests, Admit(r) PROVE Dead(i)
    <3>1. i # r
      BY <2>0, <2>3 DEF Admit
    <3>2. jobs'[i] = jobs[i] \/ jobs'[i] = Revoke(jobs[i])
      BY <1>1, <2>3, <3>1 DEF Admit, IInv, TypeOK
    <3>. QED  BY <1>1, <3>2, RevokeIsDead DEF Dead
  <2>4. ASSUME NEW r \in Requests, Worker(r) PROVE Dead(i)
    <3>1. ASSUME NEW w \in {"complete", "error"}, EndJob(r, w) PROVE Dead(i)
      BY <1>1, <3>1, EndIsDead
    <3>2. CASE Load(r)
      <4>1. i # r
        BY <1>1, <3>2 DEF Load
      <4>2. jobs'[i] = jobs[i]
        <5>1. CASE jobs' = jobs
          BY <5>1
        <5>2. CASE \E s \in Scopes : jobs' = [jobs EXCEPT ![r].read[s] = input[s]]
          BY <4>1, <5>2 DEF IInv, TypeOK
        <5>. QED  BY <3>2, <5>1, <5>2 DEF Load
      <4>. QED  BY <4>2 DEF Dead
    <3>3. CASE SetCards(r)
      <4>1. jobs[i] \in Job
        BY <1>1 DEF IInv, TypeOK
      <4>2. PICK U : jobs' = [jobs EXCEPT ![r] = [jobs[r] EXCEPT !.cards = IF IsLive(r) THEN U ELSE jobs[r].cards]]
        BY <3>3 DEF SetCards
      <4>3. jobs'[i].status = jobs[i].status /\ jobs'[i].cards = jobs[i].cards
            /\ jobs'[i].superseded = jobs[i].superseded
        <5>1. CASE i = r
          BY <1>1, <4>1, <4>2, <5>1 DEF Job, IInv, TypeOK
        <5>2. CASE i # r
          BY <1>1, <4>2, <5>2 DEF IInv, TypeOK
        <5>. QED  BY <5>1, <5>2
      <4>. QED  BY <4>3 DEF Dead
    <3>. QED  BY <2>1, <2>4, <3>1, <3>2, <3>3 DEF Worker, CaptureFailed, Start, Cancelled,
                 Publish, PublishFinal, Finish, Fail
  <2>5. ASSUME NEW r \in Requests, Timeout(r) PROVE Dead(i)
    <3>1. i # r
      BY <1>1, <2>5 DEF Timeout, IInv, JobsInv, JobInv, RunningInv, IsLive, Live, IsRevoked
    <3>. QED  BY <1>1, <2>5, <3>1 DEF Timeout, Dead, IInv, TypeOK
  <2>6. ASSUME NEW r \in Requests, Evict(r) PROVE Dead(i)
    BY <1>1, <2>6 DEF Evict, Dead, NoJob, Absent, IInv, TypeOK
  <2>7. ASSUME NEW J, RevokeAll(J) PROVE Dead(i)
    <3>1. jobs'[i] = jobs[i] \/ jobs'[i] = Revoke(jobs[i])
      BY <2>7 DEF RevokeAll
    <3>. QED  BY <1>1, <3>1, RevokeIsDead DEF Dead
  <2>8. ASSUME NEW e \in Editors, Fence(e) PROVE Dead(i)
    BY <2>7, <2>8 DEF Fence
  <2>9. ASSUME NEW u \in Leaving, RevokeNaming(u) \/ RevokeFails(u) PROVE Dead(i)
    BY <2>7, <2>9 DEF RevokeNaming, RevokeFails
  <2>10. CASE RosterMoved
    BY <2>7, <2>10 DEF RosterMoved
  <2>11. ASSUME NEW r \in Requests, Asks(r) PROVE Dead(i)
    BY <2>1, <2>2, <2>3, <2>11 DEF Asks, Begin, ReadRequest, Warm, CaptureMembers
  <2>12. ASSUME NEW e \in Editors, NEW s \in Scopes, Change(e, s) PROVE Dead(i)
    BY <2>1, <2>12 DEF Change
  <2>13. ASSUME NEW u \in Leaving, Leave(u) PROVE Dead(i)
    BY <2>1, <2>13 DEF Leave
  <2>14. ASSUME NEW p \in Polls, Copy(p) \/ Project(p) \/ Deliver(p) PROVE Dead(i)
    BY <2>1, <2>14 DEF Copy, Project, Deliver
  <2>15. CASE UNCHANGED vars
    BY <2>1, <2>15 DEF vars
  <2>. QED  BY <1>1, <2>4, <2>5, <2>6, <2>8, <2>9, <2>10, <2>11, <2>12, <2>13, <2>14, <2>15 DEF Next
<1>2. IInv /\ [Next]_vars => [\A i \in Requests : ~Absent(jobs[i]) /\ ~IsLive(i) => Dead(i)]_vars
  BY <1>1
<1>. QED  BY <1>2, Invariance, PTL DEF Spec, DeadStaysDead, Dead

\* A poll that hands out cards copied a job whose inputs are still current and
\* that the registry has not superseded.
THEOREM PollsAreCurrent == Spec => DeliveredIsCurrent
<1>1. ASSUME IInv, [Next]_vars, NEW p \in Polls, poll'[p].step = "delivered", poll'[p] # poll[p],
             poll'[p].cards # {}
      PROVE  /\ \A s \in Scopes : poll[p].copy.read[s] # None => poll[p].copy.read[s] >= fenced[s]
             /\ ~jobs[poll[p].job].superseded
  <2>1. Deliver(p)
    <3>1. ASSUME NEW q \in Polls, Copy(q) \/ Project(q) \/ Deliver(q) PROVE Deliver(p)
      <4>1. q = p
        BY <1>1, <3>1 DEF Copy, Project, Deliver, IInv, TypeOK
      <4>2. ~Copy(p)
        BY <1>1 DEF Copy, IInv, TypeOK
      <4>3. ~Project(p)
        <5>1. poll[p] \in Polling
          BY <1>1, PollFields DEF IInv
        <5>2. ASSUME Project(p) PROVE FALSE
          <6>1. PICK c : poll' = [poll EXCEPT ![p] = [poll[p] EXCEPT !.step = "projected", !.cards = c]]
            BY <5>2 DEF Project
          <6>. QED  BY <1>1, <5>1, <6>1 DEF IInv, TypeOK, Polling
        <5>. QED  BY <5>2
      <4>. QED  BY <3>1, <4>1, <4>2, <4>3
    <3>2. \A r \in Requests : ~Asks(r) /\ ~Worker(r) /\ ~Timeout(r) /\ ~Evict(r)
      BY <1>1 DEF Asks, Begin, ReadRequest, Route, Warm, CaptureMembers, Admit, Worker, Timeout, Evict
    <3>3. \A e \in Editors, s \in Scopes : ~Change(e, s) /\ ~Fence(e)
      BY <1>1 DEF Change, Fence
    <3>4. \A e \in Editors : ~Fence(e)
      BY <1>1 DEF Fence
    <3>5. \A u \in Leaving : ~Leave(u) /\ ~RevokeNaming(u) /\ ~RevokeFails(u)
      BY <1>1 DEF Leave, RevokeNaming, RevokeFails
    <3>6. ~RosterMoved /\ ~UNCHANGED vars
      BY <1>1 DEF RosterMoved, vars
    <3>. QED  BY <1>1, <3>1, <3>2, <3>3, <3>4, <3>5, <3>6 DEF Next
  <2>2. ~Withdrawn(p)
    <3>1. poll[p] \in Polling
      BY <1>1, PollFields DEF IInv
    <3>. QED  BY <1>1, <2>1, <3>1 DEF Deliver, IInv, TypeOK, Polling
  <2>3. ~Revoked(poll[p].copy, Outdated(poll[p].copy.tokens)) /\ poll[p].job \in Requests
    BY <1>1, <2>1, <2>2 DEF Withdrawn, Deliver, IInv, PollsInv
  <2>4. \A s \in Scopes : poll[p].copy.read[s] # None => poll[p].copy.read[s] >= fenced[s]
    BY <1>1, <2>3 DEF IInv, PollsInv, CurrentReads
  <2>5. ~jobs[poll[p].job].superseded
    BY <1>1, <2>2, <2>3 DEF Withdrawn, IsRevoked, Revoked, IInv, JobsInv, JobInv, NoJob
  <2>. QED  BY <2>4, <2>5
<1>2. IInv /\ [Next]_vars =>
        [\A p \in Polls : poll'[p].step = "delivered" /\ poll'[p] # poll[p] /\ poll'[p].cards # {} =>
           /\ \A s \in Scopes : poll[p].copy.read[s] # None => poll[p].copy.read[s] >= fenced[s]
           /\ ~jobs[poll[p].job].superseded]_vars
  BY <1>1
<1>. QED  BY <1>2, Invariance, PTL DEF Spec, DeliveredIsCurrent

-----------------------------------------------------------------------------
(* Refinement: the registry implements Decks. *)

\* What a step does to every deck, as a step of Decks.
LEMMA DecksDrop ==
    ASSUME NEW J \in SUBSET Requests, \A i \in J : DeckOf(i)' = Deck!Empty("gone"),
           \A i \in Requests \ J : DeckOf(i)' = DeckOf(i)
    PROVE  Deck!Next
<1>1. Deck!Drop(J)
  BY DEF Deck!Drop, Deck!Emptied
<1>. QED  BY <1>1 DEF Deck!Next

LEMMA DecksWithdraw ==
    ASSUME NEW J \in SUBSET Requests, \A i \in J : StateOf(i) # "gone",
           \A i \in J : DeckOf(i)' = Deck!Empty("withdrawn"),
           \A i \in Requests \ J : DeckOf(i)' = DeckOf(i)
    PROVE  Deck!Next
<1>1. Deck!Withdraw(J)
  BY DEF Deck!Withdraw, Deck!Emptied, DeckOf
<1>. QED  BY <1>1 DEF Deck!Next

LEMMA DecksOpen ==
    ASSUME NEW r \in Requests, NEW J \in SUBSET (Requests \ {r}), StateOf(r) = "none",
           \A i \in J : StateOf(i) = "open" /\ DeckOf(i)' = Deck!Empty("withdrawn"),
           DeckOf(r)' = Deck!Empty("open"),
           \A i \in Requests \ (J \cup {r}) : DeckOf(i)' = DeckOf(i)
    PROVE  Deck!Next
<1>1. Deck!Open(r, J)
  BY DEF Deck!Open, Deck!Emptied, DeckOf
<1>. QED  BY <1>1 DEF Deck!Next

LEMMA DecksChange ==
    ASSUME NEW r \in Requests, StateOf(r) = "open",
           \A i \in Requests \ {r} : DeckOf(i)' = DeckOf(i),
           \/ StateOf(r)' = "open" /\ DeckOf(r)'.cards \in SUBSET Users
              /\ DeckOf(r).cards \in SUBSET Users
           \/ StateOf(r)' \in {"complete", "error"} /\ DeckOf(r)'.cards = DeckOf(r).cards
    PROVE  Deck!Next
<1>1. CASE StateOf(r)' = "open" /\ DeckOf(r)'.cards \in SUBSET Users /\ DeckOf(r).cards \in SUBSET Users
  <2>1. PICK C \in SUBSET Users : DeckOf(r)' = [state |-> "open", cards |-> C]
    BY <1>1 DEF DeckOf
  <2>2. Deck!Continues(DeckOf(r).cards, C)
    BY <1>1 DEF Deck!Continues
  <2>3. Deck!Show(r)
    BY <2>1, <2>2 DEF Deck!Show, DeckOf
  <2>. QED  BY <2>3 DEF Deck!Next
<1>2. CASE StateOf(r)' \in {"complete", "error"} /\ DeckOf(r)'.cards = DeckOf(r).cards
  <2>1. PICK end \in {"complete", "error"} : DeckOf(r)' = [DeckOf(r) EXCEPT !.state = end]
    BY <1>2 DEF DeckOf
  <2>2. Deck!Close(r, end)
    BY <2>1 DEF Deck!Close, DeckOf
  <2>. QED  BY <2>2 DEF Deck!Next
<1>. QED  BY <1>1, <1>2

\* The states of a deck, case by case.
LEMMA DeckStates ==
    ASSUME NEW j, NEW f, NEW asked
    PROVE  /\ Absent(j) /\ asked => DeckState(j, f, asked) = "gone"
           /\ Absent(j) /\ ~asked => DeckState(j, f, asked) = "none"
           /\ ~Absent(j) /\ Revoked(j, f) => DeckState(j, f, asked) = "withdrawn"
           /\ Live(j, f) => DeckState(j, f, asked) = "open"
           /\ ~Revoked(j, f) /\ ~Live(j, f) => DeckState(j, f, asked) = j.status
BY DEF DeckState, Live, Revoked, Absent

\* Decks that the registry and the tokens leave alone.
LEMMA SameDeck ==
    ASSUME NEW i \in Requests, jobs'[i] = jobs[i], epoch' = epoch,
           ~Absent(jobs[i]) \/ (request'[i].step = "answered" <=> request[i].step = "answered")
    PROVE  DeckOf(i)' = DeckOf(i)
<1>1. Outdated(jobs[i].tokens)' = Outdated(jobs[i].tokens)
  BY DEF Outdated
<1>2. StateOf(i)' = StateOf(i)
  BY <1>1 DEF StateOf, DeckState, Absent
<1>. QED  BY <1>2 DEF DeckOf

LEMMA RevokeDeck ==
    ASSUME TypeOK, NEW i \in Requests, ~Absent(jobs[i]), jobs'[i] = Revoke(jobs[i])
    PROVE  DeckOf(i)' = Deck!Empty("withdrawn")
<1>1. jobs[i] \in Job
  BY DEF TypeOK
<1>2. jobs'[i].superseded /\ jobs'[i].cards = {} /\ ~Absent(jobs'[i])
  BY <1>1 DEF Revoke, Job, Absent
<1>3. StateOf(i)' = "withdrawn"
  BY <1>2, DeckStates DEF StateOf, Revoked
<1>. QED  BY <1>2, <1>3 DEF DeckOf, Deck!Empty

\* A deck is open while its job runs.
LEMMA RunningOpen ==
    ASSUME IInv, NEW i \in Requests
    PROVE  /\ jobs[i].status = "running" <=> IsLive(i)
           /\ StateOf(i) = "open" <=> IsLive(i)
<1>1. jobs[i].status = "running" => ~IsRevoked(i)
  BY DEF IInv, JobsInv, JobInv, RunningInv
<1>2. jobs[i].status \in {"absent", "running", "complete", "error"}
  BY JobFields DEF IInv, TypeOK
<1>. QED  BY <1>1, <1>2 DEF StateOf, DeckState, IsLive, Live, IsRevoked, Revoked, Absent

\* A request that is not yet answered has no job.
LEMMA Unanswered ==
    ASSUME IInv, NEW r \in Requests, request[r].step \notin {"idle", "answered"}
    PROVE  jobs[r] = NoJob /\ Absent(jobs[r]) /\ StateOf(r) = "none"
BY DeckStates DEF IInv, RequestsInv, RequestInv, JobsInv, JobInv, StateOf

\* The worker's last write closes an open deck and changes no other.
LEMMA EndDeck ==
    ASSUME IInv, NEW r \in Requests, NEW w \in {"complete", "error"}, EndJob(r, w),
           epoch' = epoch, request' = request
    PROVE  Deck!Next \/ \A i \in Requests : DeckOf(i)' = DeckOf(i)
<1>1. jobs[r] \in Job /\ jobs'[r] = End(jobs[r], Outdated(jobs[r].tokens), w)
      /\ \A i \in Requests \ {r} : jobs'[i] = jobs[i]
  BY DEF EndJob, IInv, TypeOK
<1>2. \A i \in Requests \ {r} : DeckOf(i)' = DeckOf(i)
  BY <1>1, SameDeck
<1>3. CASE IsLive(r)
  <2>1. jobs'[r] = [jobs[r] EXCEPT !.status = w]
    BY <1>1, <1>3 DEF End, IsLive
  <2>2. jobs'[r].status = w /\ jobs'[r].cards = jobs[r].cards /\ jobs'[r].tokens = jobs[r].tokens
        /\ jobs'[r].superseded = jobs[r].superseded
    BY <1>1, <2>1 DEF Job
  <2>3. Outdated(jobs[r].tokens)' = Outdated(jobs[r].tokens)
    BY <2>2 DEF Outdated
  <2>4. StateOf(r)' = w /\ DeckOf(r)'.cards = DeckOf(r).cards
    BY <1>3, <2>2, <2>3 DEF StateOf, DeckState, DeckOf, IsLive, Live, Revoked, Absent
  <2>. QED  BY <1>2, <1>3, <2>4, RunningOpen, DecksChange
<1>4. CASE ~IsLive(r)
  <2>1. jobs'[r] = jobs[r]
    BY <1>1, <1>4, RunningOpen DEF End, IsLive
  <2>. QED  BY <1>2, <2>1, SameDeck
<1>. QED  BY <1>3, <1>4

LEMMA RevokeAllDecks ==
    ASSUME IInv, NEW J \in SUBSET Requests, RevokeAll(J), \A i \in J : ~Absent(jobs[i]),
           epoch' = epoch, request' = request
    PROVE  Deck!Next
<1>1. \A i \in J : DeckOf(i)' = Deck!Empty("withdrawn") /\ StateOf(i) # "gone"
  BY RevokeDeck, JobFields DEF RevokeAll, IInv, TypeOK, StateOf, DeckState
<1>2. \A i \in Requests \ J : DeckOf(i)' = DeckOf(i)
  BY SameDeck DEF RevokeAll
<1>. QED  BY <1>1, <1>2, DecksWithdraw

\* A request that is answered with another job has no deck of its own.
LEMMA AnswerDeck ==
    ASSUME IInv, NEW r \in Requests, request[r].step \notin {"idle", "answered"},
           NEW i, Answer(r, i), jobs' = jobs, epoch' = epoch
    PROVE  Deck!Next
<1>1. request'[r].step = "answered" /\ \A k \in Requests \ {r} : request'[k] = request[k]
  BY RequestFields DEF Answer, IInv, TypeOK, RequestsType, Asking
<1>2. DeckOf(r)' = Deck!Empty("gone")
  <2>1. Absent(jobs'[r]) /\ jobs'[r].cards = {} /\ request'[r].step = "answered"
    BY <1>1, Unanswered DEF NoJob
  <2>2. StateOf(r)' = "gone"
    BY <2>1, DeckStates DEF StateOf
  <2>. QED  BY <2>1, <2>2 DEF DeckOf, Deck!Empty
<1>3. ASSUME NEW k \in Requests \ {r} PROVE DeckOf(k)' = DeckOf(k)
  BY <1>1, <1>3, SameDeck
<1>4. PICK J \in SUBSET Requests : J = {r}
  OBVIOUS
<1>. QED  BY <1>2, <1>3, <1>4, DecksDrop

LEMMA RouteDecks ==
    ASSUME IInv, NEW r \in Requests, Route(r)
    PROVE  Deck!Next \/ \A i \in Requests : DeckOf(i)' = DeckOf(i)
<1>. USE DEF inputs, registry
<1>1. request[r].step = "routing" /\ epoch' = epoch
  BY DEF Route
<1>2. ASSUME Moves(r, "capturing")
      PROVE  \A i \in Requests : request'[i].step = "answered" <=> request[i].step = "answered"
  <2>1. request'[r].step = "capturing" /\ \A i \in Requests \ {r} : request'[i] = request[i]
    BY <1>2, MovesFields DEF IInv, Steps
  <2>. QED  BY <1>1, <2>1
<1>3. CASE Moves(r, "capturing") /\ jobs' = jobs
  BY <1>1, <1>2, <1>3, SameDeck
<1>4. CASE \E i : Answer(r, i) /\ jobs' = jobs
  BY <1>1, <1>4, AnswerDeck
<1>5. ASSUME NEW i \in Requests, Moves(r, "capturing"), jobs' = [jobs EXCEPT ![i] = Replaced(@)]
      PROVE  Deck!Next \/ \A k \in Requests : DeckOf(k)' = DeckOf(k)
  <2>1. \A k \in Requests \ {i} : DeckOf(k)' = DeckOf(k)
    BY <1>1, <1>2, <1>5, SameDeck DEF IInv, TypeOK
  <2>2. CASE jobs[i].status = "running"
    <3>1. jobs'[i] = Revoke(jobs[i]) /\ ~Absent(jobs[i])
      BY <1>5, <2>2 DEF Replaced, Absent, IInv, TypeOK
    <3>2. DeckOf(i)' = Deck!Empty("withdrawn") /\ StateOf(i) = "open"
      BY <2>2, <3>1, RevokeDeck, RunningOpen DEF IInv
    <3>3. PICK J \in SUBSET Requests : J = {i}
      OBVIOUS
    <3>. QED  BY <2>1, <3>2, <3>3, DecksWithdraw
  <2>3. CASE jobs[i].status # "running"
    <3>1. jobs'[i] = jobs[i]
      BY <1>5, <2>3 DEF Replaced, IInv, TypeOK
    <3>. QED  BY <1>1, <1>2, <1>5, <2>1, <3>1, SameDeck
  <2>. QED  BY <2>2, <2>3
<1>6. Existing(r) \in Requests \cup {None}
  BY <1>1 DEF Existing, IInv, TypeOK, RequestsType
<1>. QED  BY <1>3, <1>4, <1>5, <1>6 DEF Route

LEMMA WarmDecks ==
    ASSUME IInv, NEW r \in Requests, Warm(r)
    PROVE  Deck!Next \/ \A i \in Requests : DeckOf(i)' = DeckOf(i)
<1>. USE DEF inputs, registry
<1>1. request[r].step = "routing" /\ epoch' = epoch /\ jobs' = jobs
  BY DEF Warm
<1>2. CASE Moves(r, "capturing")
  <2>1. request'[r].step = "capturing" /\ \A i \in Requests \ {r} : request'[i] = request[i]
    BY <1>2, MovesFields DEF IInv, Steps
  <2>2. \A i \in Requests : request'[i].step = "answered" <=> request[i].step = "answered"
    BY <1>1, <2>1
  <2>. QED  BY <1>1, <2>2, SameDeck
<1>3. CASE \E i : Answer(r, i)
  BY <1>1, <1>3, AnswerDeck
<1>. QED  BY <1>2, <1>3 DEF Warm

\* The claim of _kickoff_trade_job opens a deck, and withdraws the one it
\* replaces; it may also find its own inputs revoked, or a deck to join.
LEMMA AdmitDecks ==
    ASSUME IInv, NEW r \in Requests, Admit(r)
    PROVE  Deck!Next
<1>. USE DEF inputs, registry
<1>1. request[r].step = "admitting" /\ epoch' = epoch /\ jobs \in [Requests -> Job]
  BY DEF Admit, IInv, TypeOK
<1>2. jobs[r] = NoJob /\ StateOf(r) = "none"
  BY <1>1, Unanswered
<1>3. ASSUME NEW i, Answer(r, i)
      PROVE  request'[r].step = "answered" /\ \A k \in Requests \ {r} : request'[k] = request[k]
  BY <1>3, RequestFields DEF Answer, IInv, TypeOK, RequestsType, Asking
<1>4. CASE Outdated(request[r].tokens)
  <2>1. jobs' = [jobs EXCEPT ![r] = NewJob(r, "error")] /\ Answer(r, r)
    BY <1>4 DEF Admit
  <2>2. jobs'[r].status = "error" /\ jobs'[r].cards = {} /\ jobs'[r].tokens = request[r].tokens
    BY <1>1, <2>1 DEF NewJob
  <2>3. Outdated(jobs[r].tokens)'
    BY <1>1, <1>4, <2>2 DEF Outdated
  <2>4. StateOf(r)' = "withdrawn"
    <3>1. ~Absent(jobs'[r]) /\ Revoked(jobs'[r], Outdated(jobs[r].tokens)')
      BY <2>2, <2>3 DEF Revoked, Absent
    <3>. QED  BY <3>1, DeckStates DEF StateOf
  <2>5. DeckOf(r)' = Deck!Empty("withdrawn")
    BY <2>2, <2>4 DEF DeckOf, Deck!Empty
  <2>6. ASSUME NEW k \in Requests \ {r} PROVE DeckOf(k)' = DeckOf(k)
    BY <1>1, <1>3, <2>1, <2>6, SameDeck
  <2>7. PICK J \in SUBSET Requests : J = {r}
    OBVIOUS
  <2>. QED  BY <1>2, <2>5, <2>6, <2>7, DecksWithdraw
<1>5. CASE jobs' = jobs /\ \E i : Answer(r, i)
  BY <1>1, <1>5, AnswerDeck
<1>6. ASSUME NEW i \in Requests \cup {None}, ~Outdated(request[r].tokens), Answer(r, r),
             jobs' = [j \in Requests |-> CASE j = r -> NewJob(r, "running")
                                           [] j = i /\ IsLive(j) -> Revoke(jobs[j])
                                           [] OTHER -> jobs[j]]
      PROVE  Deck!Next
  <2>1. PICK J \in SUBSET Requests : J = {j \in Requests \ {r} : j = i /\ IsLive(j)}
    OBVIOUS
  <2>2. jobs'[r] = NewJob(r, "running")
    BY <1>2, <1>6 DEF IsLive, Live, NoJob
  <2>3. \A k \in J : jobs'[k] = Revoke(jobs[k]) /\ IsLive(k) /\ k # r
    BY <1>6, <2>1
  <2>4. \A k \in Requests \ (J \cup {r}) : jobs'[k] = jobs[k]
    BY <1>6, <2>1
  <2>5. DeckOf(r)' = Deck!Empty("open")
    <3>1. jobs'[r].status = "running" /\ jobs'[r].cards = {} /\ jobs'[r].tokens = request[r].tokens
          /\ ~jobs'[r].superseded
      BY <2>2 DEF NewJob
    <3>2. ~Outdated(jobs[r].tokens)'
      BY <1>1, <1>6, <3>1 DEF Outdated
    <3>3. StateOf(r)' = "open"
      BY <3>1, <3>2, DeckStates DEF StateOf, Live, Revoked, Absent
    <3>. QED  BY <3>1, <3>3 DEF DeckOf, Deck!Empty
  <2>6. ASSUME NEW k \in J PROVE StateOf(k) = "open" /\ DeckOf(k)' = Deck!Empty("withdrawn")
    <3>1. k \in Requests /\ IsLive(k) /\ jobs'[k] = Revoke(jobs[k]) /\ ~Absent(jobs[k])
      BY <2>3, <2>6 DEF IsLive, Live, Absent
    <3>. QED  BY <3>1, RunningOpen, RevokeDeck DEF IInv
  <2>7. ASSUME NEW k \in Requests \ (J \cup {r}) PROVE DeckOf(k)' = DeckOf(k)
    BY <1>1, <1>3, <1>6, <2>4, <2>7, SameDeck
  <2>8. J \in SUBSET (Requests \ {r})
    BY <2>1
  <2>. QED  BY <1>2, <2>5, <2>6, <2>7, <2>8, DecksOpen
<1>7. (IF Shared(r) THEN Existing(r) ELSE None) \in Requests \cup {None}
  BY <1>1 DEF Existing, IInv, TypeOK, RequestsType
<1>8. PICK i \in Requests \cup {None} : i = IF Shared(r) THEN Existing(r) ELSE None
  BY <1>7
<1>9. CASE ~Outdated(request[r].tokens)
  <2>1. \/ jobs' = jobs /\ Answer(r, i)
        \/ /\ Answer(r, r)
           /\ jobs' = [j \in Requests |-> CASE j = r -> NewJob(r, "running")
                                            [] j = i /\ IsLive(j) -> Revoke(jobs[j])
                                            [] OTHER -> jobs[j]]
    BY <1>8, <1>9 DEF Admit
  <2>. QED  BY <1>5, <1>6, <1>9, <2>1
<1>. QED  BY <1>4, <1>9

\* The worker publishes cards of an open deck, ends it, or leaves it alone.
LEMMA WorkerDecks ==
    ASSUME IInv, IInv', NEW r \in Requests, Worker(r)
    PROVE  Deck!Next \/ \A i \in Requests : DeckOf(i)' = DeckOf(i)
<1>. USE DEF inputs
<1>1. epoch' = epoch /\ request' = request /\ jobs[r] \in Job
  BY DEF Worker, IInv, TypeOK
<1>2. CASE \E w \in {"complete", "error"} : EndJob(r, w)
  BY <1>1, <1>2, EndDeck
<1>3. CASE jobs' = jobs
  BY <1>1, <1>3, SameDeck
<1>4. CASE Load(r) /\ jobs' # jobs
  <2>1. PICK s \in Scopes : jobs' = [jobs EXCEPT ![r].read[s] = input[s]]
    BY <1>4 DEF Load
  <2>2. jobs'[r] = [jobs[r] EXCEPT !.read[s] = input[s]]
    BY <1>1, <2>1 DEF IInv, TypeOK
  <2>3. jobs'[r].status = jobs[r].status /\ jobs'[r].cards = jobs[r].cards
        /\ jobs'[r].tokens = jobs[r].tokens /\ jobs'[r].superseded = jobs[r].superseded
    BY <1>1, <2>2 DEF Job
  <2>4. Outdated(jobs[r].tokens)' = Outdated(jobs[r].tokens)
    BY <1>1, <2>3 DEF Outdated
  <2>5. DeckOf(r)' = DeckOf(r)
    BY <1>1, <2>3, <2>4 DEF DeckOf, StateOf, DeckState, Live, Revoked, Absent
  <2>6. ASSUME NEW i \in Requests \ {r} PROVE DeckOf(i)' = DeckOf(i)
    <3>1. jobs'[i] = jobs[i]
      BY <2>1 DEF IInv, TypeOK
    <3>. QED  BY <1>1, <3>1, SameDeck
  <2>. QED  BY <2>5, <2>6
<1>5. CASE SetCards(r)
  <2>1. PICK U : jobs' = [jobs EXCEPT ![r] = [jobs[r] EXCEPT !.cards = IF IsLive(r) THEN U ELSE jobs[r].cards]]
    BY <1>5 DEF SetCards
  <2>2. CASE IsLive(r)
    <3>1. jobs'[r].status = jobs[r].status /\ jobs'[r].tokens = jobs[r].tokens
          /\ jobs'[r].superseded = jobs[r].superseded
      BY <1>1, <2>1 DEF Job, IInv, TypeOK
    <3>2. Outdated(jobs[r].tokens)' = Outdated(jobs[r].tokens)
      BY <1>1, <3>1 DEF Outdated
    <3>3. StateOf(r)' = StateOf(r) /\ StateOf(r) = "open"
      BY <1>1, <2>2, <3>1, <3>2, RunningOpen DEF StateOf, DeckState, Live, Revoked, Absent
    <3>4. DeckOf(r)'.cards \in SUBSET Users /\ DeckOf(r).cards \in SUBSET Users
      BY JobFields DEF DeckOf, IInv, TypeOK
    <3>5. ASSUME NEW i \in Requests \ {r} PROVE DeckOf(i)' = DeckOf(i)
      <4>1. jobs'[i] = jobs[i]
        BY <2>1 DEF IInv, TypeOK
      <4>. QED  BY <1>1, <4>1, SameDeck
    <3>. QED  BY <3>3, <3>4, <3>5, DecksChange
  <2>3. CASE ~IsLive(r)
    <3>1. [jobs[r] EXCEPT !.cards = jobs[r].cards] = jobs[r]
      BY <1>1 DEF Job
    <3>2. jobs' = jobs
      BY <2>1, <2>3, <3>1 DEF IInv, TypeOK
    <3>. QED  BY <1>3, <3>2
  <2>. QED  BY <2>2, <2>3
<1>. QED  BY <1>2, <1>3, <1>4, <1>5 DEF Worker, CaptureFailed, Start, Cancelled, Load,
             Publish, PublishFinal, Finish, Fail

LEMMA TimeoutDecks ==
    ASSUME IInv, NEW r \in Requests, Timeout(r)
    PROVE  Deck!Next
<1>. USE DEF inputs
<1>1. epoch' = epoch /\ request' = request /\ jobs[r] \in Job /\ IsLive(r) /\ StateOf(r) = "open"
  BY RunningOpen DEF Timeout, IInv, TypeOK
<1>2. jobs'[r].status = "error" /\ jobs'[r].cards = jobs[r].cards
      /\ jobs'[r].tokens = jobs[r].tokens /\ jobs'[r].superseded = jobs[r].superseded
  BY <1>1 DEF Timeout, Job, IInv, TypeOK
<1>3. Outdated(jobs[r].tokens)' = Outdated(jobs[r].tokens)
  BY <1>1, <1>2 DEF Outdated
<1>4. StateOf(r)' = "error" /\ DeckOf(r)'.cards = DeckOf(r).cards
  BY <1>1, <1>2, <1>3 DEF StateOf, DeckState, DeckOf, IsLive, Live, Revoked, Absent
<1>5. ASSUME NEW i \in Requests \ {r} PROVE DeckOf(i)' = DeckOf(i)
  <2>1. jobs'[i] = jobs[i]
    BY DEF Timeout, IInv, TypeOK
  <2>. QED  BY <1>1, <2>1, SameDeck
<1>. QED  BY <1>1, <1>4, <1>5, DecksChange

\* An absent deck that was asked for has gone.
LEMMA GoneState ==
    ASSUME NEW i, Absent(jobs'[i]), request'[i].step = "answered"
    PROVE  StateOf(i)' = "gone"
<1>1. \A j, f : Absent(j) => DeckState(j, f, TRUE) = "gone"
  BY DEF DeckState, Live, Revoked
<1>2. (request'[i].step = "answered") = TRUE
  OBVIOUS
<1>3. StateOf(i)' = DeckState(jobs'[i], Outdated(jobs[i].tokens)', TRUE)
  BY <1>2 DEF StateOf
<1>. QED  BY <1>1, <1>3

LEMMA EvictDecks ==
    ASSUME IInv, NEW r \in Requests, Evict(r)
    PROVE  Deck!Next
<1>1. epoch' = epoch /\ request' = request /\ jobs'[r] = NoJob /\ request[r].step = "answered"
      /\ \A i \in Requests \ {r} : jobs'[i] = jobs[i]
  BY DEF Evict, IInv, TypeOK, JobsInv, JobInv, Absent, inputs
<1>2. DeckOf(r)' = Deck!Empty("gone")
  <2>1. Absent(jobs'[r]) /\ jobs'[r].cards = {} /\ request'[r].step = "answered"
    BY <1>1 DEF Absent, NoJob
  <2>2. StateOf(r)' = "gone"
    BY <2>1, GoneState
  <2>. QED  BY <2>1, <2>2 DEF DeckOf, Deck!Empty
<1>3. ASSUME NEW i \in Requests \ {r} PROVE DeckOf(i)' = DeckOf(i)
  BY <1>1, SameDeck
<1>4. PICK J \in SUBSET Requests : J = {r}
  OBVIOUS
<1>. QED  BY <1>2, <1>3, <1>4, DecksDrop

\* A revoked token is one that no deck left alone holds.
LEMMA FenceDecks ==
    ASSUME IInv, NEW e \in Editors, Fence(e)
    PROVE  Deck!Next
<1>1. PICK s \in Scopes : s = editor[e].scope
  BY DEF Fence, IInv, TypeOK
<1>2. PICK J \in SUBSET Requests : J = {i \in Requests : /\ ~Absent(jobs[i])
                                       /\ \/ request[i].viewer = Owner[s]
                                          \/ <<s, epoch[s]>> \in jobs[i].tokens}
  OBVIOUS
<1>3. epoch' = [epoch EXCEPT ![s] = epoch[s] + 1] /\ RevokeAll(J) /\ request' = request
      /\ epoch \in [Scopes -> Nat] /\ jobs \in [Requests -> Job]
  BY <1>1, <1>2 DEF Fence, IInv, TypeOK
<1>4. \A i \in J : DeckOf(i)' = Deck!Empty("withdrawn") /\ StateOf(i) # "gone"
  <2>. SUFFICES ASSUME NEW i \in J
                PROVE  DeckOf(i)' = Deck!Empty("withdrawn") /\ StateOf(i) # "gone"
    OBVIOUS
  <2>1. i \in Requests /\ ~Absent(jobs[i]) /\ jobs'[i] = Revoke(jobs[i])
    BY <1>2, <1>3 DEF RevokeAll
  <2>2. StateOf(i) # "gone"
    BY <1>3, <2>1, JobFields DEF StateOf, DeckState, Absent, Live
  <2>. QED  BY <2>1, <2>2, RevokeDeck DEF IInv
<1>5. \A i \in Requests \ J : DeckOf(i)' = DeckOf(i)
  <2>. SUFFICES ASSUME NEW i \in Requests \ J PROVE DeckOf(i)' = DeckOf(i)
    OBVIOUS
  <2>1. jobs'[i] = jobs[i]
    BY <1>3 DEF RevokeAll
  <2>2. CASE Absent(jobs[i])
    BY <1>3, <2>1, <2>2 DEF DeckOf, StateOf, DeckState, Revoked, Live, Absent
  <2>3. CASE ~Absent(jobs[i])
    <3>1. <<s, epoch[s]>> \notin jobs[i].tokens
      BY <1>2, <2>3
    <3>2. jobs[i].tokens \in SUBSET Tokens /\ \A t \in jobs[i].tokens : t[2] <= epoch[t[1]]
      BY <1>3, JobFields DEF IInv, TokensIssued
    <3>3. ASSUME NEW t \in jobs[i].tokens PROVE epoch[t[1]] # t[2] <=> epoch'[t[1]] # t[2]
      <4>1. PICK x \in Scopes, n \in Nat : t = <<x, n>>
        BY <3>2 DEF Tokens
      <4>2. n <= epoch[x] /\ (x = s => n # epoch[s])
        BY <3>1, <3>2, <4>1
      <4>3. CASE x = s
        BY <1>3, <4>1, <4>2, <4>3
      <4>4. CASE x # s
        BY <1>3, <4>1, <4>4
      <4>. QED  BY <4>3, <4>4
    <3>4. Outdated(jobs[i].tokens)' = Outdated(jobs[i].tokens)
      BY <2>1, <3>3 DEF Outdated
    <3>. QED  BY <2>1, <2>3, <3>4 DEF DeckOf, StateOf, DeckState, Revoked, Live, Absent
  <2>. QED  BY <2>2, <2>3
<1>. QED  BY <1>4, <1>5, DecksWithdraw

\* Requests, workers, edits, deletions and the clean-up loop implement Decks: a
\* deck opens once, gets cards only while it is open, has one end, and neither a
\* late worker nor anything else gives cards or another end to one that is over.
THEOREM Refinement == Spec => ImplementsDecks
<1>1. Init => Deck!Init
  <2>. SUFFICES ASSUME Init, NEW i \in Requests PROVE DeckOf(i) = Deck!Empty("none")
    BY DEF Deck!Init
  <2>1. Absent(jobs[i]) /\ jobs[i].cards = {} /\ request[i].step # "answered"
    BY DEF Init, NoJob, Absent
  <2>2. StateOf(i) = "none"
    BY <2>1, DeckStates DEF StateOf
  <2>. QED  BY <2>1, <2>2 DEF DeckOf, Deck!Empty
<1>2. ASSUME IInv, IInv', [Next]_vars
      PROVE  Deck!Next \/ \A i \in Requests : DeckOf(i)' = DeckOf(i)
  <2>. USE <1>2 DEF inputs, registry
  <2>1. ASSUME jobs' = jobs, epoch' = epoch, request' = request
        PROVE  \A i \in Requests : DeckOf(i)' = DeckOf(i)
    BY <2>1, SameDeck
  <2>2. ASSUME NEW r \in Requests, NEW u \in Viewers, NEW k \in Kinds, Begin(r, u, k)
        PROVE  \A i \in Requests : DeckOf(i)' = DeckOf(i)
    <3>1. request'[r].step = "reading" /\ request[r].step = "idle" /\ epoch' = epoch /\ jobs' = jobs
          /\ \A i \in Requests \ {r} : request'[i] = request[i]
      BY <2>2, RequestFields DEF Begin, Asking, IInv, TypeOK, RequestsType
    <3>2. \A i \in Requests : request'[i].step = "answered" <=> request[i].step = "answered"
      BY <3>1
    <3>. QED  BY <3>1, <3>2, SameDeck
  <2>3. ASSUME NEW r \in Requests, ReadRequest(r)
        PROVE  \A i \in Requests : DeckOf(i)' = DeckOf(i)
    <3>1. PICK q : request' = [request EXCEPT ![r] = [request[r] EXCEPT !.step = "routing", !.prefs = q]]
      BY <2>3 DEF ReadRequest
    <3>2. request'[r].step = "routing" /\ request[r].step = "reading" /\ epoch' = epoch /\ jobs' = jobs
          /\ \A i \in Requests \ {r} : request'[i] = request[i]
      BY <2>3, <3>1, RequestFields DEF ReadRequest, Asking, IInv, TypeOK, RequestsType
    <3>3. \A i \in Requests : request'[i].step = "answered" <=> request[i].step = "answered"
      BY <3>2
    <3>. QED  BY <3>2, <3>3, SameDeck
  <2>4. ASSUME NEW r \in Requests, CaptureMembers(r)
        PROVE  \A i \in Requests : DeckOf(i)' = DeckOf(i)
    <3>1. request[r] \in Asking /\ request[r].step = "capturing" /\ epoch' = epoch /\ jobs' = jobs
      BY <2>4, RequestFields DEF CaptureMembers, IInv
    <3>2. PICK x : x.step = "admitting" /\ request' = [request EXCEPT ![r] = x]
      <4>1. CASE request' = [request EXCEPT ![r] = [request[r] EXCEPT !.step = "admitting", !.broken = TRUE]]
        <5>1. [request[r] EXCEPT !.step = "admitting", !.broken = TRUE].step = "admitting"
          BY <3>1 DEF Asking
        <5>. QED  BY <4>1, <5>1
      <4>2. ASSUME NEW q, request' = [request EXCEPT ![r] = [request[r] EXCEPT !.step = "admitting", !.prefs = q,
                                          !.tokens = request[r].tokens \cup MemberTokens]]
            PROVE  \E x : x.step = "admitting" /\ request' = [request EXCEPT ![r] = x]
        <5>1. [request[r] EXCEPT !.step = "admitting", !.prefs = q,
                   !.tokens = request[r].tokens \cup MemberTokens].step = "admitting"
          BY <3>1 DEF Asking
        <5>. QED  BY <4>2, <5>1
      <4>. QED  BY <2>4, <4>1, <4>2 DEF CaptureMembers
    <3>3. \A i \in Requests : request'[i].step = "answered" <=> request[i].step = "answered"
      BY <3>1, <3>2 DEF IInv, TypeOK, RequestsType
    <3>. QED  BY <3>1, <3>3, SameDeck
  <2>5. ASSUME NEW r \in Requests, Asks(r)
        PROVE  Deck!Next \/ \A i \in Requests : DeckOf(i)' = DeckOf(i)
    BY <2>2, <2>3, <2>4, <2>5, RouteDecks, WarmDecks, AdmitDecks DEF Asks
  <2>6. CASE \E r \in Requests : Worker(r) \/ Timeout(r) \/ Evict(r)
    BY <2>6, WorkerDecks, TimeoutDecks, EvictDecks
  <2>7. ASSUME NEW e \in Editors, (\E s \in Scopes : Change(e, s)) \/ Fence(e)
        PROVE  Deck!Next \/ \A i \in Requests : DeckOf(i)' = DeckOf(i)
    BY <2>1, <2>7, FenceDecks DEF Change
  <2>8. ASSUME NEW u \in Leaving, Leave(u) \/ RevokeNaming(u) \/ RevokeFails(u)
        PROVE  Deck!Next \/ \A i \in Requests : DeckOf(i)' = DeckOf(i)
    <3>1. CASE Leave(u)
      BY <2>1, <3>1 DEF Leave
    <3>2. CASE RevokeNaming(u)
      <4>1. PICK J \in SUBSET Requests : J = Naming(u)
        BY DEF Naming
      <4>2. RevokeAll(J) /\ epoch' = epoch /\ request' = request
        BY <3>2, <4>1 DEF RevokeNaming
      <4>3. \A i \in J : ~Absent(jobs[i])
        BY <4>1 DEF Naming, IsRevoked, Revoked
      <4>. QED  BY <4>2, <4>3, RevokeAllDecks
    <3>3. CASE RevokeFails(u)
      <4>1. PICK J \in SUBSET Naming(u) : RevokeAll(J)
        BY <3>3 DEF RevokeFails
      <4>2. J \in SUBSET Requests /\ epoch' = epoch /\ request' = request
        BY <3>3 DEF RevokeFails, Naming
      <4>3. \A i \in J : ~Absent(jobs[i])
        BY DEF Naming, IsRevoked, Revoked
      <4>. QED  BY <4>1, <4>2, <4>3, RevokeAllDecks
    <3>. QED  BY <2>8, <3>1, <3>2, <3>3
  <2>9. CASE RosterMoved
    <3>1. PICK J \in SUBSET {i \in Requests : ~Absent(jobs[i]) /\ ~jobs[i].superseded} : RevokeAll(J)
      BY <2>9 DEF RosterMoved
    <3>2. J \in SUBSET Requests /\ epoch' = epoch /\ request' = request /\ \A i \in J : ~Absent(jobs[i])
      BY <2>9, <3>1 DEF RosterMoved
    <3>. QED  BY <3>1, <3>2, RevokeAllDecks
  <2>10. ASSUME NEW p \in Polls, Copy(p) \/ Project(p) \/ Deliver(p)
         PROVE  \A i \in Requests : DeckOf(i)' = DeckOf(i)
    BY <2>1, <2>10 DEF Copy, Project, Deliver
  <2>11. CASE UNCHANGED vars
    BY <2>1, <2>11 DEF vars
  <2>. QED  BY <2>5, <2>6, <2>7, <2>8, <2>9, <2>10, <2>11 DEF Next
<1>3. IInv /\ IInv' /\ [Next]_vars => [Deck!Next]_([i \in Requests |-> DeckOf(i)])
  <2>. SUFFICES ASSUME IInv, IInv', [Next]_vars, ~Deck!Next
                PROVE  [i \in Requests |-> DeckOf(i)]' = [i \in Requests |-> DeckOf(i)]
    OBVIOUS
  <2>1. \A i \in Requests : DeckOf(i)' = DeckOf(i)
    BY <1>2
  <2>. QED  BY <2>1
<1>. QED  BY <1>1, <1>3, Invariance, PTL DEF Spec, ImplementsDecks, Deck!Spec
===============================================================================
