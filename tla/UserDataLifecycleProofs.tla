---------------------- MODULE UserDataLifecycleProofs ----------------------
(***************************************************************************)
(* Work admitted by a lease never outlives a deletion, for any users,      *)
(* accounts and threads; every gate that is shut has a deletion that opens *)
(* it; and deletions that wait for each other wait in one order.           *)
(***************************************************************************)
EXTENDS UserDataLifecycle, SequenceTheorems, TLAPS

LEMMA NestedSet ==
  ASSUME NEW F \in [Deleters -> [Levels -> SUBSET Users]], NEW d \in Deleters, NEW l \in Levels,
         NEW X \in SUBSET Users
  PROVE  [F EXCEPT ![d][l] = X] \in [Deleters -> [Levels -> SUBSET Users]]
OBVIOUS

LEMMA TypeStep ==
  ASSUME TypeOK, WorkerInv, TargetInv, [Next]_vars
  PROVE  TypeOK'
<1> USE NoneAssumption DEF TypeOK
<1> USE DEF registry, gates, work, deletion, database, history, views, Revision
<1>1. ASSUME NEW w \in Workers, NEW s \in {revision, None}, Begin(w, s) PROVE TypeOK'
  <2>1. TypeWork'
      BY <1>1 DEF Begin, TypeWork, TypeGates, TypeData
  <2>2. TypeGates' /\ TypeDeletion' /\ TypeScopes' /\ TypeData'
      BY <1>1 DEF Begin, TypeGates, TypeDeletion, TypeScopes, TypeData
  <2> QED BY <2>1, <2>2
<1>2. ASSUME NEW w \in Workers, ReadInputs(w) PROVE TypeOK'
  <2>1. TypeWork'
      BY <1>2 DEF ReadInputs, TypeWork, TypeGates, TypeData
  <2>2. TypeGates' /\ TypeDeletion' /\ TypeScopes' /\ TypeData'
      BY <1>2 DEF ReadInputs, TypeGates, TypeDeletion, TypeScopes, TypeData
  <2> QED BY <2>1, <2>2
<1>3. ASSUME NEW w \in Workers, NEW u \in Users, NEW s \in {started[w], None}, Capture(w, u, s) PROVE TypeOK'
  <2>1. TypeWork'
    <3>1. EffectiveStart(w, s) \in Nat
          BY <1>3 DEF Capture, EffectiveStart, Lesser, TypeWork
    <3>2. CapturedLease(w, u, s) \in Lease
      <4>1. Marked(w, s) \in BOOLEAN
            BY DEF Marked
      <4> QED BY <3>1, <4>1 DEF CapturedLease, Lease, TypeGates
    <3> QED BY <1>3, <3>2 DEF Capture, TypeWork
  <2>2. TypeGates' /\ TypeDeletion' /\ TypeScopes' /\ TypeData'
      BY <1>3 DEF Capture, TypeGates, TypeDeletion, TypeScopes, TypeData
  <2> QED BY <2>1, <2>2
<1>4. ASSUME NEW w \in Workers, Admit(w) PROVE TypeOK'
  <2>1. TypeWork'
    <3>1. lease[w] \in Lease
          BY <1>4 DEF Admit, TypeWork, WorkerInv
    <3>2. [user |-> lease[w].user, marked |-> lease[w].marked, prior |-> workRevision[w]] \in Frame
          BY <3>1 DEF TypeWork, Lease, Frame
    <3>3. stack' \in [Workers -> Seq(Frame)]
          BY <1>4, <3>2 DEF Admit, TypeWork
    <3>4. workRevision' \in [Workers -> Revision]
          BY <1>4, <3>1 DEF Admit, TypeWork, Lease, Lesser
    <3> QED BY <1>4, <3>3, <3>4 DEF Admit, TypeWork
  <2>2. TypeGates' /\ TypeDeletion' /\ TypeScopes' /\ TypeData'
      BY <1>4 DEF Admit, TypeGates, TypeDeletion, TypeScopes, TypeData
  <2> QED BY <2>1, <2>2
<1>5. ASSUME NEW w \in Workers, Refuse(w) PROVE TypeOK'
  <2>1. TypeWork'
      BY <1>5 DEF Refuse, TypeWork, TypeGates, TypeData
  <2>2. TypeGates' /\ TypeDeletion' /\ TypeScopes' /\ TypeData'
      BY <1>5 DEF Refuse, TypeGates, TypeDeletion, TypeScopes, TypeData
  <2> QED BY <2>1, <2>2
<1>6. ASSUME NEW w \in Workers, NEW child \in Workers, Spawn(w, child) PROVE TypeOK'
  <2>1. TypeWork'
      BY <1>6, BoundsAssumption DEF Spawn, TypeWork, TypeGates, TypeData
  <2>2. TypeGates' /\ TypeDeletion' /\ TypeScopes' /\ TypeData'
      BY <1>6 DEF Spawn, TypeGates, TypeDeletion, TypeScopes, TypeData
  <2> QED BY <2>1, <2>2
<1>7. ASSUME NEW w \in Workers, NEW u \in Users, Write(w, u) PROVE TypeOK'
  <2>1. TypeData'
    <3>1. Vouched(w, u) \in BOOLEAN
          BY DEF Vouched
    <3> QED BY <1>7, <3>1 DEF Write, TypeData
  <2>2. TypeGates' /\ TypeWork' /\ TypeDeletion' /\ TypeScopes'
      BY <1>7 DEF Write, TypeGates, TypeWork, TypeDeletion, TypeScopes
  <2> QED BY <2>1, <2>2
<1>26. ASSUME NEW w \in Workers, NEW u \in Users, Reread(w, u) PROVE TypeOK'
  <2>1. TypeWork'
      BY <1>26 DEF Reread, TypeWork, TypeData
  <2>2. TypeGates' /\ TypeDeletion' /\ TypeScopes' /\ TypeData'
      BY <1>26 DEF Reread, TypeGates, TypeDeletion, TypeScopes, TypeData
  <2> QED BY <2>1, <2>2
<1>8. ASSUME NEW w \in Workers, NEW u \in Users, NEW v \in Users, Bind(w, u, v) PROVE TypeOK'
  <2>1. TypeData'
      BY <1>8 DEF Bind, TypeData
  <2>2. TypeGates' /\ TypeWork' /\ TypeDeletion' /\ TypeScopes'
      BY <1>8 DEF Bind, TypeGates, TypeWork, TypeDeletion, TypeScopes
  <2> QED BY <2>1, <2>2
<1>9. ASSUME NEW w \in Workers, Exit(w) PROVE TypeOK'
  <2>1. TypeWork'
    <3>1. stack[w] \in Seq(Frame) /\ stack[w] # <<>>
          BY <1>9 DEF Exit, TypeWork
    <3>2. SubSeq(stack[w], 1, Len(stack[w]) - 1) \in Seq(Frame)
          BY <3>1
    <3>3. stack[w][Len(stack[w])] \in Frame
          BY <3>1
    <3>4. stack[w][Len(stack[w])].prior \in Revision
          BY <3>3 DEF Frame
    <3>5. fresh' \in [Workers -> SUBSET Users]
          BY <1>9 DEF Exit, TypeWork
    <3> QED BY <1>9, <3>2, <3>4, <3>5 DEF Exit, TypeWork
  <2>2. TypeGates' /\ TypeDeletion' /\ TypeScopes' /\ TypeData'
      BY <1>9 DEF Exit, TypeGates, TypeDeletion, TypeScopes, TypeData
  <2> QED BY <2>1, <2>2
<1>10. ASSUME NEW w \in Workers, Finish(w) PROVE TypeOK'
  <2>1. TypeWork'
      BY <1>10 DEF Finish, TypeWork, TypeGates, TypeData
  <2>2. TypeGates' /\ TypeDeletion' /\ TypeScopes' /\ TypeData'
      BY <1>10 DEF Finish, TypeGates, TypeDeletion, TypeScopes, TypeData
  <2> QED BY <2>1, <2>2
<1>11. ASSUME NEW d \in Deleters, NEW u \in Users, Request(d, u) PROVE TypeOK'
  <2>1. TypeDeletion'
      BY <1>11 DEF Request, TypeDeletion, Outcomes, Levels
  <2>2. TypeGates' /\ TypeWork' /\ TypeScopes' /\ TypeData'
      BY <1>11 DEF Request, TypeGates, TypeWork, TypeScopes, TypeData
  <2> QED BY <2>1, <2>2
<1>12. ASSUME NEW d \in Deleters, Resolve(d) PROVE TypeOK'
  <2>1. TypeDeletion'
      BY <1>12 DEF Resolve, TypeDeletion, Outcomes
  <2>2. TypeScopes'
    <3>1. Scope(target[d]) \in SUBSET Users
          BY <1>12 DEF Resolve, Scope, TypeData, TargetInv
    <3> QED BY <1>12, <3>1, NestedSet DEF Resolve, TypeScopes, TypeDeletion
  <2>3. TypeGates' /\ TypeWork' /\ TypeData'
      BY <1>12 DEF Resolve, TypeGates, TypeWork, TypeData
  <2> QED BY <2>1, <2>2, <2>3
<1>13. ASSUME NEW d \in Deleters, NEW u \in Users, Reenter(d, u) PROVE TypeOK'
  <2>1. TypeGates'
      BY <1>13 DEF Reenter, TypeGates, TypeDeletion
  <2>2. TypeScopes'
      BY <1>13, NestedSet DEF Reenter, TypeScopes, TypeDeletion
  <2>3. TypeWork' /\ TypeDeletion' /\ TypeData'
      BY <1>13 DEF Reenter, TypeWork, TypeDeletion, TypeData
  <2> QED BY <2>1, <2>2, <2>3
<1>14. ASSUME NEW d \in Deleters, NEW u \in Users, Close(d, u) PROVE TypeOK'
  <2>1. TypeGates'
      BY <1>14 DEF Close, TypeGates, TypeDeletion
  <2>2. TypeDeletion'
      BY <1>14 DEF Close, TypeDeletion, Outcomes
  <2>3. TypeScopes'
      BY <1>14, NestedSet DEF Close, TypeScopes, TypeDeletion
  <2>4. TypeWork' /\ TypeData'
      BY <1>14 DEF Close, TypeWork, TypeData
  <2> QED BY <2>1, <2>2, <2>3, <2>4
<1>15. ASSUME NEW d \in Deleters, Drained(d) PROVE TypeOK'
  <2>1. TypeGates'
      BY <1>15 DEF Drained, TypeGates, TypeDeletion
  <2>2. TypeDeletion'
      BY <1>15 DEF Drained, TypeDeletion, Outcomes
  <2>3. TypeWork' /\ TypeScopes' /\ TypeData'
      BY <1>15 DEF Drained, TypeWork, TypeScopes, TypeData
  <2> QED BY <2>1, <2>2, <2>3
<1>16. ASSUME NEW d \in Deleters, Timeout(d) PROVE TypeOK'
  <2>1. TypeDeletion'
      BY <1>16 DEF Timeout, TypeDeletion, Outcomes
  <2>2. TypeGates' /\ TypeWork' /\ TypeScopes' /\ TypeData'
      BY <1>16 DEF Timeout, TypeGates, TypeWork, TypeScopes, TypeData
  <2> QED BY <2>1, <2>2
<1>17. ASSUME NEW d \in Deleters, Recheck(d) PROVE TypeOK'
  <2>1. TypeDeletion'
      BY <1>17 DEF Recheck, TypeDeletion, Outcomes, Levels
  <2>2. TypeGates' /\ TypeWork' /\ TypeScopes' /\ TypeData'
      BY <1>17 DEF Recheck, TypeGates, TypeWork, TypeScopes, TypeData
  <2> QED BY <2>1, <2>2
<1>18. ASSUME NEW d \in Deleters, Commit(d) PROVE TypeOK'
  <2>1. TypeDeletion'
      BY <1>18 DEF Commit, TypeDeletion, Outcomes
  <2>2. TypeScopes'
    <3>1. Scope(target[d]) \in SUBSET Users
          BY <1>18 DEF Commit, Scope, TypeData, TargetInv
    <3> QED BY <1>18, <3>1 DEF Commit, TypeScopes
  <2>3. TypeData'
    <3>1. rows' \in [Users -> SUBSET BOOLEAN]
          BY <1>18 DEF Commit, TypeData
    <3>2. deletions' \in [Users -> Nat]
          BY <1>18 DEF Commit, TypeData
    <3> QED BY <1>18, <3>1, <3>2 DEF Commit, TypeData
  <2>4. TypeGates' /\ TypeWork'
      BY <1>18 DEF Commit, TypeGates, TypeWork
  <2> QED BY <2>1, <2>2, <2>3, <2>4
<1>19. ASSUME NEW d \in Deleters, CommitFails(d) PROVE TypeOK'
  <2>1. TypeDeletion'
      BY <1>19 DEF CommitFails, TypeDeletion, Outcomes
  <2>2. TypeGates' /\ TypeWork' /\ TypeScopes' /\ TypeData'
      BY <1>19 DEF CommitFails, TypeGates, TypeWork, TypeScopes, TypeData
  <2> QED BY <2>1, <2>2
<1>20. ASSUME NEW d \in Deleters, Revise(d) PROVE TypeOK'
  <2>1. TypeGates'
      BY <1>20 DEF Revise, TypeGates, TypeDeletion
  <2>2. TypeDeletion'
      BY <1>20 DEF Revise, TypeDeletion, TypeGates
  <2>3. TypeWork' /\ TypeScopes' /\ TypeData'
      BY <1>20 DEF Revise, TypeWork, TypeScopes, TypeData
  <2> QED BY <2>1, <2>2, <2>3
<1>21. ASSUME NEW d \in Deleters, NEW u \in Users, Invalidate(d, u) PROVE TypeOK'
  <2>1. TypeGates'
      BY <1>21 DEF Invalidate, TypeGates, TypeDeletion
  <2>2. TypeScopes'
      BY <1>21 DEF Invalidate, TypeScopes
  <2>3. TypeWork' /\ TypeDeletion' /\ TypeData'
      BY <1>21 DEF Invalidate, TypeWork, TypeDeletion, TypeData
  <2> QED BY <2>1, <2>2, <2>3
<1>22. ASSUME NEW d \in Deleters, Invalidated(d) PROVE TypeOK'
  <2>1. TypeDeletion'
      BY <1>22 DEF Invalidated, TypeDeletion, Outcomes
  <2>2. TypeGates' /\ TypeWork' /\ TypeScopes' /\ TypeData'
      BY <1>22 DEF Invalidated, TypeGates, TypeWork, TypeScopes, TypeData
  <2> QED BY <2>1, <2>2
<1>23. ASSUME NEW d \in Deleters, NEW u \in Users, Release(d, u) PROVE TypeOK'
  <2>1. TypeGates'
    <3>1. depth' \in [Users -> Nat]
          BY <1>23 DEF Release, Opens, TypeGates
    <3>2. owner' \in [Users -> Deleters \cup {None}]
          BY <1>23 DEF Release, TypeGates
    <3>3. deleting' \in [Users -> BOOLEAN]
          BY <1>23 DEF Release, TypeGates
    <3> QED BY <1>23, <3>1, <3>2, <3>3 DEF Release, TypeGates
  <2>2. TypeDeletion'
      BY <1>23 DEF Release, TypeDeletion, Outcomes
  <2>3. TypeScopes'
      BY <1>23, NestedSet DEF Release, TypeScopes, TypeDeletion
  <2>4. TypeWork' /\ TypeData'
      BY <1>23 DEF Release, TypeWork, TypeData
  <2> QED BY <2>1, <2>2, <2>3, <2>4
<1>24. ASSUME NEW d \in Deleters, Unwind(d) PROVE TypeOK'
  <2>1. TypeDeletion'
      BY <1>24 DEF Unwind, TypeDeletion, Outcomes, Levels
  <2>2. TypeScopes'
      BY <1>24, NestedSet, {} \in SUBSET Users DEF Unwind, TypeScopes, Levels
  <2>3. TypeGates' /\ TypeWork' /\ TypeData'
      BY <1>24 DEF Unwind, TypeGates, TypeWork, TypeData
  <2> QED BY <2>1, <2>2, <2>3
<1>25. ASSUME UNCHANGED vars PROVE TypeOK'
      BY <1>25 DEF vars, TypeGates, TypeWork, TypeDeletion, TypeScopes, TypeData
<1> QED
    BY <1>1, <1>2, <1>3, <1>4, <1>5, <1>6, <1>7, <1>8, <1>9, <1>10, <1>11, <1>12, <1>13, <1>14, <1>15, <1>16, <1>17, <1>18, <1>19, <1>20, <1>21, <1>22, <1>23, <1>24, <1>25, <1>26
    DEF Next, WorkStep, DeletionStep, PromptStep

\* A deletion thread changes nothing a work thread keeps, and no revision goes back.
LEMMA DeletionFrame ==
  ASSUME TypeOK, NEW d \in Deleters, DeletionStep(d) \/ \E u \in Users : Request(d, u)
  PROVE  UNCHANGED <<work, views>> /\ revision <= revision' /\ revision' \in Nat
BY DEF DeletionStep, PromptStep, Request, Resolve, Reenter, Close, Drained, Timeout, Recheck, Commit,
       CommitFails, Revise, Invalidate, Invalidated, Release, Unwind, registry, history, TypeOK, TypeGates

LEMMA WorkFrame ==
  ASSUME NEW w \in Workers, WorkStep(w)
  PROVE  UNCHANGED <<registry, gates, dpc, level, target, keys, acquired, draining, outcome, todo,
                     stamp, deletions>>
BY DEF WorkStep, Begin, ReadInputs, Capture, Admit, Refuse, Spawn, Reread, Write, Bind, Exit, Finish,
       deletion, history

\* Pushing and popping a stack.
LEMMA Pushed ==
  ASSUME NEW s \in Seq(Frame), NEW f \in Frame
  PROVE  /\ Append(s, f) # <<>>
         /\ DOMAIN Append(s, f) = DOMAIN s \cup {Len(s) + 1}
         /\ \A i \in DOMAIN s : Append(s, f)[i] = s[i]
         /\ Append(s, f)[Len(s) + 1] = f
OBVIOUS

LEMMA Popped ==
  ASSUME NEW s \in Seq(Frame), s # <<>>, NEW t, t = SubSeq(s, 1, Len(s) - 1)
  PROVE  /\ s[Len(s)] \in Frame
         /\ Len(s) \in DOMAIN s
         /\ t \in Seq(Frame)
         /\ DOMAIN t = 1 .. (Len(s) - 1)
         /\ DOMAIN t \subseteq DOMAIN s
         /\ \A i \in DOMAIN t : t[i] = s[i]
         /\ t = <<>> => Len(s) = 1
         /\ t # <<>> => 1 \in DOMAIN t
<1>1. Len(s) \in Nat \ {0} /\ DOMAIN s = 1 .. Len(s)
      OBVIOUS
<1>2. \A i \in 1 .. Len(s) - 1 : s[i] \in Frame
      BY <1>1
<1>3. /\ t \in Seq(Frame)
      /\ Len(t) = Len(s) - 1
      /\ \A i \in 1 .. Len(s) - 1 : t[i] = s[i]
      BY <1>1, <1>2, SubSeqProperties
<1>4. t = <<>> <=> Len(t) = 0
      BY <1>3, EmptySeq
<1> QED BY <1>1, <1>3, <1>4

LEMMA WorkerStep ==
  ASSUME TypeOK, WorkerInv, [Next]_vars
  PROVE  WorkerInv'
<1> USE NoneAssumption
<1>1. ASSUME NEW d \in Deleters, DeletionStep(d) \/ \E u \in Users : Request(d, u)
      PROVE  WorkerInv'
  <2>1. UNCHANGED work /\ revision <= revision' /\ revision \in Nat /\ revision' \in Nat
        BY <1>1, DeletionFrame DEF TypeOK, TypeGates
  <2> QED BY <2>1 DEF WorkerInv, work, TypeOK, TypeWork, Revision
<1>2. ASSUME NEW w \in Workers, WorkStep(w) PROVE WorkerInv'
  <2> USE DEF TypeOK, TypeWork, TypeGates
  <2>1. ASSUME NEW s \in {revision, None}, Begin(w, s) PROVE WorkerInv'
        BY <2>1 DEF Begin, WorkerInv, registry
  <2>2. CASE ReadInputs(w) BY <2>2 DEF ReadInputs, WorkerInv, registry
  <2>3. ASSUME NEW u \in Users, NEW s \in {started[w], None}, Capture(w, u, s) PROVE WorkerInv'
    <3>1. EffectiveStart(w, s) \in Nat
          BY <2>3 DEF Capture, EffectiveStart, Lesser, Revision
    <3>2. CapturedLease(w, u, s) \in Lease
      <4>1. Marked(w, s) \in BOOLEAN
            BY DEF Marked
      <4> QED BY <3>1, <4>1 DEF CapturedLease, Lease
    <3> QED BY <2>3, <3>2 DEF Capture, WorkerInv, registry
  <2>4. CASE Admit(w)
    <3>1. lease[w] \in Lease BY <2>4 DEF Admit, WorkerInv
    <3> DEFINE f == [user |-> lease[w].user, marked |-> lease[w].marked, prior |-> workRevision[w]]
    <3>2. f \in Frame BY <3>1 DEF Lease, Frame
    <3>3. stack' = [stack EXCEPT ![w] = Append(@, f)] BY <2>4 DEF Admit
    <3>4. stack'[w] # <<>> /\ stack'[w][1].prior = None
          BY <3>2, <3>3, Pushed DEF WorkerInv
    <3> QED BY <2>4, <3>3, <3>4 DEF Admit, WorkerInv, registry
  <2>5. CASE Refuse(w) BY <2>5 DEF Refuse, WorkerInv, registry
  <2>6. ASSUME NEW child \in Workers, Spawn(w, child) PROVE WorkerInv'
        BY <2>6 DEF Spawn, WorkerInv, registry
  <2>7. ASSUME NEW u \in Users, Write(w, u) PROVE WorkerInv'
        BY <2>7 DEF Write, WorkerInv, work, registry
  <2>11. ASSUME NEW u \in Users, Reread(w, u) PROVE WorkerInv'
        BY <2>11 DEF Reread, WorkerInv, work, registry
  <2>8. ASSUME NEW u \in Users, NEW v \in Users, Bind(w, u, v) PROVE WorkerInv'
        BY <2>8 DEF Bind, WorkerInv, work, registry
  <2>9. CASE Exit(w)
    <3>1. stack[w] \in Seq(Frame) /\ stack[w] # <<>> BY <2>9 DEF Exit
    <3>2. stack'[w] = SubSeq(stack[w], 1, Len(stack[w]) - 1) BY <2>9 DEF Exit
    <3>3. stack'[w] = <<>> => workRevision'[w] = None
      <4>1. workRevision'[w] = stack[w][Len(stack[w])].prior BY <2>9 DEF Exit
      <4>2. stack'[w] = <<>> => Len(stack[w]) = 1 BY <3>1, <3>2, Popped
      <4> QED BY <3>1, <4>1, <4>2 DEF WorkerInv
    <3>4. stack'[w] # <<>> => stack'[w][1].prior = None
          BY <3>1, <3>2, Popped DEF WorkerInv
    <3> QED BY <2>9, <3>3, <3>4 DEF Exit, WorkerInv, registry
  <2>10. CASE Finish(w) BY <2>10 DEF Finish, WorkerInv, registry
  <2> QED BY <1>2, <2>1, <2>2, <2>3, <2>4, <2>5, <2>6, <2>7, <2>8, <2>9, <2>10, <2>11 DEF WorkStep
<1>3. CASE UNCHANGED vars BY <1>3 DEF vars, WorkerInv, work, registry
<1> QED BY <1>1, <1>2, <1>3 DEF Next

LEMMA TargetStep ==
  ASSUME TypeOK, TargetInv, [Next]_vars
  PROVE  TargetInv'
<1> USE DEF TypeOK, TypeDeletion
<1>1. ASSUME NEW w \in Workers, WorkStep(w) PROVE TargetInv'
      BY <1>1, WorkFrame DEF TargetInv, deletion
<1>2. ASSUME NEW d \in Deleters, NEW u \in Users, Request(d, u) PROVE TargetInv'
      BY <1>2 DEF Request, TargetInv
<1>3. ASSUME NEW d \in Deleters, Unwind(d) PROVE TargetInv'
      BY <1>3 DEF Unwind, TargetInv
<1>4. ASSUME NEW d \in Deleters, DeletionStep(d), ~Unwind(d) PROVE TargetInv'
  <2>1. dpc[d] # "idle" /\ \A e \in Deleters \ {d} : dpc'[e] = dpc[e]
    <3>1. dpc[d] # "idle"
          BY <1>4 DEF DeletionStep, PromptStep, Resolve, Reenter, Close, Drained, Timeout, Waiting,
             Recheck, Commit, CommitFails, Revise, Invalidate, Invalidated, Release
    <3> SUFFICES ASSUME NEW e \in Deleters \ {d} PROVE dpc'[e] = dpc[e]
        BY <3>1
    <3> QED BY <1>4 DEF DeletionStep, PromptStep, Resolve, Reenter, Close, Drained, Timeout,
             Recheck, Commit, CommitFails, Revise, Invalidate, Invalidated, Release
  <2>2. UNCHANGED target
        BY <1>4 DEF DeletionStep, PromptStep, Resolve, Reenter, Close, Drained, Timeout, Recheck, Commit,
             CommitFails, Revise, Invalidate, Invalidated, Release
  <2> QED BY <2>1, <2>2 DEF TargetInv
<1>5. CASE UNCHANGED vars BY <1>5 DEF vars, TargetInv, deletion
<1> QED BY <1>1, <1>2, <1>3, <1>4, <1>5 DEF Next

\* One deletion thread's step leaves the other threads' variables alone.
LEMMA OthersFrame ==
  ASSUME TypeOK, NEW d \in Deleters, DeletionStep(d) \/ \E u \in Users : Request(d, u),
         NEW e \in Deleters \ {d}
  PROVE  /\ dpc'[e] = dpc[e] /\ level'[e] = level[e] /\ draining'[e] = draining[e]
         /\ acquired'[e] = acquired[e] /\ todo'[e] = todo[e] /\ target'[e] = target[e]
         /\ stamp'[e] = stamp[e]
<1> USE DEF TypeOK, TypeDeletion, TypeScopes
<1>1. dpc'[e] = dpc[e]
      BY DEF DeletionStep, PromptStep, Request, Resolve, Reenter, Close, Drained, Timeout, Recheck,
         Commit, CommitFails, Revise, Invalidate, Invalidated, Release, Unwind
<1>2. level'[e] = level[e] /\ target'[e] = target[e]
      BY DEF DeletionStep, PromptStep, Request, Resolve, Reenter, Close, Drained, Timeout, Recheck,
         Commit, CommitFails, Revise, Invalidate, Invalidated, Release, Unwind
<1>3. draining'[e] = draining[e] /\ stamp'[e] = stamp[e]
      BY DEF DeletionStep, PromptStep, Request, Resolve, Reenter, Close, Drained, Timeout, Recheck,
         Commit, CommitFails, Revise, Invalidate, Invalidated, Release, Unwind
<1>4. todo'[e] = todo[e]
      BY DEF DeletionStep, PromptStep, Request, Resolve, Reenter, Close, Drained, Timeout, Recheck,
         Commit, CommitFails, Revise, Invalidate, Invalidated, Release, Unwind
<1>5. acquired'[e] = acquired[e]
      BY DEF DeletionStep, PromptStep, Request, Resolve, Reenter, Close, Drained, Timeout, Recheck,
         Commit, CommitFails, Revise, Invalidate, Invalidated, Release, Unwind
<1> QED BY <1>1, <1>2, <1>3, <1>4, <1>5

LEMMA PhaseStep ==
  ASSUME TypeOK, PhaseInv, GateInv, [Next]_vars
  PROVE  PhaseInv'
<1> USE NoneAssumption DEF TypeOK, TypeDeletion, TypeScopes, Levels
<1>1. ASSUME NEW w \in Workers, WorkStep(w) PROVE PhaseInv'
      BY <1>1, WorkFrame DEF PhaseInv, Phase, deletion
<1>2. CASE UNCHANGED vars BY <1>2 DEF vars, PhaseInv, Phase, deletion
<1>3. ASSUME NEW d \in Deleters, DeletionStep(d) \/ \E u \in Users : Request(d, u), Phase(d)'
      PROVE  PhaseInv'
  <2> SUFFICES ASSUME NEW e \in Deleters \ {d} PROVE Phase(e)'
      BY <1>3 DEF PhaseInv
  <2>1. Phase(e) BY DEF PhaseInv
  <2> QED BY <1>3, <2>1, OthersFrame DEF Phase
<1>4. ASSUME NEW d \in Deleters, NEW u \in Users, Request(d, u) PROVE Phase(d)'
      BY <1>4 DEF Request, PhaseInv, Phase
<1>5. ASSUME NEW d \in Deleters, DeletionStep(d) PROVE Phase(d)'
  <2> Phase(d) BY DEF PhaseInv
  <2> USE DEF Phase
  <2>1. CASE Resolve(d) BY <2>1 DEF Resolve
  <2>2. ASSUME NEW u \in Users, Reenter(d, u) PROVE Phase(d)'
        BY <2>2 DEF Reenter
  <2>3. ASSUME NEW u \in Users, Close(d, u) PROVE Phase(d)'
    <3>1. u \notin acquired[d][1] BY <2>3 DEF Close, GateInv, Gate, Claimed
    <3>2. level[d] \in Levels /\ level' = level /\ todo' = todo /\ dpc'[d] = "drain"
          BY <2>3 DEF Close
    <3>3. draining'[d] = u /\ u # None
          BY <2>3, UsersAssumption DEF Close
    <3>4. /\ acquired'[d][level[d]] = acquired[d][level[d]] \cup {u}
          /\ level[d] = 2 => acquired'[d][1] = acquired[d][1]
          /\ level[d] = 1 => acquired'[d][2] = acquired[d][2]
          BY <2>3 DEF Close
    <3>5. dpc[d] = "lock" BY <2>3 DEF Close
    <3> QED BY <3>1, <3>2, <3>3, <3>4, <3>5
  <2>4. CASE Drained(d) BY <2>4 DEF Drained
  <2>5. CASE Timeout(d) BY <2>5 DEF Timeout, Waiting
  <2>6. CASE Recheck(d) BY <2>6 DEF Recheck
  <2>7. CASE Commit(d) BY <2>7 DEF Commit
  <2>8. CASE CommitFails(d) BY <2>8 DEF CommitFails
  <2>9. CASE Revise(d) BY <2>9 DEF Revise
  <2>10. ASSUME NEW u \in Users, Invalidate(d, u) PROVE Phase(d)'
         BY <2>10 DEF Invalidate
  <2>11. CASE Invalidated(d) BY <2>11 DEF Invalidated
  <2>12. ASSUME NEW u \in Users, Release(d, u) PROVE Phase(d)'
         BY <2>12 DEF Release
  <2>13. CASE Unwind(d) BY <2>13 DEF Unwind
  <2> QED BY <1>5, <2>1, <2>2, <2>3, <2>4, <2>5, <2>6, <2>7, <2>8, <2>9, <2>10, <2>11, <2>12, <2>13
          DEF DeletionStep, PromptStep
<1> QED BY <1>1, <1>2, <1>3, <1>4, <1>5 DEF Next

\* A step of d that moves u in or out of its current scope, or takes u over,
\* leaves the gates of the other users as they were.
LEMMA GateElsewhere ==
  ASSUME NEW d \in Deleters, NEW u \in Users, NEW v \in Users \ {u}, Gate(v),
         deleting'[v] = deleting[v], owner'[v] = owner[v], depth'[v] = depth[v],
         v \in acquired'[d][1] <=> v \in acquired[d][1],
         v \in acquired'[d][2] <=> v \in acquired[d][2],
         \A e \in Deleters \ {d} : acquired'[e] = acquired[e] /\ draining'[e] = draining[e],
         draining'[d] = v <=> draining[d] = v
  PROVE  Gate(v)'
<1>1. \A e \in Deleters : /\ v \in Claimed(e)' <=> v \in Claimed(e)
                          /\ DepthOf(e, v)' = DepthOf(e, v)
                          /\ draining'[e] = v <=> draining[e] = v
      BY DEF Claimed, DepthOf
<1> QED BY <1>1 DEF Gate

LEMMA GateStep ==
  ASSUME TypeOK, PhaseInv, GateInv, [Next]_vars
  PROVE  GateInv'
<1> USE NoneAssumption, ThreadsAssumption DEF TypeOK, TypeGates, TypeDeletion, TypeScopes, Levels
<1>1. ASSUME UNCHANGED <<gates, acquired, draining>> PROVE GateInv'
      BY <1>1 DEF GateInv, Gate, Claimed, DepthOf, gates
<1>2. ASSUME NEW w \in Workers, WorkStep(w) PROVE GateInv'
      BY <1>1, <1>2, WorkFrame DEF deletion
<1>3. CASE UNCHANGED vars BY <1>1, <1>3 DEF vars, deletion
<1>4. ASSUME NEW d \in Deleters, NEW u \in Users, Request(d, u) PROVE GateInv'
      BY <1>1, <1>4 DEF Request
<1>5. ASSUME NEW d \in Deleters, DeletionStep(d) PROVE GateInv'
  <2> Phase(d) BY DEF PhaseInv
  <2>a. level[d] \in {1, 2}
        OBVIOUS
  <2>1. ASSUME NEW u \in Users, Reenter(d, u) PROVE GateInv'
    <3>1. /\ deleting' = deleting /\ owner' = owner /\ draining' = draining
          /\ owner[u] = d /\ depth'[u] = depth[u] + 1
          /\ u \notin acquired[d][level[d]]
          /\ acquired'[d][level[d]] = acquired[d][level[d]] \cup {u}
          /\ level[d] = 1 => acquired'[d][2] = acquired[d][2]
          /\ level[d] = 2 => acquired'[d][1] = acquired[d][1]
          /\ \A e \in Deleters \ {d} : acquired'[e] = acquired[e]
          BY <2>1 DEF Reenter, IsNextKey
    <3>2. Gate(u) BY DEF GateInv
    <3>3. /\ \A e \in Deleters : u \in Claimed(e)' <=> u \in Claimed(e)
          /\ DepthOf(d, u)' = DepthOf(d, u) + 1
          BY <2>a, <3>1, <3>2 DEF Claimed, DepthOf, Gate
    <3>4. Gate(u)'
          BY <3>1, <3>2, <3>3 DEF Gate
    <3>5. ASSUME NEW v \in Users \ {u} PROVE Gate(v)'
      <4>1. depth'[v] = depth[v] BY <2>1 DEF Reenter
      <4>2. Gate(v) BY DEF GateInv
      <4>3. /\ v \in acquired'[d][1] <=> v \in acquired[d][1]
            /\ v \in acquired'[d][2] <=> v \in acquired[d][2]
            BY <2>a, <3>1
      <4> QED BY <3>1, <4>1, <4>2, <4>3, GateElsewhere
    <3> QED BY <3>4, <3>5 DEF GateInv
  <2>2. ASSUME NEW u \in Users, Close(d, u) PROVE GateInv'
    <3>1. /\ owner' = owner /\ depth' = depth /\ ~deleting[u] /\ deleting'[u]
          /\ draining[d] = None /\ draining'[d] = u
          /\ acquired'[d][level[d]] = acquired[d][level[d]] \cup {u}
          /\ level[d] = 1 => acquired'[d][2] = acquired[d][2]
          /\ level[d] = 2 => acquired'[d][1] = acquired[d][1]
          /\ \A e \in Deleters \ {d} : acquired'[e] = acquired[e] /\ draining'[e] = draining[e]
          BY <2>2 DEF Close, Phase
    <3>2. Gate(u) BY DEF GateInv
    <3>3. \A e \in Deleters : u \notin Claimed(e) /\ owner[u] # e
          BY <3>1, <3>2 DEF Gate
    <3>4. \A e \in Deleters : u \in Claimed(e)' <=> e = d
          BY <2>a, <3>1, <3>3 DEF Claimed
    <3>5. Gate(u)'
          BY <3>1, <3>2, <3>3, <3>4 DEF Gate
    <3>6. ASSUME NEW v \in Users \ {u} PROVE Gate(v)'
      <4>1. deleting'[v] = deleting[v] /\ v # None BY <2>2, UsersAssumption DEF Close
      <4>2. Gate(v) BY DEF GateInv
      <4>3. /\ v \in acquired'[d][1] <=> v \in acquired[d][1]
            /\ v \in acquired'[d][2] <=> v \in acquired[d][2]
            BY <2>a, <3>1
      <4> QED BY <3>1, <4>1, <4>2, <4>3, GateElsewhere
    <3> QED BY <3>5, <3>6 DEF GateInv
  <2>3. CASE Drained(d)
    <3>0. PICK u \in Users : u = draining[d]
          BY <2>3 DEF Drained, Phase
    <3>1. /\ u \in Users /\ u # None
          /\ u \in acquired[d][level[d]] /\ (level[d] = 2 => u \notin acquired[d][1])
          /\ level[d] = 1 => acquired[d][2] = {}
          BY <2>3, <3>0, UsersAssumption DEF Drained, Phase
    <3>2. /\ deleting' = deleting /\ acquired' = acquired /\ owner'[u] = d /\ depth'[u] = 1
          /\ draining'[d] = None
          /\ \A e \in Deleters \ {d} : draining'[e] = draining[e]
          BY <2>3, <3>0, <3>1 DEF Drained
    <3>3. ASSUME NEW v \in Users \ {u} PROVE Gate(v)'
      <4>1. owner'[v] = owner[v] /\ depth'[v] = depth[v] /\ v # None
            BY <2>3, <3>0, UsersAssumption DEF Drained
      <4>2. Gate(v) BY DEF GateInv
      <4> QED BY <3>0, <3>1, <3>2, <4>1, <4>2, GateElsewhere
    <3>4. Gate(u) BY <3>1 DEF GateInv
    <3>5. /\ \A e \in Deleters : u \in Claimed(e)' <=> u \in Claimed(e)
          /\ u \in Claimed(d)
          BY <2>a, <3>1, <3>2 DEF Claimed
    <3>6. DepthOf(d, u)' = 1
          BY <2>a, <3>1, <3>2 DEF DepthOf
    <3>7. \A e \in Deleters : u \in Claimed(e) => e = d
          BY <3>4, <3>5 DEF Gate
    <3>8. Gate(u)'
          BY <3>1, <3>2, <3>4, <3>5, <3>6, <3>7 DEF Gate
    <3> QED BY <3>1, <3>3, <3>8 DEF GateInv
  <2>4. ASSUME NEW u \in Users, Release(d, u) PROVE GateInv'
    <3>1. /\ u \in acquired[d][level[d]]
          /\ acquired'[d][level[d]] = acquired[d][level[d]] \ {u}
          /\ level[d] = 1 => acquired'[d][2] = acquired[d][2]
          /\ level[d] = 2 => acquired'[d][1] = acquired[d][1]
          /\ level[d] = 1 => acquired[d][2] = {}
          /\ \A e \in Deleters \ {d} : acquired'[e] = acquired[e]
          BY <2>4 DEF Release, Phase
    <3>2. /\ draining'[d] = (IF draining[d] = u THEN None ELSE draining[d])
          /\ \A e \in Deleters \ {d} : draining'[e] = draining[e]
          BY <2>4 DEF Release
    <3>3. IF depth[u] - 1 <= 0
          THEN depth'[u] = 0 /\ ~deleting'[u] /\ owner'[u] = None
          ELSE depth'[u] = depth[u] - 1 /\ deleting'[u] = deleting[u] /\ owner'[u] = owner[u]
          BY <2>4 DEF Release, Opens
    <3>4. Gate(u) BY DEF GateInv
    <3>5. u # None BY UsersAssumption
    <3>6. u \in Claimed(d) /\ \A e \in Deleters \ {d} : u \notin Claimed(e) /\ u \notin Claimed(e)'
      <4>1. u \in Claimed(d) BY <2>a, <3>1 DEF Claimed
      <4> QED BY <3>1, <3>4, <4>1 DEF Gate, Claimed
    <3>7. Gate(u)'
      <4>1. CASE level[d] = 2 /\ u \in acquired[d][1]
        <5>1. draining[d] # u BY <3>5, <4>1 DEF Phase
        <5>2. owner[u] = d /\ depth[u] = 2
              BY <3>1, <3>4, <3>6, <4>1, <5>1 DEF Gate, DepthOf
        <5>3. u \in Claimed(d)' /\ DepthOf(d, u)' = 1
              BY <3>1, <4>1 DEF Claimed, DepthOf
        <5> QED BY <3>2, <3>3, <3>4, <3>5, <3>6, <5>1, <5>2, <5>3 DEF Gate
      <4>2. CASE ~(level[d] = 2 /\ u \in acquired[d][1])
        <5>1. u \notin Claimed(d)'
              BY <2>a, <3>1, <4>2 DEF Claimed
        <5>2. DepthOf(d, u) = 1
              BY <2>a, <3>1, <4>2 DEF DepthOf
        <5>3. depth[u] \in {0, 1}
              BY <3>4, <3>6, <5>2 DEF Gate
        <5> QED BY <3>3, <3>6, <5>1, <5>3 DEF Gate
      <4> QED BY <4>1, <4>2
    <3>8. ASSUME NEW v \in Users \ {u} PROVE Gate(v)'
      <4>1. deleting'[v] = deleting[v] /\ owner'[v] = owner[v] /\ depth'[v] = depth[v] /\ v # None
            BY <2>4, UsersAssumption DEF Release
      <4>2. Gate(v) BY DEF GateInv
      <4>3. /\ v \in acquired'[d][1] <=> v \in acquired[d][1]
            /\ v \in acquired'[d][2] <=> v \in acquired[d][2]
            BY <2>a, <3>1
      <4> QED BY <3>1, <3>2, <4>1, <4>2, <4>3, GateElsewhere
    <3> QED BY <3>7, <3>8 DEF GateInv
  <2>5. ASSUME ~(\E u \in Users : Reenter(d, u) \/ Close(d, u) \/ Release(d, u)), ~Drained(d)
        PROVE  GateInv'
    <3> UNCHANGED <<gates, acquired, draining>>
        BY <1>5, <2>5 DEF DeletionStep, PromptStep, Resolve, Timeout, Recheck, Commit, CommitFails,
           Revise, Invalidate, Invalidated, Unwind
    <3> QED BY <1>1
  <2> QED BY <2>1, <2>2, <2>3, <2>4, <2>5
<1> QED BY <1>2, <1>3, <1>4, <1>5 DEF Next

\* What a work step does to the users its thread holds.
LEMMA HeldAdmit ==
  ASSUME TypeOK, WorkerInv, NEW w \in Workers, Admit(w)
  PROVE  /\ Held(w)' = Held(w) \cup {lease[w].user}
         /\ \A v \in Workers \ {w} : Held(v)' = Held(v)
         /\ lease[w] \in Lease
<1> USE DEF TypeOK, TypeWork
<1> DEFINE f == [user |-> lease[w].user, marked |-> lease[w].marked, prior |-> workRevision[w]]
<1>1. lease[w] \in Lease BY DEF Admit, WorkerInv
<1>2. f \in Frame BY <1>1 DEF Lease, Frame
<1>3. stack' = [stack EXCEPT ![w] = Append(@, f)] BY DEF Admit
<1>4. Held(w)' = {Append(stack[w], f)[i].user : i \in DOMAIN Append(stack[w], f)}
      BY <1>3 DEF Held
<1> HIDE DEF f
<1>5. \A i \in DOMAIN stack[w] : Append(stack[w], f)[i] = stack[w][i]
      BY <1>2, Pushed
<1>6. DOMAIN Append(stack[w], f) = DOMAIN stack[w] \cup {Len(stack[w]) + 1}
      BY <1>2, Pushed
<1>7. Append(stack[w], f)[Len(stack[w]) + 1] = f
      BY <1>2, Pushed
<1>8. Held(w)' = Held(w) \cup {f.user}
  <2>1. ASSUME NEW x \in Held(w)' PROVE x \in Held(w) \cup {f.user}
    <3>1. PICK i \in DOMAIN Append(stack[w], f) : x = Append(stack[w], f)[i].user
          BY <1>4, <2>1
    <3>2. CASE i \in DOMAIN stack[w] BY <1>5, <3>1, <3>2 DEF Held
    <3>3. CASE i = Len(stack[w]) + 1 BY <1>7, <3>1, <3>3
    <3> QED BY <1>6, <3>2, <3>3
  <2>2. \A x \in Held(w) : x \in Held(w)'
        BY <1>4, <1>5, <1>6 DEF Held
  <2>3. f.user \in Held(w)'
        BY <1>4, <1>6, <1>7
  <2> QED BY <2>1, <2>2, <2>3
<1> QED BY <1>1, <1>3, <1>8 DEF Held, f

LEMMA HeldExit ==
  ASSUME TypeOK, NEW w \in Workers, Exit(w)
  PROVE  /\ Held(w)' \subseteq Held(w)
         /\ \A v \in Workers \ {w} : Held(v)' = Held(v)
<1> USE DEF TypeOK, TypeWork
<1>1. stack[w] \in Seq(Frame) /\ stack[w] # <<>> BY DEF Exit
<1>2. stack' = [stack EXCEPT ![w] = SubSeq(stack[w], 1, Len(stack[w]) - 1)] BY DEF Exit
<1>3. /\ DOMAIN stack'[w] \subseteq DOMAIN stack[w]
      /\ \A i \in DOMAIN stack'[w] : stack'[w][i] = stack[w][i]
      BY <1>1, <1>2, Popped
<1> QED BY <1>2, <1>3 DEF Held

LEMMA HeldOther ==
  ASSUME NEW w \in Workers, WorkStep(w), ~Admit(w), ~Exit(w)
  PROVE  stack' = stack
BY DEF WorkStep, Begin, ReadInputs, Capture, Refuse, Spawn, Reread, Write, Bind, Finish, work

LEMMA ReaderStep ==
  ASSUME TypeOK, PhaseInv, GateInv, WorkerInv, ReaderInv, [Next]_vars
  PROVE  ReaderInv'
<1> USE NoneAssumption, ThreadsAssumption DEF TypeOK, TypeGates
<1>1. ASSUME NEW w \in Workers, Admit(w) PROVE ReaderInv'
  <2> DEFINE u == lease[w].user
  <2>1. u \in Users BY <1>1, HeldAdmit DEF Lease
  <2>2. owner' = owner BY <1>1 DEF Admit, gates
  <2>3. owner[u] = None
    <3>1. CASE ~deleting[u] BY <2>1, <3>1 DEF GateInv, Gate
    <3>2. CASE w \in Readers(u) BY <2>1, <3>2 DEF ReaderInv
    <3>3. CASE owner[u] = w BY <2>1, <3>3
    <3> QED BY <1>1, <3>1, <3>2, <3>3 DEF Admit, MayPass
  <2>4. \A v \in Users, x \in Workers : v \in Held(x)' => v \in Held(x) \/ v = u
        BY <1>1, HeldAdmit
  <2> HIDE DEF u
  <2> QED BY <2>1, <2>2, <2>3, <2>4 DEF ReaderInv, Readers
<1>2. ASSUME NEW w \in Workers, Exit(w) PROVE ReaderInv'
  <2>1. owner' = owner BY <1>2 DEF Exit, gates
  <2>2. \A x \in Workers : Held(x)' \subseteq Held(x) BY <1>2, HeldExit
  <2> QED BY <2>1, <2>2 DEF ReaderInv, Readers
<1>3. ASSUME NEW w \in Workers, WorkStep(w), ~Admit(w), ~Exit(w) PROVE ReaderInv'
      BY <1>3, HeldOther, WorkFrame DEF ReaderInv, Readers, Held, gates
<1>4. ASSUME NEW d \in Deleters, Drained(d) PROVE ReaderInv'
      BY <1>4 DEF Drained, Inside, ReaderInv, Readers, Held, work
<1>5. ASSUME NEW d \in Deleters, NEW u \in Users, Release(d, u) PROVE ReaderInv'
      BY <1>5 DEF Release, ReaderInv, Readers, Held, work
<1>6. ASSUME NEW d \in Deleters, DeletionStep(d) \/ (\E u \in Users : Request(d, u)), ~Drained(d),
             ~(\E u \in Users : Release(d, u))
      PROVE  ReaderInv'
  <2>1. owner' = owner /\ stack' = stack
        BY <1>6 DEF DeletionStep, PromptStep, Request, Resolve, Reenter, Close, Timeout, Recheck,
           Commit, CommitFails, Revise, Invalidate, Invalidated, Unwind, gates, work
  <2> QED BY <2>1 DEF ReaderInv, Readers, Held
<1>7. CASE UNCHANGED vars BY <1>7 DEF vars, gates, work, ReaderInv, Readers, Held
<1> QED BY <1>1, <1>2, <1>3, <1>4, <1>5, <1>6, <1>7 DEF Next

\* A deletion in or past its commit owns what it committed, and nobody is inside.
LEMMA CommitOwns ==
  ASSUME PhaseInv, GateInv, ReaderInv, TypeOK, NEW d \in Deleters,
         dpc[d] \in {"commit", "revise", "invalidate"}, NEW u \in Users, u \in acquired[d][2]
  PROVE  owner[u] = d /\ Readers(u) = {}
<1>1. draining[d] # u
      BY UsersAssumption, NoneAssumption DEF PhaseInv, Phase
<1>2. owner[u] = d
      BY <1>1 DEF GateInv, Gate, Claimed
<1> QED BY <1>2, NoneAssumption DEF ReaderInv

LEMMA CommitStep ==
  ASSUME TypeOK, TargetInv, PhaseInv, GateInv, ReaderInv, CommitInv, [Next]_vars
  PROVE  CommitInv'
<1> USE NoneAssumption DEF TypeOK, TypeDeletion, TypeScopes, TypeData
<1>0. ASSUME NEW d \in Deleters, dpc[d] = "commit", NEW w \in Workers
      PROVE  Scope(target[d]) \cap Held(w) = {} /\ target[d] \in Scope(target[d])
  <2>1. Scope(target[d]) \subseteq Users /\ target[d] \in Scope(target[d])
        BY <1>0 DEF TargetInv, Scope
  <2> QED BY <1>0, <2>1, CommitOwns DEF CommitInv, Readers
<1>1. ASSUME NEW w \in Workers, WorkStep(w), ~(\E u, v \in Users : Bind(w, u, v)) PROVE CommitInv'
  <2>1. bound' = bound
        BY <1>1 DEF WorkStep, Begin, ReadInputs, Capture, Admit, Refuse, Spawn, Reread, Write, Exit, Finish, database
  <2> QED BY <1>1, <2>1, WorkFrame DEF CommitInv, Scope, deletion
<1>2. ASSUME NEW w \in Workers, NEW u \in Users, NEW v \in Users, Bind(w, u, v) PROVE CommitInv'
  <2>1. UNCHANGED deletion
        BY <1>2 DEF Bind
  <2>2. ASSUME NEW d \in Deleters, dpc[d] = "commit" PROVE Scope(target[d])' = Scope(target[d])
    <3>1. u \notin Scope(target[d]) /\ v \notin Scope(target[d]) /\ target[d] \in Scope(target[d])
          BY <1>2, <2>2, <1>0 DEF Bind
    <3> QED BY <1>2, <2>1, <3>1 DEF Bind, Scope, deletion
  <2> QED BY <2>1, <2>2 DEF CommitInv, deletion
<1>3. ASSUME NEW d \in Deleters, Commit(d) PROVE CommitInv'
  <2>1. ASSUME NEW e \in Deleters \ {d}, dpc[e] = "commit" PROVE Scope(target[e])' = Scope(target[e])
    <3>1. Scope(target[d]) \cap Scope(target[e]) = {}
      <4>1. /\ Scope(target[d]) \subseteq acquired[d][2] /\ Scope(target[d]) \subseteq Users
            /\ Scope(target[e]) \subseteq acquired[e][2]
            BY <1>3, <2>1 DEF Commit, CommitInv, TargetInv, Scope
      <4> QED BY <4>1 DEF GateInv, Gate, Claimed
    <3>2. bound' = bound \ Scope(target[d]) /\ target' = target
          BY <1>3 DEF Commit
    <3> QED BY <3>1, <3>2 DEF Scope
  <2>2. todo'[d] \subseteq acquired'[d][2] /\ dpc'[d] # "commit"
        BY <1>3 DEF Commit, CommitInv
  <2>3. ASSUME NEW e \in Deleters \ {d}
        PROVE  dpc'[e] = dpc[e] /\ acquired'[e] = acquired[e] /\ todo'[e] = todo[e]
        BY <1>3, OthersFrame DEF DeletionStep, PromptStep
  <2>4. ASSUME NEW e \in Deleters \ {d}
        PROVE  /\ dpc'[e] = "commit" => Scope(target[e])' \subseteq acquired'[e][2]
               /\ todo'[e] \subseteq acquired'[e][2]
        BY <2>1, <2>3 DEF CommitInv
  <2> QED BY <2>2, <2>4 DEF CommitInv
<1>4. ASSUME NEW d \in Deleters, DeletionStep(d) \/ (\E u \in Users : Request(d, u)), ~Commit(d)
      PROVE  CommitInv'
  <2>0. bound' = bound
        BY <1>4 DEF DeletionStep, PromptStep, Request, Resolve, Reenter, Close, Drained, Timeout, Recheck,
           CommitFails, Revise, Invalidate, Invalidated, Release, Unwind, database
  <2>1. ASSUME NEW e \in Deleters \ {d}
        PROVE  /\ dpc'[e] = "commit" => Scope(target[e])' \subseteq acquired'[e][2]
               /\ todo'[e] \subseteq acquired'[e][2]
        BY <1>4, <2>0, OthersFrame DEF CommitInv, Scope
  <2> DEFINE Done == /\ dpc'[d] = "commit" => Scope(target[d])' \subseteq acquired'[d][2]
                     /\ todo'[d] \subseteq acquired'[d][2]
  <2>2. ASSUME Recheck(d) PROVE Done
    <3>1. dpc'[d] = "commit" => level[d] = 2 /\ StillComplete(d) /\ acquired[d][2] = keys[d][2]
          BY <2>2 DEF Recheck, Levels
    <3>2. UNCHANGED <<target, keys, acquired, todo>>
          BY <2>2 DEF Recheck
    <3> QED BY <2>0, <3>1, <3>2 DEF CommitInv, StillComplete, Scope
  <2>3. ASSUME NEW u \in Users, Release(d, u) PROVE Done
        BY <2>3 DEF Release, PhaseInv, Phase
  <2>4. ASSUME NEW u \in Users, Invalidate(d, u) PROVE Done
        BY <2>4 DEF Invalidate, CommitInv
  <2>5. ASSUME NEW u \in Users, Reenter(d, u) \/ Close(d, u) PROVE Done
        BY <2>5 DEF Reenter, Close, PhaseInv, Phase
  <2>6. ASSUME NEW u \in Users, Request(d, u) PROVE Done
        BY <2>6 DEF Request, CommitInv
  <2>7. ASSUME Resolve(d) \/ Drained(d) \/ Timeout(d) \/ CommitFails(d) \/ Revise(d)
               \/ Invalidated(d) \/ Unwind(d)
        PROVE  Done
        BY <2>7 DEF Resolve, Drained, Timeout, CommitFails, Revise, Invalidated, Unwind, CommitInv
  <2>8. Done
        BY <1>4, <2>2, <2>3, <2>4, <2>5, <2>6, <2>7 DEF DeletionStep, PromptStep
  <2> QED BY <2>1, <2>8 DEF CommitInv
<1>5. CASE UNCHANGED vars BY <1>5 DEF vars, deletion, database, CommitInv, Scope
<1> QED BY <1>1, <1>2, <1>3, <1>4, <1>5 DEF Next

\* Everything but the four steps that move deletions, revisions or todo.
LEMMA QuietStep ==
  ASSUME TypeOK, NEW d \in Deleters, DeletionStep(d) \/ \E u \in Users : Request(d, u),
         ~Commit(d), ~Revise(d), ~Invalidated(d), ~(\E u \in Users : Invalidate(d, u))
  PROVE  /\ UNCHANGED <<revision, generation, deletedRevision, deletions, todo, stamp>>
         /\ dpc[d] \notin {"revise", "invalidate"} /\ dpc'[d] \notin {"revise", "invalidate"}
<1> USE DEF TypeOK, TypeDeletion
<1>1. /\ UNCHANGED <<revision, generation, deletedRevision, deletions, todo, stamp>>
      /\ dpc[d] \notin {"revise", "invalidate"}
      BY DEF DeletionStep, PromptStep, Request, Resolve, Reenter, Close, Drained, Timeout, Waiting, Recheck,
         CommitFails, Release, Unwind, registry, history
<1>2. dpc'[d] \notin {"revise", "invalidate"}
      BY <1>1 DEF DeletionStep, PromptStep, Request, Resolve, Reenter, Close, Drained, Timeout, Recheck,
         CommitFails, Release, Unwind
<1> QED BY <1>1, <1>2

\* Two deletions never work on the same user.
LEMMA TodoDisjoint ==
  ASSUME GateInv, CommitInv, NEW d \in Deleters, NEW e \in Deleters, NEW u \in Users,
         u \in todo[d], u \in acquired[e][2]
  PROVE  d = e
BY DEF CommitInv, GateInv, Gate, Claimed

\* The four steps that QuietStep leaves out, as far as the counts are concerned.
LEMMA CommitFacts ==
  ASSUME TypeOK, TargetInv, PhaseInv, GateInv, CommitInv, NEW d \in Deleters, Commit(d)
  PROVE  /\ UNCHANGED <<revision, generation, deletedRevision, stamp>>
         /\ Scope(target[d]) \in SUBSET Users /\ Scope(target[d]) \subseteq acquired[d][2]
         /\ todo[d] = {} /\ todo'[d] = Scope(target[d]) /\ dpc[d] = "commit" /\ dpc'[d] = "revise"
         /\ \A u \in Scope(target[d]) : deletions'[u] = deletions[u] + 1 /\ ~Pending(u)
         /\ \A u \in Users \ Scope(target[d]) : deletions'[u] = deletions[u]
<1> USE DEF TypeOK, TypeDeletion, TypeScopes, TypeData
<1>1. Scope(target[d]) \in SUBSET Users /\ Scope(target[d]) \subseteq acquired[d][2] /\ todo[d] = {}
  <2>1. dpc[d] = "commit" /\ target[d] \in Users BY DEF Commit, TargetInv
  <2>2. Scope(target[d]) \in SUBSET Users BY <2>1 DEF Scope
  <2>3. Scope(target[d]) \subseteq acquired[d][2] BY <2>1 DEF CommitInv
  <2>4. todo[d] = {} BY <2>1 DEF PhaseInv, Phase
  <2> QED BY <2>2, <2>3, <2>4
<1>2. \A u \in Scope(target[d]) : ~Pending(u)
      BY <1>1, TodoDisjoint DEF Pending
<1> QED BY <1>1, <1>2 DEF Commit, registry

LEMMA CountStep ==
  ASSUME TypeOK, TargetInv, PhaseInv, GateInv, CommitInv, CountInv, [Next]_vars
  PROVE  CountInv'
<1> USE DEF TypeOK, TypeGates, TypeDeletion, TypeScopes, TypeData
<1>1. ASSUME UNCHANGED <<registry, dpc, todo, stamp, deletions>> PROVE CountInv'
      BY <1>1 DEF registry, CountInv, Pending
<1>2. ASSUME NEW w \in Workers, WorkStep(w) PROVE CountInv'
      BY <1>1, <1>2, WorkFrame
<1>3. CASE UNCHANGED vars BY <1>1, <1>3 DEF vars, deletion, history
<1>4. ASSUME NEW d \in Deleters, Commit(d) PROVE CountInv'
  <2> DEFINE gone == Scope(target[d])
  <2>1. \A e \in Deleters \ {d} : dpc'[e] = dpc[e] /\ todo'[e] = todo[e] /\ stamp'[e] = stamp[e]
        BY <1>4, OthersFrame DEF DeletionStep, PromptStep
  <2>a. /\ dpc[d] = "commit" /\ dpc'[d] = "revise" /\ todo[d] = {} /\ todo'[d] = gone
        /\ gone \in SUBSET Users
        BY <1>4, CommitFacts
  <2>2. ASSUME NEW u \in gone PROVE Pending(u)'
        BY <2>a, <2>2 DEF Pending
  <2>3. ASSUME NEW u \in Users \ gone PROVE Pending(u)' <=> Pending(u)
    <3> HIDE DEF gone
    <3> QED BY <2>1, <2>a, <2>3 DEF Pending
  <2>4. ASSUME NEW u \in Users
        PROVE  deletions'[u] = generation'[u] + (IF Pending(u)' THEN 1 ELSE 0)
    <3>1. generation' = generation BY <1>4, CommitFacts
    <3>2. CASE u \in gone BY <1>4, <2>2, <3>1, <3>2, CommitFacts DEF CountInv
    <3>3. CASE u \notin gone BY <1>4, <2>3, <3>1, <3>3, CommitFacts DEF CountInv
    <3> QED BY <3>2, <3>3
  <2>5. \A e \in Deleters : dpc'[e] = "invalidate" =>
          dpc[e] = "invalidate" /\ todo'[e] = todo[e] /\ stamp'[e] = stamp[e]
        BY <1>4, <2>1, CommitFacts
  <2> QED BY <1>4, <2>4, <2>5, CommitFacts DEF CountInv
<1>5. ASSUME NEW d \in Deleters, Revise(d) PROVE CountInv'
  <2>1. /\ UNCHANGED <<generation, deletedRevision, deletions, todo>>
        /\ revision' = revision + 1 /\ stamp'[d] = revision + 1 /\ dpc[d] = "revise" /\ dpc'[d] = "invalidate"
        BY <1>5 DEF Revise, history
  <2>2. \A e \in Deleters \ {d} : dpc'[e] = dpc[e] /\ stamp'[e] = stamp[e]
        BY <1>5, OthersFrame DEF DeletionStep, PromptStep
  <2>3. \A u \in Users : Pending(u)' <=> Pending(u)
        BY <2>1, <2>2 DEF Pending
  <2>4. ASSUME NEW e \in Deleters, dpc'[e] = "invalidate"
        PROVE  stamp'[e] <= revision' /\ \A u \in todo'[e] : deletedRevision'[u] < stamp'[e]
    <3>1. CASE e = d BY <2>1, <3>1 DEF CountInv
    <3>2. CASE e # d BY <2>1, <2>2, <2>4, <3>2 DEF CountInv
    <3> QED BY <3>1, <3>2
  <2> QED BY <2>1, <2>3, <2>4 DEF CountInv
<1>6. ASSUME NEW d \in Deleters, NEW u \in Users, Invalidate(d, u) PROVE CountInv'
  <2>1. /\ UNCHANGED <<revision, dpc, stamp, deletions>>
        /\ dpc[d] = "invalidate" /\ u \in todo[d] /\ todo'[d] = todo[d] \ {u}
        /\ generation'[u] = generation[u] + 1 /\ deletedRevision'[u] = stamp[d]
        /\ \A v \in Users \ {u} : generation'[v] = generation[v] /\ deletedRevision'[v] = deletedRevision[v]
        /\ \A e \in Deleters \ {d} : todo'[e] = todo[e]
        BY <1>6 DEF Invalidate, history
  <2>2. \A e \in Deleters \ {d} : u \notin todo[e]
        BY <2>1 DEF CommitInv, GateInv, Gate, Claimed
  <2>3. Pending(u) /\ ~Pending(u)'
        BY <2>1, <2>2 DEF Pending
  <2>4. \A v \in Users \ {u} : Pending(v)' <=> Pending(v)
        BY <2>1 DEF Pending
  <2>5. \A v \in Users : deletions'[v] = generation'[v] + (IF Pending(v)' THEN 1 ELSE 0)
    <3>1. deletions'[u] = generation'[u] + (IF Pending(u)' THEN 1 ELSE 0)
          BY <2>1, <2>3 DEF CountInv
    <3>2. ASSUME NEW v \in Users \ {u}
          PROVE deletions'[v] = generation'[v] + (IF Pending(v)' THEN 1 ELSE 0)
          BY <2>1, <2>4 DEF CountInv
    <3> QED BY <3>1, <3>2
  <2>6. \A v \in Users : deletedRevision'[v] <= revision' /\ (deletedRevision'[v] > 0 => generation'[v] > 0)
    <3>1. ASSUME NEW v \in Users \ {u}
          PROVE  deletedRevision'[v] <= revision' /\ (deletedRevision'[v] > 0 => generation'[v] > 0)
          BY <2>1 DEF CountInv
    <3>2. deletedRevision'[u] <= revision' BY <2>1 DEF CountInv
    <3>3. generation'[u] > 0 BY <2>1
    <3> QED BY <3>1, <3>2, <3>3
  <2>7. ASSUME NEW e \in Deleters, dpc'[e] = "invalidate"
        PROVE  stamp'[e] <= revision' /\ \A v \in todo'[e] : deletedRevision'[v] < stamp'[e]
    <3>1. u \notin todo'[e] /\ todo'[e] \subseteq todo[e]
          BY <2>1, <2>2
    <3> QED BY <2>1, <2>7, <3>1 DEF CountInv
  <2> QED BY <2>5, <2>6, <2>7 DEF CountInv
<1>7. ASSUME NEW d \in Deleters, Invalidated(d) PROVE CountInv'
  <2>1. /\ UNCHANGED <<revision, generation, deletedRevision, deletions, todo>>
        /\ todo[d] = {} /\ dpc'[d] = "release"
        BY <1>7 DEF Invalidated, registry, history
  <2>2. \A e \in Deleters \ {d} : dpc'[e] = dpc[e] /\ stamp'[e] = stamp[e]
        BY <1>7, OthersFrame DEF DeletionStep, PromptStep
  <2>3. \A u \in Users : Pending(u)' <=> Pending(u)
        BY <2>1, <2>2 DEF Pending
  <2> QED BY <2>1, <2>2, <2>3 DEF CountInv
<1>8. ASSUME NEW d \in Deleters, DeletionStep(d) \/ (\E u \in Users : Request(d, u)),
             ~Commit(d), ~Revise(d), ~Invalidated(d), ~(\E u \in Users : Invalidate(d, u))
      PROVE  CountInv'
  <2>1. \A e \in Deleters \ {d} : dpc'[e] = dpc[e]
        BY <1>8, OthersFrame
  <2>2. /\ UNCHANGED <<revision, generation, deletedRevision, deletions, todo, stamp>>
        /\ dpc[d] \notin {"revise", "invalidate"} /\ dpc'[d] \notin {"revise", "invalidate"}
        BY <1>8, QuietStep
  <2>3. \A u \in Users : Pending(u)' <=> Pending(u)
        BY <2>1, <2>2 DEF Pending
  <2>4. \A e \in Deleters : dpc'[e] = "invalidate" => dpc[e] = "invalidate"
        BY <2>1, <2>2
  <2> QED BY <2>2, <2>3, <2>4 DEF CountInv
<1> QED BY <1>2, <1>3, <1>4, <1>5, <1>6, <1>7, <1>8 DEF Next

\* A deletion newer than r stays visible as one.
LEMMA DeletedSinceStep ==
  ASSUME TypeOK, TargetInv, PhaseInv, GateInv, CommitInv, CountInv, [Next]_vars,
         NEW u \in Users, NEW r \in Nat, r <= revision, DeletedSince(u, r)
  PROVE  DeletedSince(u, r)'
<1> USE DEF TypeOK, TypeGates, TypeDeletion, TypeScopes
<1>1. ASSUME UNCHANGED <<registry, dpc, todo, stamp>> PROVE DeletedSince(u, r)'
      BY <1>1 DEF registry, DeletedSince
<1>2. ASSUME NEW w \in Workers, WorkStep(w) PROVE DeletedSince(u, r)'
      BY <1>1, <1>2, WorkFrame
<1>3. CASE UNCHANGED vars BY <1>1, <1>3 DEF vars, deletion
<1>4. ASSUME NEW d \in Deleters, DeletionStep(d) \/ (\E v \in Users : Request(d, v)),
             UNCHANGED deletedRevision, todo[d] = {} \/ dpc[d] \notin {"revise", "invalidate"}
      PROVE  DeletedSince(u, r)'
  <2>1. \A e \in Deleters \ {d} : dpc'[e] = dpc[e] /\ todo'[e] = todo[e] /\ stamp'[e] = stamp[e]
        BY <1>4, OthersFrame
  <2> QED BY <1>4, <2>1 DEF DeletedSince
<1>5. ASSUME NEW d \in Deleters, Commit(d) PROVE DeletedSince(u, r)'
      BY <1>4, <1>5, CommitFacts DEF DeletionStep, PromptStep
<1>6. ASSUME NEW d \in Deleters, Revise(d) PROVE DeletedSince(u, r)'
  <2>1. /\ UNCHANGED <<deletedRevision, todo>>
        /\ stamp'[d] = revision + 1 /\ dpc[d] = "revise" /\ dpc'[d] = "invalidate"
        BY <1>6 DEF Revise
  <2>2. \A e \in Deleters \ {d} : dpc'[e] = dpc[e] /\ stamp'[e] = stamp[e]
        BY <1>6, OthersFrame DEF DeletionStep, PromptStep
  <2>3. stamp'[d] > r BY <2>1
  <2> QED BY <2>1, <2>2, <2>3 DEF DeletedSince
<1>7. ASSUME NEW d \in Deleters, NEW v \in Users, Invalidate(d, v) PROVE DeletedSince(u, r)'
  <2>1. /\ UNCHANGED <<revision, dpc, stamp>>
        /\ dpc[d] = "invalidate" /\ v \in todo[d] /\ todo'[d] = todo[d] \ {v}
        /\ deletedRevision'[v] = stamp[d]
        /\ \A x \in Users \ {v} : deletedRevision'[x] = deletedRevision[x]
        /\ \A e \in Deleters \ {d} : todo'[e] = todo[e] /\ v \notin todo[e]
        BY <1>7, TodoDisjoint DEF Invalidate, CommitInv
  <2>2. deletedRevision[v] < stamp[d] BY <2>1 DEF CountInv
  <2>3. CASE u # v
    <3>1. deletedRevision'[u] = deletedRevision[u] BY <2>1, <2>3
    <3>2. \A e \in Deleters : u \in todo[e] => u \in todo'[e] BY <2>1, <2>3
    <3> QED BY <2>1, <3>1, <3>2 DEF DeletedSince
  <2>4. CASE u = v
    <3>1. stamp[d] > r BY <2>1, <2>2, <2>4 DEF DeletedSince
    <3> QED BY <2>1, <2>4, <3>1 DEF DeletedSince
  <2> QED BY <2>3, <2>4
<1>8. ASSUME NEW d \in Deleters, Invalidated(d) PROVE DeletedSince(u, r)'
      BY <1>4, <1>8 DEF Invalidated, registry, DeletionStep, PromptStep
<1>9. ASSUME NEW d \in Deleters, DeletionStep(d) \/ (\E v \in Users : Request(d, v)),
             ~Commit(d), ~Revise(d), ~Invalidated(d), ~(\E v \in Users : Invalidate(d, v))
      PROVE  DeletedSince(u, r)'
      BY <1>4, <1>9, QuietStep
<1> QED BY <1>2, <1>3, <1>5, <1>6, <1>7, <1>8, <1>9 DEF Next

\* What a thread read stays revealed as long as it reads nothing else.
LEMMA RevealsStep ==
  ASSUME TypeOK, TargetInv, PhaseInv, GateInv, CommitInv, CountInv, [Next]_vars,
         NEW w \in Workers, NEW r \in Revealing(w), seen'[w] = seen[w]
  PROVE  r \in Revealing(w)'
<1> USE DEF TypeOK, TypeGates
<1>1. revision \in Nat /\ revision <= revision' /\ revision' \in Nat
      BY DeletionFrame, WorkFrame DEF Next, registry, vars
<1>2. r \in Nat /\ r <= revision /\ Reveals(w, r) BY <1>1 DEF Revealing
<1>3. ASSUME NEW u \in Users, deletions'[u] = deletions[u], seen[w][u] # deletions[u]
      PROVE  DeletedSince(u, r)'
      BY <1>2, <1>3, DeletedSinceStep DEF Reveals
<1>4. ASSUME NEW u \in Users, deletions'[u] # deletions[u] PROVE DeletedSince(u, r)'
  <2>1. ASSUME NEW d \in Deleters, Commit(d) PROVE DeletedSince(u, r)'
        BY <1>4, <2>1, CommitFacts DEF DeletedSince
  <2>2. ASSUME NEW d \in Deleters, DeletionStep(d) \/ (\E v \in Users : Request(d, v)), ~Commit(d)
        PROVE  deletions' = deletions
        BY <2>2 DEF DeletionStep, PromptStep, Request, Resolve, Reenter, Close, Drained, Timeout, Recheck,
           CommitFails, Revise, Invalidate, Invalidated, Release, Unwind, history
  <2> QED BY <1>4, <2>1, <2>2, WorkFrame DEF Next, vars, history
<1>5. Reveals(w, r)' BY <1>3, <1>4 DEF Reveals
<1> QED BY <1>1, <1>2, <1>5 DEF Revealing

\* An earlier start reveals more.
LEMMA RevealingDown ==
  ASSUME TypeOK, NEW w \in Workers, NEW r \in Revealing(w), NEW q \in Nat, q <= r
  PROVE  q \in Revealing(w)
<1> USE DEF TypeOK, TypeGates, TypeDeletion
<1>1. r \in Nat /\ r <= revision /\ Reveals(w, r)
      BY DEF Revealing
<1>2. ASSUME NEW u \in Users, DeletedSince(u, r) PROVE DeletedSince(u, q)
      BY <1>1, <1>2 DEF DeletedSince
<1>3. Reveals(w, q)
      BY <1>1, <1>2 DEF Reveals
<1> QED BY <1>1, <1>3 DEF Revealing

\* A marked capture starts where it reveals.
LEMMA CaptureReveals ==
  ASSUME TypeOK, NEW w \in Workers, MarkedIn(w, Revealing(w)), NEW s \in {started[w], None},
         wpc[w] = "running", Marked(w, s)
  PROVE  EffectiveStart(w, s) \in Revealing(w)
<1> USE NoneAssumption DEF TypeOK, TypeWork, Revision
<1>1. CASE s = None
  <2>1. workRevision[w] \in Revealing(w)
        BY <1>1 DEF Marked, MarkedIn
  <2>2. workRevision[w] # None
        BY <2>1 DEF Revealing
  <2> QED BY <1>1, <2>1, <2>2 DEF EffectiveStart
<1>2. CASE s # None
  <2>1. s \in Revealing(w) /\ s \in Nat
        BY <1>2 DEF MarkedIn
  <2>2. EffectiveStart(w, s) \in Nat /\ EffectiveStart(w, s) <= s
        BY <1>2, <2>1 DEF EffectiveStart, Lesser
  <2> QED BY <2>1, <2>2, RevealingDown
<1> QED BY <1>1, <1>2

\* Reading a user's data again makes the thread's view newer.
LEMMA RereadReveals ==
  ASSUME TypeOK, NEW w \in Workers, NEW u \in Users, Reread(w, u), NEW r \in Revealing(w)
  PROVE  r \in Revealing(w)'
<1> USE DEF TypeOK, TypeWork, TypeData
<1>1. UNCHANGED <<revision, deletedRevision, dpc, todo, stamp, deletions>>
      BY DEF Reread, registry, deletion
<1>2. \A v \in Users : seen'[w][v] = IF v = u THEN deletions[v] ELSE seen[w][v]
      BY DEF Reread
<1>3. r \in 0 .. revision /\ Reveals(w, r)
      BY DEF Revealing
<1>4. \A v \in Users : DeletedSince(v, r)' <=> DeletedSince(v, r)
      BY <1>1 DEF DeletedSince
<1>5. Reveals(w, r)'
      BY <1>1, <1>2, <1>3, <1>4 DEF Reveals
<1> QED BY <1>1, <1>3, <1>5 DEF Revealing

LEMMA RevealStep ==
  ASSUME TypeOK, TargetInv, PhaseInv, GateInv, CommitInv, CountInv, WorkerInv, RevealInv, [Next]_vars
  PROVE  RevealInv'
<1> USE NoneAssumption DEF TypeOK, TypeWork, TypeGates, Revision
<1>0. ASSUME NEW w \in Workers, NEW R, R = Revealing(w), MarkedIn(w, R)',
             \A r \in R : r \in Revealing(w)'
      PROVE  MarkedIn(w, Revealing(w))'
      BY <1>0 DEF MarkedIn
<1>1. ASSUME NEW w \in Workers, seen'[w] = seen[w], wpc'[w] = wpc[w], started'[w] = started[w],
             workRevision'[w] = workRevision[w], stack'[w] = stack[w], lease'[w] = lease[w]
      PROVE  MarkedIn(w, Revealing(w))'
  <2>1. PICK R : R = Revealing(w) OBVIOUS
  <2>2. MarkedIn(w, R) BY <2>1 DEF RevealInv
  <2>3. MarkedIn(w, R)' BY <1>1, <2>2 DEF MarkedIn
  <2>4. \A r \in R : r \in Revealing(w)' BY <1>1, <2>1, RevealsStep
  <2> QED BY <1>0, <2>1, <2>3, <2>4
<1>2. ASSUME UNCHANGED <<work, seen>> PROVE RevealInv'
      BY <1>1, <1>2 DEF RevealInv, work
<1>3. ASSUME NEW d \in Deleters, DeletionStep(d) \/ \E u \in Users : Request(d, u) PROVE RevealInv'
      BY <1>2, <1>3, DeletionFrame DEF views
<1>4. CASE UNCHANGED vars BY <1>2, <1>4 DEF vars, history, views
<1>5. ASSUME NEW w \in Workers, WorkStep(w) PROVE RevealInv'
  <2> DEFINE Same(v) == /\ seen'[v] = seen[v] /\ wpc'[v] = wpc[v] /\ started'[v] = started[v]
                        /\ workRevision'[v] = workRevision[v] /\ stack'[v] = stack[v]
                        /\ lease'[v] = lease[v]
  <2>r. Revealing(w) \in SUBSET Nat BY DEF Revealing
  <2>R. PICK R \in SUBSET Nat : R = Revealing(w) BY <2>r
  <2>S. MarkedIn(w, R) BY <2>R DEF RevealInv
  <2>D. \A r \in R, q \in Nat : q <= r => q \in R BY <2>R, RevealingDown
  <2>0. ASSUME \A v \in Workers \ {w} : Same(v), MarkedIn(w, Revealing(w))' PROVE RevealInv'
        BY <1>1, <2>0 DEF RevealInv
  <2>T. ASSUME \A v \in Workers \ {w} : Same(v), seen'[w] = seen[w], MarkedIn(w, R)' PROVE RevealInv'
    <3>1. \A r \in R : r \in Revealing(w)' BY <2>R, <2>T, RevealsStep
    <3> QED BY <1>0, <2>R, <2>0, <2>T, <3>1
  <2>1. ASSUME NEW s \in {revision, None}, Begin(w, s) PROVE RevealInv'
    <3>1. wpc'[w] = "reading" /\ stack'[w] = <<>>
          BY <2>1 DEF Begin, WorkerInv
    <3>2. \A v \in Workers \ {w} : Same(v) BY <2>1 DEF Begin, history, views
    <3> QED BY <2>0, <3>1, <3>2 DEF MarkedIn
  <2>2. CASE ReadInputs(w)
    <3>1. /\ wpc'[w] = "running" /\ stack'[w] = <<>>
          /\ started'[w] = started[w] /\ (started[w] # None => started[w] \in Nat /\ started[w] <= revision)
          /\ revision' = revision /\ seen'[w] = deletions /\ deletions' = deletions
          BY <2>2 DEF ReadInputs, WorkerInv, registry
    <3>2. \A v \in Workers \ {w} : Same(v) BY <2>2 DEF ReadInputs
    <3>3. started'[w] \in Revealing(w)' \cup {None} BY <3>1 DEF Revealing, Reveals
    <3> QED BY <2>0, <3>1, <3>2, <3>3 DEF MarkedIn
  <2>3. ASSUME NEW u \in Users, NEW s \in {started[w], None}, Capture(w, u, s) PROVE RevealInv'
    <3>1. /\ UNCHANGED <<seen, started, stack, workRevision>> /\ wpc[w] = "running"
          /\ lease'[w] = CapturedLease(w, u, s)
          BY <2>3 DEF Capture, history, views
    <3>2. \A v \in Workers \ {w} : Same(v) BY <2>3 DEF Capture, history, views
    <3>3. lease'[w].marked <=> Marked(w, s) BY <3>1 DEF CapturedLease
    <3>4. lease'[w].revision = EffectiveStart(w, s) BY <3>1 DEF CapturedLease
    <3>5. lease'[w].marked => lease'[w].revision \in R
          BY <2>S, <2>R, <3>1, <3>3, <3>4, CaptureReveals
    <3> QED BY <2>S, <2>T, <3>1, <3>2, <3>5 DEF MarkedIn
  <2>4. CASE Admit(w)
    <3>0. PICK f : f = [user |-> lease[w].user, marked |-> lease[w].marked, prior |-> workRevision[w]]
          OBVIOUS
    <3>1. /\ UNCHANGED <<seen, started>> /\ wpc[w] = "entering" /\ wpc'[w] = "running"
          /\ stack'[w] = Append(stack[w], f) /\ stack[w] \in Seq(Frame)
          /\ workRevision'[w] = IF workRevision[w] = None THEN lease[w].revision
                                ELSE Lesser(workRevision[w], lease[w].revision)
          BY <2>4, <3>0 DEF Admit, history, views
    <3>2. \A v \in Workers \ {w} : Same(v) BY <2>4 DEF Admit, history, views
    <3>3. lease[w] \in Lease /\ f \in Frame /\ lease[w].revision \in Nat
          BY <3>0, <3>1 DEF WorkerInv, Frame, Lease
    <3>4. /\ DOMAIN stack'[w] = DOMAIN stack[w] \cup {Len(stack[w]) + 1}
          /\ \A i \in DOMAIN stack[w] : stack'[w][i] = stack[w][i]
          /\ stack'[w][Len(stack[w]) + 1] = f
          BY <3>1, <3>3, Pushed
    <3>d. DOMAIN stack[w] = 1 .. Len(stack[w]) /\ Len(stack[w]) \in Nat
          BY <3>1
    <3>5. ASSUME NEW i \in DOMAIN stack[w], stack[w][i].marked PROVE workRevision[w] \in R
          BY <2>S, <3>5 DEF MarkedIn
    <3>6. f.marked => lease[w].revision \in R
          BY <2>S, <3>0, <3>1 DEF MarkedIn
    <3>7. ASSUME NEW i \in DOMAIN stack'[w], stack'[w][i].marked PROVE workRevision'[w] \in R
      <4>1. workRevision'[w] \in Nat /\ workRevision'[w] <= lease[w].revision
            BY <3>1, <3>3 DEF Lesser
      <4>2. CASE i = Len(stack[w]) + 1
            BY <2>D, <3>4, <3>6, <3>7, <4>1, <4>2
      <4>3. CASE i \in DOMAIN stack[w]
        <5>1. workRevision[w] \in R
              BY <3>4, <3>5, <3>7, <4>3
        <5>2. workRevision[w] \in Nat /\ workRevision[w] # None
              BY <5>1, <2>R
        <5>3. workRevision'[w] <= workRevision[w]
              BY <3>1, <3>3, <5>2 DEF Lesser
        <5> QED BY <2>D, <4>1, <5>1, <5>3
      <4> QED BY <3>4, <4>2, <4>3
    <3>8. ASSUME NEW i \in DOMAIN stack'[w], NEW j \in DOMAIN stack'[w], i < j, stack'[w][i].marked
          PROVE  stack'[w][j].prior \in R
      <4>1. i \in DOMAIN stack[w]
            BY <3>4, <3>8, <3>d
      <4>2. stack[w][i].marked
            BY <3>4, <3>8, <4>1
      <4>3. CASE j \in DOMAIN stack[w]
            BY <2>S, <3>4, <3>8, <4>1, <4>2, <4>3 DEF MarkedIn
      <4>4. CASE j = Len(stack[w]) + 1
            BY <3>0, <3>4, <3>5, <4>1, <4>2, <4>4
      <4> QED BY <3>4, <4>3, <4>4
    <3>9. started'[w] \in R \cup {None} BY <2>S, <3>1 DEF MarkedIn
    <3>10. MarkedIn(w, R)' BY <3>1, <3>7, <3>8, <3>9 DEF MarkedIn
    <3> QED BY <2>T, <3>1, <3>2, <3>10
  <2>5. CASE Refuse(w)
    <3>1. /\ UNCHANGED <<seen, started, stack, workRevision>> /\ wpc[w] = "entering" /\ wpc'[w] = "running"
          BY <2>5 DEF Refuse, history, views
    <3>2. \A v \in Workers \ {w} : Same(v) BY <2>5 DEF Refuse, history, views
    <3> QED BY <2>S, <2>T, <3>1, <3>2 DEF MarkedIn
  <2>6. ASSUME NEW child \in Workers, Spawn(w, child) PROVE RevealInv'
    <3>1. /\ UNCHANGED <<started, stack, workRevision>> /\ seen'[child] = seen[w] /\ seen'[w] = seen[w]
          /\ wpc[w] = "entering" /\ wpc[child] = "idle" /\ w # child
          /\ wpc'[w] = "running" /\ wpc'[child] = "entering" /\ lease'[child] = lease[w]
          BY <2>6 DEF Spawn
    <3>2. \A v \in Workers \ {w, child} : Same(v) BY <2>6 DEF Spawn
    <3>3. MarkedIn(w, R)' BY <2>S, <3>1 DEF MarkedIn
    <3>r. \A r \in R : r \in Revealing(w)' BY <2>R, <3>1, RevealsStep
    <3>4. MarkedIn(w, Revealing(w))' BY <1>0, <2>R, <3>r, <3>3
    <3>5. lease'[child].marked => lease'[child].revision \in Revealing(child)'
      <4>1. lease[w].marked => lease[w].revision \in R BY <2>S, <3>1 DEF MarkedIn
      <4>2. lease'[child].marked => lease'[child].revision \in Revealing(w)' BY <3>1, <3>r, <4>1
      <4> QED BY <3>1, <4>2 DEF Revealing, Reveals
    <3>6. started[child] = None /\ stack[child] = <<>>
          BY <3>1 DEF WorkerInv
    <3>7. MarkedIn(child, Revealing(child))' BY <3>1, <3>5, <3>6 DEF MarkedIn
    <3>8. \A v \in Workers \ {w, child} : MarkedIn(v, Revealing(v))' BY <1>1, <3>2
    <3> QED BY <3>4, <3>7, <3>8 DEF RevealInv
  <2>7. ASSUME NEW u \in Users, Write(w, u) PROVE RevealInv'
        BY <1>2, <2>7 DEF Write, history, views
  <2>11. ASSUME NEW u \in Users, Reread(w, u) PROVE RevealInv'
    <3>1. UNCHANGED work /\ \A v \in Workers \ {w} : seen'[v] = seen[v]
          BY <2>11 DEF Reread
    <3>2. \A r \in R : r \in Revealing(w)' BY <2>R, <2>11, RereadReveals
    <3>3. MarkedIn(w, R)' BY <2>S, <3>1 DEF MarkedIn, work
    <3>4. MarkedIn(w, Revealing(w))' BY <1>0, <2>R, <3>2, <3>3
    <3> QED BY <2>0, <3>1, <3>4 DEF work
  <2>8. ASSUME NEW u \in Users, NEW v \in Users, Bind(w, u, v) PROVE RevealInv'
        BY <1>2, <2>8 DEF Bind, history, views
  <2>9. CASE Exit(w)
    <3>1. /\ UNCHANGED <<seen, started, lease>> /\ wpc[w] = "running" /\ wpc'[w] = "running"
          /\ stack[w] # <<>> /\ stack[w] \in Seq(Frame)
          /\ stack'[w] = SubSeq(stack[w], 1, Len(stack[w]) - 1)
          /\ workRevision'[w] = stack[w][Len(stack[w])].prior
          BY <2>9 DEF Exit
    <3>2. \A v \in Workers \ {w} : Same(v) BY <2>9 DEF Exit
    <3>3. /\ Len(stack[w]) \in DOMAIN stack[w] /\ DOMAIN stack'[w] \subseteq DOMAIN stack[w]
          /\ DOMAIN stack'[w] = 1 .. Len(stack[w]) - 1 /\ Len(stack[w]) \in Nat
          /\ \A i \in DOMAIN stack'[w] : stack'[w][i] = stack[w][i]
          BY <3>1, Popped
    <3>4. ASSUME NEW i \in DOMAIN stack'[w], stack'[w][i].marked PROVE workRevision'[w] \in R
      <4>1. i < Len(stack[w]) /\ i \in DOMAIN stack[w] /\ stack[w][i].marked
            BY <3>3, <3>4
      <4> QED BY <2>S, <3>1, <3>3, <4>1 DEF MarkedIn
    <3>5. MarkedIn(w, R)' BY <2>S, <3>1, <3>3, <3>4 DEF MarkedIn
    <3> QED BY <2>T, <3>1, <3>2, <3>5
  <2>10. CASE Finish(w)
    <3>1. wpc'[w] = "idle" /\ stack'[w] = <<>>
          BY <2>10 DEF Finish
    <3>2. \A v \in Workers \ {w} : Same(v) BY <2>10 DEF Finish
    <3> QED BY <2>0, <3>1, <3>2 DEF MarkedIn
  <2> QED BY <1>5, <2>1, <2>2, <2>3, <2>4, <2>5, <2>6, <2>7, <2>8, <2>9, <2>10, <2>11 DEF WorkStep
<1> QED BY <1>3, <1>4, <1>5 DEF Next

\* What a thread has read again, it holds.
LEMMA FreshStep ==
  ASSUME TypeOK, WorkerInv, FreshInv, [Next]_vars
  PROVE  FreshInv'
<1>1. ASSUME NEW w \in Workers, Admit(w) PROVE FreshInv'
      BY <1>1, HeldAdmit DEF FreshInv, Admit, history, views
<1>2. ASSUME NEW w \in Workers, Exit(w) PROVE FreshInv'
  <2>1. fresh'[w] \subseteq Held(w)' /\ \A v \in Workers \ {w} : fresh'[v] = fresh[v]
        BY <1>2 DEF Exit, TypeOK, TypeWork
  <2> QED BY <1>2, <2>1, HeldExit DEF FreshInv
<1>3. ASSUME NEW w \in Workers, WorkStep(w), ~Admit(w), ~Exit(w) PROVE FreshInv'
  <2>1. \A v \in Workers : Held(v)' = Held(v) BY <1>3, HeldOther DEF Held
  <2>2. ASSUME NEW u \in Users, Reread(w, u) PROVE FreshInv'
        BY <2>1, <2>2 DEF Reread, FreshInv, TypeOK, TypeWork
  <2>3. CASE ~\E u \in Users : Reread(w, u)
    <3>1. fresh' = fresh
          BY <1>3, <2>3 DEF WorkStep, Begin, ReadInputs, Capture, Refuse, Spawn, Write, Bind, Finish,
             history, views
    <3> QED BY <2>1, <3>1 DEF FreshInv
  <2> QED BY <2>2, <2>3
<1>4. ASSUME UNCHANGED <<work, views>> PROVE FreshInv'
      BY <1>4 DEF FreshInv, Held, work, views
<1> QED BY <1>1, <1>2, <1>3, <1>4, DeletionFrame DEF Next, vars, history

\* A user somebody is deleting is closed to every work thread.
LEMMA PendingIsClosed ==
  ASSUME TypeOK, PhaseInv, GateInv, CommitInv, ReaderInv, NEW u \in Users, Pending(u),
         NEW w \in Workers
  PROVE  ~MayPass(w, u)
<1>1. PICK d \in Deleters : dpc[d] \in {"revise", "invalidate"} /\ u \in todo[d] BY DEF Pending
<1>2. u \in acquired[d][2] BY <1>1 DEF CommitInv
<1>3. owner[u] = d /\ Readers(u) = {} BY <1>1, <1>2, CommitOwns
<1>4. deleting[u] BY <1>2 DEF GateInv, Gate, Claimed
<1> QED BY <1>3, <1>4, ThreadsAssumption DEF MayPass

LEMMA LeaseStep ==
  ASSUME TypeOK, TargetInv, PhaseInv, GateInv, CommitInv, CountInv, WorkerInv, RevealInv, LeaseInv,
         [Next]_vars
  PROVE  LeaseInv'
<1> USE NoneAssumption DEF TypeOK, TypeWork, TypeGates, TypeData
<1>0. \A w \in Workers : wpc[w] = "entering" =>
        lease[w] \in Lease /\ lease[w].user \in Users /\ lease[w].generation \in Nat \cup {-1}
      BY DEF WorkerInv, Lease
<1>S. ASSUME NEW w \in Workers, UNCHANGED <<generation, deletions>>, wpc[w] = "entering",
             lease'[w] = lease[w], seen'[w] = seen[w]
      PROVE  LeaseGood(w)'
  <2>1. LeaseGood(w) BY <1>S DEF LeaseInv
  <2>2. PICK l : l = lease[w] OBVIOUS
  <2>3. PICK m \in BOOLEAN : m <=> l.marked OBVIOUS
  <2> QED BY <1>S, <2>1, <2>2, <2>3 DEF LeaseGood
<1>1. ASSUME NEW w \in Workers, NEW u \in Users, NEW s \in {started[w], None}, Capture(w, u, s)
      PROVE  LeaseInv'
  <2>1. /\ UNCHANGED <<generation, deletions, seen>> /\ wpc[w] = "running"
        /\ lease'[w] = CapturedLease(w, u, s)
        /\ \A v \in Workers \ {w} : wpc'[v] = wpc[v] /\ lease'[v] = lease[v]
        BY <1>1 DEF Capture, registry, history, views
  <2>2. PICK r : r = EffectiveStart(w, s) OBVIOUS
  <2>3. r \in Nat
        BY <1>1, <2>2 DEF EffectiveStart, Lesser, Revision
  <2>4. Marked(w, s) /\ seen[w][u] # deletions[u] => DeletedSince(u, r)
    <3>1. MarkedIn(w, Revealing(w)) BY DEF RevealInv
    <3>2. Marked(w, s) => r \in Revealing(w) BY <2>1, <2>2, <3>1, CaptureReveals
    <3> QED BY <3>2 DEF Revealing, Reveals
  <2>5. /\ lease'[w].user = u
        /\ lease'[w].generation = IF deletedRevision[u] > r THEN -1 ELSE generation[u]
        /\ lease'[w].marked = Marked(w, s)
        BY <2>1, <2>2 DEF CapturedLease
  <2>6. /\ lease'[w].generation <= generation[u]
        /\ lease'[w].generation = -1 => generation[u] > 0
        BY <2>3, <2>5 DEF CountInv
  <2>7. ASSUME lease'[w].marked, lease'[w].generation = deletions[u] PROVE seen[w][u] = deletions[u]
    <3>1. ~Pending(u) /\ ~(deletedRevision[u] > r) BY <2>3, <2>5, <2>7 DEF CountInv
    <3>2. ~DeletedSince(u, r) BY <3>1 DEF DeletedSince, Pending
    <3> QED BY <2>4, <2>5, <2>7, <3>2
  <2>8. ASSUME NEW v \in Workers \ {w}, wpc'[v] = "entering" PROVE LeaseGood(v)'
        BY <1>S, <2>1, <2>8
  <2>9. LeaseGood(w)'
        BY <2>1, <2>5, <2>6, <2>7 DEF LeaseGood
  <2> QED BY <2>8, <2>9 DEF LeaseInv
<1>2. ASSUME NEW w \in Workers, NEW child \in Workers, Spawn(w, child) PROVE LeaseInv'
      BY <1>0, <1>2 DEF Spawn, registry, LeaseInv, LeaseGood
<1>3. ASSUME NEW w \in Workers, WorkStep(w), ~(\E u \in Users, s \in {started[w], None} : Capture(w, u, s)),
             ~(\E child \in Workers : Spawn(w, child))
      PROVE  LeaseInv'
  <2>1. /\ UNCHANGED <<generation, deletions>>
        /\ \A v \in Workers : wpc'[v] = "entering" =>
             wpc[v] = "entering" /\ lease'[v] = lease[v] /\ seen'[v] = seen[v]
        BY <1>3 DEF WorkStep, Begin, ReadInputs, Admit, Refuse, Reread, Write, Bind, Exit, Finish, registry,
           history, views, work
  <2> QED BY <1>S, <2>1 DEF LeaseInv
<1>4. ASSUME NEW d \in Deleters, Commit(d) PROVE LeaseInv'
  <2>1. UNCHANGED <<work, seen, generation>> BY <1>4 DEF Commit, registry, views
  <2>2. \A u \in Users : deletions'[u] \in {deletions[u], generation[u] + 1}
        BY <1>4, CommitFacts DEF CountInv
  <2>3. ASSUME NEW w \in Workers, wpc[w] = "entering", lease[w].generation = deletions'[lease[w].user]
        PROVE  deletions'[lease[w].user] = deletions[lease[w].user]
        BY <1>0, <2>2, <2>3 DEF LeaseInv, LeaseGood
  <2> QED BY <1>0, <2>1, <2>3 DEF LeaseInv, LeaseGood, work
<1>5. ASSUME NEW d \in Deleters, NEW u \in Users, Invalidate(d, u) PROVE LeaseInv'
      BY <1>0, <1>5 DEF Invalidate, LeaseInv, LeaseGood, work, history, views
<1>6. ASSUME NEW d \in Deleters, DeletionStep(d) \/ (\E u \in Users : Request(d, u)), ~Commit(d),
             ~(\E u \in Users : Invalidate(d, u))
      PROVE  LeaseInv'
  <2>1. UNCHANGED <<work, seen, generation, deletions>>
        BY <1>6 DEF DeletionStep, PromptStep, Request, Resolve, Reenter, Close, Drained, Timeout, Recheck,
           CommitFails, Revise, Invalidated, Release, Unwind, registry, history, views
  <2> QED BY <1>S, <2>1 DEF LeaseInv, work
<1>7. CASE UNCHANGED vars BY <1>S, <1>7 DEF vars, LeaseInv, work, registry, history, views
<1>8. ASSUME NEW w \in Workers, WorkStep(w) PROVE LeaseInv'
  <2>1. CASE \E u \in Users, s \in {started[w], None} : Capture(w, u, s)
    <3>1. PICK u \in Users, s \in {started[w], None} : Capture(w, u, s) BY <2>1
    <3> QED BY <1>1, <3>1
  <2>2. CASE \E child \in Workers : Spawn(w, child)
        BY <1>2, <2>2
  <2> QED BY ONLY <1>3, <1>8, <2>1, <2>2
<1>9. ASSUME NEW d \in Deleters, DeletionStep(d) \/ (\E u \in Users : Request(d, u)) PROVE LeaseInv'
      BY <1>4, <1>5, <1>6, <1>9
<1> QED BY <1>7, <1>8, <1>9 DEF Next

LEMMA HeldStep ==
  ASSUME TypeOK, TargetInv, PhaseInv, GateInv, CommitInv, ReaderInv, CountInv, WorkerInv, FreshInv,
         LeaseInv, HeldInv, [Next]_vars
  PROVE  HeldInv'
<1> USE DEF TypeOK, TypeWork, TypeGates, TypeData
<1>0. ASSUME NEW w \in Workers PROVE Held(w) \subseteq Users
  <2>1. \A i \in DOMAIN stack[w] : stack[w][i] \in Frame OBVIOUS
  <2> QED BY <2>1 DEF Held, Frame
\* The step of another thread, or one that leaves views and leases alone.
<1>S. ASSUME NEW w \in Workers, stack'[w] = stack[w], seen'[w] = seen[w], fresh'[w] = fresh[w],
             \A u \in Held(w) : deletions'[u] = deletions[u]
      PROVE  \A u \in Held(w)' : Vouched(w, u)' => seen'[w][u] = deletions'[u]
      BY <1>S DEF HeldInv, Held, Vouched
<1>1. ASSUME NEW w \in Workers, Admit(w) PROVE HeldInv'
  <2>1. UNCHANGED <<seen, deletions, fresh>> /\ \A v \in Workers \ {w} : stack'[v] = stack[v]
        BY <1>1 DEF Admit, history, views
  <2>2. PICK u \in Users : u = lease[w].user BY <1>1, HeldAdmit DEF Lease
  <2> DEFINE f == [user |-> lease[w].user, marked |-> lease[w].marked, prior |-> workRevision[w]]
  <2>f. f \in Frame BY <1>1, HeldAdmit DEF Lease, Frame
  <2>4. stack'[w] = Append(stack[w], f) BY <1>1 DEF Admit
  <2>5. f.user = u /\ f.marked = lease[w].marked BY <2>2
  <2> HIDE DEF f
  <2>6. /\ DOMAIN stack'[w] = DOMAIN stack[w] \cup {Len(stack[w]) + 1}
        /\ \A i \in DOMAIN stack[w] : stack'[w][i] = stack[w][i]
        /\ stack'[w][Len(stack[w]) + 1] = f
        BY <2>4, <2>f, Pushed
  <2>3. lease[w].marked => seen[w][u] = deletions[u]
    <3>1. ~Pending(u) BY <1>1, <2>2, PendingIsClosed DEF Admit
    <3>2. lease[w].generation = deletions[u] BY <1>1, <2>2, <3>1 DEF Admit, CountInv
    <3> QED BY <1>1, <2>2, <3>2 DEF LeaseInv, LeaseGood, Admit
  <2>7. ASSUME NEW x \in Held(w)', Vouched(w, x)' PROVE seen'[w][x] = deletions'[x]
    <3>1. CASE x \in fresh[w]
          BY <2>1, <3>1 DEF FreshInv, HeldInv, Vouched
    <3>2. CASE \E i \in DOMAIN stack'[w] : stack'[w][i].user = x /\ stack'[w][i].marked
      <4>1. PICK i \in DOMAIN stack'[w] : stack'[w][i].user = x /\ stack'[w][i].marked
            BY <3>2
      <4>2. CASE i \in DOMAIN stack[w]
        <5>1. x \in Held(w) /\ Vouched(w, x)
              BY <2>6, <4>1, <4>2 DEF Held, Vouched
        <5> QED BY <2>1, <5>1 DEF HeldInv
      <4>3. CASE i = Len(stack[w]) + 1
            BY <2>1, <2>3, <2>5, <2>6, <4>1, <4>3
      <4> QED BY <2>6, <4>2, <4>3
    <3> QED BY <2>1, <2>7, <3>1, <3>2 DEF Vouched
  <2>8. \A v \in Workers \ {w} : \A x \in Held(v)' : Vouched(v, x)' => seen'[v][x] = deletions'[x]
        BY <2>1, <1>S
  <2> QED BY <2>7, <2>8 DEF HeldInv
<1>2. ASSUME NEW w \in Workers, Exit(w) PROVE HeldInv'
  <2>1. /\ UNCHANGED <<seen, deletions>> /\ fresh'[w] \subseteq fresh[w]
        /\ \A v \in Workers \ {w} : stack'[v] = stack[v] /\ fresh'[v] = fresh[v]
        BY <1>2 DEF Exit
  <2>2. stack[w] \in Seq(Frame) /\ stack[w] # <<>> /\ stack'[w] = SubSeq(stack[w], 1, Len(stack[w]) - 1)
        BY <1>2 DEF Exit
  <2>3. /\ DOMAIN stack'[w] \subseteq DOMAIN stack[w]
        /\ \A i \in DOMAIN stack'[w] : stack'[w][i] = stack[w][i]
        BY <2>2, Popped
  <2>4. \A x \in Held(w)' : x \in Held(w) /\ (Vouched(w, x)' => Vouched(w, x))
        BY <2>1, <2>3 DEF Held, Vouched
  <2>5. \A x \in Held(w)' : Vouched(w, x)' => seen'[w][x] = deletions'[x]
        BY <2>1, <2>4 DEF HeldInv
  <2>6. \A v \in Workers \ {w} : \A x \in Held(v)' : Vouched(v, x)' => seen'[v][x] = deletions'[x]
        BY <2>1, <1>S
  <2> QED BY <2>5, <2>6 DEF HeldInv
<1>3. ASSUME NEW w \in Workers, WorkStep(w), ~Admit(w), ~Exit(w) PROVE HeldInv'
  <2>1. stack' = stack BY <1>3, HeldOther
  <2>2. \A v \in Workers : Held(v)' = Held(v) BY <2>1 DEF Held
  <2>3. deletions' = deletions BY <1>3, WorkFrame
  <2>4. ASSUME NEW u \in Users, Reread(w, u) PROVE HeldInv'
    <3>1. /\ seen'[w][u] = deletions[u] /\ \A v \in Users \ {u} : seen'[w][v] = seen[w][v]
          /\ fresh'[w] = fresh[w] \cup {u}
          /\ \A v \in Workers \ {w} : seen'[v] = seen[v] /\ fresh'[v] = fresh[v]
          BY <2>4 DEF Reread
    <3>2. \A x \in Users \ {u} : Vouched(w, x)' => Vouched(w, x)
          BY <2>1, <3>1 DEF Vouched
    <3>3. \A x \in Held(w)' : Vouched(w, x)' => seen'[w][x] = deletions'[x]
      <4>1. \A x \in Held(w)' : x \in Held(w) /\ x \in Users
            BY <1>0, <2>2
      <4>2. \A x \in Held(w) \ {u} : Vouched(w, x) => seen'[w][x] = deletions'[x]
            BY <1>0, <2>3, <3>1 DEF HeldInv
      <4>3. seen'[w][u] = deletions'[u]
            BY <2>3, <3>1
      <4> QED BY <3>2, <4>1, <4>2, <4>3
    <3>4. \A v \in Workers \ {w} : \A x \in Held(v)' : Vouched(v, x)' => seen'[v][x] = deletions'[x]
          BY <2>1, <2>3, <3>1, <1>S
    <3> QED BY <3>3, <3>4 DEF HeldInv
  <2>5. CASE ~\E u \in Users : Reread(w, u)
    <3>1. fresh' = fresh /\ \A v \in Workers : seen'[v] = seen[v] \/ stack[v] = <<>>
          BY <1>3, <2>5 DEF WorkStep, Begin, ReadInputs, Capture, Refuse, Spawn, Write, Bind, Finish,
             history, views, WorkerInv
    <3>2. ASSUME NEW v \in Workers, stack[v] = <<>> PROVE Held(v) = {}
          BY <3>2 DEF Held
    <3> QED BY <2>1, <2>2, <2>3, <3>1, <3>2, <1>S DEF HeldInv
  <2> QED BY <2>4, <2>5
<1>4. ASSUME NEW d \in Deleters, Commit(d) PROVE HeldInv'
  <2>1. UNCHANGED <<work, views>> BY <1>4 DEF Commit
  <2>3. ASSUME NEW w \in Workers, NEW u \in Held(w), u \in Users PROVE deletions'[u] = deletions[u]
    <3>1. u \notin Scope(target[d]) BY <1>4, <2>3, CommitFacts, CommitOwns DEF Readers
    <3> QED BY <1>4, <2>3, <3>1, CommitFacts
  <2> QED BY <1>0, <2>1, <2>3, <1>S DEF HeldInv, work, views
<1>5. ASSUME NEW d \in Deleters, DeletionStep(d) \/ (\E u \in Users : Request(d, u)), ~Commit(d)
      PROVE  HeldInv'
  <2>1. UNCHANGED <<work, views, deletions>>
        BY <1>5 DEF DeletionStep, PromptStep, Request, Resolve, Reenter, Close, Drained, Timeout, Recheck,
           CommitFails, Revise, Invalidate, Invalidated, Release, Unwind, history
  <2> QED BY <2>1, <1>S DEF HeldInv, work, views
<1>6. CASE UNCHANGED vars BY <1>6, <1>S DEF vars, HeldInv, work, history, views
<1> QED BY <1>1, <1>2, <1>3, <1>4, <1>5, <1>6 DEF Next

LEMMA RowsStep ==
  ASSUME TypeOK, TargetInv, PhaseInv, GateInv, CommitInv, HeldInv, NoResurrection, [Next]_vars
  PROVE  NoResurrection'
<1> USE DEF TypeOK, TypeData
<1>1. ASSUME NEW w \in Workers, NEW u \in Users, Write(w, u) PROVE NoResurrection'
  <2>1. seen[w][u] # deletions[u] => ~Vouched(w, u)
        BY <1>1 DEF Write, HeldInv
  <2>2. Vouched(w, u) \in BOOLEAN
        BY DEF Vouched
  <2>3. \A v \in Users : TRUE \in rows'[v] => TRUE \in rows[v]
        BY <1>1, <2>1, <2>2 DEF Write
  <2> QED BY <2>3 DEF NoResurrection
<1>2. ASSUME NEW w \in Workers, WorkStep(w), ~(\E u \in Users : Write(w, u)) PROVE NoResurrection'
      BY <1>2 DEF WorkStep, Begin, ReadInputs, Capture, Admit, Refuse, Spawn, Reread, Bind, Exit, Finish,
         database, NoResurrection
<1>3. ASSUME NEW d \in Deleters, Commit(d) PROVE NoResurrection'
      BY <1>3 DEF Commit, NoResurrection
<1>4. ASSUME NEW d \in Deleters, DeletionStep(d) \/ (\E u \in Users : Request(d, u)), ~Commit(d)
      PROVE  NoResurrection'
      BY <1>4 DEF DeletionStep, PromptStep, Request, Resolve, Reenter, Close, Drained, Timeout, Recheck,
         CommitFails, Revise, Invalidate, Invalidated, Release, Unwind, database, NoResurrection
<1>5. CASE UNCHANGED vars BY <1>5 DEF vars, database, NoResurrection
<1> QED BY <1>1, <1>2, <1>3, <1>4, <1>5 DEF Next

LEMMA InitIInv == Init => IInv
<1> SUFFICES ASSUME Init PROVE IInv
    OBVIOUS
<1> USE NoneAssumption DEF Init
<1>1. TypeOK
  <2>1. TypeGates BY DEF TypeGates
  <2>2. TypeWork BY DEF TypeWork, Revision
  <2>3. TypeDeletion BY DEF TypeDeletion, Levels, Outcomes
  <2>4. TypeScopes
    <3>1. [l \in Levels |-> {}] \in [Levels -> SUBSET Users] OBVIOUS
    <3> QED BY <3>1 DEF TypeScopes
  <2>5. TypeData BY DEF TypeData
  <2> QED BY <2>1, <2>2, <2>3, <2>4, <2>5 DEF TypeOK
<1>2. TargetInv /\ CommitInv BY DEF TargetInv, CommitInv
<1>3. PhaseInv BY DEF PhaseInv, Phase, Levels
<1>4. GateInv BY UsersAssumption DEF GateInv, Gate, Claimed, Levels
<1>5. WorkerInv /\ ReaderInv BY DEF WorkerInv, ReaderInv
<1>6. CountInv BY DEF CountInv, Pending
<1>7. RevealInv /\ FreshInv BY DEF RevealInv, MarkedIn, FreshInv
<1>8. LeaseInv BY DEF LeaseInv
<1>9. HeldInv BY DEF HeldInv, Held
<1>10. NoResurrection BY DEF NoResurrection
<1> QED BY <1>1, <1>2, <1>3, <1>4, <1>5, <1>6, <1>7, <1>8, <1>9, <1>10 DEF IInv

LEMMA NextIInv == IInv /\ [Next]_vars => IInv'
<1> SUFFICES ASSUME IInv, [Next]_vars PROVE IInv'
    OBVIOUS
<1> USE DEF IInv
<1>1. TypeOK' BY TypeStep
<1>2. TargetInv' BY TargetStep
<1>3. PhaseInv' BY PhaseStep
<1>4. CommitInv' BY CommitStep
<1>5. GateInv' BY GateStep
<1>6. WorkerInv' BY WorkerStep
<1>7. ReaderInv' BY ReaderStep
<1>8. CountInv' BY CountStep
<1>9. RevealInv' BY RevealStep
<1>13. FreshInv' BY FreshStep
<1>10. LeaseInv' BY LeaseStep
<1>11. HeldInv' BY HeldStep
<1>12. NoResurrection' BY RowsStep
<1> QED BY <1>1, <1>2, <1>3, <1>4, <1>5, <1>6, <1>7, <1>8, <1>9, <1>10, <1>11, <1>12, <1>13

\* Every reachable state satisfies the strengthening the theorems below rest on.
THEOREM Inductive == Spec => []IInv
BY InitIInv, NextIInv, PTL DEF Spec

\* The registry, the gates, the leases and the scopes stay well formed for any
\* number of users, threads and requests.
THEOREM TypeCorrect == Spec => []TypeOK
<1>1. IInv => TypeOK BY DEF IInv
<1> QED BY Inductive, <1>1, PTL

\* Work admitted by Lease.active never writes a deleted person back, however
\* many threads and overlapping deletions there are, if its lease goes back to
\* a snapshot from before its reads, or it has read again inside the lease.
\* Work that captures a lease with neither, after its reads, is not covered.
THEOREM NothingResurrected == Spec => []NoResurrection
<1>1. IInv => NoResurrection BY DEF IInv
<1> QED BY Inductive, <1>1, PTL

\* While work is inside a user's lease that goes back to before its reads, or
\* has read again inside it, what it read is newer than that user's last
\* deletion, so nothing it may write next is stale (Lease.active, hold).
THEOREM HeldWorkIsCurrent == Spec => []HeldInv
<1>1. IInv => HeldInv BY DEF IInv
<1> QED BY Inductive, <1>1, PTL

\* Whenever _delete_user_data's transaction is about to commit, its thread owns
\* every alias of the account as it then is, and nobody is working inside.
THEOREM CommitsAreExclusive == Spec => []CommitIsExclusive
<1>1. IInv => CommitIsExclusive
  <2> SUFFICES ASSUME IInv, NEW d \in Deleters, dpc[d] = "commit", NEW u \in Scope(target[d])
               PROVE  owner[u] = d /\ Readers(u) = {}
      BY DEF CommitIsExclusive
  <2>1. TypeOK /\ TargetInv /\ PhaseInv /\ CommitInv /\ GateInv /\ ReaderInv BY DEF IInv
  <2>2. u \in Users BY <2>1 DEF TargetInv, Scope, TypeOK, TypeData
  <2>3. u \in acquired[d][2] BY <2>1 DEF CommitInv
  <2> QED BY <2>1, <2>2, <2>3, CommitOwns
<1> QED BY Inductive, <1>1, PTL

\* A gate is shut exactly while one deletion claims it: hold's finally clause
\* opens every gate it closed, drained or not.
THEOREM GatesAreAccounted == Spec => []GatesAccounted
<1>1. IInv => GatesAccounted
  <2> SUFFICES ASSUME IInv PROVE GatesAccounted
      OBVIOUS
  <2>1. GateInv /\ owner \in [Users -> Deleters \cup {None}] BY DEF IInv, TypeOK, TypeGates
  <2>2. \A d, e \in Deleters : d # e => Claimed(d) \cap Claimed(e) = {}
    <3>1. ASSUME NEW d \in Deleters, NEW u \in Claimed(d) PROVE u \in Users
      <4>1. acquired[d] \in [Levels -> SUBSET Users] BY DEF IInv, TypeOK, TypeScopes
      <4>2. acquired[d][1] \in SUBSET Users /\ acquired[d][2] \in SUBSET Users BY <4>1 DEF Levels
      <4> QED BY <3>1, <4>2 DEF Claimed
    <3> QED BY <2>1, <3>1 DEF GateInv, Gate
  <2>3. \A u \in Users : deleting[u] <=> \E d \in Deleters : u \in Claimed(d)
        BY <2>1 DEF GateInv, Gate
  <2>4. \A u \in Users : depth[u] = IF owner[u] = None THEN 0 ELSE DepthOf(owner[u], u)
        BY <2>1 DEF GateInv, Gate
  <2> QED BY <2>2, <2>3, <2>4 DEF GatesAccounted
<1> QED BY Inductive, <1>1, PTL

\* Work is refused only for a user whose own account was deleted, whoever else
\* is being deleted at the moment.
THEOREM RefusalsAreJustified == Spec => RefusalJustified
<1>1. IInv /\ [Next]_vars => [\A w \in Workers : Refuse(w) => deletions[lease[w].user] > 0]_vars
  <2> SUFFICES ASSUME IInv, NEW w \in Workers, Refuse(w) PROVE deletions[lease[w].user] > 0
      OBVIOUS
  <2>1. wpc[w] = "entering" /\ lease[w].generation # generation[lease[w].user] BY DEF Refuse
  <2>2. PICK u \in Users : u = lease[w].user BY <2>1 DEF IInv, WorkerInv, Lease
  <2>3. generation[u] \in Nat /\ lease[w].generation \in Nat \cup {-1}
        BY <2>1 DEF IInv, WorkerInv, Lease, TypeOK, TypeGates
  <2>4. generation[u] > 0 BY <2>1, <2>2, <2>3 DEF IInv, LeaseInv, LeaseGood
  <2>5. deletions[u] = generation[u] + (IF Pending(u) THEN 1 ELSE 0) BY DEF IInv, CountInv
  <2> QED BY <2>2, <2>3, <2>4, <2>5
<1> QED BY Inductive, <1>1, PTL DEF Spec, RefusalJustified

-----------------------------------------------------------------------------
(* Deletions that wait *)

\* `hold` takes its aliases in sorted order: what the outer scope still has to
\* take lies above what it has.
Ordered(d) ==
    dpc[d] \in {"lock", "drain"} /\ level[d] = 1 =>
        \A u \in acquired[d][1] : \A v \in keys[d][1] \ acquired[d][1] : u < v

\* The scope that delete_user_data opens inside that of the route asks for
\* nothing the route's does not hold.
Nested(d) == level[d] = 2 =>
    /\ Scope(target[d]) \cup keys[d][2] \subseteq acquired[d][1]
    /\ dpc[d] = "lock" => Scope(target[d]) \subseteq keys[d][2]
    /\ draining[d] = None
    /\ outcome[d] \notin {"busy", "retry"}

\* A scope starts with no outcome, and the nested one ends without keys.
Started(d) ==
    /\ level[d] = 1 => keys[d][2] = {}
    /\ dpc[d] \in {"lock", "drain"} => outcome[d] = "none"

ScopeInv == \A d \in Deleters : Ordered(d) /\ Started(d) /\ Nested(d)

\* A deletion thread waits for the gate of u.
Awaits(d, u) == dpc[d] = "lock" /\ IsNextKey(d, u) /\ owner[u] # d /\ deleting[u]

\* Deletions never wait for each other in a circle: a deletion that waits for
\* another one waits for a lesser alias than the other, if that waits too.
\* Along a chain of waits the aliases increase, so it ends with a deletion that
\* waits for no other (the sorted order of hold; "drain aliases in order").
NoCircularWait == \A d, e \in Deleters : \A u, v \in Users :
    Awaits(d, u) /\ u \in Claimed(e) /\ Awaits(e, v) => u < v

\* Once the route has its scope, the nested scope of delete_user_data neither
\* waits nor finds an alias it lacks: from there on a deletion cannot end busy.
NestedNeverWaits ==
    \A d \in Deleters : level[d] = 2 => ~Waiting(d) /\ outcome[d] \notin {"busy", "retry"}

\* What the nested scope asks for is owned by its thread.
LEMMA NestedOwns ==
  ASSUME TypeOK, GateInv, ReaderInv, NEW d \in Deleters, Nested(d), level[d] = 2,
         NEW u \in acquired[d][1]
  PROVE  owner[u] = d /\ Readers(u) = {}
<1>1. u \in Users /\ u # None
      BY NoneAssumption, UsersAssumption DEF TypeOK, TypeScopes, Levels
<1>2. owner[u] = d
      BY <1>1 DEF Nested, GateInv, Gate, Claimed
<1> QED BY <1>1, <1>2, NoneAssumption DEF ReaderInv

\* The aliases of an account that a deletion owns can only become fewer.
LEMMA ScopeShrinks ==
  ASSUME TypeOK, TargetInv, PhaseInv, GateInv, ReaderInv, [Next]_vars,
         NEW d \in Deleters, Nested(d), level[d] = 2, target[d] \in bound'
  PROVE  bound' \subseteq Scope(target[d])
<1> DEFINE t == target[d]
<1>1. t \in Users /\ t \in Scope(t) /\ Scope(t) \subseteq acquired[d][1]
      BY DEF TargetInv, PhaseInv, Phase, Nested, Scope, Levels
<1>2. ASSUME NEW w \in Workers, NEW u \in Users, NEW v \in Users, Bind(w, u, v) PROVE FALSE
  <2>1. u \notin acquired[d][1] /\ v \notin acquired[d][1]
        BY <1>2, NestedOwns DEF Bind, Readers
  <2>2. t \in bound
        BY <1>1, <1>2, <2>1 DEF Bind
  <2>3. u \in bound
        BY <1>2, <2>2 DEF Bind
  <2> QED BY <1>1, <2>1, <2>2, <2>3 DEF Scope
<1>3. bound' \subseteq bound
  <2>1. CASE \E w \in Workers : WorkStep(w)
        BY <2>1, <1>2 DEF WorkStep, Begin, ReadInputs, Capture, Admit, Refuse, Spawn, Reread, Write, Exit, Finish,
           database
  <2>2. ASSUME NEW e \in Deleters, DeletionStep(e) \/ \E u \in Users : Request(e, u)
        PROVE  bound' \subseteq bound
        BY <2>2 DEF DeletionStep, PromptStep, Request, Resolve, Reenter, Close, Drained, Timeout, Recheck,
           Commit, CommitFails, Revise, Invalidate, Invalidated, Release, Unwind, database
  <2> QED BY <2>1, <2>2 DEF Next, vars, database
<1> QED BY <1>3 DEF Scope

\* Within a deletion step, the keys of the other deletions stay.
LEMMA OthersKeys ==
  ASSUME TypeOK, NEW d \in Deleters, DeletionStep(d) \/ \E u \in Users : Request(d, u),
         NEW e \in Deleters \ {d}
  PROVE  keys'[e] = keys[e] /\ outcome'[e] = outcome[e]
BY DEF TypeOK, TypeDeletion, TypeScopes, DeletionStep, PromptStep, Request, Resolve, Reenter, Close,
   Drained, Timeout, Recheck, Commit, CommitFails, Revise, Invalidate, Invalidated, Release, Unwind

LEMMA OrderedStep ==
  ASSUME TypeOK, PhaseInv, NEW d \in Deleters, Ordered(d), DeletionStep(d)
  PROVE  Ordered(d)'
<1> USE DEF TypeOK, TypeDeletion, TypeScopes, Ordered, Levels
<1>1. CASE Resolve(d)
      BY <1>1 DEF Resolve, PhaseInv, Phase
<1>2. ASSUME NEW u \in Users, Reenter(d, u) \/ Close(d, u) PROVE Ordered(d)'
  <2> SUFFICES ASSUME level[d] = 1, NEW x \in acquired'[d][1], NEW y \in keys[d][1] \ acquired'[d][1]
               PROVE  x < y
      BY <1>2 DEF Reenter, Close
  <2>1. /\ dpc[d] = "lock" /\ IsNextKey(d, u)
        /\ acquired'[d][1] = acquired[d][1] \cup {u}
        BY <1>2 DEF Reenter, Close
  <2>2. y \in keys[d][1] \ acquired[d][1] /\ y # u
        BY <2>1
  <2>3. y \in Users /\ u <= y
        BY <2>1, <2>2 DEF IsNextKey
  <2>4. x \in acquired[d][1] => x < y
        BY <2>2, <1>2 DEF Reenter, Close
  <2>5. \A i, j \in Nat : i <= j /\ j # i => i < j
        OBVIOUS
  <2>6. u < y
        BY <2>2, <2>3, <2>5, UsersAssumption
  <2> QED BY <2>1, <2>4, <2>6
<1>3. CASE Drained(d)
      BY <1>3 DEF Drained
<1>4. CASE Timeout(d) \/ Recheck(d) \/ Commit(d) \/ CommitFails(d) \/ Revise(d) \/ Invalidated(d)
      BY <1>4 DEF Timeout, Recheck, Commit, CommitFails, Revise, Invalidated
<1>5. ASSUME NEW u \in Users, Invalidate(d, u) \/ Release(d, u) PROVE Ordered(d)'
      BY <1>5 DEF Invalidate, Release
<1>6. CASE Unwind(d)
      BY <1>6 DEF Unwind
<1> QED BY <1>1, <1>2, <1>3, <1>4, <1>5, <1>6 DEF DeletionStep, PromptStep

\* A thread inside its nested scope finds every gate its own.
LEMMA NestedPasses ==
  ASSUME TypeOK, PhaseInv, GateInv, ReaderInv, NEW d \in Deleters, Nested(d), level[d] = 2
  PROVE  /\ dpc[d] # "drain"
         /\ \A u \in Users : IsNextKey(d, u) => owner[u] = d
<1>1. dpc[d] # "drain"
      BY DEF PhaseInv, Phase, Nested
<1>2. ASSUME NEW u \in Users, IsNextKey(d, u) PROVE owner[u] = d
      BY <1>2, NestedOwns DEF IsNextKey, Nested
<1> QED BY <1>1, <1>2

LEMMA StartedStep ==
  ASSUME TypeOK, NEW d \in Deleters, Started(d), DeletionStep(d)
  PROVE  Started(d)'
<1> USE DEF TypeOK, TypeDeletion, TypeScopes, Levels, Started
<1>1. CASE Resolve(d)
      BY <1>1 DEF Resolve
<1>2. ASSUME NEW u \in Users, Reenter(d, u) \/ Close(d, u) PROVE Started(d)'
      BY <1>2 DEF Reenter, Close
<1>3. CASE Drained(d) \/ Timeout(d) \/ Recheck(d)
      BY <1>3 DEF Drained, Timeout, Recheck
<1>4. CASE Commit(d) \/ CommitFails(d) \/ Revise(d) \/ Invalidated(d)
      BY <1>4 DEF Commit, CommitFails, Revise, Invalidated
<1>5. ASSUME NEW u \in Users, Invalidate(d, u) \/ Release(d, u) PROVE Started(d)'
      BY <1>5 DEF Invalidate, Release
<1>6. CASE Unwind(d)
      BY <1>6 DEF Unwind
<1> QED BY <1>1, <1>2, <1>3, <1>4, <1>5, <1>6 DEF DeletionStep, PromptStep

LEMMA NestedStep ==
  ASSUME TypeOK, TargetInv, PhaseInv, GateInv, ReaderInv, [Next]_vars,
         NEW d \in Deleters, Started(d), Nested(d), DeletionStep(d)
  PROVE  Nested(d)'
<1> USE DEF TypeOK, TypeDeletion, TypeScopes, Levels
<1> SUFFICES ASSUME level'[d] = 2 PROVE Nested(d)'
    BY DEF Nested
<1>1. CASE level[d] = 1
  <2>1. Recheck(d)
        BY <1>1 DEF DeletionStep, PromptStep, Resolve, Reenter, Close, Drained, Timeout, Commit, CommitFails,
           Revise, Invalidate, Invalidated, Release, Unwind
  <2>2. /\ acquired[d][1] = keys[d][1] /\ dpc[d] = "lock" /\ dpc'[d] = "resolve"
        /\ UNCHANGED <<bound, target, keys, acquired, draining>>
        BY <1>1, <2>1 DEF Recheck, database
  <2>3. Scope(target[d]) \subseteq keys[d][1] /\ outcome' = outcome
        BY <1>1, <2>1 DEF Recheck, StillComplete
  <2>4. draining[d] = None /\ keys[d][2] = {} /\ outcome[d] = "none"
        BY <1>1, <2>2 DEF PhaseInv, Phase, Started
  <2> QED BY <2>2, <2>3, <2>4 DEF Nested, Scope
<1>2. CASE level[d] = 2
  <2> DEFINE t == target[d]
  <2>0. /\ Scope(t) \cup keys[d][2] \subseteq acquired[d][1] /\ draining[d] = None
        /\ dpc[d] = "lock" => Scope(t) \subseteq keys[d][2]
        /\ outcome[d] \notin {"busy", "retry"}
        BY <1>2 DEF Nested
  <2>1. dpc[d] # "drain" /\ \A u \in Users : IsNextKey(d, u) => owner[u] = d
        BY <1>2, NestedPasses
  <2>2. CASE Resolve(d)
    <3>1. /\ keys'[d][2] = Scope(t) /\ outcome'[d] = "none"
          /\ UNCHANGED <<bound, target, acquired, draining>>
          BY <1>2, <2>2 DEF Resolve, database
    <3> QED BY <2>0, <3>1 DEF Nested, Scope
  <2>3. ASSUME NEW u \in Users, Reenter(d, u) \/ Close(d, u) PROVE Nested(d)'
    <3>1. /\ Reenter(d, u) /\ dpc[d] = "lock"
          /\ acquired'[d][1] = acquired[d][1] /\ UNCHANGED <<bound, target, keys, draining, outcome>>
          BY <1>2, <2>1, <2>3 DEF Reenter, Close, database
    <3> QED BY <2>0, <3>1 DEF Nested, Scope
  <2>4. CASE Drained(d) \/ Timeout(d)
        BY <2>1, <2>4 DEF Drained, Timeout, Waiting
  <2>5. CASE Recheck(d)
    <3>1. StillComplete(d)
          BY <1>2, <2>0, <2>5 DEF Recheck, StillComplete
    <3>2. dpc'[d] = "commit" /\ UNCHANGED <<bound, target, keys, acquired, draining, outcome>>
          BY <1>2, <2>5, <3>1 DEF Recheck, database
    <3> QED BY <2>0, <3>2 DEF Nested, Scope
  <2>6. CASE Commit(d)
    <3>1. dpc'[d] = "revise" /\ UNCHANGED <<target, keys, acquired, draining, outcome>>
          BY <2>6 DEF Commit
    <3>2. t \in Users /\ t \in Scope(t)
          BY <1>2 DEF TargetInv, PhaseInv, Phase, Scope
    <3>3. t \in bound' => bound' \subseteq Scope(t)
          BY <1>2, ScopeShrinks
    <3> QED BY <2>0, <3>1, <3>2, <3>3 DEF Nested, Scope
  <2>7. CASE CommitFails(d) \/ Revise(d) \/ Invalidated(d)
    <3>1. /\ dpc'[d] # "lock" /\ UNCHANGED <<bound, target, keys, acquired, draining>>
          /\ outcome'[d] \in {"failed", "done", outcome[d]}
          BY <2>7 DEF CommitFails, Revise, Invalidated, database
    <3> QED BY <2>0, <3>1 DEF Nested, Scope
  <2>8. ASSUME NEW u \in Users, Invalidate(d, u) PROVE Nested(d)'
        BY <2>0, <2>8 DEF Invalidate, database, Nested, Scope
  <2>9. ASSUME NEW u \in Users, Release(d, u) PROVE Nested(d)'
    <3>1. /\ dpc'[d] = "release" /\ acquired'[d][1] = acquired[d][1]
          /\ draining'[d] = None /\ UNCHANGED <<bound, target, keys, outcome>>
          BY <1>2, <2>0, <2>9 DEF Release, database
    <3> QED BY <2>0, <3>1 DEF Nested, Scope
  <2>10. CASE Unwind(d)
        BY <1>2, <2>0, <2>10 DEF Unwind
  <2> QED BY <2>2, <2>3, <2>4, <2>5, <2>6, <2>7, <2>8, <2>9, <2>10 DEF DeletionStep, PromptStep
<1> QED BY <1>1, <1>2

LEMMA ScopeStep ==
  ASSUME IInv, ScopeInv, [Next]_vars
  PROVE  ScopeInv'
<1> USE DEF IInv
\* What a step of another thread leaves of the scopes of d.
<1>1. ASSUME NEW d \in Deleters,
             dpc'[d] = dpc[d], level'[d] = level[d], draining'[d] = draining[d],
             acquired'[d] = acquired[d], target'[d] = target[d], keys'[d] = keys[d],
             outcome'[d] = outcome[d]
      PROVE  Ordered(d)' /\ Started(d)' /\ Nested(d)'
  <2>1. Ordered(d) /\ Started(d) /\ Nested(d)
        BY DEF ScopeInv
  <2>2. Ordered(d)' /\ Started(d)'
        BY <1>1, <2>1 DEF Ordered, Started
  <2>3. CASE level[d] # 2
        BY <1>1, <2>2, <2>3 DEF Nested
  <2>4. CASE level[d] = 2
    <3> DEFINE t == target[d]
    <3>1. t \in bound' => bound' \subseteq Scope(t)
          BY <2>1, <2>4, ScopeShrinks
    <3>2. t \in Scope(t)
          BY DEF Scope
    <3> QED BY <1>1, <2>1, <2>2, <2>4, <3>1, <3>2 DEF Nested, Scope
  <2> QED BY <2>2, <2>3, <2>4
<1>2. ASSUME NEW w \in Workers, WorkStep(w) PROVE ScopeInv'
      BY <1>1, <1>2, WorkFrame DEF ScopeInv
<1>3. CASE UNCHANGED vars
      BY <1>1, <1>3 DEF ScopeInv, vars, deletion
<1>4. ASSUME NEW d \in Deleters, DeletionStep(d) \/ (\E u \in Users : Request(d, u)),
             Ordered(d)' /\ Started(d)' /\ Nested(d)'
      PROVE  ScopeInv'
  <2> SUFFICES ASSUME NEW e \in Deleters \ {d} PROVE Ordered(e)' /\ Started(e)' /\ Nested(e)'
      BY <1>4 DEF ScopeInv
  <2> QED BY <1>1, <1>4, OthersFrame, OthersKeys
<1>5. ASSUME NEW d \in Deleters, DeletionStep(d) PROVE Ordered(d)' /\ Started(d)' /\ Nested(d)'
      BY <1>5, OrderedStep, StartedStep, NestedStep DEF ScopeInv
<1>6. ASSUME NEW d \in Deleters, NEW u \in Users, Request(d, u)
      PROVE  Ordered(d)' /\ Started(d)' /\ Nested(d)'
      BY <1>6 DEF Request, ScopeInv, Ordered, Started, Nested, PhaseInv, Phase, TypeOK, TypeDeletion, Levels
<1> QED BY <1>2, <1>3, <1>4, <1>5, <1>6 DEF Next

LEMMA ScopesAlways == Spec => [](IInv /\ ScopeInv)
<1>1. Init => ScopeInv
      BY DEF Init, ScopeInv, Ordered, Started, Nested, Levels
<1> QED BY <1>1, InitIInv, NextIInv, ScopeStep, PTL DEF Spec

\* Deletions of overlapping accounts cannot deadlock each other, however many
\* there are: `hold` takes the aliases in sorted order, and the nested scope,
\* which starts from the least alias again, takes none.  Without that order two
\* deletions could wait for each other until both give up.
THEOREM DeletionsWaitInOrder == Spec => []NoCircularWait
<1>1. IInv /\ ScopeInv => NoCircularWait
  <2> SUFFICES ASSUME IInv, ScopeInv, NEW d \in Deleters, NEW e \in Deleters,
                      NEW u \in Users, NEW v \in Users,
                      Awaits(d, u), u \in Claimed(e), Awaits(e, v)
               PROVE  u < v
      BY DEF NoCircularWait
  <2>1. level[e] = 1
        BY NestedPasses DEF Awaits, IInv, ScopeInv, TypeOK, TypeDeletion, Levels
  <2>2. u \in acquired[e][1] /\ v \in keys[e][1] \ acquired[e][1]
        BY <2>1 DEF Awaits, IsNextKey, Claimed, IInv, PhaseInv, Phase
  <2> QED BY <2>1, <2>2 DEF Awaits, ScopeInv, Ordered
<1> QED BY <1>1, ScopesAlways, PTL

\* UserDataBusy can only be raised before the route's scope is open: the scope
\* delete_user_data opens on top of it (which has a deadline of its own) never
\* waits, never starts over, and so goes on to its transaction.
THEOREM NestedScopesPass == Spec => []NestedNeverWaits
<1>1. IInv /\ ScopeInv => NestedNeverWaits
  <2> SUFFICES ASSUME IInv, ScopeInv, NEW d \in Deleters, level[d] = 2
               PROVE  ~Waiting(d) /\ outcome[d] \notin {"busy", "retry"}
      BY DEF NestedNeverWaits
  <2>1. Nested(d)
        BY DEF ScopeInv
  <2> QED BY <2>1, NestedPasses DEF IInv, Waiting, Nested
<1> QED BY <1>1, ScopesAlways, PTL
=============================================================================
