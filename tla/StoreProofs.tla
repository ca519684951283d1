---------------------------- MODULE StoreProofs ----------------------------
(* Proofs about the store, for every set of runs, flows, addresses, values.  *)
EXTENDS Store, FiniteSetTheorems, TLAPS

\* The events that announce the end of a set of runs are a sequence of events.
LEMMA FinishedEventsType ==
  ASSUME NEW S \in SUBSET RunIds, NEW q \in Orders(S)
  PROVE  /\ Cardinality(S) \in Nat
         /\ DOMAIN q = 1 .. Cardinality(S)
         /\ [i \in DOMAIN q |-> [run |-> q[i], kind |-> "run_finished"]] \in Seq(Event)
<1>1. IsFiniteSet(S)
  BY StoreAssumption, FS_Subset
<1>2. Cardinality(S) \in Nat
  BY <1>1, FS_CardinalityType
<1>3. q \in [1 .. Cardinality(S) -> S]
  BY DEF Orders
<1>4. \A i \in 1 .. Cardinality(S) : [run |-> q[i], kind |-> "run_finished"] \in Event
  BY <1>3 DEF Event, EventKind
<1> QED
  BY <1>2, <1>3, <1>4

\* Ending a set of runs keeps runs and events well typed.
LEMMA FinishRunsType ==
  ASSUME TypeOK, NEW S \in SUBSET RunIds, NEW status \in RunEnded,
         FinishRuns(S, status)
  PROVE  /\ runs' \in [RunIds -> Run]
         /\ events' \in Seq(Event)
<1>1. \A r \in RunIds : [runs[r] EXCEPT !.status = status] \in Run
  BY DEF TypeOK, Run, RunStatus
<1>2. runs' \in [RunIds -> Run]
  BY <1>1 DEF FinishRuns, TypeOK
<1>3. PICK q \in Orders(S) :
        events' = events \o [i \in DOMAIN q |-> [run |-> q[i], kind |-> "run_finished"]]
  BY DEF FinishRuns
<1> DEFINE ended == [i \in DOMAIN q |-> [run |-> q[i], kind |-> "run_finished"]]
<1>4. ended \in Seq(Event)
  BY FinishedEventsType
<1>5. events' = events \o ended
  BY <1>3
<1> HIDE DEF ended
<1>6. events' \in Seq(Event)
  BY <1>4, <1>5 DEF TypeOK
<1> QED
  BY <1>2, <1>6

LEMMA AppendEventType ==
  ASSUME TypeOK, NEW r \in RunIds, NEW kind \in EventKind
  PROVE  Append1(r, kind) \in Seq(Event)
BY DEF TypeOK, Append1, Event

\* Type correctness holds in every reachable state.
LEMMA TypeOKInit == Init => TypeOK
BY DEF Init, TypeOK, NoRun, NoTask, Run, Task, RunStatus, TaskStatus, RunEnded

LEMMA TypeOKStoreFlows ==
  ASSUME TypeOK, NEW U \in Deploys, StoreFlows(U)
  PROVE  TypeOK'
<1> DEFINE new == NewUploads(U)
           roots == {runs[r].root : r \in {x \in RunIds :
                       IsActive(x) /\ \E u \in new : u.name = runs[x].flow}}
<1>1. U \subseteq Upload
  BY DEF Deploys
<1>2. new \subseteq Upload
  BY <1>1 DEF NewUploads
<1>3. \A f \in FlowNames, v \in Versions :
        (\E u \in new : u.name = f /\ u.version = v)
          => (CHOOSE u \in new : u.name = f).content \in Contents
  BY <1>2 DEF Upload
<1>4. flows' \in [FlowNames -> [Versions -> Contents \cup {None}]]
  BY <1>3 DEF StoreFlows, TypeOK
<1>5. ActiveInTrees(roots) \in SUBSET RunIds
  BY DEF ActiveInTrees
<1>6. FinishRuns(ActiveInTrees(roots), "cancelled")
  BY DEF StoreFlows
<1>7. runs' \in [RunIds -> Run] /\ events' \in Seq(Event)
  BY <1>5, <1>6, FinishRunsType DEF RunEnded
<1> QED
  BY <1>4, <1>7 DEF StoreFlows, TypeOK

LEMMA AddRunType ==
  ASSUME TypeOK, NEW r \in RunIds, NEW f \in FlowNames, NEW v \in Versions,
         NEW root \in RunIds \cup {None}, NEW p \in RunIds \cup {None},
         NEW a \in SubFlowAddresses \cup {None}, AddRun(r, f, v, root, p, a)
  PROVE  TypeOK'
<1>1. Append1(r, "run_started") \in Seq(Event)
  BY AppendEventType DEF EventKind
<1>2. [flow |-> f, version |-> v, status |-> "active", root |-> root,
       parent |-> p, address |-> a, output |-> None] \in Run
  BY DEF Run, RunStatus
<1>3. runs' \in [RunIds -> Run]
  BY <1>2 DEF AddRun, TypeOK
<1> QED
  BY <1>1, <1>3 DEF AddRun, TypeOK

LEMMA FinishTreeType ==
  ASSUME TypeOK, NEW r \in RunIds, NEW status \in RunEnded, FinishTree(r, status)
  PROVE  TypeOK'
<1>1. ActiveInTrees({runs[r].root}) \in SUBSET RunIds
  BY DEF ActiveInTrees
<1>2. runs' \in [RunIds -> Run] /\ events' \in Seq(Event)
  BY <1>1, FinishRunsType DEF FinishTree
<1> QED
  BY <1>2 DEF FinishTree, TypeOK

LEMMA TypeOKNext == TypeOK /\ [Next]_storeVars => TypeOK'
<1> SUFFICES ASSUME TypeOK, [Next]_storeVars PROVE TypeOK'
  OBVIOUS
<1>0. CASE UNCHANGED storeVars
  BY <1>0 DEF TypeOK, storeVars
<1>1. CASE \E U \in Deploys : StoreFlows(U)
  BY <1>1, TypeOKStoreFlows
<1>2. CASE \E r \in RootIds, f \in FlowNames, v \in Versions : StartRun(r, f, v)
  BY <1>2, AddRunType, StoreAssumption DEF StartRun
<1>3. CASE \E p \in RunIds, a \in SubFlowAddresses, f \in FlowNames, v \in Versions :
             StartSubRun(p, a, f, v)
  <2>1. PICK p \in RunIds, a \in SubFlowAddresses, f \in FlowNames, v \in Versions :
               StartSubRun(p, a, f, v)
    BY <1>3
  <2>2. runs[p].root \in RunIds \cup {None}
    BY DEF TypeOK, Run
  <2>3. CASE UNCHANGED storeVars
    BY <2>3 DEF TypeOK, storeVars
  <2>4. CASE AddRun(SubRunIdFor(p, a), f, v, runs[p].root, p, a)
    BY <2>1, <2>2, <2>4, AddRunType DEF StartSubRun
  <2> QED
    BY <2>1, <2>3, <2>4 DEF StartSubRun
<1>4. CASE \E r \in RunIds, output \in Values \cup {None} : SucceedRun(r, output)
  <2>1. PICK r \in RunIds, output \in Values \cup {None} : SucceedRun(r, output)
    BY <1>4
  <2>2. [runs[r] EXCEPT !.status = "succeeded", !.output = output] \in Run
    BY DEF TypeOK, Run, RunStatus, RunEnded
  <2>3. Append1(r, "run_finished") \in Seq(Event)
    BY AppendEventType DEF EventKind
  <2> QED
    BY <2>1, <2>2, <2>3 DEF SucceedRun, TypeOK
<1>5. CASE \E r \in RunIds : FailRunTree(r)
  BY <1>5, FinishTreeType DEF FailRunTree, RunEnded
<1>6. CASE \E r \in RunIds : CancelRunTree(r)
  BY <1>6, FinishTreeType DEF CancelRunTree, RunEnded
<1>7. CASE \E t \in TaskIds, q \in Queues : PublishTask(t, q)
  <2>1. PICK t \in TaskIds, q \in Queues : PublishTask(t, q)
    BY <1>7
  <2>2. [NoTask EXCEPT !.status = "pending", !.queue = q] \in Task
    BY DEF NoTask, Task, TaskStatus
  <2>3. CASE tasks[t].status # "none"
    BY <2>1, <2>3 DEF PublishTask, TypeOK
  <2>4. CASE tasks[t].status = "none"
    <3>1. tasks' \in [TaskIds -> Task]
      BY <2>1, <2>2, <2>4 DEF PublishTask, TypeOK
    <3>2. published' = Append(published, t)
      BY <2>1, <2>4 DEF PublishTask
    <3>3. published' \in Seq(TaskIds)
      BY <3>2 DEF TypeOK
    <3> QED
      BY <2>1, <3>1, <3>3 DEF PublishTask, TypeOK
  <2> QED
    BY <2>3, <2>4
<1>8. CASE \E q \in Queues, i \in DOMAIN published : ReceiveTask(q, i)
  <2>1. PICK q \in Queues, i \in DOMAIN published : ReceiveTask(q, i)
    BY <1>8
  <2>2. published[i] \in TaskIds
    BY <2>1 DEF TypeOK
  <2> DEFINE t == published[i]
             new == [tasks[t] EXCEPT !.status = "received", !.lease = "held",
                                     !.attempts = tasks[t].attempts + 1]
  <2>3. tasks[t] \in Task
    BY <2>2 DEF TypeOK
  <2>4. new \in Task
    <3>1. tasks[t].attempts + 1 \in Nat
      BY <2>3 DEF Task
    <3> QED
      BY <2>3, <3>1 DEF Task, TaskStatus, TaskLeased
  <2>5. tasks' = [tasks EXCEPT ![t] = new]
    BY <2>1, Zenon DEF ReceiveTask, HandOut
  <2> HIDE DEF t, new
  <2>6. tasks' \in [TaskIds -> Task]
    BY <2>4, <2>5 DEF TypeOK
  <2> QED
    BY <2>1, <2>6 DEF ReceiveTask, HandOut, TypeOK
<1>9. CASE \E t \in TaskIds : \/ ClaimTask(t) \/ DropTask(t)
                              \/ ExtendTaskLease(t) \/ LeaseLapses(t)
  <2>1. PICK t \in TaskIds : \/ ClaimTask(t) \/ DropTask(t)
                             \/ ExtendTaskLease(t) \/ LeaseLapses(t)
    BY <1>9
  <2>2. /\ [tasks[t] EXCEPT !.status = "running"] \in Task
        /\ [tasks[t] EXCEPT !.status = "failed", !.lease = "none"] \in Task
        /\ [tasks[t] EXCEPT !.lease = "held"] \in Task
        /\ [tasks[t] EXCEPT !.lease = "lapsed"] \in Task
    BY DEF TypeOK, Task, TaskStatus, TaskLeased, TaskTerminal
  <2> QED
    BY <2>1, <2>2 DEF ClaimTask, DropTask, ExtendTaskLease, LeaseLapses, TypeOK
<1>10. CASE \E t \in TaskIds, status \in TaskTerminal, result \in Values \cup {None} :
              FinishTask(t, status, result)
  <2>1. PICK t \in TaskIds, status \in TaskTerminal, result \in Values \cup {None} :
               FinishTask(t, status, result)
    BY <1>10
  <2>2. [tasks[t] EXCEPT !.status = status, !.result = result, !.lease = "none"] \in Task
    BY DEF TypeOK, Task, TaskStatus
  <2>3. Append1(t[1], "task_finished") \in Seq(Event)
    BY AppendEventType DEF EventKind, TaskIds
  <2> QED
    BY <2>1, <2>2, <2>3 DEF FinishTask, TypeOK
<1> QED
  BY <1>0, <1>1, <1>2, <1>3, <1>4, <1>5, <1>6, <1>7, <1>8, <1>9, <1>10 DEF Next

\* The five collections of the store keep their types.
THEOREM Typing == Spec => []TypeOK
BY TypeOKInit, TypeOKNext, PTL DEF Spec

-----------------------------------------------------------------------------
(* The run trees.  TreeEndsTogether and ActiveOnLatest need TreeShape: a new *)
(* root run is in a tree of its own only because the root of every run       *)
(* exists.                                                                   *)

TreeInv == TypeOK /\ TreeShape /\ TreeEndsTogether /\ ActiveOnLatest

\* Every step of the store leaves flows and runs alone, adds one run, lets one
\* succeed, or ends whole trees.
RunsUnchanged == UNCHANGED <<flows, runs>>
SomeRunAdded ==
  \E r, root \in RunIds, f \in FlowNames, v \in Versions,
     p \in RunIds \cup {None}, a \in SubFlowAddresses \cup {None} :
    /\ AddRun(r, f, v, root, p, a)
    /\ runs[r].status = "none"
    /\ IsLatest(f, v)
    /\ \/ p = None /\ root = r /\ r \in RootIds
       \/ /\ p \in RunIds /\ a \in SubFlowAddresses /\ r = SubRunIdFor(p, a)
          /\ IsActive(p) /\ root = runs[p].root
TreesEnded(roots, status) ==
  /\ status \in RunEnded
  /\ runs' = [r \in RunIds |->
                IF r \in ActiveInTrees(roots)
                THEN [runs[r] EXCEPT !.status = status] ELSE runs[r]]

LEMMA TreeInvInit == Init => TreeInv
<1> SUFFICES ASSUME Init PROVE TreeInv
  OBVIOUS
<1>1. TypeOK
  BY TypeOKInit
<1>2. \A r \in RunIds : runs[r].status = "none"
  BY DEF Init, NoRun
<1> QED
  BY <1>1, <1>2 DEF TreeInv, TreeShape, TreeEndsTogether, ActiveOnLatest, IsActive

LEMMA TreeInvAdded == TreeInv /\ TypeOK' /\ SomeRunAdded => TreeInv'
<1> SUFFICES ASSUME TreeInv, TypeOK', SomeRunAdded PROVE TreeInv'
  OBVIOUS
<1>1. PICK r \in RunIds, root \in RunIds, f \in FlowNames, v \in Versions,
           p \in RunIds \cup {None}, a \in SubFlowAddresses \cup {None} :
        /\ AddRun(r, f, v, root, p, a)
        /\ runs[r].status = "none"
        /\ IsLatest(f, v)
        /\ \/ p = None /\ root = r /\ r \in RootIds
           \/ /\ p \in RunIds /\ a \in SubFlowAddresses /\ r = SubRunIdFor(p, a)
              /\ IsActive(p) /\ root = runs[p].root
  BY DEF SomeRunAdded
<1> DEFINE new == [flow |-> f, version |-> v, status |-> "active", root |-> root,
                   parent |-> p, address |-> a, output |-> None]
<1>2. /\ runs' = [runs EXCEPT ![r] = new]
      /\ flows' = flows
  BY <1>1 DEF AddRun
<1>3. /\ runs'[r] = new
      /\ \A s \in RunIds : s # r => runs'[s] = runs[s]
  BY <1>2 DEF TreeInv, TypeOK
<1>4. None \notin RunIds
  BY StoreAssumption
<1>5. TreeShape'
  BY <1>1, <1>3, <1>4 DEF TreeInv, TreeShape, IsActive
<1>6. TreeEndsTogether'
  <2> SUFFICES ASSUME NEW x \in RunIds, NEW y \in RunIds,
                      runs'[x].status \in {"failed", "cancelled"},
                      runs'[y].root = runs'[x].root,
                      runs'[y].status = "active"
               PROVE  FALSE
    BY DEF TreeEndsTogether, IsActive
  <2>1. x # r /\ runs'[x] = runs[x] /\ runs[x].status # "none"
    BY <1>3
  <2>2. CASE y # r
    BY <1>3, <2>1, <2>2 DEF TreeInv, TreeEndsTogether, IsActive
  <2>3. CASE y = r /\ p = None
    BY <1>1, <1>3, <1>4, <2>1, <2>3 DEF TreeInv, TreeShape
  <2>4. CASE y = r /\ p \in RunIds
    BY <1>1, <1>3, <1>4, <2>1, <2>4 DEF TreeInv, TreeEndsTogether, IsActive
  <2> QED
    BY <2>2, <2>3, <2>4
<1>7. ActiveOnLatest'
  BY <1>1, <1>2, <1>3 DEF TreeInv, ActiveOnLatest, IsActive, IsLatest, StoredVersions
<1> QED
  BY <1>5, <1>6, <1>7 DEF TreeInv

\* What ending trees does to each run.
LEMMA TreesEndedRuns ==
  ASSUME TypeOK, NEW roots, NEW status \in RunEnded, TreesEnded(roots, status),
         NEW r \in RunIds
  PROVE  /\ runs'[r].flow = runs[r].flow /\ runs'[r].version = runs[r].version
         /\ runs'[r].root = runs[r].root /\ runs'[r].parent = runs[r].parent
         /\ runs'[r].address = runs[r].address
         /\ IF IsActive(r) /\ runs[r].root \in roots
            THEN runs'[r].status = status
            ELSE runs'[r].status = runs[r].status
<1>1. runs[r] \in Run
  BY DEF TypeOK
<1>2. CASE r \in ActiveInTrees(roots)
  <2>1. runs'[r] = [runs[r] EXCEPT !.status = status]
    BY <1>2 DEF TreesEnded
  <2> QED
    BY <1>1, <1>2, <2>1 DEF Run, ActiveInTrees
<1>3. CASE r \notin ActiveInTrees(roots)
  <2>1. runs'[r] = runs[r]
    BY <1>3 DEF TreesEnded
  <2> QED
    BY <1>3, <2>1 DEF ActiveInTrees
<1> QED
  BY <1>2, <1>3

LEMMA TreeShapeEnded ==
  ASSUME TypeOK, TreeShape, TreeEndsTogether, NEW roots, NEW status \in RunEnded,
         TreesEnded(roots, status)
  PROVE  TreeShape' /\ TreeEndsTogether'
<1>1. \A r \in RunIds :
        /\ runs'[r].flow = runs[r].flow /\ runs'[r].version = runs[r].version
        /\ runs'[r].root = runs[r].root /\ runs'[r].parent = runs[r].parent
        /\ runs'[r].address = runs[r].address
        /\ IF IsActive(r) /\ runs[r].root \in roots
           THEN runs'[r].status = status
           ELSE runs'[r].status = runs[r].status
  BY TreesEndedRuns
<1>2. \A r \in RunIds : runs'[r].status = "none" <=> runs[r].status = "none"
  BY <1>1 DEF IsActive, RunEnded
<1>3. TreeShape'
  BY <1>1, <1>2 DEF TreeShape
<1>4. TreeEndsTogether'
  BY <1>1 DEF TreeEndsTogether, IsActive, RunEnded
<1> QED
  BY <1>3, <1>4

LEMMA TreeInvStoreFlows ==
  ASSUME TreeInv, TypeOK', NEW U \in Deploys, StoreFlows(U)
  PROVE  TreeInv'
<1> DEFINE new == NewUploads(U)
           roots == {runs[r].root : r \in {x \in RunIds :
                       IsActive(x) /\ \E u \in new : u.name = runs[x].flow}}
<1>1. TypeOK /\ TreeShape /\ TreeEndsTogether
  BY DEF TreeInv
<1>2. TreesEnded(roots, "cancelled")
  BY DEF StoreFlows, FinishRuns, TreesEnded, RunEnded
<1>3. "cancelled" \in RunEnded
  BY DEF RunEnded
<1>4. TreeShape' /\ TreeEndsTogether'
  BY <1>1, <1>2, <1>3, TreeShapeEnded
<1>5. ActiveOnLatest'
  <2> SUFFICES ASSUME NEW r \in RunIds, runs'[r].status = "active"
               PROVE  IsLatest(runs[r].flow, runs[r].version)' /\ runs'[r].flow = runs[r].flow
                        /\ runs'[r].version = runs[r].version
    BY DEF ActiveOnLatest, IsActive, IsLatest, StoredVersions
  <2>1. /\ runs'[r].flow = runs[r].flow /\ runs'[r].version = runs[r].version
        /\ IF IsActive(r) /\ runs[r].root \in roots
           THEN runs'[r].status = "cancelled"
           ELSE runs'[r].status = runs[r].status
    BY <1>1, <1>2, <1>3, TreesEndedRuns
  <2>2. IsActive(r) /\ runs[r].root \notin roots
    BY <2>1 DEF IsActive
  <2>3. ~ \E u \in new : u.name = runs[r].flow
    BY <2>2
  <2>4. runs[r].flow \in FlowNames
    BY <1>1, <2>2 DEF TreeShape, IsActive
  <2>5. \A v \in Versions : flows'[runs[r].flow][v] = flows[runs[r].flow][v]
    BY <2>3, <2>4 DEF StoreFlows
  <2>6. IsLatest(runs[r].flow, runs[r].version)
    BY <2>2 DEF TreeInv, ActiveOnLatest
  <2> QED
    BY <2>1, <2>5, <2>6 DEF IsLatest, StoredVersions
<1> QED
  BY <1>4, <1>5 DEF TreeInv

LEMMA TreeInvFinishTree ==
  ASSUME TreeInv, TypeOK', NEW r \in RunIds, NEW status \in RunEnded,
         FinishTree(r, status)
  PROVE  TreeInv'
<1> DEFINE roots == {runs[r].root}
<1>1. TypeOK /\ TreeShape /\ TreeEndsTogether
  BY DEF TreeInv
<1>2. TreesEnded(roots, status)
  BY DEF FinishTree, FinishRuns, TreesEnded
<1>3. TreeShape' /\ TreeEndsTogether'
  BY <1>1, <1>2, TreeShapeEnded
<1>4. \A s \in RunIds :
        /\ runs'[s].flow = runs[s].flow /\ runs'[s].version = runs[s].version
        /\ runs'[s].status = "active" => runs[s].status = "active"
  BY <1>1, <1>2, TreesEndedRuns DEF RunEnded
<1>5. flows' = flows
  BY DEF FinishTree
<1>6. ActiveOnLatest'
  BY <1>4, <1>5 DEF TreeInv, ActiveOnLatest, IsActive, IsLatest, StoredVersions
<1> QED
  BY <1>3, <1>6 DEF TreeInv

LEMMA TreeInvSucceed ==
  ASSUME TreeInv, TypeOK', NEW r \in RunIds, NEW output \in Values \cup {None},
         SucceedRun(r, output)
  PROVE  TreeInv'
<1>1. \A s \in RunIds : runs[s] \in Run
  BY DEF TreeInv, TypeOK
<1>2. /\ runs'[r] = [runs[r] EXCEPT !.status = "succeeded", !.output = output]
      /\ \A s \in RunIds : s # r => runs'[s] = runs[s]
      /\ flows' = flows
      /\ runs[r].status = "active"
  BY DEF TreeInv, TypeOK, SucceedRun, IsActive
<1>3. \A s \in RunIds :
        /\ runs'[s].flow = runs[s].flow /\ runs'[s].version = runs[s].version
        /\ runs'[s].root = runs[s].root /\ runs'[s].parent = runs[s].parent
        /\ runs'[s].address = runs[s].address
        /\ IF s = r THEN runs'[s].status = "succeeded" /\ runs[s].status = "active"
           ELSE runs'[s].status = runs[s].status
  <2> TAKE s \in RunIds
  <2>1. CASE s = r
    <3>1. runs[r] \in Run
      BY <1>1
    <3> QED
      BY <1>2, <2>1, <3>1 DEF Run
  <2>2. CASE s # r
    BY <1>2, <2>2
  <2> QED
    BY <2>1, <2>2
<1>4. TreeShape'
  BY <1>3 DEF TreeInv, TreeShape
<1>5. TreeEndsTogether'
  BY <1>3 DEF TreeInv, TreeEndsTogether, IsActive
<1>6. ActiveOnLatest'
  BY <1>2, <1>3 DEF TreeInv, ActiveOnLatest, IsActive, IsLatest, StoredVersions
<1> QED
  BY <1>4, <1>5, <1>6 DEF TreeInv

LEMMA TreeInvSame == TreeInv /\ TypeOK' /\ RunsUnchanged => TreeInv'
BY DEF TreeInv, RunsUnchanged, TreeShape, TreeEndsTogether, ActiveOnLatest,
       IsActive, IsLatest, StoredVersions

LEMMA TreeInvNext == TreeInv /\ [Next]_storeVars => TreeInv'
<1> SUFFICES ASSUME TreeInv, [Next]_storeVars PROVE TreeInv'
  OBVIOUS
<1>0. TypeOK /\ TypeOK'
  BY TypeOKNext DEF TreeInv
<1>1. CASE \E U \in Deploys : StoreFlows(U)
  BY <1>0, <1>1, TreeInvStoreFlows
<1>2. CASE \E r \in RootIds, f \in FlowNames, v \in Versions : StartRun(r, f, v)
  <2>1. SomeRunAdded
    BY <1>2, StoreAssumption DEF StartRun, SomeRunAdded
  <2> QED
    BY <1>0, <2>1, TreeInvAdded
<1>3. CASE \E p \in RunIds, a \in SubFlowAddresses, f \in FlowNames, v \in Versions :
             StartSubRun(p, a, f, v)
  <2>1. PICK p \in RunIds, a \in SubFlowAddresses, f \in FlowNames, v \in Versions :
               StartSubRun(p, a, f, v)
    BY <1>3
  <2>2. runs[p].root \in RunIds
    BY <2>1 DEF TreeInv, TreeShape, StartSubRun, IsActive
  <2>3. CASE runs[SubRunIdFor(p, a)].status # "none"
    BY <1>0, <2>1, <2>3, TreeInvSame DEF StartSubRun, RunsUnchanged, storeVars
  <2>4. CASE runs[SubRunIdFor(p, a)].status = "none"
    <3>1. SomeRunAdded
      BY <2>1, <2>2, <2>4 DEF StartSubRun, SomeRunAdded
    <3> QED
      BY <1>0, <3>1, TreeInvAdded
  <2> QED
    BY <2>3, <2>4
<1>4. CASE \E r \in RunIds, output \in Values \cup {None} : SucceedRun(r, output)
  BY <1>0, <1>4, TreeInvSucceed
<1>5. CASE \E r \in RunIds : FailRunTree(r)
  BY <1>0, <1>5, TreeInvFinishTree DEF FailRunTree, RunEnded
<1>6. CASE \E r \in RunIds : CancelRunTree(r)
  BY <1>0, <1>6, TreeInvFinishTree DEF CancelRunTree, RunEnded
<1>7. CASE RunsUnchanged
  BY <1>0, <1>7, TreeInvSame
<1>8. CASE \/ UNCHANGED storeVars
           \/ \E t \in TaskIds, q \in Queues : PublishTask(t, q)
           \/ \E q \in Queues, i \in DOMAIN published : ReceiveTask(q, i)
           \/ \E t \in TaskIds : \/ ClaimTask(t) \/ DropTask(t)
                                  \/ ExtendTaskLease(t) \/ LeaseLapses(t)
           \/ \E t \in TaskIds, status \in TaskTerminal, result \in Values \cup {None} :
                FinishTask(t, status, result)
  <2>1. RunsUnchanged
    BY <1>8 DEF RunsUnchanged, storeVars, PublishTask, ReceiveTask, HandOut, ClaimTask, DropTask,
               ExtendTaskLease, LeaseLapses, FinishTask
  <2> QED
    BY <1>7, <2>1
<1> QED
  BY <1>1, <1>2, <1>3, <1>4, <1>5, <1>6, <1>8 DEF Next

\* Every run hangs in the tree that its root, parent and address say.
THEOREM TreesAreTrees == Spec => []TreeShape
<1>1. TreeInv => TreeShape
  BY DEF TreeInv
<1> QED
  BY <1>1, TreeInvInit, TreeInvNext, PTL DEF Spec

\* A tree of any size with a failed or cancelled run has no active run left.
THEOREM TreesEndTogether == Spec => []TreeEndsTogether
<1>1. TreeInv => TreeEndsTogether
  BY DEF TreeInv
<1> QED
  BY <1>1, TreeInvInit, TreeInvNext, PTL DEF Spec

\* Whatever is uploaded, no active run is left on an old version of its flow.
THEOREM ActiveRunsOnLatest == Spec => []ActiveOnLatest
<1>1. TreeInv => ActiveOnLatest
  BY DEF TreeInv
<1> QED
  BY <1>1, TreeInvInit, TreeInvNext, PTL DEF Spec

-----------------------------------------------------------------------------
(* Tasks and the publishing order.                                           *)

TaskInv == TypeOK /\ NoTaskStranded

\* A step that changes the status and lease of one published task keeps the
\* publishing order right if the new status and lease agree.
LEMMA TaskInvOneTask ==
  ASSUME TaskInv, TypeOK', NEW t \in TaskIds, NEW new \in Task,
         tasks' = [tasks EXCEPT ![t] = new], published' = published,
         tasks[t].status # "none", new.status # "none",
         new.status \in TaskLeased <=> new.lease # "none"
  PROVE  TaskInv'
<1>1. /\ tasks'[t] = new
      /\ \A s \in TaskIds : s # t => tasks'[s] = tasks[s]
  BY DEF TaskInv, TypeOK
<1> QED
  BY <1>1 DEF TaskInv, NoTaskStranded

LEMMA TaskInvPublish ==
  ASSUME TaskInv, TypeOK', NEW t \in TaskIds, NEW q \in Queues, PublishTask(t, q)
  PROVE  TaskInv'
<1>1. CASE tasks[t].status # "none"
  BY <1>1 DEF TaskInv, NoTaskStranded, PublishTask
<1>2. CASE tasks[t].status = "none"
  <2>1. /\ tasks' = [tasks EXCEPT ![t] =
                       [NoTask EXCEPT !.status = "pending", !.queue = q]]
        /\ published' = Append(published, t)
    BY <1>2 DEF PublishTask
  <2>2. /\ tasks'[t].status = "pending" /\ tasks'[t].lease = "none"
        /\ \A s \in TaskIds : s # t => tasks'[s] = tasks[s]
    BY <2>1 DEF TaskInv, TypeOK, NoTask
  <2>3. published \in Seq(TaskIds)
    BY DEF TaskInv, TypeOK
  <2>4. /\ DOMAIN published = 1 .. Len(published) /\ Len(published) \in Nat
        /\ DOMAIN published' = 1 .. Len(published) + 1
        /\ published'[Len(published) + 1] = t
        /\ \A i \in DOMAIN published : published'[i] = published[i]
    BY <2>1, <2>3
  <2>5. \A i \in DOMAIN published : published[i] # t
    BY <1>2 DEF TaskInv, NoTaskStranded
  <2>6. \A s \in TaskIds : tasks'[s].status \in TaskLeased <=> tasks'[s].lease # "none"
    BY <2>2 DEF TaskInv, NoTaskStranded, TaskLeased
  <2>7. \A s \in TaskIds :
          tasks'[s].status # "none" <=> \E i \in DOMAIN published' : published'[i] = s
    <3> TAKE s \in TaskIds
    <3>1. CASE s = t
      BY <2>2, <2>4, <3>1
    <3>2. CASE s # t
      BY <2>2, <2>4, <3>2 DEF TaskInv, NoTaskStranded
    <3> QED
      BY <3>1, <3>2
  <2>8. \A s \in TaskIds : \A i, j \in DOMAIN published' :
          published'[i] = s /\ published'[j] = s => i = j
    BY <2>4, <2>5 DEF TaskInv, NoTaskStranded
  <2> QED
    BY <2>6, <2>7, <2>8 DEF TaskInv, NoTaskStranded
<1> QED
  BY <1>1, <1>2

LEMMA TaskInvNext == TaskInv /\ [Next]_storeVars => TaskInv'
<1> SUFFICES ASSUME TaskInv, [Next]_storeVars PROVE TaskInv'
  OBVIOUS
<1>0. TypeOK /\ TypeOK'
  BY TypeOKNext DEF TaskInv
<1>1. CASE UNCHANGED <<tasks, published>>
  BY <1>0, <1>1 DEF TaskInv, NoTaskStranded
<1>2. CASE \E t \in TaskIds, q \in Queues : PublishTask(t, q)
  BY <1>0, <1>2, TaskInvPublish
<1>3. CASE \E q \in Queues, i \in DOMAIN published : ReceiveTask(q, i)
  <2>1. PICK q \in Queues, i \in DOMAIN published : ReceiveTask(q, i)
    BY <1>3
  <2> DEFINE t == published[i]
             new == [tasks[t] EXCEPT !.status = "received", !.lease = "held",
                                     !.attempts = tasks[t].attempts + 1]
  <2>2. t \in TaskIds
    BY <1>0 DEF TypeOK
  <2>3. tasks[t] \in Task
    BY <1>0, <2>2 DEF TypeOK
  <2>4. tasks[t].attempts + 1 \in Nat
    BY <2>3 DEF Task
  <2>5. new \in Task /\ new.status = "received" /\ new.lease = "held"
    BY <2>3, <2>4 DEF Task, TaskStatus, TaskLeased
  <2>6. tasks' = [tasks EXCEPT ![t] = new] /\ published' = published
    BY <2>1 DEF ReceiveTask, HandOut
  <2>7. tasks[t].status # "none"
    BY <2>1 DEF ReceiveTask, HandOut, IsOldestReceivable, IsReceivable, TaskLeased
  <2> HIDE DEF t, new
  <2> QED
    BY <1>0, <2>2, <2>5, <2>6, <2>7, TaskInvOneTask DEF TaskLeased
<1>4. CASE \E t \in TaskIds : ClaimTask(t)
  <2>1. PICK t \in TaskIds : ClaimTask(t)
    BY <1>4
  <2> DEFINE new == [tasks[t] EXCEPT !.status = "running"]
  <2>2. new \in Task /\ new.status = "running" /\ new.lease = tasks[t].lease
    BY <1>0 DEF TypeOK, Task, TaskStatus, TaskLeased
  <2>3. tasks' = [tasks EXCEPT ![t] = new] /\ published' = published
    BY <2>1 DEF ClaimTask
  <2>4. tasks[t].status \in TaskLeased /\ tasks[t].lease # "none"
    BY <2>1 DEF ClaimTask, MayBecome, TaskLeased, TaskInv, NoTaskStranded
  <2> HIDE DEF new
  <2> QED
    BY <1>0, <2>2, <2>3, <2>4, TaskInvOneTask DEF TaskLeased
<1>5. CASE \E t \in TaskIds : DropTask(t)
  <2>1. PICK t \in TaskIds : DropTask(t)
    BY <1>5
  <2> DEFINE new == [tasks[t] EXCEPT !.status = "failed", !.lease = "none"]
  <2>2. new \in Task /\ new.status = "failed" /\ new.lease = "none"
    BY <1>0 DEF TypeOK, Task, TaskStatus, TaskTerminal
  <2>3. tasks' = [tasks EXCEPT ![t] = new] /\ published' = published
    BY <2>1 DEF DropTask
  <2>4. tasks[t].status # "none"
    BY <2>1 DEF DropTask, MayBecome
  <2> HIDE DEF new
  <2> QED
    BY <1>0, <2>2, <2>3, <2>4, TaskInvOneTask DEF TaskLeased
<1>6. CASE \E t \in TaskIds : ExtendTaskLease(t)
  <2>1. PICK t \in TaskIds : ExtendTaskLease(t)
    BY <1>6
  <2> DEFINE new == [tasks[t] EXCEPT !.lease = "held"]
  <2>2. new \in Task /\ new.status = tasks[t].status /\ new.lease = "held"
    BY <1>0 DEF TypeOK, Task
  <2>3. tasks' = [tasks EXCEPT ![t] = new] /\ published' = published
    BY <2>1 DEF ExtendTaskLease
  <2>4. tasks[t].status \in TaskLeased
    BY <2>1 DEF ExtendTaskLease
  <2> HIDE DEF new
  <2> QED
    BY <1>0, <2>2, <2>3, <2>4, TaskInvOneTask DEF TaskLeased
<1>7. CASE \E t \in TaskIds : LeaseLapses(t)
  <2>1. PICK t \in TaskIds : LeaseLapses(t)
    BY <1>7
  <2> DEFINE new == [tasks[t] EXCEPT !.lease = "lapsed"]
  <2>2. new \in Task /\ new.status = tasks[t].status /\ new.lease = "lapsed"
    BY <1>0 DEF TypeOK, Task
  <2>3. tasks' = [tasks EXCEPT ![t] = new] /\ published' = published
    BY <2>1 DEF LeaseLapses
  <2>4. tasks[t].status \in TaskLeased
    BY <2>1 DEF LeaseLapses, TaskInv, NoTaskStranded
  <2> HIDE DEF new
  <2> QED
    BY <1>0, <2>2, <2>3, <2>4, TaskInvOneTask DEF TaskLeased
<1>8. CASE \E t \in TaskIds, status \in TaskTerminal, result \in Values \cup {None} :
             FinishTask(t, status, result)
  <2>1. PICK t \in TaskIds, status \in TaskTerminal, result \in Values \cup {None} :
               FinishTask(t, status, result)
    BY <1>8
  <2> DEFINE new == [tasks[t] EXCEPT !.status = status, !.result = result, !.lease = "none"]
  <2>2. new \in Task /\ new.status = status /\ new.lease = "none"
    BY <1>0 DEF TypeOK, Task, TaskStatus
  <2>3. tasks' = [tasks EXCEPT ![t] = new] /\ published' = published
    BY <2>1 DEF FinishTask
  <2>4. tasks[t].status # "none"
    BY <2>1 DEF FinishTask, MayBecome
  <2> HIDE DEF new
  <2> QED
    BY <1>0, <2>2, <2>3, <2>4, TaskInvOneTask DEF TaskLeased, TaskTerminal
<1> QED
  BY <1>1, <1>2, <1>3, <1>4, <1>5, <1>6, <1>7, <1>8
  DEF Next, storeVars, StoreFlows, StartRun, StartSubRun, AddRun, SucceedRun, FailRunTree,
      CancelRunTree, FinishTree

LEMMA TaskInvInit == Init => TaskInv
BY TypeOKInit DEF Init, TaskInv, NoTaskStranded, NoTask, TaskLeased

\* For any number of tasks, a published and unfinished one is pending or under
\* a lease, and once in the publishing order: it can be received again.
THEOREM TasksNotStranded == Spec => []NoTaskStranded
<1>1. TaskInv => NoTaskStranded
  BY DEF TaskInv
<1> QED
  BY <1>1, TaskInvInit, TaskInvNext, PTL DEF Spec

-----------------------------------------------------------------------------
(* The event log.                                                            *)

IsIn(e, log) == \E i \in DOMAIN log : log[i] = e
AtMostOnce(e, log) == \A i, j \in DOMAIN log : log[i] = e /\ log[j] = e => i = j

\* What is in a log that has grown, and how often.
LEMMA LogGrows ==
  ASSUME NEW log \in Seq(Event), NEW more \in Seq(Event), NEW e
  PROVE  /\ IsIn(e, log \o more) <=> IsIn(e, log) \/ IsIn(e, more)
         /\ AtMostOnce(e, log) /\ AtMostOnce(e, more) /\ ~ (IsIn(e, log) /\ IsIn(e, more))
              => AtMostOnce(e, log \o more)
<1> DEFINE all == log \o more
<1>1. /\ DOMAIN log = 1 .. Len(log) /\ Len(log) \in Nat
      /\ DOMAIN more = 1 .. Len(more) /\ Len(more) \in Nat
      /\ DOMAIN all = 1 .. Len(log) + Len(more)
      /\ \A i \in 1 .. Len(log) : all[i] = log[i]
      /\ \A i \in 1 .. Len(more) : all[Len(log) + i] = more[i]
  OBVIOUS
<1>2. \A i \in DOMAIN all : i \notin 1 .. Len(log) =>
        i - Len(log) \in 1 .. Len(more) /\ all[i] = more[i - Len(log)]
  BY <1>1
<1> HIDE DEF all
<1>3. IsIn(e, all) <=> IsIn(e, log) \/ IsIn(e, more)
  <2>1. ASSUME IsIn(e, log) PROVE IsIn(e, all)
    BY <1>1, <2>1 DEF IsIn
  <2>2. ASSUME IsIn(e, more) PROVE IsIn(e, all)
    <3>1. PICK i \in 1 .. Len(more) : more[i] = e
      BY <1>1, <2>2 DEF IsIn
    <3>2. Len(log) + i \in DOMAIN all /\ all[Len(log) + i] = e
      BY <1>1, <3>1
    <3> QED
      BY <3>2 DEF IsIn
  <2>3. ASSUME IsIn(e, all) PROVE IsIn(e, log) \/ IsIn(e, more)
    BY <1>1, <1>2, <2>3 DEF IsIn
  <2> QED
    BY <2>1, <2>2, <2>3
<1>4. ASSUME AtMostOnce(e, log), AtMostOnce(e, more), ~ (IsIn(e, log) /\ IsIn(e, more)),
             NEW i \in DOMAIN all, NEW j \in DOMAIN all, all[i] = e, all[j] = e
      PROVE  i = j
  <2>1. CASE i \in 1 .. Len(log) /\ j \in 1 .. Len(log)
    BY <1>1, <1>4, <2>1 DEF AtMostOnce
  <2>2. CASE i \notin 1 .. Len(log) /\ j \notin 1 .. Len(log)
    <3>1. i - Len(log) = j - Len(log)
      BY <1>1, <1>2, <1>4, <2>2 DEF AtMostOnce
    <3> QED
      BY <1>1, <3>1
  <2>3. CASE i \in 1 .. Len(log) <=> j \notin 1 .. Len(log)
    BY <1>1, <1>2, <1>4, <2>3 DEF IsIn
  <2> QED
    BY <2>1, <2>2, <2>3
<1> QED
  BY <1>3, <1>4 DEF AtMostOnce, all

LogInv == TypeOK /\ EachToldOnce

\* A step keeps the log true if it appends the start of exactly the runs that
\* come to be, and the end of exactly those that end, each of them once.
LEMMA LogInvGrows ==
  ASSUME LogInv, TypeOK', NEW more \in Seq(Event), events' = events \o more,
         \A r \in RunIds :
           /\ IsIn(StartedEvent(r), more)
                <=> runs[r].status = "none" /\ runs'[r].status # "none"
           /\ IsIn(FinishedEvent(r), more)
                <=> runs[r].status \notin RunEnded /\ runs'[r].status \in RunEnded
           /\ runs[r].status # "none" => runs'[r].status # "none"
           /\ runs[r].status \in RunEnded => runs'[r].status \in RunEnded
           /\ AtMostOnce(StartedEvent(r), more) /\ AtMostOnce(FinishedEvent(r), more)
  PROVE  LogInv'
<1>1. events \in Seq(Event) /\ events' \in Seq(Event)
  BY DEF LogInv, TypeOK
<1>2. \A r \in RunIds :
        /\ runs[r].status # "none" <=> IsIn(StartedEvent(r), events)
        /\ runs[r].status \in RunEnded <=> IsIn(FinishedEvent(r), events)
        /\ AtMostOnce(StartedEvent(r), events) /\ AtMostOnce(FinishedEvent(r), events)
  BY DEF LogInv, EachToldOnce, Logged, IsIn, AtMostOnce, StartedEvent, FinishedEvent
<1>3. \A r \in RunIds :
        /\ runs'[r].status # "none" <=> IsIn(StartedEvent(r), events')
        /\ runs'[r].status \in RunEnded <=> IsIn(FinishedEvent(r), events')
        /\ AtMostOnce(StartedEvent(r), events') /\ AtMostOnce(FinishedEvent(r), events')
  BY <1>1, <1>2, LogGrows
<1>4. ASSUME NEW i \in DOMAIN events', NEW j \in DOMAIN events',
             events'[i] = events'[j], events'[i].kind # "task_finished"
      PROVE  i = j
  <2>1. PICK e \in Event : e = events'[i]
    BY <1>1
  <2>2. \E r \in RunIds : e \in {StartedEvent(r), FinishedEvent(r)}
    BY <1>4, <2>1 DEF Event, EventKind, StartedEvent, FinishedEvent
  <2> QED
    BY <1>3, <1>4, <2>1, <2>2 DEF AtMostOnce
<1> QED
  BY <1>3, <1>4 DEF LogInv, EachToldOnce, Logged, IsIn, StartedEvent, FinishedEvent

\* The events of the end of a set of runs tell of each of them once.
LEMMA FinishedOnce ==
  ASSUME NEW S \in SUBSET RunIds, NEW q \in Orders(S), NEW r \in RunIds
  PROVE  LET ended == [i \in DOMAIN q |-> [run |-> q[i], kind |-> "run_finished"]]
         IN  /\ ~ IsIn(StartedEvent(r), ended)
             /\ IsIn(FinishedEvent(r), ended) <=> r \in S
             /\ AtMostOnce(StartedEvent(r), ended) /\ AtMostOnce(FinishedEvent(r), ended)
<1>1. /\ DOMAIN q = 1 .. Cardinality(S)
      /\ \A i \in DOMAIN q : q[i] \in S
      /\ \A s \in S : \E i \in DOMAIN q : q[i] = s
      /\ \A i, j \in DOMAIN q : q[i] = q[j] => i = j
  BY DEF Orders
<1> DEFINE ended == [i \in DOMAIN q |-> [run |-> q[i], kind |-> "run_finished"]]
<1>2. /\ DOMAIN ended = DOMAIN q
      /\ \A i \in DOMAIN q : /\ ended[i] # StartedEvent(r)
                             /\ ended[i] = FinishedEvent(r) <=> q[i] = r
  BY DEF StartedEvent, FinishedEvent
<1> HIDE DEF ended
<1>3. ~ IsIn(StartedEvent(r), ended)
  BY <1>2 DEF IsIn
<1>4. IsIn(FinishedEvent(r), ended) <=> r \in S
  BY <1>1, <1>2 DEF IsIn
<1>5. AtMostOnce(StartedEvent(r), ended) /\ AtMostOnce(FinishedEvent(r), ended)
  BY <1>1, <1>2 DEF AtMostOnce
<1> QED
  BY <1>3, <1>4, <1>5 DEF ended

LEMMA LogInvFinishRuns ==
  ASSUME LogInv, TypeOK', NEW roots, NEW status \in RunEnded,
         FinishRuns(ActiveInTrees(roots), status)
  PROVE  LogInv'
<1> DEFINE S == ActiveInTrees(roots)
<1>1. S \in SUBSET RunIds
  BY DEF ActiveInTrees
<1>2. PICK q \in Orders(S) :
        events' = events \o [i \in DOMAIN q |-> [run |-> q[i], kind |-> "run_finished"]]
  BY DEF FinishRuns
<1> DEFINE ended == [i \in DOMAIN q |-> [run |-> q[i], kind |-> "run_finished"]]
<1>3. ended \in Seq(Event)
  BY <1>1, FinishedEventsType
<1>4. \A r \in RunIds :
        /\ ~ IsIn(StartedEvent(r), ended)
        /\ IsIn(FinishedEvent(r), ended) <=> r \in S
        /\ AtMostOnce(StartedEvent(r), ended) /\ AtMostOnce(FinishedEvent(r), ended)
  BY <1>1, FinishedOnce
<1>5. events' = events \o ended
  BY <1>2
<1> HIDE DEF ended
<1>6. \A r \in RunIds :
        IF r \in S THEN runs[r].status = "active" /\ runs'[r].status = status
        ELSE runs'[r].status = runs[r].status
  BY DEF FinishRuns, LogInv, TypeOK, Run, ActiveInTrees, IsActive
<1> HIDE DEF S
<1>7. /\ "none" \notin RunEnded /\ "active" \notin RunEnded
  BY DEF RunEnded
<1> QED
  BY <1>3, <1>4, <1>5, <1>6, <1>7, LogInvGrows

\* One event more.
LEMMA LogInvAppend ==
  ASSUME LogInv, TypeOK', NEW r \in RunIds, NEW kind \in EventKind,
         events' = Append1(r, kind),
         \A s \in RunIds :
           /\ kind = "run_started" /\ s = r
                <=> runs[s].status = "none" /\ runs'[s].status # "none"
           /\ kind = "run_finished" /\ s = r
                <=> runs[s].status \notin RunEnded /\ runs'[s].status \in RunEnded
           /\ runs[s].status # "none" => runs'[s].status # "none"
           /\ runs[s].status \in RunEnded => runs'[s].status \in RunEnded
  PROVE  LogInv'
<1> DEFINE e == [run |-> r, kind |-> kind]
           more == <<e>>
<1>1. e \in Event /\ more \in Seq(Event)
  BY DEF Event
<1>2. events' = events \o more
  BY <1>1 DEF Append1, LogInv, TypeOK
<1>3. \A s \in RunIds :
        /\ IsIn(StartedEvent(s), more) <=> kind = "run_started" /\ s = r
        /\ IsIn(FinishedEvent(s), more) <=> kind = "run_finished" /\ s = r
        /\ AtMostOnce(StartedEvent(s), more) /\ AtMostOnce(FinishedEvent(s), more)
  BY DEF IsIn, AtMostOnce, StartedEvent, FinishedEvent
<1> HIDE DEF more
<1> QED
  BY <1>1, <1>2, <1>3, LogInvGrows

LEMMA LogInvInit == Init => LogInv
<1> SUFFICES ASSUME Init PROVE LogInv
  OBVIOUS
<1>1. TypeOK
  BY TypeOKInit
<1>2. DOMAIN events = {} /\ \A r \in RunIds : runs[r].status = "none"
  BY DEF Init, NoRun
<1> QED
  BY <1>1, <1>2 DEF LogInv, EachToldOnce, Logged, RunEnded

LEMMA LogInvAdded ==
  ASSUME LogInv, TypeOK', NEW r \in RunIds, NEW f, NEW v, NEW root, NEW p, NEW a,
         runs[r].status = "none", AddRun(r, f, v, root, p, a)
  PROVE  LogInv'
<1>1. \A s \in RunIds :
        IF s = r THEN runs[s].status = "none" /\ runs'[s].status = "active"
        ELSE runs'[s].status = runs[s].status
  BY DEF AddRun, LogInv, TypeOK
<1>2. events' = Append1(r, "run_started") /\ "run_started" \in EventKind
  BY DEF AddRun, EventKind
<1> QED
  BY <1>1, <1>2, LogInvAppend DEF RunEnded

LEMMA LogInvNext == LogInv /\ [Next]_storeVars => LogInv'
<1> SUFFICES ASSUME LogInv, [Next]_storeVars PROVE LogInv'
  OBVIOUS
<1>0. TypeOK /\ TypeOK'
  BY TypeOKNext DEF LogInv
<1>1. CASE UNCHANGED <<runs, events>>
  BY <1>0, <1>1 DEF LogInv, EachToldOnce, Logged
<1>2. CASE \E U \in Deploys : StoreFlows(U)
  BY <1>0, <1>2, LogInvFinishRuns DEF StoreFlows, RunEnded
<1>3. CASE \E r \in RootIds, f \in FlowNames, v \in Versions : StartRun(r, f, v)
  BY <1>0, <1>3, LogInvAdded, StoreAssumption DEF StartRun
<1>4. CASE \E p \in RunIds, a \in SubFlowAddresses, f \in FlowNames, v \in Versions :
             StartSubRun(p, a, f, v)
  BY <1>0, <1>4, <1>1, LogInvAdded DEF StartSubRun, storeVars
<1>5. CASE \E r \in RunIds, output \in Values \cup {None} : SucceedRun(r, output)
  <2>1. PICK r \in RunIds, output \in Values \cup {None} : SucceedRun(r, output)
    BY <1>5
  <2>2. \A s \in RunIds :
          IF s = r THEN runs[s].status = "active" /\ runs'[s].status = "succeeded"
          ELSE runs'[s].status = runs[s].status
    BY <1>0, <2>1 DEF SucceedRun, IsActive, TypeOK, Run
  <2>3. events' = Append1(r, "run_finished") /\ "run_finished" \in EventKind
    BY <2>1 DEF SucceedRun, EventKind
  <2> QED
    BY <1>0, <2>2, <2>3, LogInvAppend DEF RunEnded
<1>6. CASE \E r \in RunIds : FailRunTree(r) \/ CancelRunTree(r)
  BY <1>0, <1>6, LogInvFinishRuns DEF FailRunTree, CancelRunTree, FinishTree, RunEnded
<1>7. CASE \E t \in TaskIds, status \in TaskTerminal, result \in Values \cup {None} :
             FinishTask(t, status, result)
  <2>1. PICK t \in TaskIds, status \in TaskTerminal, result \in Values \cup {None} :
               FinishTask(t, status, result)
    BY <1>7
  <2>2. t[1] \in RunIds /\ "task_finished" \in EventKind
    BY DEF TaskIds, EventKind
  <2>3. events' = Append1(t[1], "task_finished") /\ runs' = runs
    BY <2>1 DEF FinishTask
  <2> QED
    BY <1>0, <2>2, <2>3, LogInvAppend
<1>8. CASE \/ UNCHANGED storeVars
           \/ \E t \in TaskIds, q \in Queues : PublishTask(t, q)
           \/ \E q \in Queues, i \in DOMAIN published : ReceiveTask(q, i)
           \/ \E t \in TaskIds : \/ ClaimTask(t) \/ DropTask(t)
                                  \/ ExtendTaskLease(t) \/ LeaseLapses(t)
  BY <1>1, <1>8 DEF storeVars, PublishTask, ReceiveTask, HandOut, ClaimTask, DropTask,
                    ExtendTaskLease, LeaseLapses
<1> QED
  BY <1>2, <1>3, <1>4, <1>5, <1>6, <1>7, <1>8 DEF Next

\* An order in a log outlives what is appended, unless it is the first of the two.
LEMMA OrderGrows ==
  ASSUME NEW log \in Seq(Event), NEW more \in Seq(Event), NEW e, NEW f,
         Precedes(e, f, log), ~ IsIn(e, more)
  PROVE  Precedes(e, f, log \o more)
<1> DEFINE all == log \o more
<1>1. /\ DOMAIN log = 1 .. Len(log) /\ Len(log) \in Nat
      /\ DOMAIN more = 1 .. Len(more) /\ Len(more) \in Nat
      /\ DOMAIN all = 1 .. Len(log) + Len(more)
      /\ \A i \in 1 .. Len(log) : all[i] = log[i]
      /\ \A i \in 1 .. Len(more) : all[Len(log) + i] = more[i]
  OBVIOUS
<1>2. \A i \in DOMAIN all : i \notin 1 .. Len(log) =>
        i - Len(log) \in 1 .. Len(more) /\ all[i] = more[i - Len(log)]
  BY <1>1
<1> HIDE DEF all
<1>3. ASSUME NEW i \in DOMAIN all, NEW j \in DOMAIN all, all[i] = e, all[j] = f
      PROVE  i < j
  <2>1. i \in 1 .. Len(log)
    BY <1>1, <1>2, <1>3 DEF IsIn
  <2>2. CASE j \in 1 .. Len(log)
    BY <1>1, <1>3, <2>1, <2>2 DEF Precedes
  <2>3. CASE j \notin 1 .. Len(log)
    BY <1>1, <2>1, <2>3
  <2> QED
    BY <2>2, <2>3
<1> QED
  BY <1>3 DEF Precedes, all

OrderInv == TreeInv /\ LogInv /\ EventsInOrder

\* Ends of runs and tasks disturb no order, which all begin with a start.
LEMMA OrderOfEnds ==
  ASSUME OrderInv, NEW more \in Seq(Event), events' = events \o more,
         \A r \in RunIds : ~ IsIn(StartedEvent(r), more),
         \A r \in RunIds : /\ runs[r].status = "none" <=> runs'[r].status = "none"
                           /\ runs'[r].parent = runs[r].parent
  PROVE  EventsInOrder'
<1>1. events \in Seq(Event)
  BY DEF OrderInv, LogInv, TypeOK
<1>2. ASSUME NEW r \in RunIds, NEW f, Precedes(StartedEvent(r), f, events)
      PROVE  Precedes(StartedEvent(r), f, events')
  BY <1>1, <1>2, OrderGrows
<1> SUFFICES ASSUME NEW r \in RunIds, runs'[r].status # "none"
             PROVE  /\ Precedes(StartedEvent(r), FinishedEvent(r), events')
                    /\ runs'[r].parent # None =>
                         /\ Precedes(StartedEvent(runs'[r].parent), StartedEvent(r), events')
                         /\ Precedes(StartedEvent(r), FinishedEvent(runs'[r].parent), events')
  BY DEF EventsInOrder, StartedEvent, FinishedEvent
<1>3. runs'[r].parent = runs[r].parent /\ runs[r].status # "none"
  OBVIOUS
<1>4. runs[r].parent # None => runs[r].parent \in RunIds
  BY <1>3 DEF OrderInv, TreeInv, TreeShape
<1> QED
  BY <1>2, <1>3, <1>4 DEF OrderInv, EventsInOrder

\* A run that is added has no parent, or an active one.
LEMMA OrderOfStart ==
  ASSUME OrderInv, NEW r \in RunIds, NEW f, NEW v, NEW root, NEW p, NEW a,
         runs[r].status = "none", AddRun(r, f, v, root, p, a),
         p = None \/ (p \in RunIds /\ IsActive(p))
  PROVE  EventsInOrder'
<1> DEFINE more == <<StartedEvent(r)>>
<1>1. more \in Seq(Event) /\ events \in Seq(Event) /\ events' = events \o more
  BY DEF OrderInv, LogInv, TypeOK, Event, EventKind, AddRun, Append1, StartedEvent
<1>2. \A s \in RunIds : s # r => ~ IsIn(StartedEvent(s), more)
  BY DEF IsIn, StartedEvent
<1>3. \A s \in RunIds : ~ IsIn(FinishedEvent(s), more)
  BY DEF IsIn, StartedEvent, FinishedEvent
<1> HIDE DEF more
<1>4. \A s \in RunIds : /\ runs[s].status # "none" <=> IsIn(StartedEvent(s), events)
                        /\ runs[s].status \in RunEnded <=> IsIn(FinishedEvent(s), events)
  BY DEF OrderInv, LogInv, EachToldOnce, Logged, IsIn, StartedEvent, FinishedEvent
<1>5. \A s \in RunIds : IF s = r THEN runs'[s].status = "active" /\ runs'[s].parent = p
                        ELSE runs'[s] = runs[s]
  BY DEF AddRun, OrderInv, LogInv, TypeOK
<1>6. \A e, g : ~ IsIn(g, events) => Precedes(e, g, events)
  BY DEF IsIn, Precedes
<1>7. \A e, g : Precedes(e, g, events) /\ ~ IsIn(e, more) => Precedes(e, g, events')
  BY <1>1, OrderGrows
<1>8. \A e, g : ~ IsIn(g, events) /\ ~ IsIn(g, more) => Precedes(e, g, events')
  <2>1. \A g : ~ IsIn(g, events) /\ ~ IsIn(g, more) => ~ IsIn(g, events')
    BY <1>1, LogGrows
  <2> QED
    BY <2>1 DEF IsIn, Precedes
<1>9. "none" \notin RunEnded /\ "active" \notin RunEnded
  BY DEF RunEnded
<1>10. Precedes(StartedEvent(r), FinishedEvent(r), events')
  BY <1>3, <1>4, <1>8, <1>9
<1>11. ASSUME p # None
       PROVE  /\ Precedes(StartedEvent(p), StartedEvent(r), events')
              /\ Precedes(StartedEvent(r), FinishedEvent(p), events')
  <2>1. p \in RunIds /\ p # r /\ runs[p].status = "active"
    BY <1>11 DEF IsActive
  <2>2. Precedes(StartedEvent(p), StartedEvent(r), events')
    BY <1>2, <1>4, <1>6, <1>7, <2>1
  <2>3. Precedes(StartedEvent(r), FinishedEvent(p), events')
    BY <1>3, <1>4, <1>8, <1>9, <2>1
  <2> QED
    BY <2>2, <2>3
<1>12. ASSUME NEW s \in RunIds, s # r, runs[s].status # "none"
       PROVE  /\ Precedes(StartedEvent(s), FinishedEvent(s), events')
              /\ runs[s].parent # None =>
                   /\ Precedes(StartedEvent(runs[s].parent), StartedEvent(s), events')
                   /\ Precedes(StartedEvent(s), FinishedEvent(runs[s].parent), events')
  <2>1. runs[s].parent # None =>
          runs[s].parent \in RunIds /\ runs[s].parent # r
    BY <1>12 DEF OrderInv, TreeInv, TreeShape
  <2> QED
    BY <1>2, <1>7, <1>12, <2>1 DEF OrderInv, EventsInOrder
<1> SUFFICES ASSUME NEW s \in RunIds, runs'[s].status # "none"
             PROVE  /\ Precedes(StartedEvent(s), FinishedEvent(s), events')
                    /\ runs'[s].parent # None =>
                         /\ Precedes(StartedEvent(runs'[s].parent), StartedEvent(s), events')
                         /\ Precedes(StartedEvent(s), FinishedEvent(runs'[s].parent), events')
  BY DEF EventsInOrder, StartedEvent, FinishedEvent
<1> QED
  BY <1>5, <1>10, <1>11, <1>12

LEMMA OrderOfOneEnd ==
  ASSUME OrderInv, NEW r \in RunIds, NEW kind \in EventKind \ {"run_started"},
         events' = Append1(r, kind),
         \A s \in RunIds : /\ runs[s].status = "none" <=> runs'[s].status = "none"
                           /\ runs'[s].parent = runs[s].parent
  PROVE  EventsInOrder'
<1> DEFINE more == <<[run |-> r, kind |-> kind]>>
<1>1. more \in Seq(Event) /\ events' = events \o more
  BY DEF OrderInv, LogInv, TypeOK, Event, Append1
<1>2. \A s \in RunIds : ~ IsIn(StartedEvent(s), more)
  BY DEF IsIn, StartedEvent
<1> HIDE DEF more
<1> QED
  BY <1>1, <1>2, OrderOfEnds

LEMMA OrderOfTrees ==
  ASSUME OrderInv, NEW roots, NEW status \in RunEnded,
         FinishRuns(ActiveInTrees(roots), status)
  PROVE  EventsInOrder'
<1> DEFINE S == ActiveInTrees(roots)
<1>1. S \in SUBSET RunIds
  BY DEF ActiveInTrees
<1>2. PICK q \in Orders(S) :
        events' = events \o [i \in DOMAIN q |-> [run |-> q[i], kind |-> "run_finished"]]
  BY DEF FinishRuns
<1> DEFINE ended == [i \in DOMAIN q |-> [run |-> q[i], kind |-> "run_finished"]]
<1>3. ended \in Seq(Event)
  BY <1>1, FinishedEventsType
<1>4. \A r \in RunIds : ~ IsIn(StartedEvent(r), ended)
  BY <1>1, FinishedOnce
<1>5. events' = events \o ended
  BY <1>2
<1> HIDE DEF ended
<1>6. \A r \in RunIds : /\ runs[r].status = "none" <=> runs'[r].status = "none"
                        /\ runs'[r].parent = runs[r].parent
  BY DEF FinishRuns, OrderInv, LogInv, TypeOK, Run, ActiveInTrees, IsActive, RunEnded
<1> HIDE DEF S
<1> QED
  BY <1>3, <1>4, <1>5, <1>6, OrderOfEnds

LEMMA OrderInvNext == OrderInv /\ [Next]_storeVars => OrderInv'
<1> SUFFICES ASSUME OrderInv, [Next]_storeVars PROVE OrderInv'
  OBVIOUS
<1>0. TreeInv' /\ LogInv'
  BY TreeInvNext, LogInvNext DEF OrderInv
<1> SUFFICES EventsInOrder'
  BY <1>0 DEF OrderInv
<1>1. CASE UNCHANGED <<runs, events>>
  BY <1>1 DEF OrderInv, EventsInOrder
<1>2. CASE \E U \in Deploys : StoreFlows(U)
  BY <1>2, OrderOfTrees DEF StoreFlows, RunEnded
<1>3. CASE \E r \in RootIds, f \in FlowNames, v \in Versions : StartRun(r, f, v)
  <2>1. PICK r \in RootIds, f \in FlowNames, v \in Versions : StartRun(r, f, v)
    BY <1>3
  <2>2. r \in RunIds /\ runs[r].status = "none" /\ AddRun(r, f, v, r, None, None)
    BY <2>1, StoreAssumption DEF StartRun
  <2> QED
    BY <2>2, OrderOfStart
<1>4. CASE \E p \in RunIds, a \in SubFlowAddresses, f \in FlowNames, v \in Versions :
             StartSubRun(p, a, f, v)
  BY <1>1, <1>4, OrderOfStart DEF StartSubRun, storeVars
<1>5. CASE \E r \in RunIds, output \in Values \cup {None} : SucceedRun(r, output)
  <2>1. PICK r \in RunIds, output \in Values \cup {None} : SucceedRun(r, output)
    BY <1>5
  <2>2. \A s \in RunIds : /\ runs[s].status = "none" <=> runs'[s].status = "none"
                          /\ runs'[s].parent = runs[s].parent
    BY <2>1 DEF SucceedRun, IsActive, OrderInv, LogInv, TypeOK, Run
  <2>3. events' = Append1(r, "run_finished")
        /\ "run_finished" \in EventKind \ {"run_started"}
    BY <2>1 DEF SucceedRun, EventKind
  <2> QED
    BY <2>2, <2>3, OrderOfOneEnd
<1>6. CASE \E r \in RunIds : FailRunTree(r) \/ CancelRunTree(r)
  BY <1>6, OrderOfTrees DEF FailRunTree, CancelRunTree, FinishTree, RunEnded
<1>7. CASE \E t \in TaskIds, status \in TaskTerminal, result \in Values \cup {None} :
             FinishTask(t, status, result)
  <2>1. PICK t \in TaskIds : events' = Append1(t[1], "task_finished") /\ runs' = runs
    BY <1>7 DEF FinishTask
  <2>2. t[1] \in RunIds /\ "task_finished" \in EventKind \ {"run_started"}
    BY DEF TaskIds, EventKind
  <2> QED
    BY <2>1, <2>2, OrderOfOneEnd
<1>8. CASE \/ UNCHANGED storeVars
           \/ \E t \in TaskIds, q \in Queues : PublishTask(t, q)
           \/ \E q \in Queues, i \in DOMAIN published : ReceiveTask(q, i)
           \/ \E t \in TaskIds : \/ ClaimTask(t) \/ DropTask(t)
                                  \/ ExtendTaskLease(t) \/ LeaseLapses(t)
  BY <1>1, <1>8 DEF storeVars, PublishTask, ReceiveTask, HandOut, ClaimTask, DropTask,
                    ExtendTaskLease, LeaseLapses
<1> QED
  BY <1>2, <1>3, <1>4, <1>5, <1>6, <1>7, <1>8 DEF Next

\* Whoever reads the log learns of every start and every end of a run, once and in
\* an order that could have happened, for any number of runs, trees of any depth and
\* any interleaving of the operations.
THEOREM LogTellsRuns == Spec => []EventsTellRuns
<1>1. OrderInv => EventsTellRuns
  BY DEF OrderInv, LogInv, EventsTellRuns
<1>2. Init => OrderInv
  <2> SUFFICES ASSUME Init PROVE EventsInOrder
    BY TreeInvInit, LogInvInit DEF OrderInv
  <2>1. \A r \in RunIds : runs[r].status = "none"
    BY DEF Init, NoRun
  <2> QED
    BY <2>1 DEF EventsInOrder
<1> QED
  BY <1>1, <1>2, OrderInvNext, PTL DEF Spec

-----------------------------------------------------------------------------
(* The flows.                                                                *)

FlowsInv == TypeOK /\ LatestFlowsValid

\* The latest version of a flow depends on its stored versions alone.
LEMMA DeployedFlow ==
  ASSUME TypeOK, NEW U \in Deploys, StoreFlows(U), NEW f \in FlowNames
  PROVE  LatestAfter({})'[f] = LatestAfter(U)[f]
<1> DEFINE new == NewUploads(U)
           newOf == {u \in new : u.name = f}
<1>1. /\ new \subseteq Upload
      /\ \A u, w \in new : u.name = w.name => u = w
      /\ \A u \in new : IsNewUpload(u)
  BY DEF NewUploads, Deploys, StoreFlows, CheckUploads
<1>2. NewUploads({}) = {} /\ NewUploads({})' = {}
  BY DEF NewUploads
<1>3. flows'[f] = [v \in Versions |->
                     IF \E u \in new : u.name = f /\ u.version = v
                     THEN (CHOOSE u \in new : u.name = f).content
                     ELSE flows[f][v]]
  BY DEF StoreFlows
<1>4. LatestAfter(U)[f] =
        IF newOf # {} THEN (CHOOSE u \in newOf : TRUE).content
        ELSE IF StoredVersions(f) = {} THEN None
        ELSE flows[f][CHOOSE v \in Versions : IsLatest(f, v)]
  BY DEF LatestAfter
<1>5. LatestAfter({})'[f] =
        IF StoredVersions(f)' = {} THEN None
        ELSE flows'[f][CHOOSE v \in Versions : IsLatest(f, v)']
  BY <1>2 DEF LatestAfter
<1>6. None \notin Contents
  BY StoreAssumption
<1>7. CASE newOf = {}
  <2>1. flows'[f] = flows[f]
    <3>1. flows'[f] = [v \in Versions |-> flows[f][v]]
      BY <1>3, <1>7
    <3>2. flows[f] = [v \in Versions |-> flows[f][v]]
      BY DEF TypeOK
    <3> QED
      BY <3>1, <3>2
  <2>2. StoredVersions(f)' = StoredVersions(f)
    BY <2>1 DEF StoredVersions
  <2>3. (CHOOSE v \in Versions : IsLatest(f, v)') = CHOOSE v \in Versions : IsLatest(f, v)
    BY <2>2 DEF IsLatest
  <2> QED
    BY <1>4, <1>5, <1>7, <2>1, <2>2, <2>3
<1>8. CASE newOf # {}
  <2>1. PICK u \in newOf : TRUE
    BY <1>8
  <2>2. u \in Upload /\ u.name = f /\ newOf = {u} /\ IsNewUpload(u)
    BY <1>1, <2>1
  <2>3. (CHOOSE w \in newOf : TRUE) = u /\ (CHOOSE w \in new : w.name = f) = u
    BY <1>1, <2>1, <2>2
  <2>4. \A v \in Versions :
          flows'[f][v] = IF v = u.version THEN u.content ELSE flows[f][v]
    BY <1>1, <1>3, <2>1, <2>2, <2>3
  <2>5. u.version \in Versions /\ u.version \in Nat /\ u.content \in Contents
    BY <2>2 DEF Upload, Versions
  <2>6. StoredVersions(f)' = StoredVersions(f) \cup {u.version}
    BY <1>6, <2>4, <2>5 DEF StoredVersions
  <2>7. \A w \in StoredVersions(f) : w < u.version /\ w \in Nat
    BY <2>2 DEF IsNewUpload, StoredVersions, Versions
  <2>8. \A v \in Versions : IsLatest(f, v)' <=> v = u.version
    BY <2>5, <2>6, <2>7 DEF IsLatest, Versions
  <2>9. (CHOOSE v \in Versions : IsLatest(f, v)') = u.version
    BY <2>5, <2>8
  <2> QED
    BY <1>4, <1>5, <1>8, <2>3, <2>4, <2>5, <2>6, <2>9
<1> QED
  BY <1>7, <1>8

\* What was checked before the deploy is what the flows are after it.
LEMMA Deployed ==
  ASSUME TypeOK, NEW U \in Deploys, StoreFlows(U)
  PROVE  LatestAfter({})' = LatestAfter(U)
<1>1. \A f \in FlowNames : LatestAfter({})'[f] = LatestAfter(U)[f]
  BY DeployedFlow
<1>2. /\ LatestAfter({})' = [f \in FlowNames |-> LatestAfter({})'[f]]
      /\ LatestAfter(U) = [f \in FlowNames |-> LatestAfter(U)[f]]
  BY DEF LatestAfter
<1> QED
  BY <1>1, <1>2

LEMMA FlowsInvNext == FlowsInv /\ [Next]_storeVars => FlowsInv'
<1> SUFFICES ASSUME FlowsInv, [Next]_storeVars PROVE FlowsInv'
  OBVIOUS
<1>0. TypeOK /\ TypeOK'
  BY TypeOKNext DEF FlowsInv
<1>1. CASE \E U \in Deploys : StoreFlows(U)
  <2>1. PICK U \in Deploys : StoreFlows(U)
    BY <1>1
  <2>2. ValidFlowSet(LatestAfter(U))
    BY <2>1 DEF StoreFlows, CheckUploads
  <2>3. ValidFlowSet(LatestAfter({})')
    BY <1>0, <2>1, <2>2, Deployed
  <2> QED
    BY <1>0, <2>3 DEF FlowsInv, LatestFlowsValid
<1>2. CASE flows' = flows
  <2>1. \A f \in FlowNames : StoredVersions(f)' = StoredVersions(f)
    BY <1>2 DEF StoredVersions
  <2>2. LatestAfter({})' = LatestAfter({})
    BY <1>2 DEF LatestAfter, NewUploads, IsNewUpload, IsLatest, StoredVersions
  <2> QED
    BY <1>0, <2>1, <2>2 DEF FlowsInv, LatestFlowsValid
<1> QED
  BY <1>1, <1>2
  DEF Next, storeVars, StartRun, StartSubRun, AddRun, SucceedRun, FailRunTree, CancelRunTree,
      FinishTree, PublishTask, ReceiveTask, HandOut, ClaimTask, DropTask, ExtendTaskLease,
      FinishTask, LeaseLapses

\* Every version that is the latest was checked beside the latest of the others.
THEOREM LatestFlowsStayValid == Spec => []LatestFlowsValid
<1>1. Init => FlowsInv
  BY TypeOKInit DEF Init, FlowsInv, LatestFlowsValid, StoredVersions
<1>2. FlowsInv => LatestFlowsValid
  BY DEF FlowsInv
<1> QED
  BY <1>1, <1>2, FlowsInvNext, PTL DEF Spec

-----------------------------------------------------------------------------
(* What a step may never do.                                                 *)

LEMMA FinishRunsKeepEnded ==
  ASSUME TypeOK, NEW roots, NEW status, FinishRuns(ActiveInTrees(roots), status),
         NEW r \in RunIds, runs[r].status # "active"
  PROVE  runs'[r] = runs[r]
<1>1. r \notin ActiveInTrees(roots)
  BY DEF ActiveInTrees, IsActive
<1> QED
  BY <1>1 DEF FinishRuns

LEMMA FinalStepNext == TaskInv /\ [Next]_storeVars => [FinalStep]_storeVars
<1> SUFFICES ASSUME TaskInv, Next PROVE FinalStep
  OBVIOUS
<1>0. TypeOK
  BY DEF TaskInv
<1>1. CASE \E U \in Deploys : StoreFlows(U)
  BY <1>0, <1>1, FinishRunsKeepEnded DEF StoreFlows, FinalStep, RunEnded
<1>2. CASE \E r \in RootIds, f \in FlowNames, v \in Versions : StartRun(r, f, v)
  BY <1>0, <1>2 DEF StartRun, AddRun, FinalStep, TypeOK, RunEnded
<1>3. CASE \E p \in RunIds, a \in SubFlowAddresses, f \in FlowNames, v \in Versions :
             StartSubRun(p, a, f, v)
  BY <1>0, <1>3 DEF StartSubRun, AddRun, FinalStep, TypeOK, RunEnded, storeVars
<1>4. CASE \E r \in RunIds, output \in Values \cup {None} : SucceedRun(r, output)
  BY <1>0, <1>4 DEF SucceedRun, IsActive, FinalStep, TypeOK, RunEnded
<1>5. CASE \E r \in RunIds : FailRunTree(r) \/ CancelRunTree(r)
  BY <1>0, <1>5, FinishRunsKeepEnded DEF FailRunTree, CancelRunTree, FinishTree, FinalStep, RunEnded
<1>6. CASE \E t \in TaskIds, q \in Queues : PublishTask(t, q)
  BY <1>0, <1>6 DEF PublishTask, FinalStep, TypeOK, TaskTerminal
<1>7. CASE \E q \in Queues, i \in DOMAIN published : ReceiveTask(q, i)
  BY <1>0, <1>7 DEF ReceiveTask, HandOut, IsOldestReceivable, IsReceivable, FinalStep, TypeOK,
              TaskTerminal, TaskLeased
<1>8. CASE \E t \in TaskIds : ClaimTask(t) \/ DropTask(t) \/ ExtendTaskLease(t)
  BY <1>0, <1>8 DEF ClaimTask, DropTask, ExtendTaskLease, MayBecome, FinalStep, TypeOK,
              TaskTerminal, TaskLeased
<1>9. CASE \E t \in TaskIds, status \in TaskTerminal, result \in Values \cup {None} :
             FinishTask(t, status, result)
  BY <1>0, <1>9 DEF FinishTask, MayBecome, FinalStep, TypeOK, TaskTerminal
<1>10. CASE \E t \in TaskIds : LeaseLapses(t)
  BY <1>0, <1>10 DEF LeaseLapses, TaskInv, NoTaskStranded, FinalStep, TypeOK,
                     TaskTerminal, TaskLeased
<1> QED
  BY <1>1, <1>2, <1>3, <1>4, <1>5, <1>6, <1>7, <1>8, <1>9, <1>10 DEF Next

\* No call, late or repeated, changes a run or a task that has ended.
THEOREM EndedStaysEnded == Spec => FinalStaysFinal
<1>1. TaskInv /\ [Next]_storeVars => [FinalStep]_storeVars
  BY FinalStepNext
<1> QED
  BY <1>1, TaskInvInit, TaskInvNext, PTL DEF Spec, FinalStaysFinal

LEMMA WorkStepNext == TypeOK /\ [Next]_storeVars => [WorkStep]_storeVars
<1> SUFFICES ASSUME TypeOK, Next PROVE WorkStep
  OBVIOUS
<1>1. CASE tasks' = tasks
  BY <1>1 DEF WorkStep
<1>2. CASE \E t \in TaskIds, q \in Queues : PublishTask(t, q)
  BY <1>2 DEF PublishTask, WorkStep, TypeOK, IsActive
<1>3. CASE \E q \in Queues, i \in DOMAIN published : ReceiveTask(q, i)
  <2>1. PICK q \in Queues, i \in DOMAIN published : ReceiveTask(q, i)
    BY <1>3
  <2>2. \A t \in TaskIds : tasks'[t].status = tasks[t].status \/ tasks'[t].status = "received"
    BY <2>1 DEF ReceiveTask, HandOut, TypeOK, Task
  <2> QED
    BY <2>2 DEF WorkStep
<1>4. CASE \E t \in TaskIds : ClaimTask(t)
  BY <1>4 DEF ClaimTask, WorkStep, TypeOK, IsActive
<1>5. CASE \E t \in TaskIds : DropTask(t) \/ ExtendTaskLease(t) \/ LeaseLapses(t)
  <2>1. \A t \in TaskIds : tasks'[t].status = tasks[t].status \/ tasks'[t].status = "failed"
    <3>1. PICK t \in TaskIds : DropTask(t) \/ ExtendTaskLease(t) \/ LeaseLapses(t)
      BY <1>5
    <3>2. tasks[t] \in Task
      BY DEF TypeOK
    <3>3. /\ tasks'[t].status = tasks[t].status \/ tasks'[t].status = "failed"
          /\ \A s \in TaskIds : s # t => tasks'[s] = tasks[s]
      <4>1. CASE DropTask(t)
        BY <3>2, <4>1 DEF DropTask, TypeOK, Task
      <4>2. CASE ExtendTaskLease(t)
        BY <3>2, <4>2 DEF ExtendTaskLease, TypeOK, Task
      <4>3. CASE LeaseLapses(t)
        BY <3>2, <4>3 DEF LeaseLapses, TypeOK, Task
      <4> QED
        BY <3>1, <4>1, <4>2, <4>3
    <3> QED
      BY <3>3
  <2> QED
    BY <2>1 DEF WorkStep
<1>6. CASE \E t \in TaskIds, status \in TaskTerminal, result \in Values \cup {None} :
             FinishTask(t, status, result)
  <2>1. \A t \in TaskIds :
          tasks'[t].status = tasks[t].status \/ tasks'[t].status \in TaskTerminal
    BY <1>6 DEF FinishTask, TypeOK, Task
  <2> QED
    BY <2>1 DEF WorkStep, TaskTerminal
<1> QED
  BY <1>1, <1>2, <1>3, <1>4, <1>5, <1>6
  DEF Next, storeVars, StoreFlows, StartRun, StartSubRun, AddRun, SucceedRun, FailRunTree,
      CancelRunTree, FinishTree

\* Tasks are published and begin to run only in active runs.
THEOREM WorkOnlyInActiveRuns == Spec => NoWorkForEndedRuns
<1>1. TypeOK /\ [Next]_storeVars => [WorkStep]_storeVars
  BY WorkStepNext
<1> QED
  BY <1>1, TypeOKInit, TypeOKNext, PTL DEF Spec, NoWorkForEndedRuns

\* A task that was never published has never been delivered either.
NeverDelivered == \A t \in TaskIds : tasks[t].status = "none" => tasks[t].attempts = 0

LeaseInv == TaskInv /\ NeverDelivered

LEMMA LeaseInvInit == Init => LeaseInv
BY TaskInvInit DEF Init, LeaseInv, NeverDelivered, NoTask

\* What each step of the store may do to one task.
TaskStep(t) ==
  \/ tasks'[t] = tasks[t]
  \/ /\ tasks[t].status = "none" /\ tasks'[t].status = "pending"
     /\ tasks'[t].attempts = 0
  \/ /\ tasks[t].status = "pending" \/ tasks[t].lease = "lapsed"
     /\ tasks'[t].status = "received" /\ tasks'[t].lease = "held"
     /\ tasks'[t].attempts = tasks[t].attempts + 1
  \/ /\ tasks[t].status # "none" /\ tasks'[t].status # "none"
     /\ tasks'[t].attempts = tasks[t].attempts

LEMMA OneTaskChanges ==
  ASSUME TypeOK, NEW t \in TaskIds, NEW new, tasks' = [tasks EXCEPT ![t] = new]
  PROVE  /\ tasks'[t] = new
         /\ \A s \in TaskIds : s # t => tasks'[s] = tasks[s]
BY DEF TypeOK

LEMMA TaskStepNext == TaskInv /\ [Next]_storeVars => \A t \in TaskIds : TaskStep(t)
<1> SUFFICES ASSUME TaskInv, [Next]_storeVars, NEW s \in TaskIds PROVE TaskStep(s)
  OBVIOUS
<1>0. TypeOK /\ \A t \in TaskIds : tasks[t] \in Task
  BY DEF TaskInv, TypeOK
<1>1. CASE tasks' = tasks
  BY <1>1 DEF TaskStep
<1>2. CASE \E t \in TaskIds, q \in Queues : PublishTask(t, q)
  <2>1. PICK t \in TaskIds, q \in Queues : PublishTask(t, q)
    BY <1>2
  <2>2. CASE tasks[t].status # "none"
    BY <2>1, <2>2 DEF PublishTask, TaskStep
  <2>3. CASE tasks[t].status = "none"
    <3> DEFINE new == [NoTask EXCEPT !.status = "pending", !.queue = q]
    <3>1. new.status = "pending" /\ new.attempts = 0
      BY DEF NoTask
    <3>2. tasks' = [tasks EXCEPT ![t] = new]
      BY <2>1, <2>3 DEF PublishTask
    <3> HIDE DEF new
    <3> QED
      BY <2>3, <3>1, <3>2, <1>0, OneTaskChanges DEF TaskStep
  <2> QED
    BY <2>2, <2>3
<1>3. CASE \E q \in Queues, i \in DOMAIN published : ReceiveTask(q, i)
  <2>1. PICK q \in Queues, i \in DOMAIN published : ReceiveTask(q, i)
    BY <1>3
  <2> DEFINE t == published[i]
             new == [tasks[t] EXCEPT !.status = "received", !.lease = "held",
                                     !.attempts = tasks[t].attempts + 1]
  <2>2. t \in TaskIds /\ tasks[t] \in Task
    BY <1>0 DEF TypeOK
  <2>3. /\ new.status = "received" /\ new.lease = "held"
        /\ new.attempts = tasks[t].attempts + 1
    BY <2>2 DEF Task
  <2>4. tasks' = [tasks EXCEPT ![t] = new]
    BY <2>1, Zenon DEF ReceiveTask, HandOut
  <2>5. tasks[t].status = "pending" \/ tasks[t].lease = "lapsed"
    BY <2>1 DEF ReceiveTask, IsOldestReceivable, IsReceivable
  <2> HIDE DEF t, new
  <2> QED
    BY <2>2, <2>3, <2>4, <2>5, <1>0, OneTaskChanges DEF TaskStep
<1>4. CASE \E t \in TaskIds : \/ ClaimTask(t) \/ DropTask(t)
                              \/ ExtendTaskLease(t) \/ LeaseLapses(t)
  <2>1. PICK t \in TaskIds : \/ ClaimTask(t) \/ DropTask(t)
                             \/ ExtendTaskLease(t) \/ LeaseLapses(t)
    BY <1>4
  <2>2. tasks[t].lease = "held" => tasks[t].status \in TaskLeased
    BY DEF TaskInv, NoTaskStranded
  <2>3. CASE ClaimTask(t)
    BY <1>0, <2>3 DEF ClaimTask, MayBecome, TypeOK, Task, TaskStep
  <2>4. CASE DropTask(t)
    BY <1>0, <2>4 DEF DropTask, MayBecome, TypeOK, Task, TaskStep
  <2>5. CASE ExtendTaskLease(t)
    BY <1>0, <2>5 DEF ExtendTaskLease, TypeOK, Task, TaskStep, TaskLeased
  <2>6. CASE LeaseLapses(t)
    BY <1>0, <2>2, <2>6 DEF LeaseLapses, TypeOK, Task, TaskStep, TaskLeased
  <2> QED
    BY <2>1, <2>3, <2>4, <2>5, <2>6
<1>5. CASE \E t \in TaskIds, status \in TaskTerminal, result \in Values \cup {None} :
             FinishTask(t, status, result)
  BY <1>0, <1>5 DEF FinishTask, MayBecome, TypeOK, Task, TaskTerminal, TaskStep
<1> QED
  BY <1>1, <1>2, <1>3, <1>4, <1>5
  DEF Next, storeVars, StoreFlows, StartRun, StartSubRun, AddRun, SucceedRun, FailRunTree,
      CancelRunTree, FinishTree

LEMMA LeaseInvNext == LeaseInv /\ [Next]_storeVars => LeaseInv'
<1> SUFFICES ASSUME LeaseInv, [Next]_storeVars PROVE LeaseInv'
  OBVIOUS
<1>1. TaskInv /\ TaskInv'
  BY TaskInvNext DEF LeaseInv
<1>2. \A t \in TaskIds : TaskStep(t)
  BY <1>1, TaskStepNext
<1>3. NeverDelivered'
  BY <1>2 DEF LeaseInv, NeverDelivered, TaskStep
<1> QED
  BY <1>1, <1>3 DEF LeaseInv

LEMMA DeliveryStepNext == LeaseInv /\ [Next]_storeVars => [DeliveryStep]_storeVars
<1> SUFFICES ASSUME LeaseInv, [Next]_storeVars PROVE DeliveryStep
  OBVIOUS
<1>1. \A t \in TaskIds : TaskStep(t)
  BY TaskStepNext DEF LeaseInv
<1> SUFFICES ASSUME NEW t \in TaskIds
             PROVE  /\ tasks'[t].attempts # tasks[t].attempts
                         => /\ tasks'[t].attempts = tasks[t].attempts + 1
                            /\ tasks[t].lease # "held" /\ tasks'[t].lease = "held"
                    /\ tasks[t].status \in TaskLeased /\ tasks[t].lease = "held"
                         => tasks'[t].status \in TaskTerminal \/ tasks'[t].attempts = tasks[t].attempts
  BY DEF DeliveryStep
<1>2. /\ tasks[t].status = "none" => tasks[t].attempts = 0
      /\ tasks[t].status = "pending" => tasks[t].lease = "none"
  BY DEF LeaseInv, NeverDelivered, TaskInv, NoTaskStranded, TaskLeased, TypeOK, Task
<1> QED
  BY <1>1, <1>2 DEF TaskStep, TaskLeased

\* Whatever calls come in between, a task under a lease that holds is never
\* delivered a second time.
THEOREM DeliveredOnce == Spec => LeaseExcludes
<1> QED
  BY LeaseInvInit, LeaseInvNext, DeliveryStepNext, PTL DEF Spec, LeaseExcludes
=============================================================================
