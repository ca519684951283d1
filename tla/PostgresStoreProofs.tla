------------------------- MODULE PostgresStoreProofs -------------------------
(* Proofs that the transactions of PostgresStore do as Store promises, for    *)
(* any number of transactions at once and any runs, flows and tasks.          *)
EXTENDS PostgresStore, FiniteSetTheorems, SequenceTheorems, WellFoundedInduction, TLAPS

SP == INSTANCE StoreProofs

-----------------------------------------------------------------------------
(* What is proved of Store holds of what it is instantiated with.             *)

LEMMA SameCardinality ==
  ASSUME NEW X
  PROVE  S!Cardinality(X) = Cardinality(X) /\ SP!Cardinality(X) = Cardinality(X)
<1>1. S!Cardinality(X) = Cardinality(X)
  BY DEF S!Cardinality, Cardinality
<1>2. SP!Cardinality(X) = Cardinality(X)
  BY DEF SP!Cardinality, Cardinality
<1> QED
  BY <1>1, <1>2

LEMMA StoreAssumed ==
  /\ SP!StoreAssumption
  /\ IsFiniteSet(RunIds) /\ RootIds \subseteq RunIds
  /\ None \notin RunIds /\ None \notin Contents /\ None \notin Queues
  /\ \A p, q \in RunIds, a, b \in SubFlowAddresses :
       /\ SubRunIdFor(p, a) \notin RootIds
       /\ SubRunIdFor(p, a) = SubRunIdFor(q, b) => p = q /\ a = b
<1>1. SP!StoreAssumption
  BY PostgresAssumption
  DEF S!StoreAssumption, SP!StoreAssumption, S!Addresses, SP!Addresses, S!IsFiniteSet,
      SP!IsFiniteSet
<1>2. S!IsFiniteSet(RunIds) <=> IsFiniteSet(RunIds)
  BY DEF S!IsFiniteSet, IsFiniteSet
<1> QED
  BY <1>1, <1>2, PostgresAssumption DEF S!StoreAssumption

\* The same step, whichever instance of Store names it.
LEMMA SameFlowSteps ==
  /\ \A U : U \in S!Deploys <=> U \in SP!Deploys
  /\ \A U : S!StoreFlows(U) <=> SP!StoreFlows(U)
<1>1. ASSUME NEW U
      PROVE  U \in S!Deploys <=> U \in SP!Deploys
  BY DEF S!Deploys, SP!Deploys, S!Upload, SP!Upload, S!Versions, SP!Versions,
         S!Cardinality, SP!Cardinality
<1>2. ASSUME NEW U
      PROVE  S!StoreFlows(U) <=> SP!StoreFlows(U)
  BY DEF S!StoreFlows, SP!StoreFlows, S!NewUploads, SP!NewUploads, S!IsNewUpload,
         SP!IsNewUpload, S!StoredVersions, SP!StoredVersions, S!Versions, SP!Versions,
         S!IsActive, SP!IsActive, S!CheckUploads, SP!CheckUploads, S!SameUpload,
         SP!SameUpload, S!LatestAfter, SP!LatestAfter, S!IsLatest, SP!IsLatest,
         S!FinishRuns, SP!FinishRuns, S!ActiveInTrees, SP!ActiveInTrees,
         S!Orders, SP!Orders, S!Cardinality, SP!Cardinality
<1> QED
  BY <1>1, <1>2

LEMMA SameRunSteps ==
  /\ \A r, f, v : S!StartRun(r, f, v) <=> SP!StartRun(r, f, v)
  /\ \A p, a, f, v : S!StartSubRun(p, a, f, v) <=> SP!StartSubRun(p, a, f, v)
  /\ \A r, output : S!SucceedRun(r, output) <=> SP!SucceedRun(r, output)
  /\ \A r, status : S!FinishTree(r, status) <=> SP!FinishTree(r, status)
  /\ \A r : (S!FailRunTree(r) <=> SP!FailRunTree(r))
            /\ (S!CancelRunTree(r) <=> SP!CancelRunTree(r))
<1>1. ASSUME NEW r, NEW f, NEW v
      PROVE  S!StartRun(r, f, v) <=> SP!StartRun(r, f, v)
  BY DEF S!StartRun, SP!StartRun, S!AddRun, SP!AddRun, S!IsLatest, SP!IsLatest,
         S!StoredVersions, SP!StoredVersions, S!Versions, SP!Versions, S!Append1, SP!Append1
<1>2. ASSUME NEW p, NEW a, NEW f, NEW v
      PROVE  S!StartSubRun(p, a, f, v) <=> SP!StartSubRun(p, a, f, v)
  BY DEF S!StartSubRun, SP!StartSubRun, S!AddRun, SP!AddRun, S!IsLatest, SP!IsLatest,
         S!StoredVersions, SP!StoredVersions, S!Versions, SP!Versions, S!Append1, SP!Append1,
         S!storeVars, SP!storeVars, S!IsActive, SP!IsActive
<1>3. ASSUME NEW r, NEW output
      PROVE  S!SucceedRun(r, output) <=> SP!SucceedRun(r, output)
  BY DEF S!SucceedRun, SP!SucceedRun, S!IsActive, SP!IsActive, S!Append1, SP!Append1
<1>4. ASSUME NEW r, NEW status
      PROVE  S!FinishTree(r, status) <=> SP!FinishTree(r, status)
  BY DEF S!FinishTree, SP!FinishTree, S!FinishRuns, SP!FinishRuns, S!ActiveInTrees,
         SP!ActiveInTrees, S!Orders, SP!Orders, S!Cardinality, SP!Cardinality, S!IsActive,
         SP!IsActive
<1>5. ASSUME NEW r
      PROVE  /\ S!FailRunTree(r) <=> SP!FailRunTree(r)
             /\ S!CancelRunTree(r) <=> SP!CancelRunTree(r)
  BY <1>4 DEF S!FailRunTree, SP!FailRunTree, S!CancelRunTree, SP!CancelRunTree
<1> QED
  BY <1>1, <1>2, <1>3, <1>4, <1>5

LEMMA SameTaskSteps ==
  /\ \A t, q : S!PublishTask(t, q) <=> SP!PublishTask(t, q)
  /\ \A q, i : S!ReceiveTask(q, i) <=> SP!ReceiveTask(q, i)
  /\ \A t : S!ClaimTask(t) <=> SP!ClaimTask(t)
  /\ \A t : S!DropTask(t) <=> SP!DropTask(t)
  /\ \A t : S!ExtendTaskLease(t) <=> SP!ExtendTaskLease(t)
  /\ \A t, status, result : S!FinishTask(t, status, result) <=> SP!FinishTask(t, status, result)
  /\ \A t : S!LeaseLapses(t) <=> SP!LeaseLapses(t)
<1> USE DEF S!IsActive, SP!IsActive, S!MayBecome, SP!MayBecome, S!TaskTerminal,
            SP!TaskTerminal, S!TaskLeased, SP!TaskLeased
<1>1. ASSUME NEW t, NEW q
      PROVE  S!PublishTask(t, q) <=> SP!PublishTask(t, q)
  BY DEF S!PublishTask, SP!PublishTask, S!NoTask, SP!NoTask
<1>2. ASSUME NEW q, NEW i
      PROVE  S!ReceiveTask(q, i) <=> SP!ReceiveTask(q, i)
  BY DEF S!ReceiveTask, SP!ReceiveTask, S!IsOldestReceivable, SP!IsOldestReceivable,
         S!IsReceivable, SP!IsReceivable, S!HandOut, SP!HandOut
<1>3. ASSUME NEW t
      PROVE  /\ S!ClaimTask(t) <=> SP!ClaimTask(t)
             /\ S!DropTask(t) <=> SP!DropTask(t)
             /\ S!ExtendTaskLease(t) <=> SP!ExtendTaskLease(t)
             /\ S!LeaseLapses(t) <=> SP!LeaseLapses(t)
  BY DEF S!ClaimTask, SP!ClaimTask, S!DropTask, SP!DropTask, S!ExtendTaskLease,
         SP!ExtendTaskLease, S!LeaseLapses, SP!LeaseLapses
<1>4. ASSUME NEW t, NEW status, NEW result
      PROVE  S!FinishTask(t, status, result) <=> SP!FinishTask(t, status, result)
  BY DEF S!FinishTask, SP!FinishTask, S!Append1, SP!Append1
<1> QED
  BY <1>1, <1>2, <1>3, <1>4

LEMMA SameNext == S!Next => SP!Next
<1>1. ASSUME S!Next
      PROVE  \/ \E U \in S!Deploys : S!StoreFlows(U)
             \/ \E r \in RootIds, f \in FlowNames, v \in S!Versions : S!StartRun(r, f, v)
             \/ \E p \in RunIds, a \in SubFlowAddresses, f \in FlowNames, v \in S!Versions :
                  S!StartSubRun(p, a, f, v)
             \/ \E r \in RunIds, output \in Values \cup {None} : S!SucceedRun(r, output)
             \/ \E r \in RunIds : S!FailRunTree(r)
             \/ \E r \in RunIds : S!CancelRunTree(r)
             \/ \E t \in S!TaskIds, q \in Queues : S!PublishTask(t, q)
             \/ \E q \in Queues, i \in DOMAIN published : S!ReceiveTask(q, i)
             \/ \E t \in S!TaskIds : \/ S!ClaimTask(t) \/ S!DropTask(t)
                                     \/ S!ExtendTaskLease(t) \/ S!LeaseLapses(t)
             \/ \E t \in S!TaskIds, status \in S!TaskTerminal, result \in Values \cup {None} :
                  S!FinishTask(t, status, result)
  BY <1>1 DEF S!Next
<1>2. /\ S!Versions = SP!Versions /\ S!TaskIds = SP!TaskIds
      /\ S!TaskTerminal = SP!TaskTerminal
  BY DEF S!Versions, SP!Versions, S!TaskIds, SP!TaskIds, S!TaskTerminal, SP!TaskTerminal
<1>3. (\E U \in S!Deploys : S!StoreFlows(U)) => SP!Next
  BY SameFlowSteps DEF SP!Next
<1>4. (\E r \in RootIds, f \in FlowNames, v \in S!Versions : S!StartRun(r, f, v)) => SP!Next
  BY <1>2, SameRunSteps DEF SP!Next
<1>5. (\E p \in RunIds, a \in SubFlowAddresses, f \in FlowNames, v \in S!Versions :
         S!StartSubRun(p, a, f, v)) => SP!Next
  BY <1>2, SameRunSteps DEF SP!Next
<1>6. (\E r \in RunIds, output \in Values \cup {None} : S!SucceedRun(r, output)) => SP!Next
  BY SameRunSteps DEF SP!Next
<1>7. (\E r \in RunIds : S!FailRunTree(r) \/ S!CancelRunTree(r)) => SP!Next
  BY SameRunSteps DEF SP!Next
<1>8. (\E t \in S!TaskIds, q \in Queues : S!PublishTask(t, q)) => SP!Next
  BY <1>2, SameTaskSteps DEF SP!Next
<1>9. (\E q \in Queues, i \in DOMAIN published : S!ReceiveTask(q, i)) => SP!Next
  BY SameTaskSteps DEF SP!Next
<1>10. (\E t \in S!TaskIds : \/ S!ClaimTask(t) \/ S!DropTask(t)
                             \/ S!ExtendTaskLease(t) \/ S!LeaseLapses(t)) => SP!Next
  BY <1>2, SameTaskSteps DEF SP!Next
<1>11. (\E t \in S!TaskIds, status \in S!TaskTerminal, result \in Values \cup {None} :
          S!FinishTask(t, status, result)) => SP!Next
  BY <1>2, SameTaskSteps DEF SP!Next
<1> QED
  BY <1>1, <1>3, <1>4, <1>5, <1>6, <1>7, <1>8, <1>9, <1>10, <1>11

\* What is known of the rows that are committed.
StoreInv == SP!TreeInv /\ SP!TaskInv

LEMMA StoreFacts == StoreInv => S!TypeOK /\ S!TreeShape /\ S!NoTaskStranded
<1>1. SP!TypeOK => S!TypeOK
  BY DEF S!TypeOK, SP!TypeOK, S!Run, SP!Run, S!Task, SP!Task, S!Event, SP!Event,
         S!EventKind, SP!EventKind, S!RunStatus, SP!RunStatus, S!RunEnded, SP!RunEnded,
         S!TaskStatus, SP!TaskStatus, S!TaskLeased, SP!TaskLeased, S!TaskTerminal,
         SP!TaskTerminal, S!Versions, SP!Versions, S!TaskIds, SP!TaskIds
<1>2. SP!TreeShape => S!TreeShape
  BY DEF S!TreeShape, SP!TreeShape, S!Versions, SP!Versions
<1>3. SP!NoTaskStranded => S!NoTaskStranded
  BY DEF S!NoTaskStranded, SP!NoTaskStranded, S!TaskIds, SP!TaskIds, S!TaskLeased,
         SP!TaskLeased
<1> QED
  BY <1>1, <1>2, <1>3 DEF StoreInv, SP!TreeInv, SP!TaskInv

LEMMA StoreInvInit == S!Init => StoreInv
<1>1. S!Init => SP!Init
  BY DEF S!Init, SP!Init, S!Versions, SP!Versions, S!NoRun, SP!NoRun, S!NoTask, SP!NoTask,
         S!TaskIds, SP!TaskIds
<1> QED
  BY <1>1, StoreAssumed, SP!TreeInvInit, SP!TaskInvInit DEF StoreInv

\* A task that is handed out although an older one is ready is still one that
\* can be received again.
LEMMA ReadyReceived ==
  ASSUME StoreInv, NEW q \in Queues, NEW i \in DOMAIN published, ReceiveReady(q, i)
  PROVE  StoreInv'
<1> DEFINE t == published[i]
           new == [tasks[t] EXCEPT !.status = "received", !.lease = "held",
                                   !.attempts = tasks[t].attempts + 1]
<1>0. /\ SP!TypeOK /\ SP!TreeInv /\ SP!TaskInv
  BY DEF StoreInv, SP!TreeInv
<1>1. t \in SP!TaskIds /\ tasks[t] \in SP!Task
  BY <1>0 DEF SP!TypeOK
<1>2. tasks[t].status \in {"pending", "received", "running"}
  BY DEF ReceiveReady, S!IsReceivable, S!TaskLeased
<1>3. new \in SP!Task /\ new.status = "received" /\ new.lease = "held"
  <2> DEFINE row == tasks[t]
             n == row.attempts + 1
  <2>1. row \in SP!Task /\ n \in Nat
    BY <1>1 DEF SP!Task
  <2>2. new = [row EXCEPT !.status = "received", !.lease = "held", !.attempts = n]
    OBVIOUS
  <2> HIDE DEF new, row, n
  <2>3. ASSUME NEW old \in SP!Task, NEW k \in Nat,
               new = [old EXCEPT !.status = "received", !.lease = "held", !.attempts = k]
        PROVE  new \in SP!Task /\ new.status = "received" /\ new.lease = "held"
    BY <2>3 DEF SP!Task, SP!TaskStatus, SP!TaskLeased
  <2> QED
    BY <2>1, <2>2, <2>3
<1>4. /\ tasks' = [tasks EXCEPT ![t] = new]
      /\ UNCHANGED <<flows, runs, published, events>>
  BY DEF ReceiveReady, S!HandOut
<1> HIDE DEF new
<1>5. SP!TypeOK'
  BY <1>0, <1>1, <1>3, <1>4 DEF SP!TypeOK
<1>6. SP!TaskInv'
  BY <1>0, <1>1, <1>2, <1>3, <1>4, <1>5, StoreAssumed, SP!TaskInvOneTask DEF SP!TaskLeased
<1>7. SP!TreeInv'
  BY <1>0, <1>4, <1>5, StoreAssumed, SP!TreeInvSame DEF SP!RunsUnchanged
<1> QED
  BY <1>6, <1>7 DEF StoreInv

\* The steps that Store allows, and those that are a little freer.
StoreStep ==
  [S!Next \/ \E q \in Queues, i \in DOMAIN published : ReceiveReady(q, i)]_(S!storeVars)

LEMMA StoreInvNext == StoreInv /\ StoreStep => StoreInv'
<1> SUFFICES ASSUME StoreInv, StoreStep PROVE StoreInv'
  OBVIOUS
<1>1. CASE S!Next \/ UNCHANGED S!storeVars
  <2>1. SP!Next \/ UNCHANGED SP!storeVars
    BY <1>1, SameNext DEF S!storeVars, SP!storeVars
  <2>2. SP!TreeInv' /\ SP!TaskInv'
    BY <2>1, StoreAssumed, SP!TreeInvNext, SP!TaskInvNext DEF StoreInv
  <2> QED
    BY <2>2 DEF StoreInv
<1>2. CASE \E q \in Queues, i \in DOMAIN published : ReceiveReady(q, i)
  BY <1>2, ReadyReceived
<1> QED
  BY <1>1, <1>2 DEF StoreStep

-----------------------------------------------------------------------------
(* Calls and rows.                                                            *)

Uploading == {"store_flows", "start_run"}
OnTrees == {"succeed_run", "finish_tree", "publish_task", "claim_task"}
OnTask == {"claim_task", "extend_task_lease", "finish_task"}
Ops == Uploading \cup OnTrees \cup OnTask \cup {"receive_task"}

\* What a call is, by its operation.
WellAsked(q) ==
  /\ q.op \in Ops
  /\ q.op = "store_flows" => q.uploads \in S!Deploys
  /\ q.op = "start_run" =>
       /\ q.flow \in FlowNames /\ q.version \in S!Versions
       /\ \/ q.parent = None /\ q.run \in RootIds /\ q.address = None
          \/ /\ q.parent \in RunIds /\ q.run = None /\ q.address \in SubFlowAddresses
             /\ SubRunIdFor(q.parent, q.address) \in RunIds
  /\ q.op \in {"succeed_run", "finish_tree"} => q.run \in RunIds
  /\ q.op = "succeed_run" => q.output \in Values \cup {None}
  /\ q.op = "finish_tree" => q.status \in {"failed", "cancelled"}
  /\ q.op \in OnTask \cup {"publish_task"} => q.task \in S!TaskIds
  /\ q.op \in {"publish_task", "receive_task"} => q.queue \in Queues
  /\ q.op = "finish_task" =>
       /\ q.status \in S!TaskTerminal /\ q.result \in Values \cup {None}
       /\ q.status = "failed" => q.result = None

LEMMA RequestFacts ==
  ASSUME NEW q \in Requests
  PROVE  WellAsked(q) /\ q # None
<1>1. q \in Request /\ q # None
  BY PostgresAssumption
<1> USE DEF WellAsked, Ops, Uploading, OnTrees, OnTask
<1>2. CASE q \in [op : {"store_flows"}, uploads : S!Deploys]
  BY <1>1, <1>2
<1>3. CASE q \in [op : {"start_run"}, flow : FlowNames, version : S!Versions, run : RootIds,
                  parent : {None}, address : {None}]
  BY <1>1, <1>3
<1>4. CASE q \in [op : {"start_run"}, flow : FlowNames, version : S!Versions, run : {None},
                  parent : RunIds, address : SubFlowAddresses]
           /\ SubRunIdFor(q.parent, q.address) \in RunIds
  BY <1>1, <1>4
<1>5. CASE q \in [op : {"succeed_run"}, run : RunIds, output : Values \cup {None}]
  BY <1>1, <1>5
<1>6. CASE q \in [op : {"finish_tree"}, run : RunIds, status : {"failed", "cancelled"}]
  BY <1>1, <1>6
<1>7. CASE q \in [op : {"publish_task"}, task : S!TaskIds, queue : Queues]
  BY <1>1, <1>7
<1>8. CASE q \in [op : {"receive_task"}, queue : Queues]
  BY <1>1, <1>8
<1>9. CASE q \in [op : {"claim_task", "extend_task_lease"}, task : S!TaskIds]
  BY <1>1, <1>9
<1>10. CASE q \in [op : {"finish_task"}, task : S!TaskIds, status : S!TaskTerminal,
                   result : Values \cup {None}]
            /\ (q.status = "failed" => q.result = None)
  BY <1>1, <1>10
<1> QED
  BY <1>1, <1>2, <1>3, <1>4, <1>5, <1>6, <1>7, <1>8, <1>9, <1>10 DEF Request

Places(op) ==
  CASE op = "store_flows" -> {"upload", "read", "roots", "write", "log", "events", "commit"}
    [] op = "start_run" ->
         {"upload", "read", "roots", "write", "log", "events", "number", "commit"}
    [] op \in {"succeed_run", "finish_tree"} ->
         {"read", "roots", "write", "log", "events", "commit"}
    [] op = "publish_task" -> {"read", "roots", "write", "commit"}
    [] op = "claim_task" -> {"read", "roots", "task", "write", "commit"}
    [] op = "extend_task_lease" -> {"task", "write", "commit"}
    [] op = "finish_task" -> {"task", "write", "log", "events", "commit"}
    [] op = "receive_task" -> {"write", "commit"}

\* A row of txn has these fields, and what it wrote has those.
HasFields(t) ==
  t = [req |-> t.req, at |-> t.at, roots |-> t.roots, locks |-> t.locks,
       told |-> t.told, writes |-> t.writes]
HasTables(w) ==
  w = [flows |-> w.flows, runs |-> w.runs, tasks |-> w.tasks, events |-> w.events,
       position |-> w.position]

LEMMA ClosedFields ==
  /\ HasFields(Closed) /\ HasTables(NoWrites)
  /\ Closed.req = None /\ Closed.locks = {} /\ Closed.writes = NoWrites
  /\ NoWrites.flows = {} /\ NoWrites.runs = <<>> /\ NoWrites.tasks = <<>>
  /\ NoWrites.events = <<>> /\ NoWrites.position = <<>>
BY DEF HasFields, HasTables, Closed, NoWrites

-----------------------------------------------------------------------------
(* The statements of a transaction, and the locks it holds at each of them.   *)

Mode(q) == IF q.op = "store_flows" THEN "exclusive" ELSE "shared"
HasWritten(t) == t.at \in {"log", "events", "number", "commit"}
HasRead(t) == HasWritten(t) \/ t.at \in {"roots", "task", "write"}
AtTask(t) == t.req.op \in OnTask /\ (t.at = "write" \/ HasWritten(t))

\* Which lock may be held where: those that come later in the order are not held
\* yet, and of the root runs only those before all that are still to lock.
MayHold(t, l) ==
  \/ l = UploadLock(Mode(t.req)) /\ t.req.op \in Uploading /\ t.at # "upload"
  \/ \E r \in RunIds :
       /\ l = RootLock(r) /\ HasRead(t)
       /\ t.at = "roots" => \A s \in t.roots : Before(r, s)
  \/ \E k \in S!TaskIds : l = TaskLock(k) /\ (t.at = "write" \/ HasWritten(t))
  \/ l = EventLock /\ t.at \in {"events", "number", "commit"}

HoldsLocks(t) ==
  /\ \A l \in t.locks : MayHold(t, l)
  /\ t.req.op \in Uploading /\ t.at # "upload" => UploadLock(Mode(t.req)) \in t.locks
  /\ AtTask(t) => TaskLock(t.req.task) \in t.locks
  /\ t.at \in {"events", "number"} \/ (t.at = "commit" /\ t.told # <<>>)
       => EventLock \in t.locks

InPlace(t) ==
  /\ t.req \in Requests
  /\ HasFields(t) /\ HasTables(t.writes)
  /\ t.at \in Places(t.req.op)
  /\ t.roots \subseteq RunIds
  /\ (t.at = "roots" <=> t.roots # {})
  /\ ~ HasWritten(t) => t.told = <<>> /\ t.writes = NoWrites
  /\ t.at \in {"log", "events", "number"} => t.told # <<>>
  /\ HoldsLocks(t)

Placed ==
  /\ txn = [x \in Txns |-> txn[x]]
  /\ \A x \in Txns : txn[x] = Closed \/ InPlace(txn[x])

Apart ==
  \A x, y \in Txns : x # y =>
    \A l \in txn[x].locks, m \in txn[y].locks : ~ Conflicts(l, m)

LEMMA LocksDiffer ==
  /\ \A r, s : RootLock(r) = RootLock(s) => r = s
  /\ \A r, s : TaskLock(r) = TaskLock(s) => r = s
  /\ \A r, s : UploadLock(r) = UploadLock(s) => r = s
  /\ \A r, s : RootLock(r) # TaskLock(s) /\ RootLock(r) # UploadLock(s)
               /\ TaskLock(r) # UploadLock(s)
  /\ \A r : RootLock(r) # EventLock /\ TaskLock(r) # EventLock /\ UploadLock(r) # EventLock
BY DEF RootLock, TaskLock, UploadLock, EventLock

LEMMA LocksConflict ==
  /\ \A l, m : Conflicts(l, m) <=> Conflicts(m, l)
  /\ \A r : Conflicts(RootLock(r), RootLock(r)) /\ Conflicts(TaskLock(r), TaskLock(r))
  /\ Conflicts(EventLock, EventLock)
  /\ \A q : /\ Conflicts(UploadLock("exclusive"), UploadLock(Mode(q)))
            /\ Conflicts(UploadLock(Mode(q)), UploadLock("exclusive"))
BY LocksDiffer DEF Conflicts, Mode

LEMMA ConflictsAre ==
  /\ \A r, m : Conflicts(RootLock(r), m) => m = RootLock(r)
  /\ \A k, m : Conflicts(TaskLock(k), m) => m = TaskLock(k)
  /\ \A m : Conflicts(EventLock, m) => m = EventLock
  /\ \A a, m : Conflicts(UploadLock(a), m) => \E b : m = UploadLock(b)
<1>1. ASSUME NEW l, NEW m, Conflicts(l, m)
      PROVE  \/ l = m
             \/ /\ l \in {UploadLock("shared"), UploadLock("exclusive")}
                /\ m \in {UploadLock("shared"), UploadLock("exclusive")}
  BY <1>1 DEF Conflicts
<1> QED
  BY <1>1, LocksDiffer

\* What comes after each statement.
LEMMA Statements ==
  ASSUME NEW q, WellAsked(q)
  PROVE  /\ Path(q).begin \in Places(q.op)
         /\ q.op \in Uploading =>
              /\ Path(q).begin = "upload" /\ Path(q).upload = "read"
              /\ Path(q).roots = "write"
         /\ q.op \in OnTrees =>
              /\ Path(q).begin = "read"
              /\ Path(q).roots = IF q.op = "claim_task" THEN "task" ELSE "write"
         /\ q.op \in OnTask => Path(q).task = "write"
         /\ q.op \in {"extend_task_lease", "finish_task"} => Path(q).begin = "task"
         /\ q.op = "receive_task" => Path(q).begin = "write"
BY DEF Path, StartPath, WellAsked, Ops, Uploading, OnTrees, OnTask, Places

LEMMA PlacesAre ==
  ASSUME NEW t, t.at \in Places(t.req.op), t.req.op \in Ops
  PROVE  /\ t.at \in {"upload", "read", "roots", "task", "write", "log", "events", "number",
                      "commit"}
         /\ t.at = "upload" => t.req.op \in Uploading
         /\ t.at \in {"read", "roots"} => t.req.op \in Uploading \cup OnTrees
         /\ t.at = "task" => t.req.op \in OnTask
         /\ t.at = "number" => t.req.op = "start_run"
         /\ t.at = "log" =>
              t.req.op \in {"store_flows", "start_run", "succeed_run", "finish_tree",
                            "finish_task"}
BY DEF Places, Ops, Uploading, OnTrees, OnTask

-----------------------------------------------------------------------------
(* Nobody waits in a cycle.  Of those that wait, let none want the event lock, *)
(* which is held by those that wait no more; then none wants that of a task,   *)
(* and of those that want root runs, the one that wants the last waits for     *)
(* nobody among them.                                                          *)

\* x holds locks, and may want one.
LEMMA WantedAre ==
  ASSUME Placed, NEW x \in Txns, IsOpen(x), NEW l \in Wanted(x)
  PROVE  \/ txn[x].at = "upload" /\ \E a : l = UploadLock(a)
         \/ txn[x].at = "roots" /\ \E r \in txn[x].roots :
              l = RootLock(r) /\ \A s \in txn[x].roots : s = r \/ Before(r, s)
         \/ txn[x].at = "task" /\ \E k : l = TaskLock(k)
         \/ txn[x].at = "log" /\ l = EventLock
<1>1. txn[x].at \in {"upload", "roots", "task", "log"}
  BY DEF Wanted
<1>2. CASE txn[x].at = "upload"
  BY <1>2 DEF Wanted
<1>3. CASE txn[x].at = "roots"
  BY <1>3 DEF Wanted
<1>4. CASE txn[x].at = "task"
  BY <1>4 DEF Wanted
<1>5. CASE txn[x].at = "log"
  BY <1>5 DEF Wanted
<1> QED
  BY <1>1, <1>2, <1>3, <1>4, <1>5

\* A finite order has a least element.
LEMMA Least ==
  ASSUME NEW W, IsFiniteSet(W), W # {}, NEW R,
         \A r \in W : <<r, r>> \notin R,
         \A r, s, v \in W : <<r, s>> \in R /\ <<s, v>> \in R => <<r, v>> \in R
  PROVE  \E r \in W : \A s \in W : <<s, r>> \notin R
<1> DEFINE Below(r) == {s \in W : <<s, r>> \in R}
           sets == {Below(r) : r \in W}
<1>1. IsWellFoundedOn(StrictSubsetOrdering(W), SUBSET W)
  BY FS_StrictSubsetOrderingWellFounded, FS_FiniteSubsetsOfFinite
<1>2. sets \subseteq SUBSET W /\ sets # {}
  <2>1. \A r \in W : Below(r) \in SUBSET W
    OBVIOUS
  <2> HIDE DEF Below
  <2> QED
    BY <2>1
<1>3. PICK least \in sets : \A A \in sets : ~ (<<A, least>> \in StrictSubsetOrdering(W))
  <2> HIDE DEF sets
  <2> QED
    BY <1>1, <1>2, WFMin
<1>4. PICK r \in W : least = Below(r)
  BY <1>3
<1>5. ASSUME NEW s \in W, <<s, r>> \in R
      PROVE  FALSE
  <2>1. Below(s) \subseteq Below(r)
    BY <1>5
  <2>2. s \in Below(r) /\ s \notin Below(s)
    BY <1>5
  <2>3. <<Below(s), least>> \in StrictSubsetOrdering(W)
    BY <1>4, <2>1, <2>2 DEF StrictSubsetOrdering
  <2> QED
    BY <1>3, <2>3
<1> QED
  BY <1>5

\* Of some runs there is one before all others, and one after them.
LEMMA FirstAndLast ==
  ASSUME NEW W, W \subseteq RunIds, W # {}
  PROVE  /\ \E r \in W : \A s \in W : s = r \/ Before(r, s)
         /\ \E r \in W : \A s \in W : ~ Before(r, s)
<1> DEFINE before == {p \in W \X W : Before(p[1], p[2])}
           after == {p \in W \X W : Before(p[2], p[1])}
<1>1. IsFiniteSet(W)
  BY StoreAssumed, FS_Subset
<1>2. /\ \A r, s \in W : (<<r, s>> \in before <=> Before(r, s))
      /\ \A r, s \in W : (<<r, s>> \in after <=> Before(s, r))
  OBVIOUS
<1>3. \A r, s, v \in W : /\ ~ (Before(r, s) /\ Before(s, r))
                         /\ Before(r, s) /\ Before(s, v) => Before(r, v)
                         /\ r # s => Before(r, s) \/ Before(s, r)
  BY PostgresAssumption
<1> HIDE DEF before, after
<1>4. \E r \in W : \A s \in W : <<s, r>> \notin before
  <2>1. /\ \A r \in W : <<r, r>> \notin before
        /\ \A r, s, v \in W : <<r, s>> \in before /\ <<s, v>> \in before => <<r, v>> \in before
    BY <1>2, <1>3
  <2> QED
    BY <1>1, <2>1, Least
<1>5. \E r \in W : \A s \in W : <<s, r>> \notin after
  <2>1. /\ \A r \in W : <<r, r>> \notin after
        /\ \A r, s, v \in W : <<r, s>> \in after /\ <<s, v>> \in after => <<r, v>> \in after
    BY <1>2, <1>3
  <2> QED
    BY <1>1, <2>1, Least
<1> QED
  BY <1>2, <1>3, <1>4, <1>5

\* Where y is, if x waits for it.
LEMMA WaitingFor ==
  ASSUME Placed, NEW x \in Txns, NEW y \in Txns, IsOpen(x), IsOpen(y), WaitsFor(x, y)
  PROVE  \/ txn[x].at = "log" /\ txn[y].at \in {"events", "number", "commit"}
         \/ txn[x].at = "task" /\ (txn[y].at = "write" \/ HasWritten(txn[y]))
         \/ /\ txn[x].at = "roots" /\ HasRead(txn[y])
            /\ \E r \in txn[x].roots :
                 /\ \A s \in txn[x].roots : s = r \/ Before(r, s)
                 /\ txn[y].at = "roots" => \A s \in txn[y].roots : Before(r, s)
         \/ txn[x].at = "upload" /\ txn[y].at # "upload"
<1>1. PICK l \in Wanted(x), m \in txn[y].locks : Conflicts(l, m)
  BY DEF WaitsFor
<1>2. MayHold(txn[y], m)
  <2>1. InPlace(txn[y])
    BY ClosedFields DEF Placed, IsOpen
  <2> QED
    BY <2>1 DEF InPlace, HoldsLocks
<1>3. CASE txn[x].at = "upload" /\ \E a : l = UploadLock(a)
  <2>1. \E b : m = UploadLock(b)
    BY <1>1, <1>3, ConflictsAre
  <2> QED
    BY <1>2, <1>3, <2>1, LocksDiffer DEF MayHold
<1>4. CASE txn[x].at = "roots" /\ \E r \in txn[x].roots :
             l = RootLock(r) /\ \A s \in txn[x].roots : s = r \/ Before(r, s)
  <2>1. PICK r \in txn[x].roots :
               l = RootLock(r) /\ \A s \in txn[x].roots : s = r \/ Before(r, s)
    BY <1>4
  <2>2. m = RootLock(r)
    BY <1>1, <2>1, ConflictsAre
  <2>3. HasRead(txn[y]) /\ (txn[y].at = "roots" => \A s \in txn[y].roots : Before(r, s))
    BY <1>2, <2>2, LocksDiffer DEF MayHold
  <2> QED
    BY <1>4, <2>1, <2>3
<1>5. CASE txn[x].at = "task" /\ \E k : l = TaskLock(k)
  <2>1. \E k : m = TaskLock(k)
    BY <1>1, <1>5, ConflictsAre
  <2> QED
    BY <1>2, <1>5, <2>1, LocksDiffer DEF MayHold
<1>6. CASE txn[x].at = "log" /\ l = EventLock
  <2>1. m = EventLock
    BY <1>1, <1>6, ConflictsAre
  <2> QED
    BY <1>2, <1>6, <2>1, LocksDiffer DEF MayHold
<1> QED
  BY <1>3, <1>4, <1>5, <1>6, WantedAre

LEMMA PlacedNoWaitCycle == Placed => NoWaitCycle
<1> SUFFICES ASSUME Placed, NEW X \in SUBSET {x \in Txns : IsOpen(x)}, X # {}
             PROVE  \E x \in X : \A y \in X : ~ WaitsFor(x, y)
  BY DEF NoWaitCycle
<1>1. CASE \E x \in X : txn[x].at \notin {"upload", "roots", "task", "log"}
  BY <1>1, WaitingFor
<1>2. CASE /\ \A x \in X : txn[x].at \in {"upload", "roots", "task", "log"}
           /\ \E x \in X : txn[x].at = "log"
  <2>1. PICK x \in X : txn[x].at = "log"
    BY <1>2
  <2>2. \A y \in X : ~ WaitsFor(x, y)
    BY <1>2, <2>1, WaitingFor
  <2> QED
    BY <2>2
<1>3. CASE /\ \A x \in X : txn[x].at \in {"upload", "roots", "task"}
           /\ \E x \in X : txn[x].at = "task"
  <2>1. PICK x \in X : txn[x].at = "task"
    BY <1>3
  <2>2. \A y \in X : ~ WaitsFor(x, y)
    BY <1>3, <2>1, WaitingFor DEF HasWritten
  <2> QED
    BY <2>2
<1>4. CASE /\ \A x \in X : txn[x].at \in {"upload", "roots"}
           /\ \E x \in X : txn[x].at = "roots"
  <2> DEFINE First(x, r) ==
               r \in txn[x].roots /\ \A s \in txn[x].roots : s = r \/ Before(r, s)
             W == {r \in RunIds : \E x \in X : txn[x].at = "roots" /\ First(x, r)}
  <2>1. CASE W = {}
    <3>1. PICK x \in X : txn[x].at = "roots"
      BY <1>4
    <3>2. txn[x].roots \subseteq RunIds
      BY ClosedFields DEF Placed, InPlace, IsOpen
    <3>3. \A r \in txn[x].roots : ~ First(x, r)
      BY <2>1, <3>1, <3>2
    <3>4. \A y \in X : ~ WaitsFor(x, y)
      BY <3>1, <3>3, WaitingFor
    <3> QED
      BY <3>4
  <2>2. CASE W # {}
    <3>1. PICK last \in W : \A s \in W : ~ Before(last, s)
      BY <2>2, FirstAndLast
    <3>2. PICK x \in X : txn[x].at = "roots" /\ First(x, last)
      BY <3>1
    <3>3. ASSUME NEW y \in X, WaitsFor(x, y)
          PROVE  FALSE
      <4>1. PICK r \in txn[x].roots :
               /\ HasRead(txn[y])
               /\ \A s \in txn[x].roots : s = r \/ Before(r, s)
               /\ txn[y].at = "roots" => \A s \in txn[y].roots : Before(r, s)
        BY <3>2, <3>3, WaitingFor
      <4>2. txn[x].roots \subseteq RunIds /\ txn[y].roots \subseteq RunIds
            /\ (txn[y].at = "roots" => txn[y].roots # {})
        BY ClosedFields DEF Placed, InPlace, IsOpen
      <4>3. r = last
        BY <3>2, <4>1, <4>2, PostgresAssumption
      <4>4. txn[y].at = "roots"
        BY <1>4, <4>1 DEF HasRead, HasWritten
      <4>5. PICK s \in txn[y].roots : \A v \in txn[y].roots : s = v \/ Before(s, v)
        <5>1. txn[y].roots # {} /\ txn[y].roots \subseteq RunIds
          BY <4>2, <4>4
        <5> QED
          BY <5>1, FirstAndLast
      <4>6. s \in W /\ Before(last, s)
        BY <4>1, <4>2, <4>3, <4>4, <4>5
      <4> QED
        BY <3>1, <4>6
    <3> QED
      BY <3>2, <3>3
  <2> QED
    BY <2>1, <2>2
<1>5. CASE \A x \in X : txn[x].at = "upload"
  BY <1>5, WaitingFor
<1> QED
  BY <1>1, <1>2, <1>3, <1>4, <1>5

-----------------------------------------------------------------------------
(* What a transaction has read and written is still so.                       *)

\* The roots of the trees that flows are run in, and those a call is about.
TreesRunning(new) ==
  {runs[r].root : r \in {s \in RunIds : S!IsActive(s) /\ \E u \in new : u.name = runs[s].flow}}

RootsOf(q) ==
  CASE q.op = "store_flows" -> TreesRunning(S!NewUploads(q.uploads))
    [] IsSubStart(q) -> {runs[q.parent].root}
    [] q.op \in OnTrees -> {runs[RunAsked(q)].root}
    [] OTHER -> {}

RootStart(q) == q.op = "start_run" /\ q.parent = None

HasAsked(q) ==
  /\ IsSubStart(q) => runs[q.parent].status # "none"
  /\ RootStart(q) => runs[q.run].status = "none"
  /\ q.op \in OnTrees => runs[RunAsked(q)].status # "none"
  /\ q.op \in OnTask => tasks[q.task].status # "none"

HasChecked(q) ==
  /\ q.op = "store_flows" => S!CheckUploads(q.uploads) /\ S!NewUploads(q.uploads) # {}
  /\ q.op = "start_run" => S!IsLatest(q.flow, q.version)

\* The runs that a call ends, in some order.
Stopping(q) == S!ActiveInTrees(RootsOf(q))
StopsTrees(t, status) ==
  /\ t.writes.runs = [r \in Stopping(t.req) |-> [runs[r] EXCEPT !.status = status]]
  /\ \E order \in S!Orders(Stopping(t.req)) : t.told = Finished(order)

WritesTask(t, k, row) == t.writes.runs = <<>> /\ t.writes.tasks = [s \in {k} |-> row]

\* The rows that each operation has written.
WroteUploads(t) ==
  t.writes.flows = S!NewUploads(t.req.uploads) /\ t.writes.tasks = <<>>
    /\ StopsTrees(t, "cancelled")

WroteStart(t) ==
  LET q == t.req
  IN  /\ runs[NewId(q)].status = "none"
      /\ IsSubStart(q) => S!IsActive(q.parent)
      /\ t.writes.tasks = <<>>
      /\ t.writes.runs = [r \in {NewId(q)} |-> NewRun(q)]
      /\ t.told = <<[run |-> NewId(q), kind |-> "run_started"]>>

WroteSuccess(t) ==
  LET q == t.req
  IN  /\ S!IsActive(q.run)
      /\ t.writes.tasks = <<>>
      /\ t.writes.runs = [s \in {q.run} |->
                            [runs[s] EXCEPT !.status = "succeeded", !.output = q.output]]
      /\ t.told = Finished(<<q.run>>)

WroteTreeEnd(t) == t.writes.tasks = <<>> /\ StopsTrees(t, t.req.status)

WrotePublish(t) ==
  LET k == t.req.task
  IN  /\ S!IsActive(k[1]) /\ tasks[k].status = "none"
      /\ t.told = <<>>
      /\ WritesTask(t, k, [S!NoTask EXCEPT !.status = "pending", !.queue = t.req.queue])

WroteReceive(t) ==
  \E k \in S!TaskIds :
    /\ S!IsReceivable(k, t.req.queue) /\ TaskLock(k) \in t.locks
    /\ t.told = <<>>
    /\ WritesTask(t, k, [tasks[k] EXCEPT !.status = "received", !.lease = "held",
                                         !.attempts = tasks[k].attempts + 1])

WroteClaim(t) ==
  LET k == t.req.task
  IN  /\ S!MayBecome(tasks[k].status, "running")
      /\ t.told = <<>>
      /\ WritesTask(t, k, IF S!IsActive(k[1])
                          THEN [tasks[k] EXCEPT !.status = "running"]
                          ELSE [tasks[k] EXCEPT !.status = "failed", !.lease = "none"])

WroteExtend(t) ==
  LET k == t.req.task
  IN  /\ tasks[k].status \in S!TaskLeased
      /\ t.told = <<>>
      /\ WritesTask(t, k, [tasks[k] EXCEPT !.lease = "held"])

WroteReport(t) ==
  LET k == t.req.task
  IN  /\ S!MayBecome(tasks[k].status, t.req.status)
      /\ t.told = <<[run |-> k[1], kind |-> "task_finished"]>>
      /\ WritesTask(t, k, [tasks[k] EXCEPT !.status = t.req.status,
                                           !.result = t.req.result, !.lease = "none"])

WroteRows(t) ==
  /\ t.req.op # "store_flows" => t.writes.flows = {}
  /\ t.req.op = "store_flows" => WroteUploads(t)
  /\ t.req.op = "start_run" => WroteStart(t)
  /\ t.req.op = "succeed_run" => WroteSuccess(t)
  /\ t.req.op = "finish_tree" => WroteTreeEnd(t)
  /\ t.req.op = "publish_task" => WrotePublish(t)
  /\ t.req.op = "receive_task" => WroteReceive(t)
  /\ t.req.op = "claim_task" => WroteClaim(t)
  /\ t.req.op = "extend_task_lease" => WroteExtend(t)
  /\ t.req.op = "finish_task" => WroteReport(t)

\* The events it has written, and the position.
Numbered(told) ==
  [i \in Len(events) + 1 .. Len(events) + Len(told) |-> told[i - Len(events)]]

IsNumbered(t) == t.at = "commit" /\ t.req.op = "start_run"
WroteLog(t) ==
  /\ t.writes.events =
       IF t.at \in {"number", "commit"} /\ t.told # <<>> THEN Numbered(t.told) ELSE <<>>
  /\ t.writes.position =
       IF IsNumbered(t) THEN [r \in {NewId(t.req)} |-> HighestPosition + 1] ELSE <<>>

IsTrue(t) ==
  /\ HasAsked(t.req)
  /\ HasRead(t) => HasChecked(t.req)
  /\ HasRead(t) => \A r \in RootsOf(t.req) : r \in t.roots \/ RootLock(r) \in t.locks
  /\ HasWritten(t) => WroteRows(t) /\ WroteLog(t)

AllTrue == \A x \in Txns : txn[x] # Closed => IsTrue(txn[x])

\* Two calls never start a run under the same new id.
StartsFresh ==
  \A x, y \in Txns :
    /\ x # y /\ IsOpen(x) /\ IsOpen(y)
    /\ RootStart(txn[x].req) /\ RootStart(txn[y].req)
    => txn[x].req.run # txn[y].req.run

TasksOfRuns == \A k \in S!TaskIds : tasks[k].status # "none" => runs[k[1]].status # "none"
Positions ==
  /\ position \in [RunIds -> Nat]
  /\ \A r \in RunIds : runs[r].status = "none" => position[r] = 0

RowsInv == StoreInv /\ TasksOfRuns /\ Positions
TxnInv == RowsInv /\ Placed /\ Apart /\ AllTrue /\ StartsFresh

-----------------------------------------------------------------------------
(* Steps that commit nothing.                                                 *)

LEMMA SameRunTruth ==
  ASSUME flows' = flows, runs' = runs, events' = events, position' = position
  PROVE  /\ \A q : HasChecked(q)' <=> HasChecked(q)
         /\ \A q : RootsOf(q)' = RootsOf(q)
         /\ \A t : WroteUploads(t)' <=> WroteUploads(t)
         /\ \A t : WroteTreeEnd(t)' <=> WroteTreeEnd(t)
         /\ \A t : WroteStart(t)' <=> WroteStart(t)
         /\ \A t : WroteSuccess(t)' <=> WroteSuccess(t)
         /\ \A t : WroteLog(t)' <=> WroteLog(t)
<1>1. /\ \A U : S!NewUploads(U)' = S!NewUploads(U)
      /\ \A U : S!CheckUploads(U)' <=> S!CheckUploads(U)
      /\ \A f, v : S!IsLatest(f, v)' <=> S!IsLatest(f, v)
      /\ \A r : S!IsActive(r)' <=> S!IsActive(r)
  BY DEF S!NewUploads, S!IsNewUpload, S!StoredVersions, S!CheckUploads, S!SameUpload,
         S!LatestAfter, S!IsLatest, S!IsActive
<1>2. /\ \A q : HasChecked(q)' <=> HasChecked(q)
      /\ \A q : RootsOf(q)' = RootsOf(q)
  BY <1>1 DEF HasChecked, RootsOf, TreesRunning
<1>3. /\ \A t, s : StopsTrees(t, s)' <=> StopsTrees(t, s)
      /\ \A t : WroteUploads(t)' <=> WroteUploads(t)
      /\ \A t : WroteTreeEnd(t)' <=> WroteTreeEnd(t)
  BY <1>1, <1>2 DEF StopsTrees, Stopping, S!ActiveInTrees, WroteUploads, WroteTreeEnd
<1>4. /\ \A t : WroteStart(t)' <=> WroteStart(t)
      /\ \A t : WroteSuccess(t)' <=> WroteSuccess(t)
  BY <1>1 DEF WroteStart, WroteSuccess, NewRun
<1>5. \A t : WroteLog(t)' <=> WroteLog(t)
  BY DEF WroteLog, Numbered, HighestPosition
<1> QED
  BY <1>2, <1>3, <1>4, <1>5

LEMMA SameTruth ==
  ASSUME UNCHANGED committed
  PROVE  \A t : IsTrue(t)' <=> IsTrue(t)
<1>1. /\ flows' = flows /\ runs' = runs /\ tasks' = tasks /\ events' = events
      /\ position' = position /\ published' = published
  BY DEF committed
<1>2. \A q : HasAsked(q)' <=> HasAsked(q)
  BY <1>1 DEF HasAsked
<1>3. /\ \A t : WrotePublish(t)' <=> WrotePublish(t)
      /\ \A t : WroteReceive(t)' <=> WroteReceive(t)
      /\ \A t : WroteClaim(t)' <=> WroteClaim(t)
      /\ \A t : WroteExtend(t)' <=> WroteExtend(t)
      /\ \A t : WroteReport(t)' <=> WroteReport(t)
  BY <1>1 DEF WrotePublish, WroteReceive, WroteClaim, WroteExtend, WroteReport,
       S!IsReceivable, S!IsActive
<1> QED
  BY <1>1, <1>2, <1>3, SameRunTruth DEF IsTrue, WroteRows

LEMMA SameRows ==
  ASSUME UNCHANGED committed, RowsInv
  PROVE  RowsInv'
<1>1. /\ flows' = flows /\ runs' = runs /\ tasks' = tasks /\ events' = events
      /\ position' = position /\ published' = published
  BY DEF committed
<1>2. StoreInv'
  BY <1>1, StoreInvNext DEF RowsInv, StoreStep, S!storeVars
<1> QED
  BY <1>1, <1>2 DEF RowsInv, TasksOfRuns, Positions

\* A transaction that closes, or goes on with locks that no other has, to a row
\* that is true.
Fresh(x, u) ==
  RootStart(u.req) =>
    \A y \in Txns \ {x} : IsOpen(y) /\ RootStart(txn[y].req) => txn[y].req.run # u.req.run
Free(x, l) == \A y \in Txns \ {x} : \A m \in txn[y].locks : ~ Conflicts(l, m)

LEMMA LocalStep ==
  ASSUME TxnInv, UNCHANGED committed, NEW x \in Txns, NEW u,
         txn' = [txn EXCEPT ![x] = u],
         u = Closed \/ (InPlace(u) /\ IsTrue(u)),
         u # Closed => Fresh(x, u),
         \A l \in u.locks : l \in txn[x].locks \/ Free(x, l)
  PROVE  TxnInv'
<1>1. /\ txn' = [y \in Txns |-> txn'[y]]
      /\ txn'[x] = u
      /\ \A y \in Txns \ {x} : txn'[y] = txn[y]
  BY DEF TxnInv, Placed
<1>2. RowsInv'
  BY SameRows DEF TxnInv
<1>3. \A t : InPlace(t)' <=> InPlace(t)
  OBVIOUS
<1>4. Placed'
  BY <1>1, <1>3 DEF TxnInv, Placed
<1>5. Apart'
  BY <1>1, LocksConflict DEF TxnInv, Apart, Free
<1>6. AllTrue'
  BY <1>1, SameTruth DEF TxnInv, AllTrue
<1>7. StartsFresh'
  BY <1>1, ClosedFields DEF TxnInv, StartsFresh, Fresh, IsOpen
<1> QED
  BY <1>2, <1>4, <1>5, <1>6, <1>7 DEF TxnInv

LEMMA OpenRow ==
  ASSUME TxnInv, NEW x \in Txns, IsOpen(x)
  PROVE  /\ InPlace(txn[x]) /\ IsTrue(txn[x]) /\ WellAsked(txn[x].req)
         /\ HasFields(txn[x]) /\ HasTables(txn[x].writes)
<1>1. txn[x] # Closed
  BY ClosedFields DEF IsOpen
<1> QED
  BY <1>1, RequestFacts DEF TxnInv, Placed, AllTrue, InPlace

LEMMA CloseStep ==
  ASSUME TxnInv, UNCHANGED committed, NEW x \in Txns, Close(x)
  PROVE  TxnInv'
BY LocalStep, ClosedFields DEF Close

LEMMA GoesOn ==
  ASSUME TxnInv, UNCHANGED committed, NEW x \in Txns, IsOpen(x), NEW u,
         txn' = [txn EXCEPT ![x] = u], u.req = txn[x].req,
         InPlace(u), IsTrue(u),
         \A l \in u.locks : l \in txn[x].locks \/ Free(x, l)
  PROVE  TxnInv'
<1>1. Fresh(x, u)
  BY DEF Fresh, TxnInv, StartsFresh
<1> QED
  BY <1>1, LocalStep

LEMMA BeginStep ==
  ASSUME TxnInv, NEW x \in Txns, NEW q \in Requests, Begin(x, q)
  PROVE  TxnInv'
<1>1. PICK a : a = Path(q).begin
  OBVIOUS
<1>2. PICK u : u = [Closed EXCEPT !.req = q, !.at = a]
  OBVIOUS
<1>3. /\ HasFields(u) /\ u.req = q /\ u.at = a /\ u.told = <<>> /\ u.roots = {}
      /\ u.locks = {} /\ u.writes = NoWrites
  BY <1>2, ClosedFields DEF Closed, HasFields
<1>4. WellAsked(q) /\ q # None
  BY RequestFacts
<1>5. /\ a \in Places(q.op) /\ a \in {"upload", "read", "task", "write"}
      /\ q.op \in Uploading => a = "upload"
      /\ q.op \in OnTrees => a = "read"
      /\ a \in {"task", "write"} => q.op \in {"extend_task_lease", "finish_task", "receive_task"}
      /\ a = "write" => q.op = "receive_task"
  BY <1>1, <1>4, Statements DEF WellAsked, Ops, OnTask, Uploading, OnTrees
<1>6. InPlace(u)
  BY <1>3, <1>4, <1>5, ClosedFields
  DEF InPlace, HoldsLocks, AtTask, HasWritten, OnTask
<1>7. HasAsked(q)
  <2>1. CanBeAsked(q)
    BY DEF Begin
  <2>2. q.op \in OnTask => tasks[q.task].status # "none"
    BY <2>1, <1>4 DEF CanBeAsked, OnTask, IsSubStart
  <2>3. q.op \in {"succeed_run", "finish_tree", "publish_task"} => runs[RunAsked(q)].status # "none"
    BY <2>1, <1>4 DEF CanBeAsked, IsSubStart, RunAsked
  <2>4. q.op = "claim_task" => runs[RunAsked(q)].status # "none"
    BY <2>2, <1>4 DEF TxnInv, RowsInv, TasksOfRuns, WellAsked, OnTask, RunAsked
  <2>5. IsSubStart(q) => runs[q.parent].status # "none"
    BY <2>1, <1>4 DEF CanBeAsked, IsSubStart
  <2>6. RootStart(q) => runs[q.run].status = "none"
    BY <2>1, <1>4 DEF CanBeAsked, RootStart, IsSubStart
  <2> QED
    BY <2>2, <2>3, <2>4, <2>5, <2>6 DEF HasAsked, OnTrees
<1>8. IsTrue(u)
  BY <1>3, <1>5, <1>7
  DEF IsTrue, HasRead, HasWritten, HasChecked, RootsOf, IsSubStart, OnTrees, Uploading
<1>9. Fresh(x, u)
  <2>1. ASSUME RootStart(q), NEW y \in Txns, IsOpen(y), RootStart(txn[y].req)
        PROVE  txn[y].req.run # q.run
    <3>1. CanBeAsked(q)
      BY DEF Begin
    <3> QED
      BY <2>1, <3>1 DEF CanBeAsked, RootStart, IsSubStart
  <2> QED
    BY <1>3, <2>1 DEF Fresh
<1>10. txn' = [txn EXCEPT ![x] = u] /\ UNCHANGED committed
  BY <1>1, <1>2 DEF Begin
<1> QED
  BY <1>3, <1>6, <1>8, <1>9, <1>10, LocalStep

\* The rows written stay so while the log is written.
LEMMA RowsStay ==
  ASSUME NEW t, NEW u, WroteRows(t), u.req = t.req, u.told = t.told,
         u.writes.flows = t.writes.flows, u.writes.runs = t.writes.runs,
         u.writes.tasks = t.writes.tasks, t.locks \subseteq u.locks
  PROVE  WroteRows(u)
<1>1. /\ WroteUploads(t) => WroteUploads(u)
      /\ WroteTreeEnd(t) => WroteTreeEnd(u)
      /\ WroteStart(t) => WroteStart(u)
      /\ WroteSuccess(t) => WroteSuccess(u)
  BY DEF WroteUploads, StopsTrees, WroteTreeEnd, WroteStart, WroteSuccess
<1>2. /\ WrotePublish(t) => WrotePublish(u)
      /\ WroteReceive(t) => WroteReceive(u)
      /\ WroteClaim(t) => WroteClaim(u)
      /\ WroteExtend(t) => WroteExtend(u)
      /\ WroteReport(t) => WroteReport(u)
  BY DEF WrotePublish, WroteReceive, WroteClaim, WroteExtend, WroteReport, WritesTask
<1> QED
  BY <1>1, <1>2 DEF WroteRows

LEMMA LockStep ==
  ASSUME TxnInv, NEW x \in Txns, IsOpen(x), Lock(x)
  PROVE  TxnInv'
<1>1. PICK l \in Wanted(x) :
        /\ \A y \in Txns : ~ WaitsFor(x, y)
        /\ txn' = [txn EXCEPT ![x] =
             [@ EXCEPT !.at = AfterLock(x, {r \in txn[x].roots : RootLock(r) # l}),
                       !.roots = {r \in txn[x].roots : RootLock(r) # l},
                       !.locks = txn[x].locks \cup {l}]]
        /\ UNCHANGED committed
  BY DEF Lock
<1>2. PICK t : t = txn[x]
  OBVIOUS
<1>3. PICK q : q = t.req
  OBVIOUS
<1>4. /\ InPlace(t) /\ IsTrue(t) /\ WellAsked(q) /\ HasFields(t) /\ HasTables(t.writes)
      /\ q.op \in Ops
  BY <1>2, <1>3, OpenRow DEF WellAsked
<1>5. PICK left : left = {r \in t.roots : RootLock(r) # l}
  OBVIOUS
<1>6. PICK a : a = AfterLock(x, left)
  OBVIOUS
<1>7. PICK locks : locks = t.locks \cup {l}
  OBVIOUS
<1>u. PICK u : u = [t EXCEPT !.at = a, !.roots = left, !.locks = locks]
  OBVIOUS
<1>8. txn' = [txn EXCEPT ![x] = u]
  BY <1>1, <1>2, <1>5, <1>6, <1>7, <1>u
<1>9. /\ HasFields(u) /\ u.at = a /\ u.roots = left /\ u.locks = t.locks \cup {l}
      /\ u.req = q /\ u.told = t.told /\ u.writes = t.writes
  <2>1. HasFields(t)
    BY <1>4
  <2>2. /\ HasFields(u) /\ u.at = a /\ u.roots = left /\ u.locks = locks
        /\ u.req = t.req /\ u.told = t.told /\ u.writes = t.writes
    BY <2>1, <1>u DEF HasFields
  <2> QED
    BY <1>3, <1>7, <2>2
<1>10. \A m \in u.locks : m \in txn[x].locks \/ Free(x, m)
  BY <1>1, <1>2, <1>9 DEF WaitsFor, Free
<1>11. /\ t.at \in Places(q.op) /\ t.req \in Requests /\ t.roots \subseteq RunIds
       /\ (t.at = "roots" <=> t.roots # {}) /\ HoldsLocks(t) /\ HasAsked(q)
       /\ ~ HasWritten(t) => t.told = <<>> /\ t.writes = NoWrites
  BY <1>3, <1>4 DEF InPlace, IsTrue
<1>12. CASE t.at = "upload" /\ \E mode : l = UploadLock(mode)
  <2>1. l = UploadLock(Mode(q)) /\ q.op \in Uploading
    BY <1>2, <1>3, <1>4, <1>11, <1>12, PlacesAre DEF Wanted, Mode
  <2>2. a = "read" /\ left = {}
    BY <1>2, <1>3, <1>4, <1>5, <1>6, <1>11, <1>12, <2>1, Statements DEF AfterLock
  <2>3. t.locks = {}
    BY <1>11, <1>12 DEF HoldsLocks, MayHold, HasRead, HasWritten
  <2>4. a \in Places(q.op)
    BY <2>1, <2>2 DEF Places, Uploading
  <2>5. InPlace(u)
    BY <1>3, <1>4, <1>9, <1>11, <1>12, <2>1, <2>2, <2>3, <2>4
    DEF InPlace, HoldsLocks, MayHold, AtTask, HasWritten
  <2>6. IsTrue(u)
    BY <1>9, <1>11, <2>2 DEF IsTrue, HasRead, HasWritten
  <2> QED
    BY <1>1, <1>2, <1>3, <1>8, <1>9, <1>10, <2>5, <2>6, GoesOn
<1>13. CASE t.at = "roots" /\ \E r \in t.roots :
              l = RootLock(r) /\ \A s \in t.roots : s = r \/ Before(r, s)
  <2>1. PICK first \in t.roots :
          l = RootLock(first) /\ \A s \in t.roots : s = first \/ Before(first, s)
    BY <1>13
  <2>2. left = t.roots \ {first}
    BY <1>5, <2>1, LocksDiffer
  <2>3. q.op \in Uploading \cup OnTrees
    BY <1>3, <1>4, <1>11, <1>13, PlacesAre
  <2>4. a = IF left = {} THEN (IF q.op = "claim_task" THEN "task" ELSE "write") ELSE "roots"
    <3>1. a = AtRoots(q, left)
      BY <1>2, <1>3, <1>6, <1>13 DEF AfterLock
    <3>2. Path(q).roots = IF q.op = "claim_task" THEN "task" ELSE "write"
      BY <1>4, <2>3, Statements DEF Uploading
    <3> QED
      BY <3>1, <3>2 DEF AtRoots
  <2>5. a \in Places(q.op)
    BY <2>3, <2>4 DEF Places, Uploading, OnTrees
  <2>6. HoldsLocks(u)
    <3>1. ASSUME NEW m \in u.locks
          PROVE  MayHold(u, m)
      <4>1. HasRead(u) /\ first \in RunIds
        BY <1>9, <1>11, <2>4 DEF HasRead
      <4>2. CASE m = l
        <5>1. u.at = "roots" => \A s \in u.roots : Before(first, s)
          BY <1>9, <2>1, <2>2
        <5> QED
          BY <4>1, <4>2, <2>1, <5>1 DEF MayHold
      <4>3. CASE m \in t.locks
        <5>1. MayHold(t, m) /\ ~ HasWritten(t)
          BY <4>3, <1>11, <1>13 DEF HoldsLocks, HasWritten
        <5>2. CASE m = UploadLock(Mode(q)) /\ q.op \in Uploading
          BY <5>2, <1>9, <2>4 DEF MayHold
        <5>3. CASE \E r \in RunIds : m = RootLock(r) /\ \A s \in t.roots : Before(r, s)
          <6>1. PICK r \in RunIds : m = RootLock(r) /\ \A s \in t.roots : Before(r, s)
            BY <5>3
          <6>2. \A s \in u.roots : Before(r, s)
            BY <6>1, <1>9, <2>2
          <6> QED
            BY <6>1, <6>2, <4>1 DEF MayHold
        <5> QED
          BY <5>1, <5>2, <5>3, <1>3, <1>13 DEF MayHold
      <4> QED
        BY <4>2, <4>3, <1>9
    <3>2. q.op \in Uploading => UploadLock(Mode(q)) \in u.locks
      BY <1>3, <1>9, <1>11, <1>13 DEF HoldsLocks
    <3>3. ~ AtTask(u) /\ u.at \notin {"events", "number", "commit"}
      BY <1>9, <2>3, <2>4 DEF AtTask, HasWritten, OnTask, Uploading, OnTrees
    <3> QED
      BY <3>1, <3>2, <3>3, <1>9 DEF HoldsLocks
  <2>7. InPlace(u)
    <3>1. ~ HasWritten(t) /\ (u.at = "roots" <=> u.roots # {})
          /\ u.at \notin {"log", "events", "number"}
      BY <1>9, <1>13, <2>4 DEF HasWritten
    <3> QED
      BY <1>3, <1>4, <1>9, <1>11, <2>2, <2>5, <2>6, <3>1 DEF InPlace
  <2>8. IsTrue(u)
    <3>1. HasRead(t) /\ ~ HasWritten(u)
      BY <1>9, <1>13, <2>4 DEF HasRead, HasWritten
    <3>2. HasChecked(q) /\ \A r \in RootsOf(q) : r \in t.roots \/ RootLock(r) \in t.locks
      BY <1>3, <1>4, <3>1 DEF IsTrue
    <3>3. \A r \in RootsOf(q) : r \in u.roots \/ RootLock(r) \in u.locks
      BY <1>9, <2>1, <2>2, <3>2
    <3> QED
      BY <1>9, <1>11, <3>1, <3>2, <3>3 DEF IsTrue
  <2> QED
    BY <1>1, <1>2, <1>3, <1>8, <1>9, <1>10, <2>7, <2>8, GoesOn
<1>14. CASE t.at = "task" /\ \E k : l = TaskLock(k)
  <2>1. l = TaskLock(q.task) /\ q.op \in OnTask /\ q.task \in S!TaskIds
    BY <1>2, <1>3, <1>4, <1>11, <1>14, PlacesAre DEF Wanted, WellAsked
  <2>2. a = "write" /\ left = {}
    BY <1>2, <1>3, <1>4, <1>5, <1>6, <1>11, <1>14, <2>1, Statements DEF AfterLock
  <2>3. a \in Places(q.op)
    BY <2>1, <2>2 DEF Places, OnTask
  <2>4. ~ HasWritten(t) /\ ~ HasWritten(u) /\ HasRead(t) /\ HasRead(u)
    BY <1>9, <1>14, <2>2 DEF HasWritten, HasRead
  <2>5. \A m \in t.locks : MayHold(u, m)
    BY <1>3, <1>9, <1>11, <1>14, <2>2, <2>4 DEF HoldsLocks, MayHold
  <2>6. MayHold(u, l)
    BY <1>9, <2>1, <2>2 DEF MayHold
  <2>7. HoldsLocks(u)
    BY <1>3, <1>9, <1>11, <1>14, <2>1, <2>2, <2>5, <2>6 DEF HoldsLocks, OnTask, Uploading
  <2>8. InPlace(u)
    BY <1>3, <1>4, <1>9, <1>11, <2>2, <2>3, <2>4, <2>7 DEF InPlace
  <2>9. IsTrue(u)
    BY <1>3, <1>4, <1>5, <1>9, <1>11, <1>14, <2>2, <2>4 DEF IsTrue
  <2> QED
    BY <1>1, <1>2, <1>3, <1>8, <1>9, <1>10, <2>8, <2>9, GoesOn
<1>15. CASE t.at = "log" /\ l = EventLock
  <2>1. a = "events" /\ left = {}
    BY <1>2, <1>3, <1>5, <1>6, <1>11, <1>15 DEF AfterLock, LogPath
  <2>2. a \in Places(q.op)
    BY <1>3, <1>4, <1>11, <1>15, <2>1, PlacesAre DEF Places
  <2>3. HasWritten(t) /\ HasWritten(u) /\ HasRead(t) /\ HasRead(u)
    BY <1>9, <1>15, <2>1 DEF HasWritten, HasRead
  <2>4. \A m \in t.locks : MayHold(u, m)
    BY <1>3, <1>9, <1>11, <1>15, <2>1, <2>3 DEF HoldsLocks, MayHold
  <2>5. MayHold(u, l)
    BY <1>9, <1>15, <2>1 DEF MayHold
  <2>6. HoldsLocks(u)
    BY <1>3, <1>9, <1>11, <1>15, <2>1, <2>3, <2>4, <2>5 DEF HoldsLocks, AtTask
  <2>7. InPlace(u)
    BY <1>3, <1>4, <1>9, <1>11, <1>15, <2>1, <2>2, <2>3, <2>6 DEF InPlace
  <2>8. WroteRows(u)
    BY <1>3, <1>4, <1>9, <2>3, RowsStay DEF IsTrue
  <2>9. WroteLog(u)
    BY <1>3, <1>4, <1>9, <1>15, <2>1, <2>3 DEF IsTrue, WroteLog, IsNumbered
  <2>10. IsTrue(u)
    BY <1>3, <1>4, <1>9, <1>11, <1>15, <2>1, <2>3, <2>8, <2>9 DEF IsTrue
  <2> QED
    BY <1>1, <1>2, <1>3, <1>8, <1>9, <1>10, <2>7, <2>10, GoesOn
<1> QED
  <2>1. Placed
    BY DEF TxnInv
  <2> QED
    BY <1>2, <1>12, <1>13, <1>14, <1>15, <2>1, WantedAre

-----------------------------------------------------------------------------
(* Rows are read.                                                             *)

LEMMA ReadPlace ==
  ASSUME TxnInv, UNCHANGED committed, NEW x \in Txns, IsOpen(x), txn[x].at = "read",
         NEW roots, roots \subseteq RunIds, LockRoots(x, roots),
         roots = RootsOf(txn[x].req), HasChecked(txn[x].req),
         txn[x].req.op \in OnTrees => roots # {}
  PROVE  TxnInv'
<1>1. PICK t : t = txn[x]
  OBVIOUS
<1>2. PICK q : q = t.req
  OBVIOUS
<1>3. /\ InPlace(t) /\ IsTrue(t) /\ WellAsked(q) /\ HasFields(t) /\ HasTables(t.writes)
      /\ q.op \in Ops
  BY <1>1, <1>2, OpenRow DEF WellAsked
<1>4. /\ t.at \in Places(q.op) /\ t.req \in Requests /\ HoldsLocks(t) /\ HasAsked(q)
      /\ t.at = "read" /\ ~ HasWritten(t) /\ t.told = <<>> /\ t.writes = NoWrites
  BY <1>1, <1>2, <1>3 DEF InPlace, IsTrue, HasWritten
<1>5. q.op \in Uploading \cup OnTrees
  BY <1>2, <1>3, <1>4, PlacesAre
<1>6. PICK a : a = AtRoots(q, roots)
  OBVIOUS
<1>7. a = IF roots = {} THEN "write" ELSE "roots"
  BY <1>1, <1>2, <1>3, <1>5, <1>6, Statements DEF AtRoots, OnTrees
<1>8. a \in Places(q.op)
  BY <1>5, <1>7 DEF Places, Uploading, OnTrees
<1>9. PICK u : u = [t EXCEPT !.at = a, !.roots = roots]
  OBVIOUS
<1>10. txn' = [txn EXCEPT ![x] = u]
  BY <1>1, <1>2, <1>6, <1>9 DEF LockRoots
<1>11. /\ HasFields(u) /\ u.at = a /\ u.roots = roots /\ u.locks = t.locks
       /\ u.req = q /\ u.told = t.told /\ u.writes = t.writes
  BY <1>2, <1>3, <1>9 DEF HasFields
<1>12. ~ HasWritten(u) /\ HasRead(u) /\ (u.at = "write" => q.op \in Uploading)
  BY <1>1, <1>2, <1>5, <1>7, <1>11 DEF HasWritten, HasRead
<1>13. HoldsLocks(u)
  <2>1. \A m \in t.locks : m = UploadLock(Mode(q)) /\ q.op \in Uploading
    BY <1>2, <1>4 DEF HoldsLocks, MayHold, HasRead, HasWritten
  <2>2. \A m \in u.locks : MayHold(u, m)
    BY <1>7, <1>11, <2>1 DEF MayHold
  <2>3. q.op \in Uploading => UploadLock(Mode(q)) \in u.locks
    BY <1>2, <1>4, <1>11 DEF HoldsLocks
  <2>4. ~ AtTask(u)
    BY <1>11, <1>12 DEF AtTask, OnTask, Uploading
  <2> QED
    BY <1>7, <1>11, <2>2, <2>3, <2>4 DEF HoldsLocks
<1>14. InPlace(u)
  BY <1>2, <1>3, <1>4, <1>7, <1>8, <1>11, <1>12, <1>13 DEF InPlace
<1>15. IsTrue(u)
  BY <1>1, <1>2, <1>4, <1>11, <1>12 DEF IsTrue
<1> QED
  BY <1>1, <1>2, <1>10, <1>11, <1>14, <1>15, GoesOn

LEMMA ReadStep ==
  ASSUME TxnInv, NEW x \in Txns, ReadUploads(x) \/ ReadStart(x) \/ ReadRun(x)
  PROVE  TxnInv'
<1>1. PICK q : q = txn[x].req
  OBVIOUS
<1>2. IsOpen(x) /\ txn[x].at = "read" /\ UNCHANGED committed
  BY DEF ReadUploads, ReadStart, ReadRun, Doing
<1>3. WellAsked(q) /\ HasAsked(q)
  BY <1>1, <1>2, OpenRow DEF IsTrue
<1>4. S!TypeOK /\ S!TreeShape
  BY StoreFacts DEF TxnInv, RowsInv
<1>5. \A r \in RunIds : runs[r].status # "none" => runs[r].root \in RunIds
  BY <1>4 DEF S!TreeShape
<1>6. CASE ReadUploads(x)
  <2>1. q.op = "store_flows"
    BY <1>1, <1>6 DEF ReadUploads, Doing
  <2>2. RootsOf(q) = TreesRunning(S!NewUploads(q.uploads))
    BY <2>1 DEF RootsOf, IsSubStart, OnTrees
  <2>3. \/ Close(x)
        \/ /\ S!CheckUploads(q.uploads) /\ S!NewUploads(q.uploads) # {}
           /\ LockRoots(x, TreesRunning(S!NewUploads(q.uploads)))
    BY <1>1, <1>6 DEF ReadUploads, TreesRunning
  <2>4. HasChecked(q) <=> S!CheckUploads(q.uploads) /\ S!NewUploads(q.uploads) # {}
    BY <2>1 DEF HasChecked
  <2>5. RootsOf(q) \subseteq RunIds
    <3>1. \A r \in TreesRunning(S!NewUploads(q.uploads)) : r \in RunIds
      BY <1>5 DEF TreesRunning, S!IsActive
    <3> QED
      BY <2>2, <3>1
  <2> QED
    BY <1>1, <1>2, <2>1, <2>2, <2>3, <2>4, <2>5, CloseStep, ReadPlace DEF OnTrees
<1>7. CASE ReadStart(x)
  <2>1. q.op = "start_run"
    BY <1>1, <1>7 DEF ReadStart, Doing
  <2>2. RootsOf(q) = IF IsSubStart(q) THEN {runs[q.parent].root} ELSE {}
    BY <2>1 DEF RootsOf, OnTrees
  <2>3. \/ Close(x)
        \/ HasChecked(q) /\ LockRoots(x, RootsOf(q))
    BY <1>1, <1>7, <2>1, <2>2 DEF ReadStart, HasChecked
  <2>4. RootsOf(q) \subseteq RunIds
    BY <1>3, <1>5, <2>1, <2>2 DEF WellAsked, HasAsked, IsSubStart
  <2> QED
    BY <1>1, <1>2, <2>1, <2>3, <2>4, CloseStep, ReadPlace DEF OnTrees
<1>8. CASE ReadRun(x)
  <2>1. q.op \in OnTrees
    BY <1>1, <1>8 DEF ReadRun, Doing, OnTrees
  <2>2. RootsOf(q) = {runs[RunAsked(q)].root}
    BY <2>1 DEF RootsOf, OnTrees, IsSubStart
  <2>3. HasChecked(q) /\ LockRoots(x, RootsOf(q))
    BY <1>1, <1>8, <2>1, <2>2 DEF ReadRun, HasChecked, OnTrees
  <2>4. RunAsked(q) \in RunIds
    BY <1>3, <2>1 DEF RunAsked, WellAsked, OnTrees, OnTask, S!TaskIds
  <2>5. RootsOf(q) \subseteq RunIds
    BY <1>3, <1>5, <2>1, <2>2, <2>4 DEF HasAsked
  <2> QED
    BY <1>1, <1>2, <2>2, <2>3, <2>5, ReadPlace
<1> QED
  BY <1>6, <1>7, <1>8

-----------------------------------------------------------------------------
(* Rows are written.                                                          *)

LEMMA WrotePlace ==
  ASSUME TxnInv, UNCHANGED committed, NEW x \in Txns, IsOpen(x), txn[x].at = "write",
         NEW rows, HasTables(rows), NEW told, Wrote(x, rows, told),
         rows.events = <<>>, rows.position = <<>>,
         told # <<>> => txn[x].req.op \in {"store_flows", "start_run", "succeed_run",
                                           "finish_tree", "finish_task"},
         txn[x].req.op = "start_run" => told # <<>>,
         \A u : u.req = txn[x].req /\ u.told = told /\ u.writes = rows /\ u.locks = txn[x].locks
                  => WroteRows(u)
  PROVE  TxnInv'
<1>1. PICK t : t = txn[x]
  OBVIOUS
<1>2. PICK q : q = t.req
  OBVIOUS
<1>3. /\ InPlace(t) /\ IsTrue(t) /\ WellAsked(q) /\ HasFields(t) /\ q.op \in Ops
  BY <1>1, <1>2, OpenRow DEF WellAsked
<1>4. /\ t.at = "write" /\ t.at \in Places(q.op) /\ t.req \in Requests /\ HoldsLocks(t)
      /\ HasAsked(q) /\ HasRead(t) /\ t.roots = {}
  BY <1>1, <1>2, <1>3 DEF InPlace, IsTrue, HasRead
<1>5. PICK a : a = IF told = <<>> THEN "commit" ELSE "log"
  OBVIOUS
<1>6. PICK u : u = [t EXCEPT !.at = a, !.told = told, !.writes = rows]
  OBVIOUS
<1>7. txn' = [txn EXCEPT ![x] = u]
  BY <1>1, <1>5, <1>6 DEF Wrote, LogPath
<1>8. /\ HasFields(u) /\ u.at = a /\ u.roots = t.roots /\ u.locks = t.locks
      /\ u.req = q /\ u.told = told /\ u.writes = rows
  BY <1>2, <1>3, <1>6 DEF HasFields
<1>9. a \in Places(q.op) /\ a \in {"commit", "log"} /\ HasWritten(u) /\ HasRead(u)
  BY <1>1, <1>2, <1>3, <1>5, <1>8 DEF Places, Ops, Uploading, OnTrees, OnTask, HasWritten,
     HasRead
<1>10. HoldsLocks(u)
  <2>1. \A m \in u.locks : MayHold(u, m)
    BY <1>2, <1>4, <1>8, <1>9 DEF HoldsLocks, MayHold
  <2> QED
    BY <1>2, <1>4, <1>5, <1>8, <1>9, <2>1 DEF HoldsLocks, AtTask
<1>11. InPlace(u)
  BY <1>2, <1>4, <1>5, <1>8, <1>9, <1>10 DEF InPlace
<1>12. WroteRows(u)
  BY <1>1, <1>2, <1>8
<1>13. WroteLog(u)
  BY <1>1, <1>2, <1>5, <1>8 DEF WroteLog, IsNumbered
<1>14. IsTrue(u)
  BY <1>2, <1>3, <1>4, <1>8, <1>12, <1>13 DEF IsTrue
<1> QED
  BY <1>1, <1>2, <1>7, <1>8, <1>11, <1>14, GoesOn

LEMMA WriteUploadsStep ==
  ASSUME TxnInv, NEW x \in Txns, WriteUploads(x)
  PROVE  TxnInv'
<1>1. PICK t : t = txn[x]
  OBVIOUS
<1>2. PICK q : q = t.req
  OBVIOUS
<1>3. /\ IsOpen(x) /\ t.at = "write" /\ q.op = "store_flows" /\ UNCHANGED committed
  BY <1>1, <1>2 DEF WriteUploads, Doing
<1>4. InPlace(t) /\ IsTrue(t)
  BY <1>1, <1>3, OpenRow
<1>5. PICK new : new = S!NewUploads(q.uploads)
  OBVIOUS
<1>6. PICK still :
        still = {r \in RunIds : RootLock(r) \in t.locks /\
                   \E s \in RunIds : /\ S!IsActive(s) /\ runs[s].root = r
                                     /\ \E u \in new : u.name = runs[s].flow}
  OBVIOUS
<1>7. PICK order \in S!Orders(S!ActiveInTrees(still)) :
        Wrote(x, [Ended(S!ActiveInTrees(still), "cancelled") EXCEPT !.flows = new],
              Finished(order))
  BY <1>1, <1>2, <1>5, <1>6 DEF WriteUploads
<1>8. RootsOf(q) = TreesRunning(new)
  BY <1>3, <1>5 DEF RootsOf, IsSubStart, OnTrees
<1>9. still = RootsOf(q)
  <2>1. \A r \in RootsOf(q) : RootLock(r) \in t.locks
    BY <1>2, <1>3, <1>4 DEF IsTrue, InPlace, HasRead
  <2>2. \A r : r \in TreesRunning(new) <=>
          \E s \in RunIds : /\ S!IsActive(s) /\ runs[s].root = r
                            /\ \E u \in new : u.name = runs[s].flow
    BY DEF TreesRunning
  <2>3. \A s \in RunIds : S!IsActive(s) => runs[s].root \in RunIds
    BY StoreFacts DEF TxnInv, RowsInv, S!TreeShape, S!IsActive
  <2> QED
    BY <1>6, <1>8, <2>1, <2>2, <2>3
<1>10. PICK ended : ended = [r \in Stopping(q) |-> [runs[r] EXCEPT !.status = "cancelled"]]
  OBVIOUS
<1>11. PICK rows : rows = [[NoWrites EXCEPT !.runs = ended] EXCEPT !.flows = new]
  OBVIOUS
<1>12. /\ HasTables(rows) /\ rows.flows = new /\ rows.runs = ended /\ rows.tasks = <<>>
       /\ rows.events = <<>> /\ rows.position = <<>>
  BY <1>11 DEF NoWrites, HasTables
<1>13. order \in S!Orders(Stopping(q)) /\ Wrote(x, rows, Finished(order))
  BY <1>7, <1>9, <1>10, <1>11 DEF Stopping, Ended
<1>14. ASSUME NEW u, u.req = q, u.told = Finished(order), u.writes = rows
       PROVE  WroteRows(u)
  BY <1>3, <1>5, <1>10, <1>12, <1>13, <1>14 DEF WroteRows, WroteUploads, StopsTrees
<1> QED
  BY <1>1, <1>2, <1>3, <1>12, <1>13, <1>14, WrotePlace

LEMMA WriteStartStep ==
  ASSUME TxnInv, NEW x \in Txns, WriteStart(x)
  PROVE  TxnInv'
<1>1. PICK q : q = txn[x].req
  OBVIOUS
<1>2. /\ IsOpen(x) /\ txn[x].at = "write" /\ q.op = "start_run" /\ UNCHANGED committed
      /\ \/ Close(x)
         \/ /\ runs[NewId(q)].status = "none" /\ (IsSubStart(q) => S!IsActive(q.parent))
            /\ InsertRun(x)
  BY <1>1 DEF WriteStart, Doing
<1>3. PICK started : started = [r \in {NewId(q)} |-> NewRun(q)]
  OBVIOUS
<1>4. PICK told : told = <<[run |-> NewId(q), kind |-> "run_started"]>>
  OBVIOUS
<1>5. PICK rows : rows = [NoWrites EXCEPT !.runs = started]
  OBVIOUS
<1>6. /\ HasTables(rows) /\ rows.flows = {} /\ rows.runs = started /\ rows.tasks = <<>>
      /\ rows.events = <<>> /\ rows.position = <<>>
  BY <1>5 DEF NoWrites, HasTables
<1>7. told # <<>>
  BY <1>4
<1>8. InsertRun(x) => Wrote(x, rows, told)
  BY <1>1, <1>3, <1>4, <1>5 DEF InsertRun
<1>9. ASSUME NEW u, u.req = q, u.told = told, u.writes = rows,
             runs[NewId(q)].status = "none", IsSubStart(q) => S!IsActive(q.parent)
      PROVE  WroteRows(u)
  BY <1>2, <1>3, <1>4, <1>6, <1>9 DEF WroteRows, WroteStart
<1> QED
  BY <1>1, <1>2, <1>6, <1>7, <1>8, <1>9, WrotePlace, CloseStep

LEMMA WriteSuccessStep ==
  ASSUME TxnInv, NEW x \in Txns, WriteSuccess(x)
  PROVE  TxnInv'
<1>1. PICK q : q = txn[x].req
  OBVIOUS
<1>2. PICK ended : ended = [s \in {q.run} |->
                     [runs[s] EXCEPT !.status = "succeeded", !.output = q.output]]
  OBVIOUS
<1>3. PICK rows : rows = [NoWrites EXCEPT !.runs = ended]
  OBVIOUS
<1>4. /\ HasTables(rows) /\ rows.flows = {} /\ rows.runs = ended /\ rows.tasks = <<>>
      /\ rows.events = <<>> /\ rows.position = <<>>
  BY <1>3 DEF NoWrites, HasTables
<1>5. /\ IsOpen(x) /\ txn[x].at = "write" /\ q.op = "succeed_run" /\ UNCHANGED committed
      /\ \/ Close(x)
         \/ S!IsActive(q.run) /\ Wrote(x, rows, Finished(<<q.run>>))
  BY <1>1, <1>2, <1>3 DEF WriteSuccess, Doing
<1>6. ASSUME NEW u, u.req = q, u.told = Finished(<<q.run>>), u.writes = rows, S!IsActive(q.run)
      PROVE  WroteRows(u)
  BY <1>2, <1>4, <1>5, <1>6 DEF WroteRows, WroteSuccess
<1> QED
  BY <1>1, <1>4, <1>5, <1>6, WrotePlace, CloseStep

LEMMA WriteTreeEndStep ==
  ASSUME TxnInv, NEW x \in Txns, WriteTreeEnd(x)
  PROVE  TxnInv'
<1>1. PICK q : q = txn[x].req
  OBVIOUS
<1>2. /\ IsOpen(x) /\ txn[x].at = "write" /\ q.op = "finish_tree" /\ UNCHANGED committed
  BY <1>1 DEF WriteTreeEnd, Doing
<1>3. RootsOf(q) = {runs[q.run].root}
  BY <1>2 DEF RootsOf, IsSubStart, OnTrees, RunAsked
<1>4. PICK order \in S!Orders(Stopping(q)) :
        Wrote(x, Ended(Stopping(q), q.status), Finished(order))
  BY <1>1, <1>3 DEF WriteTreeEnd, Stopping
<1>5. PICK ended : ended = [r \in Stopping(q) |-> [runs[r] EXCEPT !.status = q.status]]
  OBVIOUS
<1>6. PICK rows : rows = [NoWrites EXCEPT !.runs = ended]
  OBVIOUS
<1>7. /\ HasTables(rows) /\ rows.flows = {} /\ rows.runs = ended /\ rows.tasks = <<>>
      /\ rows.events = <<>> /\ rows.position = <<>>
  BY <1>6 DEF NoWrites, HasTables
<1>8. Wrote(x, rows, Finished(order))
  BY <1>4, <1>5, <1>6 DEF Ended
<1>9. ASSUME NEW u, u.req = q, u.told = Finished(order), u.writes = rows
      PROVE  WroteRows(u)
  BY <1>2, <1>4, <1>5, <1>7, <1>9 DEF WroteRows, WroteTreeEnd, StopsTrees
<1> QED
  BY <1>1, <1>2, <1>7, <1>8, <1>9, WrotePlace

LEMMA WriteTaskStep ==
  ASSUME TxnInv, NEW x \in Txns,
         WritePublish(x) \/ WriteClaim(x) \/ WriteExtend(x) \/ WriteReport(x)
  PROVE  TxnInv'
<1>1. PICK q : q = txn[x].req
  OBVIOUS
<1>2. PICK k : k = q.task
  OBVIOUS
<1>3. IsOpen(x) /\ txn[x].at = "write" /\ UNCHANGED committed
  BY DEF WritePublish, WriteClaim, WriteExtend, WriteReport, Doing
<1>4. ASSUME NEW row, NEW told, WroteTask(x, k, row, told),
             told # <<>> => q.op = "finish_task", q.op # "start_run",
             \A u : u.req = q /\ u.told = told /\ u.writes.flows = {} /\ WritesTask(u, k, row)
                      => WroteRows(u)
      PROVE  TxnInv'
  <2>1. PICK rows : rows = [NoWrites EXCEPT !.tasks = [s \in {k} |-> row]]
    OBVIOUS
  <2>2. /\ HasTables(rows) /\ rows.flows = {} /\ rows.runs = <<>>
        /\ rows.tasks = [s \in {k} |-> row] /\ rows.events = <<>> /\ rows.position = <<>>
    BY <2>1 DEF NoWrites, HasTables
  <2>3. Wrote(x, rows, told)
    BY <1>4, <2>1 DEF WroteTask
  <2>4. ASSUME NEW u, u.req = q, u.told = told, u.writes = rows
        PROVE  WroteRows(u)
    BY <1>4, <2>2, <2>4 DEF WritesTask
  <2> QED
    BY <1>1, <1>3, <1>4, <2>2, <2>3, <2>4, WrotePlace
<1>5. CASE WritePublish(x)
  <2>1. PICK row : row = [S!NoTask EXCEPT !.status = "pending", !.queue = q.queue]
    OBVIOUS
  <2>2. /\ q.op = "publish_task"
        /\ \/ Close(x)
           \/ S!IsActive(k[1]) /\ tasks[k].status = "none" /\ WroteTask(x, k, row, <<>>)
    BY <1>1, <1>2, <1>5, <2>1 DEF WritePublish, Doing
  <2>3. ASSUME NEW u, u.req = q, u.told = <<>>, u.writes.flows = {}, WritesTask(u, k, row),
               S!IsActive(k[1]), tasks[k].status = "none"
        PROVE  WroteRows(u)
    BY <1>2, <2>1, <2>2, <2>3 DEF WroteRows, WrotePublish
  <2> QED
    BY <1>3, <1>4, <2>2, <2>3, CloseStep
<1>6. CASE WriteClaim(x)
  <2>1. PICK row : row = IF S!IsActive(k[1])
                         THEN [tasks[k] EXCEPT !.status = "running"]
                         ELSE [tasks[k] EXCEPT !.status = "failed", !.lease = "none"]
    OBVIOUS
  <2>2. /\ q.op = "claim_task"
        /\ \/ Close(x)
           \/ S!MayBecome(tasks[k].status, "running") /\ WroteTask(x, k, row, <<>>)
    BY <1>1, <1>2, <1>6, <2>1 DEF WriteClaim, Doing
  <2>3. ASSUME NEW u, u.req = q, u.told = <<>>, u.writes.flows = {}, WritesTask(u, k, row),
               S!MayBecome(tasks[k].status, "running")
        PROVE  WroteRows(u)
    BY <1>2, <2>1, <2>2, <2>3 DEF WroteRows, WroteClaim
  <2> QED
    BY <1>3, <1>4, <2>2, <2>3, CloseStep
<1>7. CASE WriteExtend(x)
  <2>1. PICK row : row = [tasks[k] EXCEPT !.lease = "held"]
    OBVIOUS
  <2>2. /\ q.op = "extend_task_lease"
        /\ \/ Close(x)
           \/ tasks[k].status \in S!TaskLeased /\ WroteTask(x, k, row, <<>>)
    BY <1>1, <1>2, <1>7, <2>1 DEF WriteExtend, Doing
  <2>3. ASSUME NEW u, u.req = q, u.told = <<>>, u.writes.flows = {}, WritesTask(u, k, row),
               tasks[k].status \in S!TaskLeased
        PROVE  WroteRows(u)
    BY <1>2, <2>1, <2>2, <2>3 DEF WroteRows, WroteExtend
  <2> QED
    BY <1>3, <1>4, <2>2, <2>3, CloseStep
<1>8. CASE WriteReport(x)
  <2>1. PICK row : row = [tasks[k] EXCEPT !.status = q.status, !.result = q.result,
                                          !.lease = "none"]
    OBVIOUS
  <2>2. PICK told : told = <<[run |-> k[1], kind |-> "task_finished"]>>
    OBVIOUS
  <2>3. /\ q.op = "finish_task"
        /\ \/ Close(x)
           \/ S!MayBecome(tasks[k].status, q.status) /\ WroteTask(x, k, row, told)
    BY <1>1, <1>2, <1>8, <2>1, <2>2 DEF WriteReport, Doing
  <2>4. ASSUME NEW u, u.req = q, u.told = told, u.writes.flows = {}, WritesTask(u, k, row),
               S!MayBecome(tasks[k].status, q.status)
        PROVE  WroteRows(u)
    BY <1>2, <2>1, <2>2, <2>3, <2>4 DEF WroteRows, WroteReport
  <2> QED
    BY <1>3, <1>4, <2>3, <2>4, CloseStep
<1> QED
  BY <1>5, <1>6, <1>7, <1>8

LEMMA WriteReceiveStep ==
  ASSUME TxnInv, NEW x \in Txns, WriteReceive(x)
  PROVE  TxnInv'
<1>1. PICK t : t = txn[x]
  OBVIOUS
<1>2. PICK q : q = t.req
  OBVIOUS
<1>3. IsOpen(x) /\ t.at = "write" /\ q.op = "receive_task" /\ UNCHANGED committed
  BY <1>1, <1>2 DEF WriteReceive, Doing
<1>4. InPlace(t) /\ IsTrue(t) /\ HasFields(t)
  BY <1>1, <1>3, OpenRow
<1>5. CASE Close(x)
  BY <1>3, <1>5, CloseStep
<1>6. CASE \E k \in Receivable(q.queue) :
             txn' = [txn EXCEPT ![x] =
               [@ EXCEPT !.at = "commit", !.locks = {TaskLock(k)},
                         !.writes = [NoWrites EXCEPT !.tasks =
                            [s \in {k} |-> [tasks[s] EXCEPT !.status = "received",
                                              !.lease = "held",
                                              !.attempts = tasks[s].attempts + 1]]]]]
  <2>1. PICK k \in Receivable(q.queue) :
             txn' = [txn EXCEPT ![x] =
               [@ EXCEPT !.at = "commit", !.locks = {TaskLock(k)},
                         !.writes = [NoWrites EXCEPT !.tasks =
                            [s \in {k} |-> [tasks[s] EXCEPT !.status = "received",
                                              !.lease = "held",
                                              !.attempts = tasks[s].attempts + 1]]]]]
    BY <1>6
  <2>2. PICK row : row = [tasks[k] EXCEPT !.status = "received", !.lease = "held",
                                          !.attempts = tasks[k].attempts + 1]
    OBVIOUS
  <2>3. PICK rows : rows = [NoWrites EXCEPT !.tasks = [s \in {k} |-> row]]
    OBVIOUS
  <2>4. /\ HasTables(rows) /\ rows.flows = {} /\ rows.runs = <<>>
        /\ rows.tasks = [s \in {k} |-> row] /\ rows.events = <<>> /\ rows.position = <<>>
    BY <2>3 DEF NoWrites, HasTables
  <2>5. PICK lock : lock = {TaskLock(k)}
    OBVIOUS
  <2>6. PICK u : u = [t EXCEPT !.at = "commit", !.locks = lock, !.writes = rows]
    OBVIOUS
  <2>7. txn' = [txn EXCEPT ![x] = u]
    <3>1. [s \in {k} |-> [tasks[s] EXCEPT !.status = "received", !.lease = "held",
                                          !.attempts = tasks[s].attempts + 1]]
            = [s \in {k} |-> row]
      BY <2>2
    <3> QED
      BY <1>1, <2>1, <2>3, <2>5, <2>6, <3>1
  <2>8. /\ HasFields(u) /\ u.at = "commit" /\ u.locks = lock /\ u.writes = rows
        /\ u.req = q /\ u.told = t.told /\ u.roots = t.roots
    BY <1>2, <1>4, <2>6 DEF HasFields
  <2>9. k \in S!TaskIds /\ S!IsReceivable(k, q.queue) /\ ~ IsLocked(k)
    BY <2>1 DEF Receivable
  <2>10. \A l \in u.locks : Free(x, l)
    BY <2>5, <2>8, <2>9, ConflictsAre DEF Free, IsLocked
  <2>11. t.told = <<>> /\ t.roots = {} /\ t.req \in Requests /\ HasAsked(q) /\ HasChecked(q)
    BY <1>2, <1>3, <1>4 DEF InPlace, IsTrue, HasWritten, HasRead
  <2>12. HasWritten(u)
    BY <2>8 DEF HasWritten
  <2>13. HoldsLocks(u)
    BY <1>3, <2>5, <2>8, <2>9, <2>11, <2>12
    DEF HoldsLocks, MayHold, AtTask, OnTask, Uploading
  <2>14. InPlace(u)
    BY <1>2, <1>3, <2>4, <2>8, <2>11, <2>12, <2>13 DEF InPlace, Places
  <2>15. WroteRows(u)
    BY <1>3, <2>2, <2>4, <2>5, <2>8, <2>9, <2>11 DEF WroteRows, WroteReceive, WritesTask
  <2>16. WroteLog(u)
    BY <1>3, <2>4, <2>8, <2>11 DEF WroteLog, IsNumbered
  <2>17. RootsOf(q) = {}
    BY <1>3 DEF RootsOf, IsSubStart, OnTrees
  <2>18. IsTrue(u)
    BY <2>8, <2>11, <2>15, <2>16, <2>17 DEF IsTrue
  <2> QED
    BY <1>1, <1>2, <1>3, <2>7, <2>8, <2>10, <2>14, <2>18, GoesOn
<1> QED
  BY <1>1, <1>2, <1>5, <1>6 DEF WriteReceive

-----------------------------------------------------------------------------
(* The log is written, or all is undone.                                      *)

LEMMA LogPlace ==
  ASSUME TxnInv, UNCHANGED committed, NEW x \in Txns, IsOpen(x),
         txn[x].at \in {"events", "number"}, NEW a \in {"number", "commit"},
         a = "number" => txn[x].req.op = "start_run",
         NEW w, HasTables(w), w.flows = txn[x].writes.flows, w.runs = txn[x].writes.runs,
         w.tasks = txn[x].writes.tasks,
         txn' = [txn EXCEPT ![x] = [txn[x] EXCEPT !.at = a, !.writes = w]],
         \A u : u.at = a /\ u.req = txn[x].req /\ u.told = txn[x].told /\ u.writes = w
                  => WroteLog(u)
  PROVE  TxnInv'
<1>1. PICK t : t = txn[x]
  OBVIOUS
<1>2. PICK q : q = t.req
  OBVIOUS
<1>3. /\ InPlace(t) /\ IsTrue(t) /\ WellAsked(q) /\ HasFields(t) /\ q.op \in Ops
      /\ t.at \in {"events", "number"}
  BY <1>1, <1>2, OpenRow DEF WellAsked
<1>4. /\ t.at \in Places(q.op) /\ t.req \in Requests /\ HoldsLocks(t) /\ HasAsked(q)
      /\ t.roots = {} /\ t.told # <<>> /\ HasWritten(t) /\ HasRead(t) /\ WroteRows(t)
  BY <1>2, <1>3 DEF InPlace, IsTrue, HasRead, HasWritten
<1>5. PICK u : u = [t EXCEPT !.at = a, !.writes = w]
  OBVIOUS
<1>6. /\ HasFields(u) /\ u.at = a /\ u.roots = t.roots /\ u.locks = t.locks
      /\ u.req = q /\ u.told = t.told /\ u.writes = w
  BY <1>2, <1>3, <1>5 DEF HasFields
<1>7. a \in Places(q.op) /\ HasWritten(u) /\ HasRead(u)
  BY <1>1, <1>2, <1>3, <1>6 DEF Places, Ops, Uploading, OnTrees, OnTask, HasWritten, HasRead
<1>8. HoldsLocks(u)
  <2>1. \A m \in u.locks : MayHold(u, m)
    BY <1>2, <1>3, <1>4, <1>6, <1>7 DEF HoldsLocks, MayHold
  <2>2. EventLock \in u.locks
    BY <1>3, <1>4, <1>6 DEF HoldsLocks
  <2>3. q.op \in Uploading => UploadLock(Mode(q)) \in u.locks
    BY <1>2, <1>3, <1>4, <1>6 DEF HoldsLocks
  <2>4. AtTask(u) => TaskLock(q.task) \in u.locks
    BY <1>2, <1>4, <1>6 DEF HoldsLocks, AtTask
  <2> QED
    BY <1>6, <2>1, <2>2, <2>3, <2>4 DEF HoldsLocks
<1>9. InPlace(u)
  BY <1>2, <1>4, <1>6, <1>7, <1>8 DEF InPlace
<1>10. WroteRows(u)
  BY <1>1, <1>2, <1>4, <1>6, RowsStay
<1>11. WroteLog(u)
  BY <1>1, <1>2, <1>6
<1>12. IsTrue(u)
  BY <1>2, <1>3, <1>4, <1>6, <1>7, <1>10, <1>11 DEF IsTrue
<1> QED
  BY <1>1, <1>2, <1>5, <1>6, <1>9, <1>12, GoesOn

LEMMA LogStep ==
  ASSUME TxnInv, NEW x \in Txns, InsertEvents(x) \/ NumberRun(x)
  PROVE  TxnInv'
<1>1. PICK t : t = txn[x]
  OBVIOUS
<1>2. PICK q : q = t.req
  OBVIOUS
<1>3. IsOpen(x) /\ UNCHANGED committed
  BY DEF InsertEvents, NumberRun, Doing
<1>4. /\ InPlace(t) /\ IsTrue(t) /\ WellAsked(q) /\ HasTables(t.writes)
  BY <1>1, <1>2, <1>3, OpenRow
<1>5. CASE InsertEvents(x)
  <2>1. t.at = "events"
    BY <1>1, <1>5 DEF InsertEvents
  <2>2. WroteLog(t) /\ t.told # <<>>
    BY <1>4, <2>1 DEF IsTrue, InPlace, HasWritten
  <2>3. PICK a : a = IF q.op = "start_run" THEN "number" ELSE "commit"
    OBVIOUS
  <2>4. PICK told : told = Numbered(t.told)
    OBVIOUS
  <2>5. PICK w : w = [t.writes EXCEPT !.events = told]
    OBVIOUS
  <2>6. /\ HasTables(w) /\ w.events = told /\ w.flows = t.writes.flows
        /\ w.runs = t.writes.runs /\ w.tasks = t.writes.tasks
        /\ w.position = t.writes.position
    BY <1>4, <2>5 DEF HasTables
  <2>7. txn' = [txn EXCEPT ![x] = [txn[x] EXCEPT !.at = a, !.writes = w]]
    BY <1>1, <1>2, <1>5, <2>3, <2>4, <2>5 DEF InsertEvents, LogPath, Numbered
  <2>8. t.writes.position = <<>>
    BY <2>1, <2>2 DEF WroteLog, IsNumbered
  <2>9. ASSUME NEW u, u.at = a, u.req = q, u.told = t.told, u.writes = w
        PROVE  WroteLog(u)
    BY <2>2, <2>3, <2>4, <2>6, <2>8, <2>9 DEF WroteLog, IsNumbered
  <2> QED
    BY <1>1, <1>2, <1>3, <2>1, <2>3, <2>6, <2>7, <2>9, LogPlace
<1>6. CASE NumberRun(x)
  <2>1. t.at = "number" /\ q.op = "start_run"
    BY <1>1, <1>2, <1>6 DEF NumberRun, Doing
  <2>2. WroteLog(t) /\ t.told # <<>>
    BY <1>4, <2>1 DEF IsTrue, InPlace, HasWritten
  <2>3. PICK number : number = [r \in {NewId(q)} |-> HighestPosition + 1]
    OBVIOUS
  <2>4. PICK w : w = [t.writes EXCEPT !.position = number]
    OBVIOUS
  <2>5. /\ HasTables(w) /\ w.position = number /\ w.flows = t.writes.flows
        /\ w.runs = t.writes.runs /\ w.tasks = t.writes.tasks
        /\ w.events = t.writes.events
    BY <1>4, <2>4 DEF HasTables
  <2>6. txn' = [txn EXCEPT ![x] = [txn[x] EXCEPT !.at = "commit", !.writes = w]]
    BY <1>1, <1>2, <1>6, <2>3, <2>4 DEF NumberRun, LogPath
  <2>7. ASSUME NEW u, u.at = "commit", u.req = q, u.told = t.told, u.writes = w
        PROVE  WroteLog(u)
    BY <2>1, <2>2, <2>3, <2>5, <2>7 DEF WroteLog, IsNumbered
  <2> QED
    BY <1>1, <1>2, <1>3, <2>1, <2>5, <2>6, <2>7, LogPlace
<1> QED
  BY <1>5, <1>6

\* Nothing but a commit, or the time, changes what others see.
LEMMA StepsAside ==
  ASSUME TxnInv, NEW x \in Txns,
         \/ \E q \in Requests : Begin(x, q)
         \/ Lock(x)
         \/ ReadUploads(x) \/ ReadStart(x) \/ ReadRun(x)
         \/ WriteUploads(x) \/ WriteStart(x) \/ WriteSuccess(x) \/ WriteTreeEnd(x)
         \/ WritePublish(x) \/ WriteReceive(x) \/ WriteClaim(x) \/ WriteExtend(x)
         \/ WriteReport(x)
         \/ InsertEvents(x) \/ NumberRun(x)
         \/ Abort(x)
  PROVE  TxnInv' /\ UNCHANGED committed
<1>1. UNCHANGED committed
  <2>1. CASE (\E q \in Requests : Begin(x, q)) \/ Lock(x) \/ ReadUploads(x) \/ ReadStart(x)
             \/ ReadRun(x)
    BY <2>1 DEF Begin, Lock, ReadUploads, ReadStart, ReadRun
  <2>2. CASE WriteUploads(x) \/ WriteStart(x) \/ WriteSuccess(x) \/ WriteTreeEnd(x)
    BY <2>2 DEF WriteUploads, WriteStart, WriteSuccess, WriteTreeEnd
  <2>3. CASE WritePublish(x) \/ WriteReceive(x) \/ WriteClaim(x) \/ WriteExtend(x)
             \/ WriteReport(x)
    BY <2>3 DEF WritePublish, WriteReceive, WriteClaim, WriteExtend, WriteReport
  <2>4. CASE InsertEvents(x) \/ NumberRun(x) \/ Abort(x)
    BY <2>4 DEF InsertEvents, NumberRun, Abort
  <2> QED
    BY <2>1, <2>2, <2>3, <2>4
<1>2. CASE Lock(x)
  <2>1. CASE IsOpen(x)
    BY <1>1, <1>2, <2>1, LockStep
  <2>2. CASE ~ IsOpen(x)
    <3>1. txn[x] = Closed
      BY <2>2, RequestFacts DEF TxnInv, Placed, InPlace, IsOpen
    <3>2. Wanted(x) = {}
      BY <3>1 DEF Wanted, Closed
    <3> QED
      BY <1>2, <3>2 DEF Lock
  <2> QED
    BY <2>1, <2>2
<1>3. CASE Abort(x)
  BY <1>1, <1>3, CloseStep DEF Abort
<1> QED
  BY <1>1, <1>2, <1>3, BeginStep, ReadStep, WriteUploadsStep, WriteStartStep, WriteSuccessStep,
     WriteTreeEndStep, WriteTaskStep, WriteReceiveStep, LogStep

-----------------------------------------------------------------------------
(* Rows written over others.                                                  *)

LEMMA OverNothing ==
  ASSUME NEW A, NEW f, f = [k \in A |-> f[k]]
  PROVE  Over(<<>>, f) = f
BY DEF Over

LEMMA OverLog ==
  ASSUME NEW E, events \in Seq(E), NEW told \in Seq(E)
  PROVE  /\ Over(Numbered(told), events) = events \o told
         /\ told = <<>> => events \o told = events
<1>1. PICK m \in Nat, n \in Nat : m = Len(events) /\ n = Len(told)
  BY LenProperties
<1>2. /\ DOMAIN events = 1 .. m /\ DOMAIN told = 1 .. n
      /\ events \o told \in Seq(E) /\ Len(events \o told) = m + n
      /\ \A i \in 1 .. m + n :
           (events \o told)[i] = IF i <= m THEN events[i] ELSE told[i - m]
  BY <1>1, LenProperties, ConcatProperties
<1>3. events \o told = [i \in 1 .. m + n |-> IF i <= m THEN events[i] ELSE told[i - m]]
  BY <1>2, LenProperties
<1>4. Numbered(told) = [i \in m + 1 .. m + n |-> told[i - m]]
  BY <1>1 DEF Numbered
<1>5. (m + 1 .. m + n) \cup (1 .. m) = 1 .. m + n
  OBVIOUS
<1>6. ASSUME NEW i \in 1 .. m + n
      PROVE  /\ i \in m + 1 .. m + n <=> ~ (i <= m)
             /\ Over(Numbered(told), events)[i] = IF i <= m THEN events[i] ELSE told[i - m]
  <2>1. i \in m + 1 .. m + n <=> ~ (i <= m)
    OBVIOUS
  <2> QED
    BY <1>2, <1>4, <1>5, <2>1 DEF Over
<1>7. DOMAIN Over(Numbered(told), events) = 1 .. m + n
  BY <1>2, <1>4, <1>5 DEF Over
<1>8. Over(Numbered(told), events)
        = [i \in DOMAIN Over(Numbered(told), events) |-> Over(Numbered(told), events)[i]]
  BY DEF Over
<1> QED
  BY <1>3, <1>6, <1>7, <1>8, ConcatEmptySeq

\* An event, or those of the runs that end.
LEMMA OneTold ==
  ASSUME NEW r \in RunIds, NEW kind \in S!EventKind, events \in Seq(S!Event)
  PROVE  /\ <<[run |-> r, kind |-> kind]>> \in Seq(S!Event)
         /\ events \o <<[run |-> r, kind |-> kind]>> = S!Append1(r, kind)
<1>1. PICK e : e = [run |-> r, kind |-> kind]
  OBVIOUS
<1>2. e \in S!Event
  BY <1>1 DEF S!Event
<1>3. <<e>> \in Seq(S!Event) /\ Len(<<e>>) = 1 /\ <<e>>[1] = e
  BY <1>2
<1>4. events \o <<e>> = Append(events, e)
  <2>1. PICK n \in Nat : n = Len(events)
    BY LenProperties
  <2>2. /\ events \o <<e>> \in Seq(S!Event) /\ Len(events \o <<e>>) = n + 1
        /\ \A i \in 1 .. n + 1 :
             (events \o <<e>>)[i] = IF i <= n THEN events[i] ELSE <<e>>[i - n]
    BY <1>3, <2>1, ConcatProperties
  <2>3. /\ Append(events, e) \in Seq(S!Event) /\ Len(Append(events, e)) = n + 1
        /\ \A i \in 1 .. n + 1 : Append(events, e)[i] = IF i <= n THEN events[i] ELSE e
    BY <1>2, <2>1
  <2>4. \A i \in 1 .. n + 1 : (events \o <<e>>)[i] = Append(events, e)[i]
    BY <1>3, <2>2, <2>3
  <2> QED
    BY <2>2, <2>3, <2>4, SeqEqual
<1> QED
  BY <1>1, <1>3, <1>4 DEF S!Append1

LEMMA FinishedTold ==
  ASSUME NEW B, B \subseteq RunIds, NEW order \in S!Orders(B)
  PROVE  Finished(order) \in Seq(S!Event)
<1>1. IsFiniteSet(B)
  BY StoreAssumed, FS_Subset
<1>2. Cardinality(B) \in Nat
  BY <1>1, FS_CardinalityType
<1>3. PICK n \in Nat : n = S!Cardinality(B)
  BY <1>2, SameCardinality
<1>4. order \in [1 .. n -> RunIds]
  BY <1>3 DEF S!Orders
<1>5. \A i \in 1 .. n : [run |-> order[i], kind |-> "run_finished"] \in S!Event
  BY <1>4 DEF S!Event, S!EventKind
<1>6. Finished(order) \in [1 .. n -> S!Event]
  BY <1>4, <1>5 DEF Finished
<1> QED
  BY <1>6, SeqDef

-----------------------------------------------------------------------------
(* Each commit is a step of Store.                                            *)

LEMMA Committed ==
  ASSUME TxnInv, NEW x \in Txns, Commit(x), NEW t, t = txn[x], NEW q, q = t.req
  PROVE  /\ InPlace(t) /\ WellAsked(q) /\ t.at = "commit" /\ t.roots = {}
         /\ HasAsked(q) /\ HasChecked(q) /\ WroteRows(t) /\ WroteLog(t)
         /\ \A r \in RootsOf(q) : RootLock(r) \in t.locks
         /\ q.op # "store_flows" => flows' = flows
         /\ runs' = Over(t.writes.runs, runs) /\ tasks' = Over(t.writes.tasks, tasks)
         /\ position' = Over(t.writes.position, position)
         /\ published' = IF q.op = "publish_task" THEN Append(published, q.task) ELSE published
         /\ t.told \in Seq(S!Event) => events' = events \o t.told
<1>1. IsOpen(x) /\ t.at = "commit"
  BY DEF Commit
<1>2. InPlace(t) /\ IsTrue(t) /\ WellAsked(q)
  BY <1>1, OpenRow
<1>3. HasRead(t) /\ HasWritten(t)
  BY <1>1 DEF HasRead, HasWritten
<1>4. t.roots = {}
  BY <1>1, <1>2 DEF InPlace
<1>5. /\ HasAsked(q) /\ HasChecked(q) /\ WroteRows(t) /\ WroteLog(t)
      /\ \A r \in RootsOf(q) : RootLock(r) \in t.locks
  BY <1>2, <1>3, <1>4 DEF IsTrue
<1>6. /\ runs' = Over(t.writes.runs, runs) /\ tasks' = Over(t.writes.tasks, tasks)
      /\ position' = Over(t.writes.position, position)
      /\ published' = IF q.op = "publish_task" THEN Append(published, q.task) ELSE published
      /\ events' = Over(t.writes.events, events)
  BY DEF Commit
<1>7. S!TypeOK
  BY StoreFacts DEF TxnInv, RowsInv
<1>8. q.op # "store_flows" => flows' = flows
  <2>1. q.op # "store_flows" => t.writes.flows = {}
    BY <1>5 DEF WroteRows
  <2>2. flows' = [f \in FlowNames |-> [v \in S!Versions |->
                   IF \E u \in t.writes.flows : u.name = f /\ u.version = v
                   THEN (CHOOSE u \in t.writes.flows : u.name = f).content
                   ELSE flows[f][v]]]
    BY DEF Commit
  <2>3. flows = [f \in FlowNames |-> [v \in S!Versions |-> flows[f][v]]]
    BY <1>7 DEF S!TypeOK
  <2> QED
    BY <2>1, <2>2, <2>3
<1>9. t.told \in Seq(S!Event) => events' = events \o t.told
  <2>1. events \in Seq(S!Event)
    BY <1>7 DEF S!TypeOK
  <2>2. CASE t.told = <<>>
    <3>1. t.writes.events = <<>>
      BY <1>5, <2>2 DEF WroteLog
    <3>2. events = [i \in DOMAIN events |-> events[i]]
      BY <2>1
    <3> QED
      BY <1>6, <2>1, <2>2, <3>1, <3>2, OverNothing, OverLog
  <2>3. CASE t.told # <<>>
    BY <1>1, <1>5, <1>6, <2>1, <2>3, OverLog DEF WroteLog
  <2> QED
    BY <2>2, <2>3
<1> QED
  BY <1>1, <1>2, <1>4, <1>5, <1>6, <1>8, <1>9

\* The rows of the store as functions.
LEMMA RowsAre ==
  ASSUME RowsInv
  PROVE  /\ runs = [r \in RunIds |-> runs[r]] /\ tasks = [k \in S!TaskIds |-> tasks[k]]
         /\ events \in Seq(S!Event) /\ published \in Seq(S!TaskIds)
         /\ \A r \in RunIds : runs[r] \in S!Run
         /\ \A k \in S!TaskIds : tasks[k] \in S!Task
         /\ \A r \in RunIds : runs[r].status # "none" => runs[r].root \in RunIds
<1>1. S!TypeOK /\ S!TreeShape
  BY StoreFacts DEF RowsInv
<1> QED
  BY <1>1 DEF S!TypeOK, S!TreeShape

LEMMA CommitUploads ==
  ASSUME TxnInv, NEW x \in Txns, Commit(x), txn[x].req.op = "store_flows"
  PROVE  S!StoreFlows(txn[x].req.uploads)
<1>1. PICK t : t = txn[x]
  OBVIOUS
<1>2. PICK q : q = t.req
  OBVIOUS
<1>3. /\ HasChecked(q) /\ WroteRows(t) /\ q.op = "store_flows"
      /\ runs' = Over(t.writes.runs, runs) /\ tasks' = Over(t.writes.tasks, tasks)
      /\ published' = published
      /\ t.told \in Seq(S!Event) => events' = events \o t.told
  BY <1>1, <1>2, Committed
<1>4. /\ runs = [r \in RunIds |-> runs[r]] /\ tasks = [k \in S!TaskIds |-> tasks[k]]
  BY RowsAre DEF TxnInv
<1>5. PICK new : new = S!NewUploads(q.uploads)
  OBVIOUS
<1>6. PICK ending : ending = S!ActiveInTrees(TreesRunning(new))
  OBVIOUS
<1>7. ending \subseteq RunIds /\ Stopping(q) = ending
  BY <1>3, <1>5, <1>6 DEF S!ActiveInTrees, Stopping, RootsOf, IsSubStart, OnTrees
<1>8. PICK ended : ended = [r \in ending |-> [runs[r] EXCEPT !.status = "cancelled"]]
  OBVIOUS
<1>9. /\ t.writes.flows = new /\ t.writes.tasks = <<>> /\ t.writes.runs = ended
      /\ \E order \in S!Orders(ending) : t.told = Finished(order)
  BY <1>2, <1>3, <1>5, <1>7, <1>8 DEF WroteRows, WroteUploads, StopsTrees
<1>10. tasks' = tasks
  BY <1>3, <1>4, <1>9 DEF Over
<1>11. runs' = [r \in RunIds |->
                  IF r \in ending THEN [runs[r] EXCEPT !.status = "cancelled"] ELSE runs[r]]
  <2>1. ended = [r \in ending |-> ended[r]]
    BY <1>8
  <2>2. runs' = [r \in RunIds |-> IF r \in ending THEN ended[r] ELSE runs[r]]
    BY <1>3, <1>4, <1>7, <1>9, <2>1 DEF Over
  <2> QED
    BY <1>8, <2>2
<1>12. S!FinishRuns(ending, "cancelled")
  <2>1. PICK order \in S!Orders(ending) : t.told = Finished(order)
    BY <1>9
  <2>2. events' = events \o Finished(order)
    BY <1>3, <1>7, <2>1, FinishedTold
  <2> QED
    BY <1>11, <2>2 DEF S!FinishRuns, Finished
<1>13. flows' = [f \in FlowNames |-> [v \in S!Versions |->
                   IF \E u \in new : u.name = f /\ u.version = v
                   THEN (CHOOSE u \in new : u.name = f).content
                   ELSE flows[f][v]]]
  BY <1>1, <1>9 DEF Commit
<1>14. S!CheckUploads(q.uploads)
  BY <1>3 DEF HasChecked
<1> QED
  BY <1>1, <1>2, <1>3, <1>5, <1>6, <1>10, <1>12, <1>13, <1>14 DEF S!StoreFlows, TreesRunning

LEMMA CommitStart ==
  ASSUME TxnInv, NEW x \in Txns, Commit(x), NEW q, q = txn[x].req, q.op = "start_run"
  PROVE  /\ q.parent = None => S!StartRun(q.run, q.flow, q.version)
         /\ q.parent # None => S!StartSubRun(q.parent, q.address, q.flow, q.version)
         /\ NewId(q) \in RunIds /\ runs[NewId(q)].status = "none"
         /\ q.parent # None => q.parent \in RunIds /\ S!IsActive(q.parent)
         /\ runs' = [runs EXCEPT ![NewId(q)] = NewRun(q)]
         /\ tasks' = tasks
<1>1. PICK t : t = txn[x]
  OBVIOUS
<1>2. /\ HasChecked(q) /\ WroteRows(t) /\ WellAsked(q)
      /\ flows' = flows
      /\ runs' = Over(t.writes.runs, runs) /\ tasks' = Over(t.writes.tasks, tasks)
      /\ published' = published
      /\ t.told \in Seq(S!Event) => events' = events \o t.told
  BY <1>1, Committed
<1>3. /\ runs = [r \in RunIds |-> runs[r]] /\ tasks = [k \in S!TaskIds |-> tasks[k]]
      /\ events \in Seq(S!Event)
  BY RowsAre DEF TxnInv
<1>4. WroteStart(t)
  BY <1>1, <1>2 DEF WroteRows
<1>5. PICK r : r = NewId(q)
  OBVIOUS
<1>6. /\ r \in RunIds /\ runs[r].status = "none" /\ (IsSubStart(q) => S!IsActive(q.parent))
      /\ t.writes.runs = [s \in {r} |-> NewRun(q)] /\ t.writes.tasks = <<>>
      /\ t.told = <<[run |-> r, kind |-> "run_started"]>>
  <2>1. r \in RunIds
    BY <1>2, <1>5, StoreAssumed DEF NewId, IsSubStart, WellAsked
  <2> QED
    BY <1>1, <1>4, <1>5, <2>1 DEF WroteStart
<1>7. tasks' = tasks /\ runs' = [runs EXCEPT ![r] = NewRun(q)]
  <2>1. tasks' = tasks
    BY <1>2, <1>3, <1>6 DEF Over
  <2>2. PICK row : row = NewRun(q)
    OBVIOUS
  <2>3. runs' = [runs EXCEPT ![r] = row]
    BY <1>2, <1>3, <1>6, <2>2 DEF Over
  <2> QED
    BY <2>1, <2>2, <2>3
<1>8. events' = S!Append1(r, "run_started")
  BY <1>2, <1>3, <1>6, OneTold DEF S!EventKind
<1>9. S!IsLatest(q.flow, q.version)
  BY <1>2 DEF HasChecked
<1>10. q.parent = None => S!StartRun(q.run, q.flow, q.version)
  <2>1. ASSUME q.parent = None
        PROVE  r = q.run /\ q.run \in RootIds
               /\ NewRun(q) = [flow |-> q.flow, version |-> q.version, status |-> "active",
                               root |-> q.run, parent |-> None, address |-> None,
                               output |-> None]
    BY <1>2, <1>5, <2>1, StoreAssumed DEF NewId, IsSubStart, WellAsked, NewRun
  <2> QED
    BY <1>2, <1>6, <1>7, <1>8, <1>9, <2>1 DEF S!StartRun, S!AddRun
<1>11. q.parent # None => S!StartSubRun(q.parent, q.address, q.flow, q.version)
  <2>1. ASSUME q.parent # None
        PROVE  /\ r = SubRunIdFor(q.parent, q.address) /\ S!IsActive(q.parent)
               /\ NewRun(q) = [flow |-> q.flow, version |-> q.version, status |-> "active",
                               root |-> runs[q.parent].root, parent |-> q.parent,
                               address |-> q.address, output |-> None]
    BY <1>5, <1>6, <2>1 DEF NewId, IsSubStart, NewRun
  <2> QED
    BY <1>2, <1>6, <1>7, <1>8, <1>9, <2>1 DEF S!StartSubRun, S!AddRun
<1> QED
  BY <1>2, <1>5, <1>6, <1>7, <1>10, <1>11 DEF IsSubStart, WellAsked

LEMMA CommitEnd ==
  ASSUME TxnInv, NEW x \in Txns, Commit(x), NEW q, q = txn[x].req
  PROVE  /\ q.op = "succeed_run" => S!SucceedRun(q.run, q.output)
         /\ q.op = "finish_tree" => S!FinishTree(q.run, q.status)
<1>1. PICK t : t = txn[x]
  OBVIOUS
<1>2. /\ HasAsked(q) /\ WroteRows(t) /\ WellAsked(q)
      /\ q.op # "store_flows" => flows' = flows
      /\ runs' = Over(t.writes.runs, runs) /\ tasks' = Over(t.writes.tasks, tasks)
      /\ q.op # "publish_task" => published' = published
      /\ t.told \in Seq(S!Event) => events' = events \o t.told
  BY <1>1, Committed
<1>3. /\ runs = [r \in RunIds |-> runs[r]] /\ tasks = [k \in S!TaskIds |-> tasks[k]]
      /\ events \in Seq(S!Event)
  BY RowsAre DEF TxnInv
<1>4. ASSUME q.op = "succeed_run"
      PROVE  S!SucceedRun(q.run, q.output)
  <2>1. PICK row : row = [runs[q.run] EXCEPT !.status = "succeeded", !.output = q.output]
    OBVIOUS
  <2>2. q.run \in RunIds /\ WroteSuccess(t)
    BY <1>1, <1>2, <1>4 DEF WroteRows, WellAsked
  <2>3. /\ S!IsActive(q.run) /\ t.writes.tasks = <<>>
        /\ t.writes.runs = [s \in {q.run} |-> row]
        /\ t.told = Finished(<<q.run>>)
    BY <1>1, <2>1, <2>2 DEF WroteSuccess
  <2>4. tasks' = tasks /\ runs' = [runs EXCEPT ![q.run] = row]
    <3>1. tasks' = tasks
      BY <1>2, <1>3, <2>3 DEF Over
    <3>2. PICK r \in RunIds : r = q.run
      BY <2>2
    <3>3. PICK w : w = [s \in {r} |-> row]
      OBVIOUS
    <3>4. runs' = Over(w, runs)
      BY <1>2, <2>3, <3>2, <3>3
    <3>5. runs' = [runs EXCEPT ![r] = row]
      BY <1>3, <3>2, <3>3, <3>4 DEF Over
    <3> QED
      BY <3>1, <3>2, <3>5
  <2>5. t.told = <<[run |-> q.run, kind |-> "run_finished"]>>
    BY <2>3 DEF Finished
  <2>6. events' = S!Append1(q.run, "run_finished")
    BY <1>2, <1>3, <2>2, <2>5, OneTold DEF S!EventKind
  <2> QED
    BY <1>2, <1>4, <2>1, <2>3, <2>4, <2>6 DEF S!SucceedRun
<1>5. ASSUME q.op = "finish_tree"
      PROVE  S!FinishTree(q.run, q.status)
  <2>1. PICK ending : ending = S!ActiveInTrees({runs[q.run].root})
    OBVIOUS
  <2>2. ending \subseteq RunIds /\ Stopping(q) = ending
    BY <1>5, <2>1 DEF S!ActiveInTrees, Stopping, RootsOf, IsSubStart, OnTrees, RunAsked
  <2>3. PICK ended : ended = [r \in ending |-> [runs[r] EXCEPT !.status = q.status]]
    OBVIOUS
  <2>4. /\ t.writes.tasks = <<>> /\ t.writes.runs = ended
        /\ \E order \in S!Orders(ending) : t.told = Finished(order)
    BY <1>1, <1>2, <1>5, <2>2, <2>3 DEF WroteRows, WroteTreeEnd, StopsTrees
  <2>5. runs' = [r \in RunIds |->
                   IF r \in ending THEN [runs[r] EXCEPT !.status = q.status] ELSE runs[r]]
    <3>1. ended = [r \in ending |-> ended[r]]
      BY <2>3
    <3>2. runs' = [r \in RunIds |-> IF r \in ending THEN ended[r] ELSE runs[r]]
      BY <1>2, <1>3, <2>2, <2>4, <3>1 DEF Over
    <3> QED
      BY <2>3, <3>2
  <2>6. S!FinishRuns(ending, q.status)
    <3>1. PICK order \in S!Orders(ending) : t.told = Finished(order)
      BY <2>4
    <3>2. events' = events \o Finished(order)
      BY <1>2, <2>2, <3>1, FinishedTold
    <3> QED
      BY <2>5, <3>2 DEF S!FinishRuns, Finished
  <2>7. tasks' = tasks
    BY <1>2, <1>3, <2>4 DEF Over
  <2>8. runs[q.run].status # "none"
    BY <1>2, <1>5 DEF HasAsked, OnTrees, RunAsked
  <2> QED
    BY <1>2, <1>5, <2>1, <2>6, <2>7, <2>8 DEF S!FinishTree
<1> QED
  BY <1>4, <1>5

\* A transaction that has written the row of a task.
TaskBecomes(k, row) == tasks' = [tasks EXCEPT ![k] = row]

LEMMA TaskRowWritten ==
  ASSUME TxnInv, NEW x \in Txns, Commit(x), NEW t, t = txn[x], NEW k \in S!TaskIds, NEW row,
         WritesTask(t, k, row)
  PROVE  runs' = runs /\ TaskBecomes(k, row)
<1>1. PICK w, z : w = t.writes.runs /\ z = t.writes.tasks
  OBVIOUS
<1>2. w = <<>> /\ z = [s \in {k} |-> row]
  BY <1>1 DEF WritesTask
<1>3. runs' = Over(w, runs) /\ tasks' = Over(z, tasks)
  BY <1>1 DEF Commit
<1>4. runs = [r \in RunIds |-> runs[r]] /\ tasks = [j \in S!TaskIds |-> tasks[j]]
  BY RowsAre DEF TxnInv
<1>5. runs' = runs
  BY <1>2, <1>3, <1>4 DEF Over
<1>6. tasks' = [tasks EXCEPT ![k] = row]
  BY <1>2, <1>3, <1>4 DEF Over
<1> QED
  BY <1>5, <1>6 DEF TaskBecomes

LEMMA CommitTask ==
  ASSUME TxnInv, NEW x \in Txns, Commit(x), NEW q, q = txn[x].req
  PROVE  /\ q.op = "publish_task" => S!PublishTask(q.task, q.queue)
         /\ q.op = "receive_task" => \E i \in DOMAIN published : ReceiveReady(q.queue, i)
         /\ q.op = "claim_task" => S!ClaimTask(q.task) \/ S!DropTask(q.task)
         /\ q.op = "extend_task_lease" => S!ExtendTaskLease(q.task)
         /\ q.op = "finish_task" => S!FinishTask(q.task, q.status, q.result)
<1>1. PICK t : t = txn[x]
  OBVIOUS
<1>2. /\ HasAsked(q) /\ WroteRows(t) /\ WellAsked(q) /\ t.req = q
      /\ q.op # "store_flows" => flows' = flows
      /\ published' = IF q.op = "publish_task" THEN Append(published, q.task) ELSE published
      /\ t.told \in Seq(S!Event) => events' = events \o t.told
  BY <1>1, Committed
<1>3. events \in Seq(S!Event) /\ (t.told = <<>> => events' = events)
  <2>1. events \in Seq(S!Event)
    BY RowsAre DEF TxnInv
  <2>2. <<>> \in Seq(S!Event)
    OBVIOUS
  <2> QED
    BY <1>2, <2>1, <2>2, OverLog
<1>4. ASSUME q.op = "publish_task"
      PROVE  S!PublishTask(q.task, q.queue)
  <2>1. PICK row : row = [S!NoTask EXCEPT !.status = "pending", !.queue = q.queue]
    OBVIOUS
  <2>2. q.task \in S!TaskIds /\ WrotePublish(t)
    BY <1>2, <1>4 DEF WroteRows, WellAsked
  <2>3. /\ S!IsActive(q.task[1]) /\ tasks[q.task].status = "none" /\ t.told = <<>>
        /\ WritesTask(t, q.task, row)
    BY <1>2, <2>1, <2>2 DEF WrotePublish
  <2>4. runs' = runs /\ TaskBecomes(q.task, row)
    BY <1>1, <2>2, <2>3, TaskRowWritten
  <2> QED
    BY <1>2, <1>3, <1>4, <2>1, <2>3, <2>4 DEF S!PublishTask, TaskBecomes
<1>5. ASSUME q.op = "receive_task"
      PROVE  \E i \in DOMAIN published : ReceiveReady(q.queue, i)
  <2>1. WroteReceive(t)
    BY <1>2, <1>5 DEF WroteRows
  <2>2. PICK k \in S!TaskIds :
          /\ S!IsReceivable(k, q.queue) /\ t.told = <<>>
          /\ WritesTask(t, k, [tasks[k] EXCEPT !.status = "received", !.lease = "held",
                                               !.attempts = tasks[k].attempts + 1])
    BY <1>2, <2>1 DEF WroteReceive
  <2>3. PICK row : row = [tasks[k] EXCEPT !.status = "received", !.lease = "held",
                                          !.attempts = tasks[k].attempts + 1]
    OBVIOUS
  <2>4. runs' = runs /\ TaskBecomes(k, row)
    BY <1>1, <2>2, <2>3, TaskRowWritten
  <2>5. tasks[k].status # "none"
    BY <2>2 DEF S!IsReceivable, S!TaskLeased
  <2>6. PICK i \in DOMAIN published : published[i] = k
    BY <2>5, StoreFacts DEF TxnInv, RowsInv, S!NoTaskStranded
  <2>7. S!HandOut(k)
    BY <1>2, <1>3, <1>5, <2>2, <2>3, <2>4 DEF S!HandOut, TaskBecomes
  <2> QED
    BY <2>2, <2>6, <2>7 DEF ReceiveReady
<1>6. ASSUME q.op = "claim_task"
      PROVE  S!ClaimTask(q.task) \/ S!DropTask(q.task)
  <2>1. PICK k : k = q.task
    OBVIOUS
  <2>2. k \in S!TaskIds /\ WroteClaim(t)
    BY <1>2, <1>6, <2>1 DEF WroteRows, WellAsked, OnTask
  <2>3. CASE S!IsActive(k[1])
    <3>1. PICK row : row = [tasks[k] EXCEPT !.status = "running"]
      OBVIOUS
    <3>2. /\ S!MayBecome(tasks[k].status, "running") /\ t.told = <<>>
          /\ WritesTask(t, k, row)
      BY <1>2, <2>1, <2>2, <2>3, <3>1 DEF WroteClaim
    <3>3. runs' = runs /\ TaskBecomes(k, row)
      BY <1>1, <2>2, <3>2, TaskRowWritten
    <3>4. S!ClaimTask(k)
      BY <1>2, <1>3, <1>6, <2>3, <3>1, <3>2, <3>3 DEF S!ClaimTask, TaskBecomes
    <3> QED
      BY <2>1, <3>4
  <2>4. CASE ~ S!IsActive(k[1])
    <3>1. PICK row : row = [tasks[k] EXCEPT !.status = "failed", !.lease = "none"]
      OBVIOUS
    <3>2. /\ S!MayBecome(tasks[k].status, "running") /\ t.told = <<>>
          /\ WritesTask(t, k, row)
      BY <1>2, <2>1, <2>2, <2>4, <3>1 DEF WroteClaim
    <3>3. runs' = runs /\ TaskBecomes(k, row)
      BY <1>1, <2>2, <3>2, TaskRowWritten
    <3>4. S!DropTask(k)
      BY <1>2, <1>3, <1>6, <2>4, <3>1, <3>2, <3>3 DEF S!DropTask, TaskBecomes
    <3> QED
      BY <2>1, <3>4
  <2> QED
    BY <2>3, <2>4
<1>7. ASSUME q.op = "extend_task_lease"
      PROVE  S!ExtendTaskLease(q.task)
  <2>1. PICK row : row = [tasks[q.task] EXCEPT !.lease = "held"]
    OBVIOUS
  <2>2. q.task \in S!TaskIds /\ WroteExtend(t)
    BY <1>2, <1>7 DEF WroteRows, WellAsked, OnTask
  <2>3. /\ tasks[q.task].status \in S!TaskLeased /\ t.told = <<>>
        /\ WritesTask(t, q.task, row)
    BY <1>2, <2>1, <2>2 DEF WroteExtend
  <2>4. runs' = runs /\ TaskBecomes(q.task, row)
    BY <1>1, <2>2, <2>3, TaskRowWritten
  <2> QED
    BY <1>2, <1>3, <1>7, <2>1, <2>3, <2>4 DEF S!ExtendTaskLease, TaskBecomes
<1>8. ASSUME q.op = "finish_task"
      PROVE  S!FinishTask(q.task, q.status, q.result)
  <2>1. PICK row : row = [tasks[q.task] EXCEPT !.status = q.status, !.result = q.result,
                                               !.lease = "none"]
    OBVIOUS
  <2>2. q.task \in S!TaskIds /\ WroteReport(t)
    BY <1>2, <1>8 DEF WroteRows, WellAsked, OnTask
  <2>3. /\ S!MayBecome(tasks[q.task].status, q.status)
        /\ t.told = <<[run |-> q.task[1], kind |-> "task_finished"]>>
        /\ WritesTask(t, q.task, row)
    BY <1>2, <2>1, <2>2 DEF WroteReport
  <2>4. runs' = runs /\ TaskBecomes(q.task, row)
    BY <1>1, <2>2, <2>3, TaskRowWritten
  <2>5. events' = S!Append1(q.task[1], "task_finished")
    <3>1. q.task[1] \in RunIds /\ "task_finished" \in S!EventKind
      BY <2>2 DEF S!TaskIds, S!EventKind
    <3> QED
      BY <1>2, <1>3, <2>3, <3>1, OneTold
  <2>6. /\ q.status \in S!TaskTerminal
        /\ q.status = "failed" => q.result = None
    BY <1>2, <1>8 DEF WellAsked
  <2> QED
    BY <1>2, <1>8, <2>1, <2>3, <2>4, <2>5, <2>6 DEF S!FinishTask, TaskBecomes
<1> QED
  BY <1>4, <1>5, <1>6, <1>7, <1>8

LEMMA CommitIsStoreStep ==
  ASSUME TxnInv, NEW x \in Txns, Commit(x)
  PROVE  StoreStep
<1>1. PICK q : q = txn[x].req
  OBVIOUS
<1>2. WellAsked(q)
  BY <1>1, Committed
<1>3. q.op \in Ops
  BY <1>2 DEF WellAsked
<1>4. CASE q.op = "store_flows"
  <2>1. q.uploads \in S!Deploys /\ S!StoreFlows(q.uploads)
    BY <1>1, <1>2, <1>4, CommitUploads DEF WellAsked
  <2> QED
    BY <2>1 DEF StoreStep, S!Next
<1>5. CASE q.op = "start_run"
  <2>1. /\ q.flow \in FlowNames /\ q.version \in S!Versions
        /\ \/ q.run \in RootIds /\ S!StartRun(q.run, q.flow, q.version)
           \/ /\ q.parent \in RunIds /\ q.address \in SubFlowAddresses
              /\ S!StartSubRun(q.parent, q.address, q.flow, q.version)
    BY <1>1, <1>2, <1>5, CommitStart, StoreAssumed DEF WellAsked
  <2> QED
    BY <2>1 DEF StoreStep, S!Next
<1>6. CASE q.op = "succeed_run"
  <2>1. /\ q.run \in RunIds /\ q.output \in Values \cup {None}
        /\ S!SucceedRun(q.run, q.output)
    BY <1>1, <1>2, <1>6, CommitEnd DEF WellAsked
  <2> QED
    BY <2>1 DEF StoreStep, S!Next
<1>7. CASE q.op = "finish_tree"
  <2>1. q.run \in RunIds /\ (S!FailRunTree(q.run) \/ S!CancelRunTree(q.run))
    BY <1>1, <1>2, <1>7, CommitEnd DEF WellAsked, S!FailRunTree, S!CancelRunTree
  <2> QED
    BY <2>1 DEF StoreStep, S!Next
<1>8. CASE q.op = "publish_task"
  <2>1. q.task \in S!TaskIds /\ q.queue \in Queues /\ S!PublishTask(q.task, q.queue)
    BY <1>1, <1>2, <1>8, CommitTask DEF WellAsked
  <2> QED
    BY <2>1 DEF StoreStep, S!Next
<1>9. CASE q.op = "receive_task"
  <2>1. q.queue \in Queues /\ \E i \in DOMAIN published : ReceiveReady(q.queue, i)
    BY <1>1, <1>2, <1>9, CommitTask DEF WellAsked
  <2> QED
    BY <2>1 DEF StoreStep
<1>10. CASE q.op \in {"claim_task", "extend_task_lease"}
  <2>1. /\ q.task \in S!TaskIds
        /\ S!ClaimTask(q.task) \/ S!DropTask(q.task) \/ S!ExtendTaskLease(q.task)
    BY <1>1, <1>2, <1>10, CommitTask DEF WellAsked, OnTask
  <2> QED
    BY <2>1 DEF StoreStep, S!Next
<1>11. CASE q.op = "finish_task"
  <2>1. /\ q.task \in S!TaskIds /\ q.status \in S!TaskTerminal
        /\ q.result \in Values \cup {None} /\ S!FinishTask(q.task, q.status, q.result)
    BY <1>1, <1>2, <1>11, CommitTask DEF WellAsked, OnTask
  <2> QED
    BY <2>1 DEF StoreStep, S!Next
<1> QED
  BY <1>3, <1>4, <1>5, <1>6, <1>7, <1>8, <1>9, <1>10, <1>11
  DEF Ops, Uploading, OnTrees, OnTask

-----------------------------------------------------------------------------
(* A commit changes only rows that its transaction has locked, or new ones.   *)

Ends(r) ==
  /\ S!IsActive(r) /\ runs'[r].status \notin {"none", "active"}
  /\ runs'[r].flow = runs[r].flow /\ runs'[r].root = runs[r].root

Starts(t, r) ==
  /\ t.req.op = "start_run" /\ r = NewId(t.req) /\ runs[r].status = "none"
  /\ runs'[r].status = "active" /\ runs'[r].root = NewRun(t.req).root

FlowsTouched(t) == UploadLock("exclusive") \in t.locks \/ flows' = flows
RunsTouched(t) ==
  \A r \in RunIds :
    \/ runs'[r] = runs[r]
    \/ RootLock(runs[r].root) \in t.locks /\ Ends(r)
    \/ Starts(t, r)
TasksTouched(t) ==
  \A k \in S!TaskIds :
    \/ tasks'[k] = tasks[k]
    \/ /\ tasks'[k].status # "none"
       /\ \/ tasks[k].status # "none" /\ TaskLock(k) \in t.locks
          \/ /\ tasks[k].status = "none" /\ runs[k[1]].status # "none"
             /\ RootLock(runs[k[1]].root) \in t.locks
LogTouched(t) == EventLock \in t.locks \/ (events' = events /\ position' = position)

Touched(t) == FlowsTouched(t) /\ RunsTouched(t) /\ TasksTouched(t) /\ LogTouched(t)

\* The fields of a run that has another status.
LEMMA RunEnds ==
  ASSUME NEW row \in S!Run, NEW status
  PROVE  /\ [row EXCEPT !.status = status].status = status
         /\ [row EXCEPT !.status = status].flow = row.flow
         /\ [row EXCEPT !.status = status].root = row.root
BY DEF S!Run

LEMMA TouchesRuns ==
  ASSUME TxnInv, NEW x \in Txns, Commit(x), NEW t, t = txn[x]
  PROVE  RunsTouched(t)
<1>1. PICK q : q = t.req
  OBVIOUS
<1>2. /\ WellAsked(q) /\ HasAsked(q) /\ WroteRows(t)
      /\ \A r \in RootsOf(q) : RootLock(r) \in t.locks
  BY <1>1, Committed
<1>3. \A r \in RunIds : runs[r] \in S!Run
  BY RowsAre DEF TxnInv
<1>4. runs = [r \in RunIds |-> runs[r]]
  BY RowsAre DEF TxnInv
<1>5. CASE q.op = "store_flows"
  <2>1. S!StoreFlows(q.uploads)
    BY <1>1, <1>5, CommitUploads
  <2>2. PICK roots : roots = TreesRunning(S!NewUploads(q.uploads))
    OBVIOUS
  <2>3. S!FinishRuns(S!ActiveInTrees(roots), "cancelled")
    BY <2>1, <2>2 DEF S!StoreFlows, TreesRunning
  <2>4. ASSUME NEW r \in RunIds, runs'[r] # runs[r]
        PROVE  RootLock(runs[r].root) \in t.locks /\ Ends(r)
    <3>1. /\ S!IsActive(r) /\ runs[r].root \in roots
          /\ runs'[r] = [runs[r] EXCEPT !.status = "cancelled"]
      BY <2>3, <2>4 DEF S!FinishRuns, S!ActiveInTrees
    <3>2. RootsOf(q) = roots
      BY <1>5, <2>2 DEF RootsOf, IsSubStart, OnTrees
    <3> QED
      BY <1>2, <1>3, <3>1, <3>2, RunEnds DEF Ends
  <2> QED
    BY <2>4 DEF RunsTouched
<1>6. CASE q.op = "start_run"
  <2>1. runs' = [runs EXCEPT ![NewId(q)] = NewRun(q)] /\ runs[NewId(q)].status = "none"
    BY <1>1, <1>6, CommitStart
  <2>2. NewRun(q).status = "active"
    BY DEF NewRun
  <2>3. ASSUME NEW r \in RunIds, r = NewId(q)
        PROVE  Starts(t, r)
    BY <1>1, <1>4, <1>6, <2>1, <2>2, <2>3 DEF Starts
  <2>4. ASSUME NEW r \in RunIds, r # NewId(q)
        PROVE  runs'[r] = runs[r]
    BY <1>4, <2>1, <2>4
  <2> QED
    BY <2>3, <2>4 DEF RunsTouched
<1>7. CASE q.op = "succeed_run"
  <2>1. S!SucceedRun(q.run, q.output)
    BY <1>1, <1>7, CommitEnd
  <2>2. ASSUME NEW r \in RunIds, r # q.run
        PROVE  runs'[r] = runs[r]
    BY <1>4, <2>1, <2>2 DEF S!SucceedRun
  <2>3. q.run \in RunIds
    BY <1>2, <1>7 DEF WellAsked
  <2>4. RootLock(runs[q.run].root) \in t.locks /\ Ends(q.run)
    <3>1. PICK r \in RunIds : r = q.run
      BY <2>3
    <3>2. RootsOf(q) = {runs[r].root}
      BY <1>7, <3>1 DEF RootsOf, IsSubStart, OnTrees, RunAsked
    <3>3. PICK row \in S!Run : row = runs[r]
      BY <1>3
    <3>4. runs'[r] = [row EXCEPT !.status = "succeeded", !.output = q.output]
      BY <1>4, <2>1, <3>1, <3>3 DEF S!SucceedRun
    <3>5. /\ runs'[r].status = "succeeded" /\ runs'[r].flow = row.flow
          /\ runs'[r].root = row.root
      BY <3>4 DEF S!Run
    <3>6. S!IsActive(r)
      BY <2>1, <3>1 DEF S!SucceedRun
    <3> QED
      BY <1>2, <3>1, <3>2, <3>3, <3>5, <3>6 DEF Ends
  <2> QED
    BY <2>2, <2>4 DEF RunsTouched
<1>8. CASE q.op = "finish_tree"
  <2>1. S!FinishTree(q.run, q.status)
    BY <1>1, <1>8, CommitEnd
  <2>2. PICK root : root = runs[q.run].root
    OBVIOUS
  <2>3. S!FinishRuns(S!ActiveInTrees({root}), q.status) /\ q.status \in {"failed", "cancelled"}
    BY <1>2, <1>8, <2>1, <2>2 DEF S!FinishTree, WellAsked
  <2>4. ASSUME NEW r \in RunIds, runs'[r] # runs[r]
        PROVE  RootLock(runs[r].root) \in t.locks /\ Ends(r)
    <3>1. /\ S!IsActive(r) /\ runs[r].root = root
          /\ runs'[r] = [runs[r] EXCEPT !.status = q.status]
      BY <2>3, <2>4 DEF S!FinishRuns, S!ActiveInTrees
    <3>2. RootsOf(q) = {root}
      BY <1>8, <2>2 DEF RootsOf, IsSubStart, OnTrees, RunAsked
    <3> QED
      BY <1>2, <1>3, <2>3, <3>1, <3>2, RunEnds DEF Ends
  <2> QED
    BY <2>4 DEF RunsTouched
<1>9. CASE q.op \in {"publish_task", "receive_task", "claim_task", "extend_task_lease",
                     "finish_task"}
  <2>1. runs' = runs
    BY <1>1, <1>9, CommitTask
    DEF S!PublishTask, ReceiveReady, S!HandOut, S!ClaimTask, S!DropTask, S!ExtendTaskLease,
        S!FinishTask
  <2> QED
    BY <2>1 DEF RunsTouched
<1> QED
  BY <1>2, <1>5, <1>6, <1>7, <1>8, <1>9 DEF WellAsked, Ops, Uploading, OnTrees, OnTask

LEMMA TouchesTasks ==
  ASSUME TxnInv, NEW x \in Txns, Commit(x), NEW t, t = txn[x]
  PROVE  TasksTouched(t)
<1>1. PICK q : q = t.req
  OBVIOUS
<1>2. /\ WellAsked(q) /\ HasAsked(q) /\ WroteRows(t) /\ InPlace(t) /\ t.at = "commit"
      /\ \A r \in RootsOf(q) : RootLock(r) \in t.locks
  BY <1>1, Committed
<1>3. tasks = [k \in S!TaskIds |-> tasks[k]] /\ \A k \in S!TaskIds : tasks[k] \in S!Task
  BY RowsAre DEF TxnInv
<1>4. CASE q.op \in {"store_flows", "start_run", "succeed_run", "finish_tree"}
  <2>1. CASE q.op = "store_flows"
    BY <1>1, <2>1, CommitUploads DEF S!StoreFlows, TasksTouched
  <2>2. CASE q.op = "start_run"
    BY <1>1, <2>2, CommitStart DEF TasksTouched
  <2>3. CASE q.op \in {"succeed_run", "finish_tree"}
    BY <1>1, <2>3, CommitEnd DEF S!SucceedRun, S!FinishTree, TasksTouched
  <2> QED
    BY <1>4, <2>1, <2>2, <2>3
<1>5. CASE q.op = "publish_task"
  <2>1. PICK k \in S!TaskIds : k = q.task
    BY <1>2, <1>5 DEF WellAsked
  <2>2. PICK row : row = [S!NoTask EXCEPT !.status = "pending", !.queue = q.queue]
    OBVIOUS
  <2>3. tasks[k].status = "none" /\ S!IsActive(k[1])
    BY <1>1, <1>2, <1>5, <2>1 DEF WroteRows, WrotePublish
  <2>4. tasks' = [tasks EXCEPT ![k] = row]
    BY <1>1, <1>5, <2>1, <2>2, <2>3, CommitTask DEF S!PublishTask
  <2>5. row.status = "pending"
    BY <2>2 DEF S!NoTask
  <2>6. RootLock(runs[k[1]].root) \in t.locks
    BY <1>2, <1>5, <2>1 DEF RootsOf, IsSubStart, OnTrees, RunAsked
  <2> QED
    BY <1>3, <2>3, <2>4, <2>5, <2>6 DEF TasksTouched, S!IsActive
<1>6. ASSUME NEW k \in S!TaskIds, NEW row, TaskLock(k) \in t.locks,
             tasks[k].status # "none", row.status # "none",
             TaskBecomes(k, row)
      PROVE  TasksTouched(t)
  <2>1. \A j \in S!TaskIds : tasks'[j] = IF j = k THEN row ELSE tasks[j]
    BY <1>3, <1>6 DEF TaskBecomes
  <2> QED
    BY <1>6, <2>1 DEF TasksTouched
<1>7. ASSUME NEW old \in S!Task, NEW status, NEW lease, NEW n, NEW result
      PROVE  /\ [old EXCEPT !.status = status, !.lease = lease, !.attempts = n].status = status
             /\ [old EXCEPT !.status = status].status = status
             /\ [old EXCEPT !.status = status, !.lease = lease].status = status
             /\ [old EXCEPT !.lease = lease].status = old.status
             /\ [old EXCEPT !.status = status, !.result = result, !.lease = lease].status
                  = status
  BY DEF S!Task
<1>8. CASE q.op = "receive_task"
  <2>1. PICK k \in S!TaskIds :
          /\ S!IsReceivable(k, q.queue) /\ TaskLock(k) \in t.locks
          /\ WritesTask(t, k, [tasks[k] EXCEPT !.status = "received", !.lease = "held",
                                               !.attempts = tasks[k].attempts + 1])
    BY <1>1, <1>2, <1>8 DEF WroteRows, WroteReceive
  <2>2. PICK row : row = [tasks[k] EXCEPT !.status = "received", !.lease = "held",
                                          !.attempts = tasks[k].attempts + 1]
    OBVIOUS
  <2>3. TaskBecomes(k, row)
    BY <2>1, <2>2, TaskRowWritten
  <2>4. row.status = "received"
    BY <1>3, <1>7, <2>2
  <2> QED
    BY <1>6, <2>1, <2>3, <2>4 DEF S!IsReceivable, S!TaskLeased
<1>9. CASE q.op \in OnTask
  <2>1. PICK k \in S!TaskIds : k = q.task
    BY <1>2, <1>9 DEF WellAsked
  <2>2. TaskLock(k) \in t.locks /\ tasks[k].status # "none"
    BY <1>1, <1>2, <1>9, <2>1 DEF InPlace, HoldsLocks, AtTask, HasWritten, HasAsked
  <2>3. PICK old \in S!Task : old = tasks[k]
    BY <1>3
  <2>4. \/ TaskBecomes(k, [old EXCEPT !.status = "running"])
        \/ TaskBecomes(k, [old EXCEPT !.status = "failed", !.lease = "none"])
        \/ TaskBecomes(k, [old EXCEPT !.lease = "held"])
        \/ /\ TaskBecomes(k, [old EXCEPT !.status = q.status, !.result = q.result,
                                         !.lease = "none"])
           /\ q.status \in S!TaskTerminal
    <3>1. CASE q.op = "claim_task"
      <4>1. S!ClaimTask(k) \/ S!DropTask(k)
        BY <1>1, <2>1, <3>1, CommitTask
      <4> QED
        BY <2>3, <4>1 DEF S!ClaimTask, S!DropTask, TaskBecomes
    <3>2. CASE q.op = "extend_task_lease"
      <4>1. S!ExtendTaskLease(k)
        BY <1>1, <2>1, <3>2, CommitTask
      <4> QED
        BY <2>3, <4>1 DEF S!ExtendTaskLease, TaskBecomes
    <3>3. CASE q.op = "finish_task"
      <4>1. S!FinishTask(k, q.status, q.result)
        BY <1>1, <2>1, <3>3, CommitTask
      <4> QED
        BY <2>3, <4>1 DEF S!FinishTask, TaskBecomes
    <3> QED
      BY <1>9, <3>1, <3>2, <3>3 DEF OnTask
  <2>5. ASSUME NEW row, row.status # "none", TaskBecomes(k, row)
        PROVE  TasksTouched(t)
    BY <1>6, <2>2, <2>5
  <2>6. /\ [old EXCEPT !.status = "running"].status # "none"
        /\ [old EXCEPT !.status = "failed", !.lease = "none"].status # "none"
        /\ [old EXCEPT !.lease = "held"].status # "none"
        /\ q.status \in S!TaskTerminal =>
             [old EXCEPT !.status = q.status, !.result = q.result, !.lease = "none"].status
               # "none"
    BY <2>2, <2>3 DEF S!TaskTerminal, S!Task
  <2> QED
    BY <2>4, <2>5, <2>6
<1> QED
  BY <1>2, <1>4, <1>5, <1>8, <1>9 DEF WellAsked, Ops, Uploading, OnTrees, OnTask

LEMMA TouchesLog ==
  ASSUME TxnInv, NEW x \in Txns, Commit(x), NEW t, t = txn[x]
  PROVE  /\ LogTouched(t) /\ FlowsTouched(t)
         /\ t.req.op = "start_run" => t.told # <<>> /\ EventLock \in t.locks
<1>1. PICK q : q = t.req
  OBVIOUS
<1>2. /\ WroteRows(t) /\ WroteLog(t) /\ InPlace(t) /\ t.at = "commit" /\ WellAsked(q)
      /\ q.op # "store_flows" => flows' = flows
      /\ position' = Over(t.writes.position, position)
      /\ t.told \in Seq(S!Event) => events' = events \o t.told
  BY <1>1, Committed
<1>3. /\ t.told # <<>> => EventLock \in t.locks
      /\ q.op \in Uploading => UploadLock(Mode(q)) \in t.locks
  BY <1>1, <1>2 DEF InPlace, HoldsLocks
<1>4. FlowsTouched(t)
  BY <1>2, <1>3 DEF FlowsTouched, Uploading, Mode
<1>5. q.op = "start_run" => t.told # <<>>
  <2>1. ASSUME NEW e
        PROVE  <<e>> # <<>>
    OBVIOUS
  <2>2. q.op = "start_run" => t.told = <<[run |-> NewId(q), kind |-> "run_started"]>>
    BY <1>1, <1>2 DEF WroteRows, WroteStart
  <2> QED
    BY <2>1, <2>2
<1>6. ASSUME t.told = <<>>
      PROVE  events' = events /\ position' = position
  <2>1. events \in Seq(S!Event) /\ <<>> \in Seq(S!Event)
    BY RowsAre DEF TxnInv
  <2>2. events' = events
    BY <1>2, <1>6, <2>1, OverLog
  <2>3. t.writes.position = <<>>
    BY <1>1, <1>2, <1>5, <1>6 DEF WroteLog, IsNumbered
  <2>4. position = [r \in RunIds |-> position[r]]
    BY DEF TxnInv, RowsInv, Positions
  <2>5. position' = position
    BY <1>2, <2>3, <2>4 DEF Over
  <2> QED
    BY <2>2, <2>5
<1> QED
  BY <1>1, <1>3, <1>4, <1>5, <1>6 DEF LogTouched

LEMMA CommitTouches ==
  ASSUME TxnInv, NEW x \in Txns, Commit(x), NEW t, t = txn[x]
  PROVE  Touched(t)
BY TouchesLog, TouchesRuns, TouchesTasks DEF Touched

\* What a transaction holds that has a run to start.
LEMMA StartHolds ==
  ASSUME TxnInv, NEW x \in Txns, IsOpen(x), NEW t, t = txn[x], HasWritten(t),
         NEW q, q = t.req, q.op = "start_run"
  PROVE  /\ UploadLock("shared") \in t.locks
         /\ RootStart(q) =>
              NewId(q) = q.run /\ q.run \in RootIds /\ NewRun(q).root = q.run
         /\ IsSubStart(q) =>
              /\ NewId(q) = SubRunIdFor(q.parent, q.address) /\ q.parent \in RunIds
              /\ q.address \in SubFlowAddresses /\ S!IsActive(q.parent)
              /\ NewRun(q).root = runs[q.parent].root
              /\ RootLock(runs[q.parent].root) \in t.locks
         /\ RootStart(q) \/ IsSubStart(q)
         /\ NewId(q) \in RunIds /\ runs[NewId(q)].status = "none"
<1>1. InPlace(t) /\ WellAsked(q) /\ IsTrue(t) /\ HasRead(t)
  BY OpenRow DEF HasRead
<1>2. WroteStart(t) /\ \A r \in RootsOf(q) : RootLock(r) \in t.locks
  BY <1>1 DEF IsTrue, WroteRows, InPlace, HasWritten
<1>3. UploadLock("shared") \in t.locks
  BY <1>1 DEF InPlace, HoldsLocks, Uploading, Mode, HasWritten
<1>4. RootStart(q) => NewId(q) = q.run /\ q.run \in RootIds /\ NewRun(q).root = q.run
  BY <1>1, StoreAssumed DEF RootStart, NewId, IsSubStart, WellAsked, NewRun
<1>5. IsSubStart(q) =>
        /\ NewId(q) = SubRunIdFor(q.parent, q.address) /\ q.parent \in RunIds
        /\ q.address \in SubFlowAddresses /\ S!IsActive(q.parent)
        /\ NewRun(q).root = runs[q.parent].root
  <2>1. IsSubStart(q) => S!IsActive(q.parent)
    BY <1>2 DEF WroteStart
  <2> QED
    BY <1>1, <2>1, StoreAssumed DEF NewId, IsSubStart, WellAsked, NewRun
<1>6. IsSubStart(q) => RootLock(runs[q.parent].root) \in t.locks
  BY <1>2 DEF RootsOf, IsSubStart, OnTrees
<1>7. RootStart(q) \/ IsSubStart(q)
  BY DEF RootStart, IsSubStart
<1>8. NewId(q) \in RunIds /\ runs[NewId(q)].status = "none"
  BY <1>1, <1>2, StoreAssumed DEF WroteStart, NewId, IsSubStart, WellAsked
<1> QED
  BY <1>3, <1>4, <1>5, <1>6, <1>7, <1>8

LEMMA CommitOpen ==
  ASSUME NEW x \in Txns, Commit(x)
  PROVE  IsOpen(x) /\ txn[x].at = "commit" /\ HasWritten(txn[x])
BY DEF Commit, HasWritten

-----------------------------------------------------------------------------
(* What others have read and written is not disturbed by a commit.            *)

Keeps(r) == runs'[r].status # "none" /\ runs'[r].root = runs[r].root
            /\ runs'[r].flow = runs[r].flow
InTree(r, g) == runs[r].status # "none" /\ runs[r].root = g
HasTree(g) == \E s \in RunIds : InTree(s, g)

LEMMA ExclusiveLocks ==
  ASSUME Apart, NEW x \in Txns, NEW y \in Txns, x # y
  PROVE  /\ \A g : ~ (RootLock(g) \in txn[x].locks /\ RootLock(g) \in txn[y].locks)
         /\ \A k : ~ (TaskLock(k) \in txn[x].locks /\ TaskLock(k) \in txn[y].locks)
         /\ ~ (EventLock \in txn[x].locks /\ EventLock \in txn[y].locks)
         /\ \A q : /\ ~ (UploadLock("exclusive") \in txn[x].locks
                           /\ UploadLock(Mode(q)) \in txn[y].locks)
                   /\ ~ (UploadLock(Mode(q)) \in txn[x].locks
                           /\ UploadLock("exclusive") \in txn[y].locks)
BY LocksConflict DEF Apart

\* Runs do not vanish, nor move to another tree.
LEMMA RunsKept ==
  ASSUME TxnInv, NEW x \in Txns, Commit(x), NEW r \in RunIds, runs[r].status # "none"
  PROVE  Keeps(r)
<1>1. RunsTouched(txn[x])
  BY CommitTouches DEF Touched
<1> QED
  BY <1>1 DEF RunsTouched, Ends, Starts, Keeps

\* A tree that another has locked stays as it is.
LEMMA TreeStays ==
  ASSUME TxnInv, NEW x \in Txns, Commit(x), NEW y \in Txns, x # y,
         NEW g, RootLock(g) \in txn[y].locks, HasTree(g),
         NEW r \in RunIds, InTree(r, g) \/ InTree(r, g)'
  PROVE  runs'[r] = runs[r]
<1>1. PICK t : t = txn[x]
  OBVIOUS
<1>2. /\ RunsTouched(t)
      /\ ~ (RootLock(g) \in t.locks)
  BY <1>1, CommitTouches, ExclusiveLocks DEF Touched, TxnInv
<1>3. CASE RootLock(runs[r].root) \in t.locks /\ Ends(r)
  BY <1>2, <1>3 DEF Ends, InTree
<1>4. CASE Starts(t, r)
  <2>1. runs[r].status = "none" /\ NewRun(t.req).root = g /\ r = NewId(t.req)
        /\ t.req.op = "start_run"
    BY <1>4 DEF Starts, InTree
  <2>2. CASE RootStart(t.req)
    <3>1. g = r
      BY <1>1, <2>1, <2>2, StartHolds, CommitOpen
    <3>2. PICK s \in RunIds : runs[s].status # "none" /\ runs[s].root = g
      BY DEF HasTree, InTree
    <3>3. runs[g].status # "none"
      BY <3>2, StoreFacts DEF TxnInv, RowsInv, S!TreeShape
    <3> QED
      BY <2>1, <3>1, <3>3
  <2>3. CASE IsSubStart(t.req)
    BY <1>1, <1>2, <2>1, <2>3, StartHolds, CommitOpen
  <2> QED
    BY <1>1, <2>1, <2>2, <2>3, StartHolds, CommitOpen
<1> QED
  BY <1>2, <1>3, <1>4 DEF RunsTouched

\* No two transactions have the same run to start.
LEMMA StartsApart ==
  ASSUME TxnInv, NEW x \in Txns, NEW y \in Txns, x # y, IsOpen(x), IsOpen(y),
         NEW p, p = txn[x].req, NEW q, q = txn[y].req,
         p.op = "start_run", q.op = "start_run", HasWritten(txn[x]),
         IsSubStart(q) => RootLock(runs[q.parent].root) \in txn[y].locks
  PROVE  NewId(p) # NewId(q)
<1> SUFFICES ASSUME NewId(p) = NewId(q)
             PROVE  FALSE
  OBVIOUS
<1>1. WellAsked(q)
  BY OpenRow
<1>2. CASE RootStart(p) /\ RootStart(q)
  <2>1. p.run # q.run
    BY <1>2 DEF TxnInv, StartsFresh
  <2> QED
    BY <1>2, <2>1 DEF RootStart, NewId, IsSubStart
<1>3. CASE RootStart(p) /\ IsSubStart(q)
  <2>1. NewId(p) \in RootIds
    BY <1>3, StartHolds
  <2>2. NewId(q) \notin RootIds
    BY <1>1, <1>3, StoreAssumed DEF NewId, IsSubStart, WellAsked
  <2> QED
    BY <2>1, <2>2
<1>4. CASE IsSubStart(p) /\ RootStart(q)
  <2>1. NewId(p) \notin RootIds
    BY <1>4, StartHolds, StoreAssumed
  <2>2. NewId(q) \in RootIds
    BY <1>1, <1>4, StoreAssumed DEF NewId, IsSubStart, RootStart, WellAsked
  <2> QED
    BY <2>1, <2>2
<1>5. CASE IsSubStart(p) /\ IsSubStart(q)
  <2>1. /\ NewId(p) = SubRunIdFor(p.parent, p.address) /\ p.parent \in RunIds
        /\ p.address \in SubFlowAddresses
        /\ RootLock(runs[p.parent].root) \in txn[x].locks
    BY <1>5, StartHolds
  <2>2. /\ NewId(q) = SubRunIdFor(q.parent, q.address) /\ q.parent \in RunIds
        /\ q.address \in SubFlowAddresses
    BY <1>1, <1>5, StoreAssumed DEF NewId, IsSubStart, WellAsked
  <2>3. p.parent = q.parent
    <3>1. ASSUME NEW b \in RunIds, NEW c \in RunIds, NEW d \in SubFlowAddresses,
                 NEW e \in SubFlowAddresses, SubRunIdFor(b, d) = SubRunIdFor(c, e)
          PROVE  b = c
      BY <3>1, StoreAssumed
    <3>2. SubRunIdFor(p.parent, p.address) = SubRunIdFor(q.parent, q.address)
      BY <2>1, <2>2
    <3> QED
      BY <2>1, <2>2, <3>1, <3>2
  <2> QED
    BY <1>5, <2>1, <2>3, ExclusiveLocks DEF TxnInv
<1> QED
  BY <1>2, <1>3, <1>4, <1>5 DEF RootStart, IsSubStart

\* Nobody else starts the run that a call is about to.
LEMMA NewStays ==
  ASSUME TxnInv, NEW x \in Txns, Commit(x), NEW y \in Txns, x # y, IsOpen(y),
         NEW q, q = txn[y].req, q.op = "start_run",
         NewId(q) \in RunIds, runs[NewId(q)].status = "none",
         IsSubStart(q) => RootLock(runs[q.parent].root) \in txn[y].locks
  PROVE  runs'[NewId(q)].status = "none"
<1>1. PICK t : t = txn[x]
  OBVIOUS
<1>2. RunsTouched(t)
  BY <1>1, CommitTouches DEF Touched
<1>3. ~ Starts(t, NewId(q))
  BY <1>1, CommitOpen, StartsApart DEF Starts
<1> QED
  BY <1>2, <1>3 DEF RunsTouched, Ends, S!IsActive

\* The row of a task that another has locked, or is about to insert.
LEMMA TaskStays ==
  ASSUME TxnInv, NEW x \in Txns, Commit(x), NEW y \in Txns, x # y, NEW k \in S!TaskIds,
         \/ tasks[k].status # "none" /\ TaskLock(k) \in txn[y].locks
         \/ tasks[k].status = "none" /\ RootLock(runs[k[1]].root) \in txn[y].locks
  PROVE  tasks'[k] = tasks[k]
<1>1. TasksTouched(txn[x])
  BY CommitTouches DEF Touched
<1> QED
  BY <1>1, ExclusiveLocks DEF TasksTouched, TxnInv

LEMMA LogStays ==
  ASSUME TxnInv, NEW x \in Txns, Commit(x), NEW y \in Txns, x # y,
         EventLock \in txn[y].locks
  PROVE  events' = events /\ position' = position
<1>1. LogTouched(txn[x])
  BY CommitTouches DEF Touched
<1> QED
  BY <1>1, ExclusiveLocks DEF LogTouched, TxnInv

\* Under the upload lock no flows change, and under the exclusive one no run
\* starts.
LEMMA FlowsStay ==
  ASSUME TxnInv, NEW x \in Txns, Commit(x), NEW y \in Txns, x # y, NEW q,
         UploadLock(Mode(q)) \in txn[y].locks
  PROVE  /\ flows' = flows
         /\ q.op = "store_flows" => \A r \in RunIds : ~ Starts(txn[x], r)
<1>1. FlowsTouched(txn[x])
  BY CommitTouches DEF Touched
<1>2. flows' = flows
  BY <1>1, ExclusiveLocks DEF FlowsTouched, TxnInv
<1>3. ASSUME q.op = "store_flows", NEW r \in RunIds, Starts(txn[x], r)
      PROVE  FALSE
  <2>1. txn[x].req.op = "start_run"
    BY <1>3 DEF Starts
  <2>2. UploadLock("shared") \in txn[x].locks
    BY <2>1, StartHolds, CommitOpen
  <2>3. UploadLock(Mode(txn[x].req)) \in txn[x].locks /\ Mode(q) = "exclusive"
    BY <1>3, <2>1, <2>2 DEF Mode
  <2> QED
    BY <2>3, ExclusiveLocks DEF TxnInv
<1> QED
  BY <1>2, <1>3

LEMMA CallStays ==
  ASSUME TxnInv, NEW x \in Txns, Commit(x), NEW y \in Txns, x # y, IsOpen(y),
         NEW q, q = txn[y].req
  PROVE  HasAsked(q)'
<1>1. WellAsked(q) /\ HasAsked(q) /\ IsOpen(x)
  BY OpenRow DEF IsTrue, Commit
<1>2. IsSubStart(q) => runs'[q.parent].status # "none"
  BY <1>1, RunsKept DEF HasAsked, IsSubStart, WellAsked, Keeps
<1>3. RootStart(q) => runs'[q.run].status = "none"
  <2>1. RootStart(q) => /\ NewId(q) = q.run /\ q.run \in RunIds /\ q.op = "start_run"
                        /\ ~ IsSubStart(q) /\ runs[q.run].status = "none"
    BY <1>1, StoreAssumed DEF RootStart, NewId, IsSubStart, WellAsked, HasAsked
  <2>2. ASSUME RootStart(q)
        PROVE  runs'[NewId(q)].status = "none"
    BY <2>1, <2>2, NewStays
  <2> QED
    BY <2>1, <2>2
<1>4. q.op \in OnTrees => runs'[RunAsked(q)].status # "none"
  <2>1. q.op \in OnTrees => RunAsked(q) \in RunIds /\ runs[RunAsked(q)].status # "none"
    BY <1>1 DEF OnTrees, OnTask, RunAsked, WellAsked, S!TaskIds, HasAsked
  <2> QED
    BY <2>1, RunsKept DEF Keeps
<1>5. q.op \in OnTask => tasks'[q.task].status # "none"
  <2>1. q.op \in OnTask => q.task \in S!TaskIds /\ tasks[q.task].status # "none"
    BY <1>1 DEF WellAsked, HasAsked
  <2>2. TasksTouched(txn[x])
    BY CommitTouches DEF Touched
  <2> QED
    BY <2>1, <2>2 DEF TasksTouched
<1> QED
  BY <1>2, <1>3, <1>4, <1>5 DEF HasAsked

LEMMA CheckStays ==
  ASSUME TxnInv, NEW x \in Txns, Commit(x), NEW y \in Txns, x # y, IsOpen(y),
         NEW q, q = txn[y].req, HasRead(txn[y])
  PROVE  /\ HasChecked(q)'
         /\ q.op = "store_flows" => S!NewUploads(q.uploads)' = S!NewUploads(q.uploads)
<1>1. WellAsked(q) /\ HasChecked(q) /\ InPlace(txn[y])
  BY OpenRow DEF IsTrue
<1>2. q.op \in Uploading => UploadLock(Mode(q)) \in txn[y].locks
  BY <1>1 DEF InPlace, HoldsLocks, HasRead, HasWritten
<1>3. q.op \in Uploading => flows' = flows
  BY <1>2, FlowsStay
<1>4. flows' = flows => /\ \A U : S!NewUploads(U)' = S!NewUploads(U)
                        /\ \A U : S!CheckUploads(U)' <=> S!CheckUploads(U)
                        /\ \A f, v : S!IsLatest(f, v)' <=> S!IsLatest(f, v)
  BY DEF S!NewUploads, S!IsNewUpload, S!StoredVersions, S!CheckUploads, S!SameUpload,
         S!LatestAfter, S!IsLatest
<1> QED
  BY <1>1, <1>3, <1>4 DEF HasChecked, Uploading

LEMMA RootsStay ==
  ASSUME TxnInv, NEW x \in Txns, Commit(x), NEW y \in Txns, x # y, IsOpen(y),
         NEW q, q = txn[y].req, HasRead(txn[y])
  PROVE  /\ RootsOf(q)' \subseteq RootsOf(q)
         /\ q.op # "store_flows" => RootsOf(q)' = RootsOf(q)
         /\ \A g \in RootsOf(q) : HasTree(g)
<1>1. WellAsked(q) /\ HasAsked(q) /\ InPlace(txn[y])
  BY OpenRow DEF IsTrue
<1>2. CASE q.op = "store_flows"
  <2>1. PICK new : new = S!NewUploads(q.uploads)
    OBVIOUS
  <2>2. S!NewUploads(q.uploads)' = new
    BY <1>2, <2>1, CheckStays
  <2>3. RootsOf(q) = TreesRunning(new) /\ RootsOf(q)' = TreesRunning(new)'
    BY <1>2, <2>1, <2>2 DEF RootsOf, IsSubStart, OnTrees
  <2>4. UploadLock(Mode(q)) \in txn[y].locks
    BY <1>1, <1>2 DEF InPlace, HoldsLocks, HasRead, HasWritten, Uploading
  <2>5. \A r \in RunIds : ~ Starts(txn[x], r)
    BY <1>2, <2>4, FlowsStay
  <2>6. \A r \in RunIds : S!IsActive(r)' => runs'[r] = runs[r]
    <3>1. RunsTouched(txn[x])
      BY CommitTouches DEF Touched
    <3> QED
      BY <2>5, <3>1 DEF RunsTouched, Ends, S!IsActive
  <2>7. TreesRunning(new)' \subseteq TreesRunning(new)
    BY <2>6 DEF TreesRunning, S!IsActive
  <2>8. \A g \in TreesRunning(new) : HasTree(g)
    BY DEF TreesRunning, HasTree, InTree, S!IsActive
  <2> QED
    BY <1>2, <2>3, <2>7, <2>8
<1>3. CASE IsSubStart(q)
  <2>1. PICK p \in RunIds : p = q.parent
    BY <1>1, <1>3 DEF IsSubStart, WellAsked
  <2>2. runs[p].status # "none" /\ runs'[p].root = runs[p].root
    BY <1>1, <1>3, <2>1, RunsKept DEF HasAsked, Keeps
  <2>3. RootsOf(q) = {runs[p].root} /\ RootsOf(q)' = {runs'[p].root}
    BY <1>3, <2>1 DEF RootsOf, IsSubStart, OnTrees
  <2> QED
    BY <1>3, <2>2, <2>3 DEF HasTree, InTree, IsSubStart
<1>4. CASE q.op \in OnTrees
  <2>1. PICK r \in RunIds : r = RunAsked(q)
    BY <1>1, <1>4 DEF OnTrees, OnTask, RunAsked, WellAsked, S!TaskIds
  <2>2. runs[r].status # "none" /\ runs'[r].root = runs[r].root
    BY <1>1, <1>4, <2>1, RunsKept DEF HasAsked, Keeps
  <2>3. RootsOf(q) = {runs[r].root} /\ RootsOf(q)' = {runs'[r].root}
    BY <1>4, <2>1 DEF RootsOf, IsSubStart, OnTrees
  <2> QED
    BY <1>4, <2>2, <2>3 DEF HasTree, InTree, OnTrees
<1>5. CASE q.op # "store_flows" /\ ~ IsSubStart(q) /\ q.op \notin OnTrees
  BY <1>5 DEF RootsOf
<1> QED
  BY <1>2, <1>3, <1>4, <1>5

\* Once all its root runs are locked, the trees of a call stay as they are.
LEMMA TreesStay ==
  ASSUME TxnInv, NEW x \in Txns, Commit(x), NEW y \in Txns, x # y, IsOpen(y),
         NEW q, q = txn[y].req, HasWritten(txn[y])
  PROVE  /\ \A g \in RootsOf(q) : RootLock(g) \in txn[y].locks
         /\ \A r \in RunIds, g \in RootsOf(q) :
              InTree(r, g) \/ InTree(r, g)' => runs'[r] = runs[r]
         /\ RootsOf(q)' = RootsOf(q) /\ Stopping(q)' = Stopping(q)
         /\ \A r \in Stopping(q) : r \in RunIds /\ runs'[r] = runs[r]
<1>1. HasRead(txn[y]) /\ InPlace(txn[y]) /\ IsTrue(txn[y])
  BY OpenRow DEF HasRead
<1>2. txn[y].roots = {}
  BY <1>1 DEF InPlace, HasWritten
<1>3. \A g \in RootsOf(q) : RootLock(g) \in txn[y].locks
  BY <1>1, <1>2 DEF IsTrue
<1>4. /\ RootsOf(q)' \subseteq RootsOf(q)
      /\ q.op # "store_flows" => RootsOf(q)' = RootsOf(q)
      /\ \A g \in RootsOf(q) : HasTree(g)
  BY <1>1, RootsStay
<1>5. \A r \in RunIds, g \in RootsOf(q) :
        InTree(r, g) \/ InTree(r, g)' => runs'[r] = runs[r]
  BY <1>3, <1>4, TreeStays
<1>6. RootsOf(q)' = RootsOf(q)
  <2>1. CASE q.op = "store_flows"
    <3>1. PICK new : new = S!NewUploads(q.uploads)
      OBVIOUS
    <3>2. S!NewUploads(q.uploads)' = new
      BY <1>1, <2>1, <3>1, CheckStays
    <3>3. RootsOf(q) = TreesRunning(new) /\ RootsOf(q)' = TreesRunning(new)'
      BY <2>1, <3>1, <3>2 DEF RootsOf, IsSubStart, OnTrees
    <3>4. \A r \in RunIds :
            S!IsActive(r) /\ runs[r].root \in RootsOf(q) => runs'[r] = runs[r]
      BY <1>5 DEF InTree, S!IsActive
    <3>5. TreesRunning(new) \subseteq TreesRunning(new)'
      BY <3>3, <3>4 DEF TreesRunning, S!IsActive
    <3> QED
      BY <1>4, <3>3, <3>5
  <2> QED
    BY <1>4, <2>1
<1>7. \A r \in RunIds :
        S!IsActive(r)' /\ runs'[r].root \in RootsOf(q) => runs'[r] = runs[r]
  BY <1>5 DEF InTree, S!IsActive
<1>8. \A r \in RunIds :
        S!IsActive(r) /\ runs[r].root \in RootsOf(q) => runs'[r] = runs[r]
  BY <1>5 DEF InTree, S!IsActive
<1>9. Stopping(q)' = Stopping(q)
  BY <1>6, <1>7, <1>8 DEF Stopping, S!ActiveInTrees, S!IsActive
<1>10. \A r \in Stopping(q) : r \in RunIds /\ runs'[r] = runs[r]
  BY <1>8 DEF Stopping, S!ActiveInTrees
<1> QED
  BY <1>3, <1>5, <1>6, <1>9, <1>10

\* What has been written to runs is what would be written now.
LEMMA RunRowsStay ==
  ASSUME TxnInv, NEW x \in Txns, Commit(x), NEW y \in Txns, x # y, IsOpen(y),
         NEW v, v = txn[y], HasWritten(v)
  PROVE  /\ v.req.op = "store_flows" => WroteUploads(v)'
         /\ v.req.op = "start_run" => WroteStart(v)'
         /\ v.req.op = "succeed_run" => WroteSuccess(v)'
         /\ v.req.op = "finish_tree" => WroteTreeEnd(v)'
<1>1. PICK q : q = v.req
  OBVIOUS
<1>2. WellAsked(q) /\ WroteRows(v) /\ HasAsked(q)
  BY <1>1, OpenRow DEF IsTrue
<1>3. /\ \A g \in RootsOf(q) : RootLock(g) \in v.locks
      /\ \A r \in RunIds, g \in RootsOf(q) :
           InTree(r, g) \/ InTree(r, g)' => runs'[r] = runs[r]
      /\ Stopping(q)' = Stopping(q)
      /\ \A r \in Stopping(q) : runs'[r] = runs[r]
  BY <1>1, TreesStay
<1>4. \A status : StopsTrees(v, status) => StopsTrees(v, status)'
  <2> SUFFICES ASSUME NEW status, StopsTrees(v, status)
               PROVE  StopsTrees(v, status)'
    OBVIOUS
  <2>1. PICK B : B = Stopping(q)
    OBVIOUS
  <2>2. /\ v.writes.runs = [r \in B |-> [runs[r] EXCEPT !.status = status]]
        /\ \E order \in S!Orders(B) : v.told = Finished(order)
    BY <1>1, <2>1 DEF StopsTrees
  <2>3. [r \in B |-> [runs[r] EXCEPT !.status = status]]
          = [r \in B |-> [runs'[r] EXCEPT !.status = status]]
    BY <1>3, <2>1
  <2>4. Stopping(v.req)' = B
    BY <1>1, <1>3, <2>1
  <2> QED
    BY <2>2, <2>3, <2>4 DEF StopsTrees
<1>5. v.req.op = "store_flows" => WroteUploads(v)'
  <2>1. ASSUME v.req.op = "store_flows"
        PROVE  S!NewUploads(v.req.uploads)' = S!NewUploads(v.req.uploads)
    BY <1>1, <2>1, CheckStays DEF HasRead
  <2> QED
    BY <1>1, <1>2, <1>4, <2>1 DEF WroteRows, WroteUploads
<1>6. v.req.op = "finish_tree" => WroteTreeEnd(v)'
  BY <1>1, <1>2, <1>4 DEF WroteRows, WroteTreeEnd
<1>7. v.req.op = "succeed_run" => WroteSuccess(v)'
  <2> SUFFICES ASSUME v.req.op = "succeed_run"
               PROVE  WroteSuccess(v)'
    OBVIOUS
  <2>1. PICK r \in RunIds : r = q.run
    BY <1>1, <1>2 DEF WellAsked
  <2>2. WroteSuccess(v) /\ runs[r].status # "none"
    BY <1>1, <1>2, <2>1 DEF WroteRows, WroteSuccess, S!IsActive
  <2>3. RootsOf(q) = {runs[r].root}
    BY <1>1, <2>1 DEF RootsOf, IsSubStart, OnTrees, RunAsked
  <2>4. runs'[r] = runs[r]
    BY <1>3, <2>2, <2>3 DEF InTree
  <2> QED
    <3>1. PICK row : row = [runs[r] EXCEPT !.status = "succeeded", !.output = q.output]
      OBVIOUS
    <3>2. /\ S!IsActive(r) /\ v.writes.tasks = <<>> /\ v.told = Finished(<<r>>)
          /\ v.writes.runs = [s \in {r} |-> row]
      <4>1. v.writes.runs = [s \in {r} |-> [runs[s] EXCEPT !.status = "succeeded",
                                                          !.output = q.output]]
        BY <1>1, <2>1, <2>2 DEF WroteSuccess
      <4> QED
        BY <1>1, <2>1, <2>2, <3>1, <4>1 DEF WroteSuccess
    <3>3. row = [runs'[r] EXCEPT !.status = "succeeded", !.output = q.output]
      BY <2>4, <3>1
    <3>4. v.writes.runs = [s \in {r} |-> [runs'[s] EXCEPT !.status = "succeeded",
                                                         !.output = q.output]]
      BY <3>2, <3>3
    <3>5. S!IsActive(r)'
      BY <2>4, <3>2 DEF S!IsActive
    <3> QED
      BY <1>1, <2>1, <3>2, <3>4, <3>5 DEF WroteSuccess
<1>8. v.req.op = "start_run" => WroteStart(v)'
  <2> SUFFICES ASSUME v.req.op = "start_run"
               PROVE  WroteStart(v)'
    OBVIOUS
  <2>1. WroteStart(v) /\ q.op = "start_run"
    BY <1>1, <1>2 DEF WroteRows
  <2>2. NewId(q) \in RunIds
    BY <1>1, <1>2, <2>1, StoreAssumed DEF NewId, IsSubStart, WellAsked
  <2>3. IsSubStart(q) => RootsOf(q) = {runs[q.parent].root}
    BY DEF RootsOf, IsSubStart, OnTrees
  <2>4. runs'[NewId(q)].status = "none"
    BY <1>1, <1>3, <2>1, <2>2, <2>3, NewStays DEF WroteStart
  <2>5. IsSubStart(q) => runs'[q.parent] = runs[q.parent] /\ S!IsActive(q.parent)
    BY <1>1, <1>2, <1>3, <2>1, <2>3 DEF WroteStart, InTree, S!IsActive, WellAsked, IsSubStart
  <2>6. NewRun(q)' = NewRun(q)
    BY <2>5 DEF NewRun
  <2> QED
    BY <1>1, <2>1, <2>4, <2>5, <2>6 DEF WroteStart, S!IsActive
<1> QED
  BY <1>5, <1>6, <1>7, <1>8

\* The tasks that a transaction has locked or is about to insert, and the runs in
\* the trees it has locked, are as they were.
QuietFor(v) ==
  /\ \A k \in S!TaskIds :
       \/ tasks[k].status # "none" /\ TaskLock(k) \in v.locks
       \/ tasks[k].status = "none" /\ RootLock(runs[k[1]].root) \in v.locks
       => tasks'[k] = tasks[k]
  /\ \A g \in RootsOf(v.req) : RootLock(g) \in v.locks
  /\ \A r \in RunIds, g \in RootsOf(v.req) : InTree(r, g) => runs'[r] = runs[r]

LEMMA TaskRowsStay ==
  ASSUME TxnInv, NEW y \in Txns, IsOpen(y), NEW v, v = txn[y], HasWritten(v), QuietFor(v)
  PROVE  /\ v.req.op = "publish_task" => WrotePublish(v)'
         /\ v.req.op = "receive_task" => WroteReceive(v)'
         /\ v.req.op = "claim_task" => WroteClaim(v)'
         /\ v.req.op = "extend_task_lease" => WroteExtend(v)'
         /\ v.req.op = "finish_task" => WroteReport(v)'
<1>1. PICK q : q = v.req
  OBVIOUS
<1>2. WellAsked(q) /\ WroteRows(v) /\ HasAsked(q) /\ InPlace(v)
  BY <1>1, OpenRow DEF IsTrue
<1>3. /\ \A g \in RootsOf(q) : RootLock(g) \in v.locks
      /\ \A r \in RunIds, g \in RootsOf(q) : InTree(r, g) => runs'[r] = runs[r]
  BY <1>1 DEF QuietFor
<1>4. ASSUME q.op \in {"publish_task", "claim_task"}
      PROVE  /\ runs'[q.task[1]] = runs[q.task[1]]
             /\ RootLock(runs[q.task[1]].root) \in v.locks
  <2>1. PICK r \in RunIds : r = q.task[1]
    BY <1>2, <1>4 DEF WellAsked, OnTask, S!TaskIds
  <2>2. RootsOf(q) = {runs[r].root} /\ runs[r].status # "none"
    BY <1>2, <1>4, <2>1 DEF RootsOf, IsSubStart, OnTrees, RunAsked, HasAsked
  <2> QED
    BY <1>3, <2>1, <2>2 DEF InTree
<1>5. q.op \in OnTask => q.task \in S!TaskIds /\ tasks'[q.task] = tasks[q.task]
  <2>1. q.op \in OnTask => /\ q.task \in S!TaskIds /\ TaskLock(q.task) \in v.locks
                           /\ tasks[q.task].status # "none"
    BY <1>1, <1>2 DEF InPlace, HoldsLocks, AtTask, WellAsked, HasAsked
  <2> QED
    BY <2>1 DEF QuietFor
<1>6. v.req.op = "publish_task" => WrotePublish(v)'
  <2> SUFFICES ASSUME v.req.op = "publish_task"
               PROVE  WrotePublish(v)'
    OBVIOUS
  <2>1. PICK k \in S!TaskIds : k = q.task
    BY <1>1, <1>2 DEF WellAsked
  <2>2. WrotePublish(v) /\ tasks[k].status = "none"
    BY <1>1, <1>2, <2>1 DEF WroteRows, WrotePublish
  <2>3. tasks'[k] = tasks[k]
    BY <1>1, <1>4, <2>1, <2>2 DEF QuietFor
  <2> QED
    BY <1>1, <1>4, <2>1, <2>2, <2>3 DEF WrotePublish, WritesTask, S!IsActive
<1>7. v.req.op = "receive_task" => WroteReceive(v)'
  <2> SUFFICES ASSUME v.req.op = "receive_task"
               PROVE  WroteReceive(v)'
    OBVIOUS
  <2>1. PICK k \in S!TaskIds :
          /\ S!IsReceivable(k, v.req.queue) /\ TaskLock(k) \in v.locks
          /\ v.told = <<>>
          /\ WritesTask(v, k, [tasks[k] EXCEPT !.status = "received", !.lease = "held",
                                               !.attempts = tasks[k].attempts + 1])
    BY <1>1, <1>2 DEF WroteRows, WroteReceive
  <2>2. tasks[k].status # "none"
    BY <2>1 DEF S!IsReceivable, S!TaskLeased
  <2>3. tasks'[k] = tasks[k]
    BY <2>1, <2>2 DEF QuietFor
  <2> QED
    <3>1. PICK row : row = [tasks[k] EXCEPT !.status = "received", !.lease = "held",
                                            !.attempts = tasks[k].attempts + 1]
      OBVIOUS
    <3>2. row = [tasks'[k] EXCEPT !.status = "received", !.lease = "held",
                                  !.attempts = tasks'[k].attempts + 1]
      BY <2>3, <3>1
    <3>3. WritesTask(v, k, row)
      BY <2>1, <3>1
    <3>4. S!IsReceivable(k, v.req.queue)'
      BY <2>1, <2>3 DEF S!IsReceivable
    <3>5. WritesTask(v, k, row)'
      BY <3>3 DEF WritesTask
    <3>6. WritesTask(v, k, [tasks[k] EXCEPT !.status = "received", !.lease = "held",
                                            !.attempts = tasks[k].attempts + 1])'
      BY <3>2, <3>5
    <3> QED
      BY <2>1, <3>4, <3>6 DEF WroteReceive
<1>8. v.req.op = "claim_task" => WroteClaim(v)'
  <2> SUFFICES ASSUME v.req.op = "claim_task"
               PROVE  WroteClaim(v)'
    OBVIOUS
  <2>1. PICK k \in S!TaskIds : k = q.task
    BY <1>1, <1>5 DEF OnTask
  <2>2. tasks'[k] = tasks[k] /\ runs'[k[1]] = runs[k[1]] /\ v.req.task = k
    BY <1>1, <1>4, <1>5, <2>1 DEF OnTask
  <2>3. WroteClaim(v)
    BY <1>2 DEF WroteRows
  <2>4. PICK row : row = IF S!IsActive(k[1])
                         THEN [tasks[k] EXCEPT !.status = "running"]
                         ELSE [tasks[k] EXCEPT !.status = "failed", !.lease = "none"]
    OBVIOUS
  <2>5. /\ S!MayBecome(tasks[k].status, "running") /\ v.told = <<>>
        /\ WritesTask(v, k, row)
    BY <2>2, <2>3, <2>4 DEF WroteClaim
  <2>6. row = IF S!IsActive(k[1])'
              THEN [tasks'[k] EXCEPT !.status = "running"]
              ELSE [tasks'[k] EXCEPT !.status = "failed", !.lease = "none"]
    BY <2>2, <2>4 DEF S!IsActive
  <2>7. WritesTask(v, k, row)'
    BY <2>5 DEF WritesTask
  <2> QED
    BY <2>2, <2>5, <2>6, <2>7 DEF WroteClaim
<1>9. v.req.op = "extend_task_lease" => WroteExtend(v)'
  BY <1>1, <1>2, <1>5 DEF WroteRows, WroteExtend, WritesTask, OnTask
<1>10. v.req.op = "finish_task" => WroteReport(v)'
  BY <1>1, <1>2, <1>5 DEF WroteRows, WroteReport, WritesTask, OnTask
<1> QED
  BY <1>6, <1>7, <1>8, <1>9, <1>10

LEMMA LogWrittenStays ==
  ASSUME TxnInv, NEW x \in Txns, Commit(x), NEW y \in Txns, x # y, IsOpen(y),
         NEW v, v = txn[y], HasWritten(v)
  PROVE  WroteLog(v)'
<1>1. WroteRows(v) /\ WroteLog(v) /\ InPlace(v)
  BY OpenRow DEF IsTrue
<1>2. v.req.op = "start_run" => v.told # <<>>
  <2>1. ASSUME NEW e
        PROVE  <<e>> # <<>>
    OBVIOUS
  <2>2. v.req.op = "start_run" => v.told = <<[run |-> NewId(v.req), kind |-> "run_started"]>>
    BY <1>1 DEF WroteRows, WroteStart
  <2> QED
    BY <2>1, <2>2
<1>3. CASE v.at \in {"number", "commit"} /\ v.told # <<>>
  <2>1. EventLock \in v.locks
    BY <1>1, <1>3 DEF InPlace, HoldsLocks
  <2>2. events' = events /\ position' = position
    BY <2>1, LogStays
  <2> QED
    BY <1>1, <2>2 DEF WroteLog, Numbered, HighestPosition
<1>4. CASE ~ (v.at \in {"number", "commit"} /\ v.told # <<>>)
  BY <1>1, <1>2, <1>4 DEF WroteLog, IsNumbered
<1> QED
  BY <1>3, <1>4

LEMMA TruthStays ==
  ASSUME TxnInv, NEW x \in Txns, Commit(x), NEW y \in Txns, x # y, IsOpen(y),
         NEW v, v = txn[y]
  PROVE  IsTrue(v)'
<1>1. WellAsked(v.req) /\ IsTrue(v) /\ (HasWritten(v) => HasRead(v))
  BY OpenRow DEF HasRead
<1>2. HasAsked(v.req)'
  BY CallStays
<1>3. HasRead(v) => HasChecked(v.req)' /\ RootsOf(v.req)' \subseteq RootsOf(v.req)
  BY CheckStays, RootsStay
<1>4. HasWritten(v) /\ v.req.op # "store_flows" => v.writes.flows = {}
  BY <1>1 DEF IsTrue, WroteRows
<1>5. HasWritten(v) => WroteRows(v)' /\ WroteLog(v)'
  <2>1. HasWritten(v) => QuietFor(v)
    BY TreesStay, TaskStays DEF QuietFor
  <2> QED
    BY <1>4, <2>1, RunRowsStay, TaskRowsStay, LogWrittenStays DEF WroteRows
<1>6. HasRead(v) => \A r \in RootsOf(v.req)' : r \in v.roots \/ RootLock(r) \in v.locks
  BY <1>1, <1>3 DEF IsTrue
<1> QED
  BY <1>2, <1>3, <1>5, <1>6 DEF IsTrue, HasRead, HasWritten

-----------------------------------------------------------------------------
(* The invariant of the transactions.                                         *)

LEMMA Highest ==
  ASSUME Positions, NEW r \in RunIds
  PROVE  HighestPosition \in Nat /\ \A s \in RunIds : position[s] <= HighestPosition
<1> DEFINE above == {p \in RunIds \X RunIds : position[p[1]] > position[p[2]]}
<1>1. \A s, v \in RunIds : <<s, v>> \in above <=> position[s] > position[v]
  OBVIOUS
<1>2. \A s \in RunIds : position[s] \in Nat
  BY DEF Positions
<1> HIDE DEF above
<1>3. \A s \in RunIds : <<s, s>> \notin above
  BY <1>1, <1>2
<1>4. \A s, v, w \in RunIds : <<s, v>> \in above /\ <<v, w>> \in above => <<s, w>> \in above
  BY <1>1, <1>2
<1>5. PICK top \in RunIds : \A s \in RunIds : <<s, top>> \notin above
  BY <1>3, <1>4, StoreAssumed, Least
<1>6. ASSUME NEW s \in RunIds
      PROVE  position[s] <= position[top]
  <2>1. ~ (position[s] > position[top])
    BY <1>1, <1>5
  <2> QED
    BY <1>2, <2>1
<1>7. \E n \in {position[s] : s \in RunIds} : \A s \in RunIds : position[s] <= n
  BY <1>6
<1>8. /\ HighestPosition \in {position[s] : s \in RunIds}
      /\ \A s \in RunIds : position[s] <= HighestPosition
  BY <1>7 DEF HighestPosition
<1> QED
  BY <1>2, <1>8

\* A commit gives a position to the run it starts, and to no other.
LEMMA CommitNumbers ==
  ASSUME TxnInv, NEW x \in Txns, Commit(x)
  PROVE  /\ Positions'
         /\ PositionStep
<1>1. PICK t : t = txn[x]
  OBVIOUS
<1>2. PICK q : q = t.req
  OBVIOUS
<1>3. /\ WroteLog(t) /\ t.at = "commit" /\ t.req = q
      /\ position' = Over(t.writes.position, position)
  BY <1>1, <1>2, Committed
<1>4. Positions /\ position = [r \in RunIds |-> position[r]]
      /\ \A r \in RunIds : position[r] \in Nat
  BY DEF TxnInv, RowsInv, Positions
<1>5. \A r \in RunIds : runs[r].status # "none" => runs'[r].status # "none"
  BY RunsKept DEF Keeps
<1>6. CASE q.op # "start_run"
  <2>1. t.writes.position = <<>>
    BY <1>3, <1>6 DEF WroteLog, IsNumbered
  <2>2. position' = position
    BY <1>3, <1>4, <2>1 DEF Over
  <2> QED
    BY <1>4, <1>5, <2>2 DEF Positions, PositionStep
<1>7. CASE q.op = "start_run"
  <2>1. PICK r \in RunIds : r = NewId(q)
    BY <1>1, <1>2, <1>7, CommitStart
  <2>2. runs[r].status = "none" /\ runs' = [runs EXCEPT ![r] = NewRun(q)]
    BY <1>1, <1>2, <1>7, <2>1, CommitStart
  <2>3. runs'[r].status # "none"
    <3>1. runs'[r] = NewRun(q)
      BY <2>2, RowsAre DEF TxnInv
    <3> QED
      BY <3>1 DEF NewRun
  <2>4. PICK n \in Nat : n = HighestPosition + 1
    BY <1>4, Highest
  <2>5. PICK w : w = [s \in {r} |-> n]
    OBVIOUS
  <2>6. t.writes.position = w
    BY <1>3, <1>7, <2>1, <2>4, <2>5 DEF WroteLog, IsNumbered
  <2>7. position' = [s \in RunIds |-> IF s = r THEN n ELSE position[s]]
    BY <1>3, <1>4, <2>5, <2>6 DEF Over
  <2>8. position[r] = 0 /\ \A s \in RunIds : position[s] < n
    BY <1>4, <2>2, <2>4, Highest DEF Positions
  <2>9. Positions'
    <3>1. position' \in [RunIds -> Nat]
      BY <1>4, <2>7
    <3>2. \A s \in RunIds : runs'[s].status = "none" => position'[s] = 0
      BY <1>4, <1>5, <2>3, <2>7 DEF Positions
    <3> QED
      BY <3>1, <3>2 DEF Positions
  <2> QED
    BY <2>7, <2>8, <2>9 DEF PositionStep
<1> QED
  BY <1>6, <1>7

LEMMA CommitStep ==
  ASSUME TxnInv, NEW x \in Txns, Commit(x)
  PROVE  TxnInv'
<1>1. /\ txn' = [y \in Txns |-> txn'[y]]
      /\ txn'[x] = Closed
      /\ \A y \in Txns \ {x} : txn'[y] = txn[y]
  BY DEF TxnInv, Placed, Commit, Close
<1>2. StoreInv'
  BY CommitIsStoreStep, StoreInvNext DEF TxnInv, RowsInv
<1>3. TasksOfRuns'
  <2>1. ASSUME NEW k \in S!TaskIds, tasks'[k].status # "none"
        PROVE  runs'[k[1]].status # "none"
    <3>1. k[1] \in RunIds
      BY DEF S!TaskIds
    <3>2. TasksTouched(txn[x])
      BY CommitTouches DEF Touched
    <3>3. runs[k[1]].status # "none"
      BY <2>1, <3>2 DEF TasksTouched, TxnInv, RowsInv, TasksOfRuns
    <3> QED
      BY <3>1, <3>3, RunsKept DEF Keeps
  <2> QED
    BY <2>1 DEF TasksOfRuns, S!TaskIds
<1>4. RowsInv'
  BY <1>2, <1>3, CommitNumbers DEF RowsInv
<1>5. Placed'
  <2>1. \A t : InPlace(t)' <=> InPlace(t)
    OBVIOUS
  <2> QED
    BY <1>1, <2>1 DEF TxnInv, Placed
<1>6. Apart'
  BY <1>1, ClosedFields DEF TxnInv, Apart
<1>7. AllTrue'
  <2>1. ASSUME NEW y \in Txns, txn'[y] # Closed
        PROVE  IsTrue(txn[y])'
    <3>1. y # x /\ txn'[y] = txn[y]
      BY <1>1, <2>1
    <3>2. IsOpen(y)
      BY <2>1, <3>1, RequestFacts DEF TxnInv, Placed, InPlace, IsOpen
    <3>3. PICK v : v = txn[y]
      OBVIOUS
    <3>4. IsTrue(v)'
      BY <3>1, <3>2, <3>3, TruthStays
    <3> QED
      BY <3>1, <3>3, <3>4
  <2> QED
    BY <2>1 DEF AllTrue
<1>8. StartsFresh'
  BY <1>1, ClosedFields DEF TxnInv, StartsFresh, IsOpen
<1> QED
  BY <1>4, <1>5, <1>6, <1>7, <1>8 DEF TxnInv

LEMMA LapseStep ==
  ASSUME TxnInv, NEW k \in S!TaskIds, LeaseLapses(k)
  PROVE  TxnInv' /\ StoreStep /\ position' = position
<1>1. /\ ~ IsLocked(k) /\ S!LeaseLapses(k)
      /\ position' = position /\ txn' = txn /\ flows' = flows /\ runs' = runs
      /\ published' = published /\ events' = events
  BY DEF LeaseLapses, S!LeaseLapses
<1>2. StoreStep
  BY <1>1 DEF StoreStep, S!Next
<1>3. StoreInv'
  BY <1>2, StoreInvNext DEF TxnInv, RowsInv
<1>4. /\ \A j \in S!TaskIds : tasks'[j].status = tasks[j].status
      /\ \A j \in S!TaskIds : j # k => tasks'[j] = tasks[j]
  <2>1. PICK old \in S!Task : old = tasks[k]
    BY RowsAre DEF TxnInv
  <2>2. PICK row : row = [old EXCEPT !.lease = "lapsed"]
    OBVIOUS
  <2>3. row.status = old.status
    BY <2>2 DEF S!Task
  <2>4. tasks' = [tasks EXCEPT ![k] = row]
    BY <1>1, <2>1, <2>2 DEF S!LeaseLapses
  <2>5. tasks = [j \in S!TaskIds |-> tasks[j]]
    BY RowsAre DEF TxnInv
  <2> QED
    BY <2>1, <2>3, <2>4, <2>5
<1>5. RowsInv'
  BY <1>1, <1>3, <1>4 DEF TxnInv, RowsInv, TasksOfRuns, Positions
<1>6. tasks[k].status # "none"
  <2>1. tasks[k].lease # "none"
    BY <1>1 DEF S!LeaseLapses
  <2> QED
    BY <2>1, StoreFacts DEF TxnInv, RowsInv, S!NoTaskStranded, S!TaskLeased
<1>7. ASSUME NEW y \in Txns, IsOpen(y), NEW v, v = txn[y]
      PROVE  IsTrue(v)'
  <2>1. IsTrue(v) /\ WellAsked(v.req) /\ InPlace(v)
    BY <1>7, OpenRow
  <2>2. HasAsked(v.req)'
    BY <1>1, <1>4, <2>1 DEF IsTrue, HasAsked, WellAsked
  <2>3. ASSUME HasWritten(v)
        PROVE  WroteRows(v)' /\ WroteLog(v)'
    <3>1. \A g \in RootsOf(v.req) : RootLock(g) \in v.locks
      BY <2>1, <2>3 DEF IsTrue, InPlace, HasRead, HasWritten
    <3>2. QuietFor(v)
      BY <1>1, <1>4, <1>6, <1>7, <3>1 DEF QuietFor, IsLocked
    <3> QED
      BY <1>1, <1>7, <2>1, <2>3, <3>2, SameRunTruth, TaskRowsStay DEF IsTrue, WroteRows
  <2> QED
    BY <1>1, <2>1, <2>2, <2>3, SameRunTruth DEF IsTrue, HasRead, HasWritten
<1>8. AllTrue'
  <2>1. ASSUME NEW y \in Txns, txn[y] # Closed
        PROVE  IsTrue(txn[y])'
    <3>1. IsOpen(y)
      BY <2>1, RequestFacts DEF TxnInv, Placed, InPlace, IsOpen
    <3>2. PICK v : v = txn[y]
      OBVIOUS
    <3> QED
      BY <1>1, <1>7, <3>1, <3>2
  <2> QED
    BY <1>1, <2>1 DEF AllTrue
<1>9. Placed' /\ Apart' /\ StartsFresh'
  <2>1. \A t : InPlace(t)' <=> InPlace(t)
    OBVIOUS
  <2>2. Placed' /\ Apart'
    BY <1>1, <2>1 DEF TxnInv, Placed, Apart
  <2>3. StartsFresh'
    BY <1>1 DEF TxnInv, StartsFresh, IsOpen
  <2> QED
    BY <2>2, <2>3
<1> QED
  BY <1>1, <1>2, <1>5, <1>8, <1>9 DEF TxnInv

-----------------------------------------------------------------------------
(* Those that write are apart.                                                *)

\* A row of a run is written under its root's lock, or is new; one of a task
\* under its own lock, or its run's root's if it is new.
LEMMA WrittenRuns ==
  ASSUME TxnInv, NEW x \in Txns, IsOpen(x), NEW t, t = txn[x], HasWritten(t),
         NEW r \in DOMAIN t.writes.runs
  PROVE  \/ runs[r].status # "none" /\ RootLock(runs[r].root) \in t.locks
         \/ runs[r].status = "none" /\ t.req.op = "start_run" /\ r = NewId(t.req)
<1>1. PICK q : q = t.req
  OBVIOUS
<1>2. InPlace(t) /\ WellAsked(q) /\ WroteRows(t) /\ IsTrue(t)
  BY <1>1, OpenRow DEF IsTrue
<1>3. \A g \in RootsOf(q) : RootLock(g) \in t.locks
  BY <1>1, <1>2 DEF IsTrue, InPlace, HasRead, HasWritten
<1>4. CASE q.op \in {"store_flows", "finish_tree"}
  <2>1. r \in Stopping(q)
    BY <1>1, <1>2, <1>4 DEF WroteRows, WroteUploads, WroteTreeEnd, StopsTrees
  <2> QED
    BY <1>3, <2>1 DEF Stopping, S!ActiveInTrees, S!IsActive
<1>5. CASE q.op = "start_run"
  BY <1>1, <1>2, <1>5 DEF WroteRows, WroteStart
<1>6. CASE q.op = "succeed_run"
  <2>1. r = q.run /\ S!IsActive(r)
    BY <1>1, <1>2, <1>6 DEF WroteRows, WroteSuccess
  <2>2. RootsOf(q) = {runs[r].root}
    BY <1>6, <2>1 DEF RootsOf, IsSubStart, OnTrees, RunAsked
  <2> QED
    BY <1>3, <2>1, <2>2 DEF S!IsActive
<1>7. CASE q.op \in {"publish_task", "receive_task", "claim_task", "extend_task_lease",
                     "finish_task"}
  <2>1. CASE q.op = "receive_task"
    <3>1. t.writes.runs = <<>>
      BY <1>1, <1>2, <2>1 DEF WroteRows, WroteReceive, WritesTask
    <3> QED
      BY <3>1
  <2>2. CASE q.op \in {"publish_task", "claim_task", "extend_task_lease", "finish_task"}
    <3>1. t.writes.runs = <<>>
      BY <1>1, <1>2, <2>2
      DEF WroteRows, WrotePublish, WroteClaim, WroteExtend, WroteReport, WritesTask
    <3> QED
      BY <3>1
  <2> QED
    BY <1>7, <2>1, <2>2
<1> QED
  BY <1>2, <1>4, <1>5, <1>6, <1>7 DEF WellAsked, Ops, Uploading, OnTrees, OnTask

LEMMA WrittenTasks ==
  ASSUME TxnInv, NEW x \in Txns, IsOpen(x), NEW t, t = txn[x], HasWritten(t),
         NEW k \in DOMAIN t.writes.tasks
  PROVE  \/ tasks[k].status # "none" /\ TaskLock(k) \in t.locks
         \/ tasks[k].status = "none" /\ RootLock(runs[k[1]].root) \in t.locks
<1>1. PICK q : q = t.req
  OBVIOUS
<1>2. InPlace(t) /\ WellAsked(q) /\ WroteRows(t) /\ IsTrue(t) /\ HasAsked(q)
  BY <1>1, OpenRow DEF IsTrue
<1>3. \A g \in RootsOf(q) : RootLock(g) \in t.locks
  BY <1>1, <1>2 DEF IsTrue, InPlace, HasRead, HasWritten
<1>4. CASE q.op \in {"store_flows", "start_run", "succeed_run", "finish_tree"}
  BY <1>1, <1>2, <1>4 DEF WroteRows, WroteUploads, WroteStart, WroteSuccess, WroteTreeEnd
<1>5. CASE q.op = "publish_task"
  <2>1. k = q.task /\ tasks[k].status = "none"
    BY <1>1, <1>2, <1>5 DEF WroteRows, WrotePublish, WritesTask
  <2>2. RootsOf(q) = {runs[k[1]].root}
    BY <1>5, <2>1 DEF RootsOf, IsSubStart, OnTrees, RunAsked
  <2> QED
    BY <1>3, <2>1, <2>2
<1>6. CASE q.op = "receive_task"
  BY <1>1, <1>2, <1>6
  DEF WroteRows, WroteReceive, WritesTask, S!IsReceivable, S!TaskLeased
<1>7. CASE q.op \in OnTask
  <2>1. k = q.task
    BY <1>1, <1>2, <1>7
    DEF WroteRows, WroteClaim, WroteExtend, WroteReport, WritesTask, OnTask
  <2> QED
    BY <1>1, <1>2, <1>7, <2>1 DEF InPlace, HoldsLocks, AtTask, HasAsked
<1> QED
  BY <1>2, <1>4, <1>5, <1>6, <1>7 DEF WellAsked, Ops, Uploading, OnTrees, OnTask

LEMMA WrittenFlowsAndEvents ==
  ASSUME TxnInv, NEW x \in Txns, IsOpen(x), NEW t, t = txn[x], HasWritten(t)
  PROVE  /\ t.writes.flows # {} => UploadLock("exclusive") \in t.locks
         /\ DOMAIN t.writes.events # {} => EventLock \in t.locks
<1>1. InPlace(t) /\ IsTrue(t)
  BY OpenRow
<1>2. t.writes.flows # {} => t.req.op = "store_flows"
  BY <1>1 DEF IsTrue, WroteRows
<1>3. DOMAIN t.writes.events # {} => t.at \in {"number", "commit"} /\ t.told # <<>>
  BY <1>1 DEF IsTrue, WroteLog
<1>4. t.req.op = "store_flows" => UploadLock("exclusive") \in t.locks
  BY <1>1 DEF InPlace, HoldsLocks, HasWritten, Uploading, Mode
<1> QED
  BY <1>1, <1>2, <1>3, <1>4 DEF InPlace, HoldsLocks

LEMMA TxnInvWritersApart == TxnInv => WritersApart
<1> SUFFICES ASSUME TxnInv, NEW x \in Txns, NEW y \in Txns, x # y
             PROVE  LET w == txn[x].writes
                        z == txn[y].writes
                    IN  /\ \A u \in w.flows, v \in z.flows : u.name # v.name
                        /\ DOMAIN w.runs \cap DOMAIN z.runs = {}
                        /\ DOMAIN w.tasks \cap DOMAIN z.tasks = {}
                        /\ DOMAIN w.events \cap DOMAIN z.events = {}
  BY DEF WritersApart
<1>1. \A a \in Txns : \/ txn[a].writes = NoWrites
                      \/ IsOpen(a) /\ HasWritten(txn[a])
  <2>1. ASSUME NEW a \in Txns, IsOpen(a), ~ HasWritten(txn[a])
        PROVE  txn[a].writes = NoWrites
    BY <2>1, OpenRow DEF InPlace
  <2>2. ASSUME NEW a \in Txns, ~ IsOpen(a)
        PROVE  txn[a].writes = NoWrites
    BY <2>2, ClosedFields, RequestFacts DEF TxnInv, Placed, InPlace, IsOpen
  <2> QED
    BY <2>1, <2>2
<1>2. CASE txn[x].writes = NoWrites \/ txn[y].writes = NoWrites
  BY <1>2, ClosedFields
<1>3. CASE IsOpen(x) /\ HasWritten(txn[x]) /\ IsOpen(y) /\ HasWritten(txn[y])
  <2>1. /\ \A g : ~ (RootLock(g) \in txn[x].locks /\ RootLock(g) \in txn[y].locks)
        /\ \A k : ~ (TaskLock(k) \in txn[x].locks /\ TaskLock(k) \in txn[y].locks)
        /\ ~ (EventLock \in txn[x].locks /\ EventLock \in txn[y].locks)
    BY ExclusiveLocks DEF TxnInv
  <2>2. ASSUME NEW u \in txn[x].writes.flows, NEW v \in txn[y].writes.flows
        PROVE  FALSE
    <3>1. UploadLock("exclusive") \in txn[x].locks /\ UploadLock("exclusive") \in txn[y].locks
      BY <1>3, <2>2, WrittenFlowsAndEvents
    <3> QED
      BY <3>1, LocksDiffer DEF TxnInv, Apart, Conflicts
  <2>3. ASSUME NEW r \in DOMAIN txn[x].writes.runs, r \in DOMAIN txn[y].writes.runs
        PROVE  FALSE
    <3>1. CASE runs[r].status # "none"
      BY <1>3, <2>1, <2>3, <3>1, WrittenRuns
    <3>2. CASE runs[r].status = "none"
      <4>1. /\ txn[x].req.op = "start_run" /\ r = NewId(txn[x].req)
            /\ txn[y].req.op = "start_run" /\ r = NewId(txn[y].req)
        BY <1>3, <2>3, <3>2, WrittenRuns
      <4>2. IsSubStart(txn[y].req) => RootLock(runs[txn[y].req.parent].root) \in txn[y].locks
        BY <1>3, <4>1, StartHolds
      <4> QED
        BY <1>3, <4>1, <4>2, StartsApart
    <3> QED
      BY <3>1, <3>2
  <2>4. ASSUME NEW k \in DOMAIN txn[x].writes.tasks, k \in DOMAIN txn[y].writes.tasks
        PROVE  FALSE
    BY <1>3, <2>1, <2>4, WrittenTasks
  <2>5. ASSUME NEW i \in DOMAIN txn[x].writes.events, i \in DOMAIN txn[y].writes.events
        PROVE  FALSE
    BY <1>3, <2>1, <2>5, WrittenFlowsAndEvents
  <2> QED
    BY <2>2, <2>3, <2>4, <2>5
<1> QED
  BY <1>1, <1>2, <1>3

-----------------------------------------------------------------------------
(* Theorems.                                                                  *)

LEMMA TxnInvInit == Init => TxnInv
<1> SUFFICES ASSUME Init PROVE TxnInv
  OBVIOUS
<1>1. StoreInv
  BY StoreInvInit DEF Init
<1>2. /\ txn = [x \in Txns |-> Closed] /\ position = [r \in RunIds |-> 0]
      /\ tasks = [k \in S!TaskIds |-> S!NoTask]
  BY DEF Init, S!Init
<1>3. TasksOfRuns /\ Positions
  <2>1. S!NoTask.status = "none"
    BY DEF S!NoTask
  <2> QED
    BY <1>2, <2>1 DEF TasksOfRuns, Positions
<1>4. Placed /\ Apart /\ AllTrue /\ StartsFresh
  BY <1>2, ClosedFields DEF Placed, Apart, AllTrue, StartsFresh, IsOpen
<1> QED
  BY <1>1, <1>3, <1>4 DEF TxnInv, RowsInv

LEMMA Steps ==
  ASSUME TxnInv, [Next]_vars
  PROVE  TxnInv' /\ StoreStep /\ [PositionStep]_vars
<1>1. CASE UNCHANGED vars
  <2>1. UNCHANGED committed /\ txn' = txn
    BY <1>1 DEF vars, committed
  <2>2. \A t : InPlace(t)' <=> InPlace(t)
    OBVIOUS
  <2>3. Placed' /\ Apart' /\ StartsFresh'
    BY <2>1, <2>2 DEF TxnInv, Placed, Apart, StartsFresh, IsOpen
  <2>4. AllTrue'
    BY <2>1, SameTruth DEF TxnInv, AllTrue
  <2>5. RowsInv'
    BY <2>1, SameRows DEF TxnInv
  <2> QED
    BY <1>1, <2>1, <2>3, <2>4, <2>5 DEF TxnInv, StoreStep, S!storeVars, committed
<1>2. ASSUME NEW x \in Txns,
             \/ \E q \in Requests : Begin(x, q)
             \/ Lock(x)
             \/ ReadUploads(x) \/ ReadStart(x) \/ ReadRun(x)
             \/ WriteUploads(x) \/ WriteStart(x) \/ WriteSuccess(x) \/ WriteTreeEnd(x)
             \/ WritePublish(x) \/ WriteReceive(x) \/ WriteClaim(x) \/ WriteExtend(x)
             \/ WriteReport(x)
             \/ InsertEvents(x) \/ NumberRun(x)
             \/ Abort(x)
      PROVE  TxnInv' /\ StoreStep /\ PositionStep
  <2>1. TxnInv' /\ UNCHANGED committed
    BY <1>2, StepsAside
  <2> QED
    BY <2>1 DEF committed, StoreStep, S!storeVars, PositionStep
<1>3. ASSUME NEW x \in Txns, Commit(x)
      PROVE  TxnInv' /\ StoreStep /\ PositionStep
  BY <1>3, CommitStep, CommitIsStoreStep, CommitNumbers
<1>4. ASSUME NEW k \in S!TaskIds, LeaseLapses(k)
      PROVE  TxnInv' /\ StoreStep /\ PositionStep
  BY <1>4, LapseStep DEF PositionStep
<1>5. \/ \E x \in Txns :
           \/ \E q \in Requests : Begin(x, q)
           \/ Lock(x)
           \/ ReadUploads(x) \/ ReadStart(x) \/ ReadRun(x)
           \/ WriteUploads(x) \/ WriteStart(x) \/ WriteSuccess(x) \/ WriteTreeEnd(x)
           \/ WritePublish(x) \/ WriteReceive(x) \/ WriteClaim(x) \/ WriteExtend(x)
           \/ WriteReport(x)
           \/ InsertEvents(x) \/ NumberRun(x)
           \/ Abort(x)
      \/ \E x \in Txns : Commit(x)
      \/ \E k \in S!TaskIds : LeaseLapses(k)
      \/ UNCHANGED vars
  BY DEF Next
<1> QED
  BY <1>1, <1>2, <1>3, <1>4, <1>5

LEMMA TxnInvariant == Spec => []TxnInv
<1>1. TxnInv /\ [Next]_vars => TxnInv'
  BY Steps
<1> QED
  BY <1>1, TxnInvInit, PTL DEF Spec

\* Whatever is read and written side by side, no transactions of the store wait
\* for each other in a cycle: Postgres never has a deadlock to break.
THEOREM NobodyWaitsInACycle == Spec => []NoWaitCycle
<1>1. TxnInv => NoWaitCycle
  BY PlacedNoWaitCycle DEF TxnInv
<1> QED
  BY <1>1, TxnInvariant, PTL

\* No two transactions of the store have written the same row or sequence.
THEOREM WritersStayApart == Spec => []WritersApart
BY TxnInvWritersApart, TxnInvariant, PTL

\* The transactions of PostgresStore implement the atomic operations of Store.
THEOREM StoreImplemented == Spec => ImplementsStore
<1>1. Init => S!Init
  BY DEF Init
<1>2. TxnInv /\ [Next]_vars => StoreStep
  BY Steps
<1> QED
  BY <1>1, <1>2, TxnInvariant, PTL DEF Spec, ImplementsStore, StoreStep

\* A run gets its position when it becomes visible, above all that are there.
THEOREM CommitInOrder == Spec => RunsCommitInOrder
<1>1. TxnInv /\ [Next]_vars => [PositionStep]_vars
  BY Steps
<1> QED
  BY <1>1, TxnInvariant, PTL DEF Spec, RunsCommitInOrder

\* What is proved of the atomic store holds of the rows that are committed.
THEOREM CommittedRowsAreRight ==
  Spec => [](S!TypeOK /\ S!TreeShape /\ S!TreeEndsTogether /\ S!ActiveOnLatest
             /\ S!NoTaskStranded)
<1>1. StoreInv => S!TreeEndsTogether /\ S!ActiveOnLatest
  BY DEF StoreInv, SP!TreeInv, S!TreeEndsTogether, SP!TreeEndsTogether, S!ActiveOnLatest,
         SP!ActiveOnLatest, S!IsActive, SP!IsActive, S!IsLatest, SP!IsLatest,
         S!StoredVersions, SP!StoredVersions, S!Versions, SP!Versions
<1>2. TxnInv => S!TypeOK /\ S!TreeShape /\ S!TreeEndsTogether /\ S!ActiveOnLatest
                /\ S!NoTaskStranded
  BY <1>1, StoreFacts DEF TxnInv, RowsInv
<1> QED
  BY <1>2, TxnInvariant, PTL

-----------------------------------------------------------------------------
(* What else the atomic store keeps: the event log, the set of the latest     *)
(* flows, and what a step may do to what has ended and to what is leased.     *)
(* StoreStep allows one step more than Store does, so each of them has to     *)
(* survive a task that is handed out although an older one is ready.          *)

RowsKept == StoreInv /\ SP!LogInv /\ SP!EventsInOrder /\ SP!FlowsInv /\ SP!LeaseInv

LEMMA RowsKeptInit == S!Init => RowsKept
<1> SUFFICES ASSUME S!Init PROVE RowsKept
  OBVIOUS
<1>1. SP!Init
  BY DEF S!Init, SP!Init, S!Versions, SP!Versions, S!NoRun, SP!NoRun, S!NoTask, SP!NoTask,
         S!TaskIds, SP!TaskIds
<1>2. StoreInv /\ SP!TypeOK
  BY StoreInvInit DEF StoreInv, SP!TaskInv
<1>3. SP!LatestFlowsValid
  BY <1>1 DEF SP!Init, SP!LatestFlowsValid, SP!StoredVersions
<1>4. SP!EventsInOrder
  <2>1. \A r \in RunIds : runs[r].status = "none"
    BY <1>1 DEF SP!Init, SP!NoRun
  <2> QED
    BY <2>1 DEF SP!EventsInOrder
<1> QED
  BY <1>1, <1>2, <1>3, <1>4, StoreAssumed, SP!LogInvInit, SP!LeaseInvInit
  DEF RowsKept, SP!FlowsInv

\* What handing out a ready task changes.
LEMMA ReadyTask ==
  ASSUME StoreInv, NEW q \in Queues, NEW i \in DOMAIN published, ReceiveReady(q, i)
  PROVE  \E t \in SP!TaskIds :
           /\ tasks[t].status \in {"pending", "received", "running"}
           /\ tasks[t].status = "pending" \/ tasks[t].lease = "lapsed"
           /\ tasks'[t].status = "received" /\ tasks'[t].lease = "held"
           /\ tasks'[t].attempts = tasks[t].attempts + 1
           /\ \A s \in SP!TaskIds : s # t => tasks'[s] = tasks[s]
           /\ UNCHANGED <<flows, runs, published, events>>
<1> DEFINE t == published[i]
           new == [tasks[t] EXCEPT !.status = "received", !.lease = "held",
                                   !.attempts = tasks[t].attempts + 1]
<1>0. SP!TypeOK
  BY DEF StoreInv, SP!TreeInv
<1>1. t \in SP!TaskIds /\ tasks[t] \in SP!Task /\ tasks \in [SP!TaskIds -> SP!Task]
  BY <1>0 DEF SP!TypeOK
<1>2. /\ tasks[t].status \in {"pending", "received", "running"}
      /\ tasks[t].status = "pending" \/ tasks[t].lease = "lapsed"
  BY DEF ReceiveReady, S!IsReceivable, S!TaskLeased
<1>3. /\ new.status = "received" /\ new.lease = "held"
      /\ new.attempts = tasks[t].attempts + 1
  BY <1>1 DEF SP!Task
<1>4. /\ tasks' = [tasks EXCEPT ![t] = new]
      /\ UNCHANGED <<flows, runs, published, events>>
  BY DEF ReceiveReady, S!HandOut
<1> HIDE DEF new, t
<1>5. tasks'[t] = new /\ \A s \in SP!TaskIds : s # t => tasks'[s] = tasks[s]
  BY <1>1, <1>4
<1> QED
  BY <1>1, <1>2, <1>3, <1>4, <1>5

\* No step of either kind brings what has ended back, starts work for a run that
\* is over, or delivers a task under a lease that holds.
RowsStep == SP!FinalStep /\ SP!WorkStep /\ SP!DeliveryStep

LEMMA ReadyKeeps ==
  ASSUME RowsKept, NEW q \in Queues, NEW i \in DOMAIN published, ReceiveReady(q, i)
  PROVE  RowsKept' /\ RowsStep
<1>1. StoreInv' /\ SP!TypeOK'
  BY ReadyReceived DEF RowsKept, StoreInv, SP!TaskInv
<1>2. PICK t \in SP!TaskIds :
           /\ tasks[t].status \in {"pending", "received", "running"}
           /\ tasks[t].status = "pending" \/ tasks[t].lease = "lapsed"
           /\ tasks'[t].status = "received" /\ tasks'[t].lease = "held"
           /\ tasks'[t].attempts = tasks[t].attempts + 1
           /\ \A s \in SP!TaskIds : s # t => tasks'[s] = tasks[s]
           /\ UNCHANGED <<flows, runs, published, events>>
  BY ReadyTask DEF RowsKept
<1>3. SP!TaskInv /\ SP!NeverDelivered /\ SP!TypeOK
  BY DEF RowsKept, SP!LeaseInv, SP!TaskInv
<1>4. SP!LogInv'
  BY <1>1, <1>2 DEF RowsKept, SP!LogInv, SP!EachToldOnce, SP!Logged
<1>5. SP!EventsInOrder'
  BY <1>2 DEF RowsKept, SP!EventsInOrder, SP!StartedEvent, SP!FinishedEvent
<1>6. SP!FlowsInv'
  <2>1. \A f \in FlowNames : SP!StoredVersions(f)' = SP!StoredVersions(f)
    BY <1>2 DEF SP!StoredVersions
  <2>2. SP!LatestAfter({})' = SP!LatestAfter({})
    BY <1>2 DEF SP!LatestAfter, SP!NewUploads, SP!IsNewUpload, SP!IsLatest, SP!StoredVersions
  <2> QED
    BY <1>1, <2>1, <2>2 DEF RowsKept, SP!FlowsInv, SP!LatestFlowsValid
<1>7. SP!LeaseInv'
  <2>1. SP!NeverDelivered'
    BY <1>2, <1>3 DEF SP!NeverDelivered
  <2> QED
    BY <1>1, <2>1 DEF StoreInv, SP!LeaseInv
<1>8. SP!FinalStep
  BY <1>2 DEF SP!FinalStep, SP!TaskTerminal
<1>9. SP!WorkStep
  BY <1>2 DEF SP!WorkStep
<1>10. SP!DeliveryStep
  <2>1. tasks[t].status = "pending" => tasks[t].lease # "held"
    BY <1>3 DEF SP!TaskInv, SP!NoTaskStranded, SP!TaskLeased
  <2>2. tasks[t].lease # "held"
    BY <1>2, <2>1
  <2> QED
    BY <1>2, <2>2 DEF SP!DeliveryStep
<1> QED
  BY <1>1, <1>4, <1>5, <1>6, <1>7, <1>8, <1>9, <1>10 DEF RowsKept, RowsStep

LEMMA RowsKeptNext == RowsKept /\ StoreStep => RowsKept' /\ [RowsStep]_(S!storeVars)
<1> SUFFICES ASSUME RowsKept, StoreStep PROVE RowsKept' /\ [RowsStep]_(S!storeVars)
  OBVIOUS
<1>1. CASE S!Next \/ UNCHANGED S!storeVars
  <2>1. [SP!Next]_(SP!storeVars)
    BY <1>1, SameNext DEF S!storeVars, SP!storeVars
  <2>2. StoreInv' /\ SP!LogInv' /\ SP!FlowsInv' /\ SP!LeaseInv'
    BY <2>1, StoreAssumed, StoreInvNext, SP!LogInvNext, SP!FlowsInvNext, SP!LeaseInvNext
    DEF RowsKept
  <2>4. SP!EventsInOrder'
    BY <2>1, StoreAssumed, SP!OrderInvNext DEF RowsKept, StoreInv, SP!OrderInv
  <2>3. /\ [SP!FinalStep]_(SP!storeVars) /\ [SP!WorkStep]_(SP!storeVars)
        /\ [SP!DeliveryStep]_(SP!storeVars)
    BY <2>1, StoreAssumed, SP!FinalStepNext, SP!WorkStepNext, SP!DeliveryStepNext
    DEF RowsKept, SP!LeaseInv, SP!TaskInv
  <2> QED
    BY <2>2, <2>3, <2>4 DEF RowsKept, RowsStep, S!storeVars, SP!storeVars
<1>2. CASE \E q \in Queues, i \in DOMAIN published : ReceiveReady(q, i)
  BY <1>2, ReadyKeeps
<1> QED
  BY <1>1, <1>2 DEF StoreStep

LEMMA RowsKeptInvariant ==
  Spec => [](RowsKept) /\ [][RowsStep]_(S!storeVars)
<1>1. Init => RowsKept
  BY RowsKeptInit DEF Init
<1>2. TxnInv /\ RowsKept /\ [Next]_vars => RowsKept' /\ [RowsStep]_(S!storeVars)
  BY Steps, RowsKeptNext
<1> QED
  BY <1>1, <1>2, TxnInvariant, PTL DEF Spec

\* Whatever commits beside what, the rows of run_events tell every start and
\* every end of a run once, a sub-flow run's start between the start and the end of
\* its parent; and the latest rows of the flows are a set that was checked together.
THEOREM CommittedLogIsRight ==
  Spec => [](S!EventsTellRuns /\ S!LatestFlowsValid)
<1>1. SP!EachToldOnce => S!EachToldOnce
  BY DEF S!EachToldOnce, SP!EachToldOnce, S!Logged, SP!Logged, S!RunEnded, SP!RunEnded
<1>2. SP!LatestFlowsValid => S!LatestFlowsValid
  BY DEF S!LatestFlowsValid, SP!LatestFlowsValid, S!StoredVersions, SP!StoredVersions,
         S!Versions, SP!Versions, S!LatestAfter, SP!LatestAfter, S!NewUploads, SP!NewUploads,
         S!IsNewUpload, SP!IsNewUpload, S!IsLatest, SP!IsLatest
<1>3. SP!EventsInOrder => S!EventsInOrder
  BY DEF S!EventsInOrder, SP!EventsInOrder, S!Precedes, SP!Precedes, S!StartedEvent,
         SP!StartedEvent, S!FinishedEvent, SP!FinishedEvent
<1>4. RowsKept => S!EventsTellRuns /\ S!LatestFlowsValid
  BY <1>1, <1>2, <1>3 DEF RowsKept, SP!LogInv, SP!FlowsInv, S!EventsTellRuns
<1> QED
  BY <1>4, RowsKeptInvariant, PTL

\* No commit changes a row of a run or a task that has ended, publishes or starts
\* a task of a run that is over, or delivers a task whose lease another worker
\* still holds, although SKIP LOCKED passes over the rows that are locked.
THEOREM CommittedStepsAreRight ==
  Spec => S!FinalStaysFinal /\ S!NoWorkForEndedRuns /\ S!LeaseExcludes
<1>1. RowsStep => S!FinalStep /\ S!WorkStep /\ S!DeliveryStep
  BY DEF RowsStep, S!FinalStep, SP!FinalStep, S!WorkStep, SP!WorkStep, S!DeliveryStep,
         SP!DeliveryStep, S!RunEnded, SP!RunEnded, S!TaskTerminal, SP!TaskTerminal,
         S!TaskIds, SP!TaskIds, S!IsActive, SP!IsActive, S!TaskLeased, SP!TaskLeased
<1> QED
  BY <1>1, RowsKeptInvariant, PTL
  DEF S!FinalStaysFinal, S!NoWorkForEndedRuns, S!LeaseExcludes
=============================================================================
