------------------------------- MODULE Store -------------------------------
(***************************************************************************)
(* The store of neorc: flows, runs, tasks and the event log the scheduler  *)
(* reads.  Every operation is atomic: MemoryStore holds one lock for the   *)
(* whole of it, PostgresStore one transaction.  An operation the store     *)
(* refuses (an exception) changes nothing and is a disabled action here;   *)
(* the one refusal that does change something, claiming a task of a run    *)
(* that has ended, is an action of its own.                                *)
(*                                                                         *)
(* Inputs, handler names, params, reasons and times are left out: no rule  *)
(* of the store reads them.  A lease's expiry is one of three things, none *)
(* held and lapsed, and time passing is the action LeaseLapses.            *)
(*                                                                         *)
(* A definition marked as a slip is a mistake the one below it could hold: *)
(* no specification uses it, the runs show that a property notices it.     *)
(***************************************************************************)
EXTENDS Naturals, Sequences, FiniteSets

CONSTANTS
  RunIds,             \* every id a run can have
  RootIds,            \* those that uuid4 draws for runs with no parent
  SubRunIdFor(_, _),  \* the uuid5 of a parent's id and an address
  TaskAddresses,      \* addresses of task steps
  SubFlowAddresses,   \* addresses of sub-flow steps
  FlowNames,
  MaxVersion,         \* bound: versions are 1 .. MaxVersion
  Contents,           \* what a flow file may say
  ValidFlowSet(_),    \* flows.validate_flow_set on the latest contents
  Queues,
  Values,             \* results and outputs
  MaxAttempts,        \* bound: deliveries of one task
  MaxDeploy,          \* bound: flows uploaded together
  None                \* Python's None

Addresses == TaskAddresses \cup SubFlowAddresses
Versions == 1 .. MaxVersion
TaskIds == RunIds \X TaskAddresses

ASSUME StoreAssumption ==
  /\ IsFiniteSet(RunIds)
  /\ RootIds \subseteq RunIds
  /\ MaxVersion \in Nat
  /\ MaxAttempts \in Nat
  /\ None \notin RunIds /\ None \notin Addresses /\ None \notin FlowNames
  /\ None \notin Contents /\ None \notin Values /\ None \notin Queues
  /\ \A p, q \in RunIds, a, b \in SubFlowAddresses :
       /\ SubRunIdFor(p, a) \notin RootIds
       /\ SubRunIdFor(p, a) = SubRunIdFor(q, b) => p = q /\ a = b

VARIABLES
  flows,      \* flows[name][version]: the stored content, or None
  runs,       \* by id; status "none" when the store has no such run
  tasks,      \* by run and address; status "none" when never published
  published,  \* the tasks in publishing order
  events      \* the event log: the event of sequence i is events[i]

storeVars == <<flows, runs, tasks, published, events>>

-----------------------------------------------------------------------------
RunEnded == {"succeeded", "failed", "cancelled"}
RunStatus == {"none", "active"} \cup RunEnded

\* TERMINAL_STATUSES and LEASED_STATUSES.
TaskTerminal == {"succeeded", "failed"}
TaskLeased == {"received", "running"}
TaskStatus == {"none", "pending"} \cup TaskLeased \cup TaskTerminal

Run == [flow : FlowNames \cup {None}, version : Versions \cup {None},
        status : RunStatus, root : RunIds \cup {None},
        parent : RunIds \cup {None}, address : SubFlowAddresses \cup {None},
        output : Values \cup {None}]

NoRun == [flow |-> None, version |-> None, status |-> "none", root |-> None,
          parent |-> None, address |-> None, output |-> None]

Task == [status : TaskStatus, queue : Queues \cup {None}, attempts : Nat,
         lease : {"none", "held", "lapsed"}, result : Values \cup {None}]

NoTask == [status |-> "none", queue |-> None, attempts |-> 0,
           lease |-> "none", result |-> None]

EventKind == {"run_started", "task_finished", "run_finished"}
Event == [run : RunIds, kind : EventKind]
Upload == [name : FlowNames, version : Versions, content : Contents]

Init ==
  /\ flows = [f \in FlowNames |-> [v \in Versions |-> None]]
  /\ runs = [r \in RunIds |-> NoRun]
  /\ tasks = [t \in TaskIds |-> NoTask]
  /\ published = <<>>
  /\ events = <<>>

IsActive(r) == runs[r].status = "active"

-----------------------------------------------------------------------------
(* Flow versions: check_upload and check_uploads.                           *)

StoredVersions(f) == {v \in Versions : flows[f][v] # None}

IsLatest(f, v) ==
  /\ v \in StoredVersions(f)
  /\ \A w \in StoredVersions(f) : w <= v

\* The stored version has exactly this content: nothing to do.
SameUpload(u) == flows[u.name][u.version] = u.content

\* A version above every stored one.
IsNewUpload(u) == \A w \in StoredVersions(u.name) : w < u.version

NewUploads(U) == {u \in U : IsNewUpload(u)}

\* The content each flow would have as its latest version after the deploy.
LatestAfter(U) ==
  [f \in FlowNames |->
     LET new == {u \in NewUploads(U) : u.name = f}
     IN  IF new # {} THEN (CHOOSE u \in new : TRUE).content
         ELSE IF StoredVersions(f) = {} THEN None
         ELSE flows[f][CHOOSE v \in Versions : IsLatest(f, v)]]

\* Slip: the flows are validated as they were before the deploy.
CheckUploadsBefore(U) ==
  /\ \A u \in U : SameUpload(u) \/ IsNewUpload(u)
  /\ \A u, w \in U : u.name = w.name => u = w
  /\ ValidFlowSet(LatestAfter({}))

CheckUploads(U) ==
  /\ \A u \in U : SameUpload(u) \/ IsNewUpload(u)
  /\ \A u, w \in U : u.name = w.name => u = w
  /\ ValidFlowSet(LatestAfter(U))

-----------------------------------------------------------------------------
(* The event log.  A tree's runs are finished in the order the store keeps  *)
(* them in, which no rule depends on: any order is allowed.                 *)

Append1(r, kind) == Append(events, [run |-> r, kind |-> kind])

Orders(S) ==
  {q \in [1 .. Cardinality(S) -> S] :
     /\ \A r \in S : \E i \in DOMAIN q : q[i] = r
     /\ \A i, j \in DOMAIN q : q[i] = q[j] => i = j}

FinishRuns(S, status) ==
  /\ runs' = [r \in RunIds |->
                IF r \in S THEN [runs[r] EXCEPT !.status = status] ELSE runs[r]]
  /\ \E q \in Orders(S) :
       events' = events \o [i \in DOMAIN q |->
                              [run |-> q[i], kind |-> "run_finished"]]

ActiveInTrees(roots) == {r \in RunIds : IsActive(r) /\ runs[r].root \in roots}

-----------------------------------------------------------------------------
(* Flows and runs.                                                          *)

\* store_flows: each new version cancels the trees running the flow.
StoreFlows(U) ==
  LET new == NewUploads(U)
      roots == {runs[r].root : r \in {x \in RunIds :
                   IsActive(x) /\ \E u \in new : u.name = runs[x].flow}}
  IN  /\ CheckUploads(U)
      /\ flows' = [f \in FlowNames |-> [v \in Versions |->
                     IF \E u \in new : u.name = f /\ u.version = v
                     THEN (CHOOSE u \in new : u.name = f).content
                     ELSE flows[f][v]]]
      /\ FinishRuns(ActiveInTrees(roots), "cancelled")
      /\ UNCHANGED <<tasks, published>>

AddRun(r, f, v, root, parent, address) ==
  /\ runs' = [runs EXCEPT ![r] =
                [flow |-> f, version |-> v, status |-> "active", root |-> root,
                 parent |-> parent, address |-> address, output |-> None]]
  /\ events' = Append1(r, "run_started")
  /\ UNCHANGED <<flows, tasks, published>>

\* Slip: the version is only looked up, not compared with the latest.
StartRunAnyVersion(r, f, v) ==
  /\ r \in RootIds
  /\ runs[r].status = "none"
  /\ v \in StoredVersions(f)
  /\ AddRun(r, f, v, r, None, None)

\* start_run with no parent: a fresh id.
StartRun(r, f, v) ==
  /\ r \in RootIds
  /\ runs[r].status = "none"
  /\ IsLatest(f, v)
  /\ AddRun(r, f, v, r, None, None)

\* Slip: the parent is taken for the root of the tree.
StartSubRunBelow(p, a, f, v) ==
  LET r == SubRunIdFor(p, a)
  IN  /\ IsLatest(f, v)
      /\ IsActive(p)
      /\ r \in RunIds
      /\ IF runs[r].status # "none"
         THEN UNCHANGED storeVars
         ELSE AddRun(r, f, v, p, p, a)

\* Slip: whether the parent is active is left to the caller.
StartSubRunUnchecked(p, a, f, v) ==
  LET r == SubRunIdFor(p, a)
  IN  /\ IsLatest(f, v)
      /\ runs[p].status # "none"
      /\ r \in RunIds
      /\ IF runs[r].status # "none"
         THEN UNCHANGED storeVars
         ELSE AddRun(r, f, v, runs[p].root, p, a)

\* Slip: a run already there is started over.
StartSubRunAfresh(p, a, f, v) ==
  LET r == SubRunIdFor(p, a)
  IN  /\ IsLatest(f, v)
      /\ IsActive(p)
      /\ r \in RunIds
      /\ AddRun(r, f, v, runs[p].root, p, a)

\* start_run with a parent: the id follows from the parent and the address,
\* and a run already there is returned as it is.
StartSubRun(p, a, f, v) ==
  LET r == SubRunIdFor(p, a)
  IN  /\ IsLatest(f, v)
      /\ IsActive(p)
      /\ r \in RunIds
      /\ IF runs[r].status # "none"
         THEN UNCHANGED storeVars
         ELSE AddRun(r, f, v, runs[p].root, p, a)

SucceedRun(r, output) ==
  /\ IsActive(r)
  /\ runs' = [runs EXCEPT ![r] = [@ EXCEPT !.status = "succeeded", !.output = output]]
  /\ events' = Append1(r, "run_finished")
  /\ UNCHANGED <<flows, tasks, published>>

\* Slip: the run ends, the rest of its tree does not.
FinishAlone(r, status) ==
  /\ runs[r].status # "none"
  /\ FinishRuns({r} \cap ActiveInTrees({runs[r].root}), status)
  /\ UNCHANGED <<flows, tasks, published>>

\* _finish_tree, on behalf of fail_run_tree and cancel_run_tree.
FinishTree(r, status) ==
  /\ runs[r].status # "none"
  /\ FinishRuns(ActiveInTrees({runs[r].root}), status)
  /\ UNCHANGED <<flows, tasks, published>>

FailRunTree(r) == FinishTree(r, "failed")
CancelRunTree(r) == FinishTree(r, "cancelled")

-----------------------------------------------------------------------------
(* Tasks.                                                                   *)

\* Slip: a finished task may be finished again.
MayBecomeAgain(current, target) ==
  \/ current = "pending" /\ target = "received"
  \/ current = "received" /\ target \in {"running"} \cup TaskTerminal
  \/ current \in {"running"} \cup TaskTerminal /\ target \in {"running"} \cup TaskTerminal

MayBecome(current, target) ==
  \/ current = "pending" /\ target = "received"
  \/ current = "received" /\ target \in {"running"} \cup TaskTerminal
  \/ current = "running" /\ target \in {"running"} \cup TaskTerminal

\* publish_task: an address already published is returned as it is.
PublishTask(t, q) ==
  /\ IsActive(t[1])
  /\ IF tasks[t].status # "none"
     THEN UNCHANGED <<tasks, published>>
     ELSE /\ tasks' = [tasks EXCEPT ![t] =
                         [NoTask EXCEPT !.status = "pending", !.queue = q]]
          /\ published' = Append(published, t)
  /\ UNCHANGED <<flows, runs, events>>

\* Slip: a task under way is handed out whether its lease lapsed or not.
IsReceivableAnyLease(t, q) ==
  tasks[t].queue = q /\ tasks[t].status \in {"pending"} \cup TaskLeased

\* Slip: a task is handed out once.
IsReceivableOnce(t, q) == tasks[t].queue = q /\ tasks[t].status = "pending"

IsReceivable(t, q) ==
  /\ tasks[t].queue = q
  /\ \/ tasks[t].status = "pending"
     \/ tasks[t].status \in TaskLeased /\ tasks[t].lease = "lapsed"

IsOldestReceivable(i, q) ==
  /\ IsReceivable(published[i], q)
  /\ \A j \in 1 .. i - 1 : ~ IsReceivable(published[j], q)

HandOut(t) ==
  /\ tasks' = [tasks EXCEPT ![t] =
                 [tasks[t] EXCEPT !.status = "received", !.lease = "held",
                                  !.attempts = tasks[t].attempts + 1]]
  /\ UNCHANGED <<flows, runs, published, events>>

\* receive_task: the run's status is not looked at.
ReceiveTask(q, i) ==
  /\ IsOldestReceivable(i, q)
  /\ HandOut(published[i])

\* Slip: the claim does not look at the run.
ClaimTaskAnyRun(t) ==
  /\ MayBecome(tasks[t].status, "running")
  /\ tasks' = [tasks EXCEPT ![t] = [@ EXCEPT !.status = "running"]]
  /\ UNCHANGED <<flows, runs, published, events>>

\* claim_task; the lease stays as it is.
ClaimTask(t) ==
  /\ MayBecome(tasks[t].status, "running")
  /\ IsActive(t[1])
  /\ tasks' = [tasks EXCEPT ![t] = [@ EXCEPT !.status = "running"]]
  /\ UNCHANGED <<flows, runs, published, events>>

\* claim_task once the run has ended: the claim is refused, the task failed.
DropTask(t) ==
  /\ MayBecome(tasks[t].status, "running")
  /\ ~ IsActive(t[1])
  /\ tasks' = [tasks EXCEPT ![t] = [@ EXCEPT !.status = "failed", !.lease = "none"]]
  /\ UNCHANGED <<flows, runs, published, events>>

\* Slip: a heartbeat that comes after the report is taken.
ExtendAnyLease(t) ==
  /\ tasks[t].status \notin {"none", "pending"}
  /\ tasks' = [tasks EXCEPT ![t] = [@ EXCEPT !.lease = "held"]]
  /\ UNCHANGED <<flows, runs, published, events>>

\* extend_task_lease: a lapsed lease is taken up again.
ExtendTaskLease(t) ==
  /\ tasks[t].status \in TaskLeased
  /\ tasks' = [tasks EXCEPT ![t] = [@ EXCEPT !.lease = "held"]]
  /\ UNCHANGED <<flows, runs, published, events>>

\* finish_task: result None and status failed stand for an error.  The event
\* is appended whether or not the run is still active.
FinishTask(t, status, result) ==
  /\ status \in TaskTerminal
  /\ status = "failed" => result = None
  /\ MayBecome(tasks[t].status, status)
  /\ tasks' = [tasks EXCEPT ![t] =
                 [@ EXCEPT !.status = status, !.result = result, !.lease = "none"]]
  /\ events' = Append1(t[1], "task_finished")
  /\ UNCHANGED <<flows, runs, published>>

\* The clock passes lease_expires_at.  Bound: not once the last delivery the
\* model allows is out.
LeaseLapses(t) ==
  /\ tasks[t].lease = "held"
  /\ tasks[t].attempts < MaxAttempts
  /\ tasks' = [tasks EXCEPT ![t] = [@ EXCEPT !.lease = "lapsed"]]
  /\ UNCHANGED <<flows, runs, published, events>>

-----------------------------------------------------------------------------
Deploys == {U \in SUBSET Upload : Cardinality(U) \in 1 .. MaxDeploy}

Next ==
  \/ \E U \in Deploys : StoreFlows(U)
  \/ \E r \in RootIds, f \in FlowNames, v \in Versions : StartRun(r, f, v)
  \/ \E p \in RunIds, a \in SubFlowAddresses, f \in FlowNames, v \in Versions :
       StartSubRun(p, a, f, v)
  \/ \E r \in RunIds, output \in Values \cup {None} : SucceedRun(r, output)
  \/ \E r \in RunIds : FailRunTree(r)
  \/ \E r \in RunIds : CancelRunTree(r)
  \/ \E t \in TaskIds, q \in Queues : PublishTask(t, q)
  \/ \E q \in Queues, i \in DOMAIN published : ReceiveTask(q, i)
  \/ \E t \in TaskIds : ClaimTask(t)
  \/ \E t \in TaskIds : DropTask(t)
  \/ \E t \in TaskIds : ExtendTaskLease(t)
  \/ \E t \in TaskIds, status \in TaskTerminal, result \in Values \cup {None} :
       FinishTask(t, status, result)
  \/ \E t \in TaskIds : LeaseLapses(t)

Spec == Init /\ [][Next]_storeVars
-----------------------------------------------------------------------------
(* Properties.                                                              *)

\* Type correctness of the store's five collections.
TypeOK ==
  /\ flows \in [FlowNames -> [Versions -> Contents \cup {None}]]
  /\ runs \in [RunIds -> Run]
  /\ tasks \in [TaskIds -> Task]
  /\ published \in Seq(TaskIds)
  /\ events \in Seq(Event)

\* A sub-flow run hangs below a run of the same tree, under the id that its
\* parent and address give; a run with no parent is the root of its tree.
TreeShape ==
  \A r \in RunIds :
    LET run == runs[r]
    IN  run.status # "none" =>
          /\ run.flow \in FlowNames /\ run.version \in Versions
          /\ run.root \in RunIds /\ runs[run.root].status # "none"
          /\ \/ run.parent = None /\ run.root = r /\ r \in RootIds
             \/ /\ run.parent \in RunIds /\ run.address \in SubFlowAddresses
                /\ r = SubRunIdFor(run.parent, run.address)
                /\ runs[run.parent].status # "none"
                /\ run.root = runs[run.parent].root

\* A run tree ends together: once one of its runs failed or was cancelled, no
\* run of the tree is active, whichever of start_run, store_flows and
\* _finish_tree came in between.
TreeEndsTogether ==
  \A r, s \in RunIds :
    runs[r].status \in {"failed", "cancelled"} /\ runs[s].root = runs[r].root
      => ~ IsActive(s)

\* An active run is always on its flow's latest version: start_run takes no
\* other and store_flows cancels those a new version leaves behind.
ActiveOnLatest ==
  \A r \in RunIds : IsActive(r) => IsLatest(runs[r].flow, runs[r].version)

Logged(r, kind) == \E i \in DOMAIN events : events[i] = [run |-> r, kind |-> kind]

\* Started is logged exactly of the runs there are, finished exactly of those that
\* ended, each of them once.
EachToldOnce ==
  /\ \A r \in RunIds :
       /\ runs[r].status # "none" <=> Logged(r, "run_started")
       /\ runs[r].status \in RunEnded <=> Logged(r, "run_finished")
  /\ \A i, j \in DOMAIN events :
       events[i] = events[j] /\ events[i].kind # "task_finished" => i = j

StartedEvent(r) == [run |-> r, kind |-> "run_started"]
FinishedEvent(r) == [run |-> r, kind |-> "run_finished"]

Precedes(e, f, log) == \A i, j \in DOMAIN log : log[i] = e /\ log[j] = f => i < j

\* A run is started before it is finished, and a sub-flow run is started after its
\* parent was and before its parent is finished.
EventsInOrder ==
  \A r \in RunIds :
    LET run == runs[r]
    IN  run.status # "none" =>
          /\ Precedes(StartedEvent(r), FinishedEvent(r), events)
          /\ run.parent # None =>
               /\ Precedes(StartedEvent(run.parent), StartedEvent(r), events)
               /\ Precedes(StartedEvent(r), FinishedEvent(run.parent), events)

\* The log, which is all that the scheduler follows, says of every run what is true
\* of it, once and in an order that could have happened, whichever of starts,
\* uploads and ends of trees came in between.
EventsTellRuns == EachToldOnce /\ EventsInOrder

\* A published task that has not finished can always be received sooner or
\* later: it is in the publishing order exactly once, and pending or under a
\* lease that is able to lapse.
NoTaskStranded ==
  \A t \in TaskIds :
    /\ tasks[t].status # "none" <=> \E i \in DOMAIN published : published[i] = t
    /\ tasks[t].status \in TaskLeased <=> tasks[t].lease # "none"
    /\ \A i, j \in DOMAIN published : published[i] = t /\ published[j] = t => i = j

FinalStep ==
  /\ \A r \in RunIds : runs[r].status \in RunEnded => runs'[r] = runs[r]
  /\ \A t \in TaskIds : tasks[t].status \in TaskTerminal => tasks'[t] = tasks[t]

\* What has ended stays as it ended: a run's status and output, a task's status
\* and result, under late reports, late claims and repeated calls.
FinalStaysFinal == [][FinalStep]_storeVars

WorkStep ==
  \A t \in TaskIds :
    tasks'[t].status # tasks[t].status /\ tasks'[t].status \in {"pending", "running"}
      => IsActive(t[1]) /\ IsActive(t[1])'

\* No work starts for a run that is over: a task is published, and begins to
\* run, only while its run is active, before the step and after it.
NoWorkForEndedRuns == [][WorkStep]_storeVars

DeliveryStep ==
  \A t \in TaskIds :
    /\ tasks'[t].attempts # tasks[t].attempts
         => /\ tasks'[t].attempts = tasks[t].attempts + 1
            /\ tasks[t].lease # "held" /\ tasks'[t].lease = "held"
    /\ tasks[t].status \in TaskLeased /\ tasks[t].lease = "held"
         => tasks'[t].status \in TaskTerminal \/ tasks'[t].attempts = tasks[t].attempts

\* A delivered task is not delivered again while its lease holds: only its end
\* or the lapse of its lease takes it from the worker that has it.
LeaseExcludes == [][DeliveryStep]_storeVars

\* The latest versions of the flows are a valid set together at all times, so
\* no sub-flow call of an active run points at a flow that is not there.
LatestFlowsValid ==
  (\E f \in FlowNames : StoredVersions(f) # {}) => ValidFlowSet(LatestAfter({}))
=============================================================================
