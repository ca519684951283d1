--------------------------- MODULE PostgresStore ---------------------------
(***************************************************************************)
(* PostgresStore, statement by statement.  An operation is a transaction   *)
(* in READ COMMITTED: a statement sees what is committed when it starts,   *)
(* what it writes is seen by others once it commits, and locks are held    *)
(* until then.  Locks are taken one at a time, in the order                *)
(* upload - root runs by id - task - events.                               *)
(*                                                                         *)
(* Two statements in a row are one step where nobody can tell: the flows   *)
(* are read, checked and inserted under the exclusive upload lock; the     *)
(* trees to cancel are read at once for all flows uploaded, since under    *)
(* that lock no run starts.  A lock is given to any waiter it is free for, *)
(* which includes the queue that Postgres keeps.  That the rows written    *)
(* under these locks need no further ones is the property WritersApart.    *)
(*                                                                         *)
(* The constants are those of Store, which this module implements.         *)
(***************************************************************************)
EXTENDS Naturals, Sequences, FiniteSets

CONSTANTS
  RunIds, RootIds, SubRunIdFor(_, _), TaskAddresses, SubFlowAddresses,
  FlowNames, MaxVersion, Contents, ValidFlowSet(_), Queues, Values,
  MaxAttempts, MaxDeploy, None,
  Before(_, _),  \* the order of run ids in an index
  Txns,          \* connections of the pool, each with one transaction at most
  Requests       \* the calls made of the store, as records

VARIABLES
  flows, runs, tasks,  \* the committed rows, in the form of Store
  events,              \* the committed events by sequence
  position,            \* of committed runs, 0 for none
  inserted,            \* tasks in the order of their identity column
  published,           \* tasks in the order they were committed
  txn                  \* the transactions under way

vars == <<flows, runs, tasks, events, position, inserted, published, txn>>
committed == <<flows, runs, tasks, events, position, published>>

\* The store as it promises to be.  The committed rows and events are its state;
\* what a transaction has done so far, its locks and the positions of runs are
\* not seen.
S == INSTANCE Store WITH
       flows <- flows, runs <- runs, tasks <- tasks,
       events <- events, published <- published

-----------------------------------------------------------------------------
(* Locks, and what a transaction has to do.                                 *)

UploadLock(mode) == <<"upload", mode>>
RootLock(r) == <<"root", r>>
TaskLock(t) == <<"task", t>>
EventLock == <<"events", "exclusive">>

Conflicts(l, m) ==
  \/ l = m /\ l # UploadLock("shared")
  \/ {l, m} = {UploadLock("shared"), UploadLock("exclusive")}

\* A call as the manager makes it.
Request ==
  [op : {"store_flows"}, uploads : S!Deploys]
    \cup [op : {"start_run"}, flow : FlowNames, version : S!Versions, run : RootIds,
           parent : {None}, address : {None}]
    \cup {q \in [op : {"start_run"}, flow : FlowNames, version : S!Versions, run : {None},
                  parent : RunIds, address : SubFlowAddresses] :
            SubRunIdFor(q.parent, q.address) \in RunIds}
    \cup [op : {"succeed_run"}, run : RunIds, output : Values \cup {None}]
    \cup [op : {"finish_tree"}, run : RunIds, status : {"failed", "cancelled"}]
    \cup [op : {"publish_task"}, task : S!TaskIds, queue : Queues]
    \cup [op : {"receive_task"}, queue : Queues]
    \cup [op : {"claim_task", "extend_task_lease"}, task : S!TaskIds]
    \cup {q \in [op : {"finish_task"}, task : S!TaskIds, status : S!TaskTerminal,
                  result : Values \cup {None}] : q.status = "failed" => q.result = None}

ASSUME PostgresAssumption ==
  /\ S!StoreAssumption
  /\ Requests \subseteq Request
  /\ None \notin Requests
  /\ \A r, s, t \in RunIds :
       /\ ~ (Before(r, s) /\ Before(s, r))
       /\ Before(r, s) /\ Before(s, t) => Before(r, t)
       /\ r # s => Before(r, s) \/ Before(s, r)

IsSubStart(q) == q.op = "start_run" /\ q.parent # None

\* Slip: the upload lock is taken once the parent's root is locked.
StartPathUploadLast ==
  [begin |-> "read", read |-> "roots", roots |-> "upload", upload |-> "write"]

StartPath == [begin |-> "upload", upload |-> "read", read |-> "roots", roots |-> "write"]

\* What an operation does after each statement, up to its "write".
Path(q) ==
  CASE q.op = "store_flows" ->
         [begin |-> "upload", upload |-> "read", read |-> "roots", roots |-> "write"]
    [] q.op = "start_run" -> StartPath
    [] q.op \in {"succeed_run", "finish_tree", "publish_task"} ->
         [begin |-> "read", read |-> "roots", roots |-> "write"]
    [] q.op = "claim_task" ->
         [begin |-> "read", read |-> "roots", roots |-> "task", task |-> "write"]
    [] q.op \in {"extend_task_lease", "finish_task"} -> [begin |-> "task", task |-> "write"]
    [] q.op = "receive_task" -> [begin |-> "write"]

\* Slip: a run is numbered as it is inserted, before the event lock.
LogPathNumberFirst(q) ==
  [write |-> IF q.op = "start_run" THEN "number" ELSE "log",
   number |-> "log", log |-> "events", events |-> "commit"]

\* _append_events, and _NUMBER_RUN after it in start_run: what is done after the
\* "write" of an operation that has events to tell.
LogPath(q) ==
  [write |-> "log", log |-> "events",
   events |-> IF q.op = "start_run" THEN "number" ELSE "commit", number |-> "commit"]

NoWrites == [flows |-> {}, runs |-> <<>>, tasks |-> <<>>, events |-> <<>>,
             position |-> <<>>]

\* req: the call; at: the statement to come; roots: the root runs to lock; told:
\* the events to append; writes: the rows written, by key.
Closed == [req |-> None, at |-> "begin", roots |-> {}, locks |-> {}, told |-> <<>>,
           writes |-> NoWrites]

IsOpen(x) == txn[x].req # None
Doing(x, ops, statement) ==
  IsOpen(x) /\ txn[x].req.op \in ops /\ txn[x].at = statement

Init ==
  /\ S!Init
  /\ position = [r \in RunIds |-> 0]
  /\ inserted = <<>>
  /\ txn = [x \in Txns |-> Closed]

\* The rows and the events of runs that end.
Ended(ending, status) ==
  [NoWrites EXCEPT !.runs = [r \in ending |-> [runs[r] EXCEPT !.status = status]]]

Finished(order) == [i \in DOMAIN order |-> [run |-> order[i], kind |-> "run_finished"]]

NewId(q) == IF IsSubStart(q) THEN SubRunIdFor(q.parent, q.address) ELSE q.run

-----------------------------------------------------------------------------
(* Steps of a transaction.                                                  *)

Close(x) == txn' = [txn EXCEPT ![x] = Closed]

\* The statement that follows the locks of root runs, if there are any to take.
AtRoots(q, roots) == IF roots = {} THEN Path(q).roots ELSE "roots"

\* The row that is read tells the root runs to lock.
LockRoots(x, roots) ==
  txn' = [txn EXCEPT ![x] = [@ EXCEPT !.at = AtRoots(txn[x].req, roots), !.roots = roots]]

\* The last statement but for the log: rows are written and events to be told.
Wrote(x, rows, told) ==
  txn' = [txn EXCEPT ![x] =
            [@ EXCEPT !.at = IF told = <<>> THEN "commit" ELSE LogPath(txn[x].req).write,
                      !.told = told, !.writes = rows]]

\* The id uuid4 draws is nobody's; the ids a call names are those of rows that
\* an earlier call answered with.
CanBeAsked(q) ==
  CASE q.op = "start_run" /\ q.parent = None ->
         /\ runs[q.run].status = "none"
         /\ \A y \in Txns :
              ~ (IsOpen(y) /\ txn[y].req.op = "start_run" /\ txn[y].req.run = q.run)
    [] IsSubStart(q) -> runs[q.parent].status # "none"
    [] q.op \in {"succeed_run", "finish_tree"} -> runs[q.run].status # "none"
    [] q.op = "publish_task" -> runs[q.task[1]].status # "none"
    [] q.op \in {"claim_task", "extend_task_lease", "finish_task"} ->
         tasks[q.task].status # "none"
    [] OTHER -> TRUE

Begin(x, q) ==
  /\ ~ IsOpen(x)
  /\ CanBeAsked(q)
  /\ txn' = [txn EXCEPT ![x] = [Closed EXCEPT !.req = q, !.at = Path(q).begin]]
  /\ UNCHANGED <<committed, inserted>>

\* The lock that the next statement of x asks for, if any: root runs are locked in
\* the order of their ids.
Wanted(x) ==
  LET q == txn[x].req
  IN  CASE txn[x].at = "upload" ->
             {UploadLock(IF q.op = "store_flows" THEN "exclusive" ELSE "shared")}
        [] txn[x].at = "roots" ->
             {RootLock(r) : r \in {first \in txn[x].roots :
                \A s \in txn[x].roots \ {first} : Before(first, s)}}
        [] txn[x].at = "task" -> {TaskLock(q.task)}
        [] txn[x].at = "log" -> {EventLock}
        [] OTHER -> {}

\* x has asked for a lock that y holds.
WaitsFor(x, y) ==
  /\ x # y
  /\ \E l \in Wanted(x), m \in txn[y].locks : Conflicts(l, m)

\* Where x goes on once it has the lock it wanted, with these roots left to lock.
AfterLock(x, roots) ==
  LET t == txn[x]
  IN  CASE t.at = "log" -> LogPath(t.req).log
        [] t.at = "roots" -> AtRoots(t.req, roots)
        [] OTHER -> Path(t.req)[t.at]

Lock(x) ==
  \E l \in Wanted(x) :
    LET roots == {r \in txn[x].roots : RootLock(r) # l}
    IN  /\ \A y \in Txns : ~ WaitsFor(x, y)
        /\ txn' = [txn EXCEPT ![x] =
                     [@ EXCEPT !.at = AfterLock(x, roots), !.roots = roots,
                               !.locks = txn[x].locks \cup {l}]]
        /\ UNCHANGED <<committed, inserted>>

\* store_flows: the flows are checked, and the trees that run them found.
ReadUploads(x) ==
  LET new == S!NewUploads(txn[x].req.uploads)
      roots == {runs[r].root : r \in {s \in RunIds :
                   S!IsActive(s) /\ \E u \in new : u.name = runs[s].flow}}
  IN  /\ Doing(x, {"store_flows"}, "read")
      /\ IF S!CheckUploads(txn[x].req.uploads) /\ new # {}
         THEN LockRoots(x, roots)
         ELSE Close(x)
      /\ UNCHANGED <<committed, inserted>>

\* start_run: the latest version, and the parent's tree.
ReadStart(x) ==
  LET q == txn[x].req
  IN  /\ Doing(x, {"start_run"}, "read")
      /\ IF S!IsLatest(q.flow, q.version)
         THEN LockRoots(x, IF IsSubStart(q) THEN {runs[q.parent].root} ELSE {})
         ELSE Close(x)
      /\ UNCHANGED <<committed, inserted>>

RunAsked(q) ==
  IF q.op \in {"publish_task", "claim_task"} THEN q.task[1] ELSE q.run

\* Slip: the run itself is locked, not the root of its tree.
ReadRunItself(x) ==
  /\ Doing(x, {"succeed_run", "finish_tree", "publish_task", "claim_task"}, "read")
  /\ LockRoots(x, {RunAsked(txn[x].req)})
  /\ UNCHANGED <<committed, inserted>>

\* The run, for its root; its status is not looked at yet.
ReadRun(x) ==
  /\ Doing(x, {"succeed_run", "finish_tree", "publish_task", "claim_task"}, "read")
  /\ LockRoots(x, {runs[RunAsked(txn[x].req)].root})
  /\ UNCHANGED <<committed, inserted>>

\* store_flows: of the trees found, those are cancelled that still have an
\* active run of a flow uploaded.
WriteUploads(x) ==
  LET new == S!NewUploads(txn[x].req.uploads)
      still == {r \in RunIds : RootLock(r) \in txn[x].locks /\
                  \E s \in RunIds : /\ S!IsActive(s) /\ runs[s].root = r
                                    /\ \E u \in new : u.name = runs[s].flow}
  IN  /\ Doing(x, {"store_flows"}, "write")
      /\ \E order \in S!Orders(S!ActiveInTrees(still)) :
           Wrote(x, [Ended(S!ActiveInTrees(still), "cancelled") EXCEPT !.flows = new],
                 Finished(order))
      /\ UNCHANGED <<committed, inserted>>

NewRun(q) ==
  [flow |-> q.flow, version |-> q.version, status |-> "active",
   root |-> IF IsSubStart(q) THEN runs[q.parent].root ELSE q.run,
   parent |-> q.parent, address |-> q.address, output |-> None]

InsertRun(x) ==
  LET q == txn[x].req
  IN  Wrote(x, [NoWrites EXCEPT !.runs = [r \in {NewId(q)} |-> NewRun(q)]],
            <<[run |-> NewId(q), kind |-> "run_started"]>>)

\* Slip: the parent was active when it was read.
WriteStartUnchecked(x) ==
  /\ Doing(x, {"start_run"}, "write")
  /\ IF runs[NewId(txn[x].req)].status # "none" THEN Close(x) ELSE InsertRun(x)
  /\ UNCHANGED <<committed, inserted>>

\* start_run: under the root lock the parent's status is settled.  The same
\* instance, started before, is returned as it is.
WriteStart(x) ==
  LET q == txn[x].req
  IN  /\ Doing(x, {"start_run"}, "write")
      /\ IF \/ IsSubStart(q) /\ ~ S!IsActive(q.parent)
            \/ runs[NewId(q)].status # "none"
         THEN Close(x)
         ELSE InsertRun(x)
      /\ UNCHANGED <<committed, inserted>>

WriteSuccess(x) ==
  LET r == txn[x].req.run
  IN  /\ Doing(x, {"succeed_run"}, "write")
      /\ IF S!IsActive(r)
         THEN Wrote(x, [NoWrites EXCEPT !.runs = [s \in {r} |->
                          [runs[s] EXCEPT !.status = "succeeded",
                                          !.output = txn[x].req.output]]],
                    Finished(<<r>>))
         ELSE Close(x)
      /\ UNCHANGED <<committed, inserted>>

\* _finish_trees, on behalf of fail_run_tree and cancel_run_tree.
WriteTreeEnd(x) ==
  LET ending == S!ActiveInTrees({runs[txn[x].req.run].root})
  IN  /\ Doing(x, {"finish_tree"}, "write")
      /\ \E order \in S!Orders(ending) :
           Wrote(x, Ended(ending, txn[x].req.status), Finished(order))
      /\ UNCHANGED <<committed, inserted>>

WroteTask(x, t, row, told) ==
  Wrote(x, [NoWrites EXCEPT !.tasks = [s \in {t} |-> row]], told)

\* publish_task: the identity column is drawn as the row is inserted.
WritePublish(x) ==
  LET q == txn[x].req
  IN  /\ Doing(x, {"publish_task"}, "write")
      /\ IF S!IsActive(q.task[1]) /\ tasks[q.task].status = "none"
         THEN /\ WroteTask(x, q.task, [S!NoTask EXCEPT !.status = "pending",
                                                       !.queue = q.queue], <<>>)
              /\ inserted' = Append(inserted, q.task)
         ELSE Close(x) /\ UNCHANGED inserted
      /\ UNCHANGED committed

IsLocked(t) == \E y \in Txns : TaskLock(t) \in txn[y].locks

\* FOR UPDATE SKIP LOCKED
Receivable(queue) == {t \in S!TaskIds : S!IsReceivable(t, queue) /\ ~ IsLocked(t)}

\* receive_task: one statement, which locks the row it updates.
WriteReceive(x) ==
  LET ready == Receivable(txn[x].req.queue)
      IsFirst(t) == \E i \in DOMAIN inserted :
                      inserted[i] = t /\ \A j \in 1 .. i - 1 : inserted[j] \notin ready
      Row(t) == [tasks[t] EXCEPT !.status = "received", !.lease = "held",
                                 !.attempts = tasks[t].attempts + 1]
  IN  /\ Doing(x, {"receive_task"}, "write")
      /\ \/ ready = {} /\ Close(x)
         \/ \E t \in ready :
              /\ IsFirst(t)
              /\ txn' = [txn EXCEPT ![x] =
                   [@ EXCEPT !.at = "commit", !.locks = {TaskLock(t)},
                             !.writes = [NoWrites EXCEPT !.tasks = [s \in {t} |-> Row(s)]]]]
      /\ UNCHANGED <<committed, inserted>>

\* claim_task: of a run that has ended, the task is failed.
WriteClaim(x) ==
  LET t == txn[x].req.task
  IN  /\ Doing(x, {"claim_task"}, "write")
      /\ IF ~ S!MayBecome(tasks[t].status, "running")
         THEN Close(x)
         ELSE WroteTask(x, t,
                IF S!IsActive(t[1])
                THEN [tasks[t] EXCEPT !.status = "running"]
                ELSE [tasks[t] EXCEPT !.status = "failed", !.lease = "none"], <<>>)
      /\ UNCHANGED <<committed, inserted>>

WriteExtend(x) ==
  LET t == txn[x].req.task
  IN  /\ Doing(x, {"extend_task_lease"}, "write")
      /\ IF tasks[t].status \in S!TaskLeased
         THEN WroteTask(x, t, [tasks[t] EXCEPT !.lease = "held"], <<>>)
         ELSE Close(x)
      /\ UNCHANGED <<committed, inserted>>

WriteReport(x) ==
  LET q == txn[x].req
      t == q.task
  IN  /\ Doing(x, {"finish_task"}, "write")
      /\ IF S!MayBecome(tasks[t].status, q.status)
         THEN WroteTask(x, t, [tasks[t] EXCEPT !.status = q.status,
                                 !.result = q.result, !.lease = "none"],
                        <<[run |-> t[1], kind |-> "task_finished"]>>)
         ELSE Close(x)
      /\ UNCHANGED <<committed, inserted>>

\* The sequences follow on from the highest committed.
InsertEvents(x) ==
  LET told == txn[x].told
      last == Len(events)
  IN  /\ IsOpen(x) /\ txn[x].at = "events"
      /\ txn' = [txn EXCEPT ![x] =
                   [@ EXCEPT !.at = LogPath(txn[x].req).events,
                             !.writes = [txn[x].writes EXCEPT !.events =
                                [i \in last + 1 .. last + Len(told) |-> told[i - last]]]]]
      /\ UNCHANGED <<committed, inserted>>

HighestPosition == CHOOSE n \in {position[r] : r \in RunIds} :
                     \A r \in RunIds : position[r] <= n

\* The run's position follows on from the highest committed.
NumberRun(x) ==
  LET q == txn[x].req
  IN  /\ Doing(x, {"start_run"}, "number")
      /\ txn' = [txn EXCEPT ![x] =
                   [@ EXCEPT !.at = LogPath(q).number,
                             !.writes = [txn[x].writes EXCEPT !.position =
                                [r \in {NewId(q)} |-> HighestPosition + 1]]]]
      /\ UNCHANGED <<committed, inserted>>

\* The rows there are, with those that are written over them.
Over(written, rows) ==
  [key \in DOMAIN written \cup DOMAIN rows |->
     IF key \in DOMAIN written THEN written[key] ELSE rows[key]]

Commit(x) ==
  LET w == txn[x].writes
  IN  /\ IsOpen(x) /\ txn[x].at = "commit"
      /\ flows' = [f \in FlowNames |-> [v \in S!Versions |->
                     IF \E u \in w.flows : u.name = f /\ u.version = v
                     THEN (CHOOSE u \in w.flows : u.name = f).content
                     ELSE flows[f][v]]]
      /\ runs' = Over(w.runs, runs)
      /\ tasks' = Over(w.tasks, tasks)
      /\ events' = Over(w.events, events)
      /\ position' = Over(w.position, position)
      /\ published' = IF txn[x].req.op = "publish_task"
                      THEN Append(published, txn[x].req.task) ELSE published
      /\ Close(x)
      /\ UNCHANGED inserted

\* A statement fails, the caller gives up or the connection breaks: all the
\* transaction did is undone, and its locks are released.
Abort(x) ==
  /\ IsOpen(x)
  /\ Close(x)
  /\ inserted' = SelectSeq(inserted, LAMBDA t : t \notin DOMAIN txn[x].writes.tasks
                                                \/ tasks[t].status # "none")
  /\ UNCHANGED committed

\* The clock passes lease_expires_at.  Nobody reads a row that is locked, so
\* it makes no difference that it then does so after the transaction.
LeaseLapses(t) ==
  /\ ~ IsLocked(t)
  /\ S!LeaseLapses(t)
  /\ UNCHANGED <<position, inserted, txn>>

-----------------------------------------------------------------------------
Next ==
  \/ \E x \in Txns :
       \/ \E q \in Requests : Begin(x, q)
       \/ Lock(x)
       \/ ReadUploads(x) \/ ReadStart(x) \/ ReadRun(x)
       \/ WriteUploads(x) \/ WriteStart(x) \/ WriteSuccess(x) \/ WriteTreeEnd(x)
       \/ WritePublish(x) \/ WriteReceive(x) \/ WriteClaim(x) \/ WriteExtend(x)
       \/ WriteReport(x)
       \/ InsertEvents(x) \/ NumberRun(x)
       \/ Commit(x) \/ Abort(x)
  \/ \E t \in S!TaskIds : LeaseLapses(t)

Spec == Init /\ [][Next]_vars

-----------------------------------------------------------------------------
(* Properties.                                                              *)

\* Whatever transactions run side by side, the store changes as if its
\* operations ran one at a time, each at the commit of its transaction.  One
\* rule is weaker than Store's: a receiver passes over rows that are locked,
\* so it takes a task that is ready, not always the oldest.
ReceiveReady(q, i) ==
  /\ S!IsReceivable(published[i], q)
  /\ S!HandOut(published[i])

ImplementsStore ==
  /\ S!Init
  /\ [][S!Next \/ \E q \in Queues, i \in DOMAIN published : ReceiveReady(q, i)]_(S!storeVars)

\* No transactions wait for each other in a cycle: among any of them there is
\* one that waits for none of the others.  This is what the lock order is for.
NoWaitCycle ==
  \A X \in (SUBSET {x \in Txns : IsOpen(x)}) \ {{}} :
    \E x \in X : \A y \in X : ~ WaitsFor(x, y)

\* No two transactions have written the same row, or drawn the same sequence:
\* no statement waits for a row that the lock order does not know of, and none
\* fails because another was first.
WritersApart ==
  \A x, y \in Txns : x # y =>
    LET w == txn[x].writes
        z == txn[y].writes
    IN  /\ \A u \in w.flows, v \in z.flows : u.name # v.name
        /\ DOMAIN w.runs \cap DOMAIN z.runs = {}
        /\ DOMAIN w.tasks \cap DOMAIN z.tasks = {}
        /\ DOMAIN w.events \cap DOMAIN z.events = {}

PositionStep ==
  \A r, s \in RunIds :
    position'[r] # position[r] /\ s # r => position[r] = 0 /\ position[s] < position'[r]

\* A run becomes visible above all runs there are in the order they are listed
\* in, so a reader who pages through that list misses none that came late.
RunsCommitInOrder == [][PositionStep]_vars
=============================================================================
