------------------------------ MODULE HttpApi ------------------------------
(***************************************************************************)
(* The HTTP API between the programs and the manager: what a request needs *)
(* to be let in, what the manager decides, how a decision crosses as a     *)
(* status and a body, what becomes of it on a network with proxies, and    *)
(* what the programs make of what they hear.                               *)
(*                                                                         *)
(* There is one run, with a task on each queue, some of them published     *)
(* when the programs begin.  A program has one request under way at a      *)
(* time.  Whether a document is taken is a parameter, which FlowParser      *)
(* answers in FlowUploads.  Definitions marked as slips are there for the  *)
(* runs, as in Store.                                                      *)
(***************************************************************************)
EXTENDS Naturals

CONSTANTS
  Casts,         \* the sets of callers that are looked at together
  Kind(_),       \* "scheduler", "worker", "script", "ci", "trigger" or "page"
  BoundTo(_),    \* the queue a caller's token is bound to, or NoQueue
  Works(_),      \* the queue a worker is told to work on
  Queues, NoQueue,
  Documents,     \* what may be uploaded
  KeysAreUnique(_), Parses(_), \* read_json and parse_flow: whether they take one
  NoDocument,
  MaxMishaps     \* bound: failures of the network, of the manager, revocations, lapses

ASSUME HttpApiAssumption ==
  /\ NoQueue \notin Queues
  /\ \A cast \in Casts : \A c \in cast :
       /\ Kind(c) \in {"scheduler", "worker", "script", "ci", "trigger", "page"}
       /\ Kind(c) = "worker" => Works(c) \in Queues
       /\ IF Kind(c) \in {"worker", "script"} THEN BoundTo(c) \in Queues ELSE BoundTo(c) = NoQueue
  /\ MaxMishaps \in Nat

VARIABLES
  cast,     \* the callers
  access,   \* whether the manager asks who is calling
  valid,    \* the callers whose token or session is accepted
  at,       \* by caller, where its program is
  call,     \* by caller, its request under way
  run,      \* "active" or "over"
  task,     \* by queue: "none" or a task status
  stored,   \* the documents stored
  reached,  \* [by, queue]: whose requests have got at the task of which queue
  mishaps

vars == <<cast, access, valid, at, call, run, task, stored, reached, mishaps>>
state == <<run, task, stored, reached>>

NoReply == [status |-> 0, names |-> "none", body |-> "none"]
NoCall == [stage |-> "none", op |-> "none", queue |-> NoQueue, data |-> NoDocument,
           decision |-> "none", reply |-> NoReply]

\* Where a program begins.
Begins(c) ==
  CASE Kind(c) = "scheduler" -> "poll"
    [] Kind(c) = "worker" -> "prepare"
    [] OTHER -> "ready"

Init ==
  /\ cast \in Casts
  /\ access \in BOOLEAN
  /\ valid = cast
  /\ at = [c \in cast |-> Begins(c)]
  /\ call = [c \in cast |-> NoCall]
  /\ run = "active"
  /\ task \in [Queues -> {"none", "pending"}]
  /\ stored = {} /\ reached = {}
  /\ mishaps = 0

Mishap == mishaps < MaxMishaps /\ mishaps' = mishaps + 1

-----------------------------------------------------------------------------
(* Who may do what.                                                         *)

WorkerCalls ==
  {"task_definitions", "receive_task", "claim_task", "extend_lease", "report_finished"}

PermissionOf(op) ==
  CASE op = "upload_flows" -> "flows:upload"
    [] op = "start_run" -> "runs:start"
    [] op \in {"get_run", "run_state"} -> "runs:read"
    [] op = "get_flow" -> "flows:read"
    [] op = "cancel_run" -> "runs:cancel"
    [] op = "wait_for_events" -> "events:read"
    [] op \in {"publish_task", "start_sub_run", "succeed_run", "fail_run"} -> "runs:schedule"
    [] op = "task_definitions" -> "queue:definitions"
    [] op = "receive_task" -> "queue:receive"
    [] op = "claim_task" -> "tasks:claim"
    [] op = "extend_lease" -> "tasks:heartbeat"
    [] op = "report_finished" -> "tasks:finish"

QUEUE_PERMISSIONS ==
  {"queue:definitions", "queue:receive", "tasks:claim", "tasks:heartbeat", "tasks:finish"}

Role(c) ==
  CASE Kind(c) \in {"worker", "script"} -> "worker"
    [] Kind(c) = "page" -> "user"
    [] OTHER -> Kind(c)

\* Slip: the scheduler, which waits for events, may not read flows.
PERMISSIONSScant(role) ==
  CASE role = "worker" -> QUEUE_PERMISSIONS
    [] role = "scheduler" -> {"runs:read", "runs:schedule", "events:read"}
    [] role = "ci" -> {"flows:upload"}
    [] role = "user" -> {"flows:read", "runs:start", "runs:read", "runs:cancel", "events:read"}
    [] role = "trigger" -> {"runs:start"}

PERMISSIONS(role) ==
  CASE role = "worker" -> QUEUE_PERMISSIONS
    [] role = "scheduler" -> {"flows:read", "runs:read", "runs:schedule", "events:read"}
    [] role = "ci" -> {"flows:upload"}
    [] role = "user" -> {"flows:read", "runs:start", "runs:read", "runs:cancel", "events:read"}
    [] role = "trigger" -> {"runs:start"}

\* The routes whose path names a queue.
NamesQueue(op) == op \in {"task_definitions", "receive_task"}

\* The error authorize raises, or "none".
Authorize(c, op, queue) ==
  IF \/ PermissionOf(op) \notin PERMISSIONS(Role(c))
     \/ NamesQueue(op) /\ queue # BoundTo(c)
  THEN "PermissionDeniedError" ELSE "none"

\* What guard and permit raise, or "none".  The programs send JSON, and the pages
\* are those of the manager's own origin, which is all that the checks of a
\* write ask of them.
Refusal(c, op, queue) ==
  IF ~ access THEN "none"
  ELSE IF c \notin valid THEN "AuthenticationError" ELSE Authorize(c, op, queue)

-----------------------------------------------------------------------------
(* What the manager decides: the outcomes of an operation, each with the    *)
(* state it leaves.                                                         *)

Same(says) == [says |-> says, run |-> run, task |-> task, stored |-> stored]
Becomes(queue, status) == [Same("done") EXCEPT !.task[queue] = status]
Ends(says) == [Same(says) EXCEPT !.run = "over"]

\* Slip: a worker's token is good for any task.
OnAnyQueue(c, queue) == TRUE

\* _ensure_on_queue, with the queue of the principal, if there is one.
OnQueue(c, queue) == access /\ BoundTo(c) # NoQueue => BoundTo(c) = queue

\* Slip: a heartbeat is taken for any task.
EnsuredButBeats == {"claim_task", "report_finished"}

\* The calls that name a task by its id, and ensure that it is on the queue.
Ensured == {"claim_task", "extend_lease", "report_finished"}

Leased == {"received", "running"}

\* A lease may have lapsed: then a task that is leased is received again.
ReceiveOutcomes(queue) ==
  {Same("nothing")}
  \cup IF task[queue] \in {"pending"} \cup Leased
       THEN {[Becomes(queue, "received") EXCEPT !.says = "delivery"]} ELSE {}

ClaimOutcomes(queue) ==
  IF run = "active" THEN {Becomes(queue, "running")}
  ELSE {[Becomes(queue, "failed") EXCEPT !.says = "RunStateError"]}

TaskOutcomes(op, queue) ==
  IF task[queue] = "none" THEN {Same("TaskNotFoundError")}
  ELSE IF task[queue] \notin Leased THEN {Same("TaskStateError")}
  ELSE CASE op = "claim_task" -> ClaimOutcomes(queue)
         [] op = "extend_lease" -> {Same("done")}
         [] op = "report_finished" -> {Becomes(queue, "succeeded"), Becomes(queue, "failed")}

\* Two of the reasons a request of the scheduler's is refused for.
RunOutcomes(op, queue) ==
  IF op = "fail_run" THEN {Ends("done")}
  ELSE IF run = "over" THEN {Same("RunStateError")}
  ELSE CASE op = "cancel_run" -> {Ends("done")}
         [] op = "succeed_run" -> {Ends("done"), Same("ResolutionError")}
         [] op = "start_sub_run" -> {Same("done"), Same("FlowNotFoundError")}
         [] op = "publish_task" ->
              {IF task[queue] = "none" THEN Becomes(queue, "pending") ELSE Same("done"),
               Same("PayloadTooLargeError")}

UploadOutcomes(data) ==
  IF ~ KeysAreUnique(data) THEN {Same("InvalidValueError")}
  ELSE IF ~ Parses(data) THEN {Same("FlowDefinitionError")}
  ELSE {[Same("done") EXCEPT !.stored = @ \cup {data}]}

Outcomes(c, r) ==
  CASE r.op = "upload_flows" -> UploadOutcomes(r.data)
    [] r.op = "start_run" -> {Same("done"), Same("InvalidValueError")}
    [] r.op \in {"task_definitions", "get_flow", "run_state"} -> {Same("done")}
    [] r.op = "get_run" -> {Same(run)}
    [] r.op = "wait_for_events" -> {Same("news"), Same("nothing")}
    [] r.op = "receive_task" -> ReceiveOutcomes(r.queue)
    [] r.op \in {"claim_task", "extend_lease", "report_finished"} ->
         IF r.op \in Ensured => OnQueue(c, r.queue)
         THEN TaskOutcomes(r.op, r.queue) ELSE {Same("TaskNotFoundError")}
    [] OTHER -> RunOutcomes(r.op, r.queue)

\* Whether a call got at a task: it was handed out, claimed, extended or ended, be
\* it again and without a change, or the caller was told how it stands.
GetsAtTask(op, says) ==
  /\ op \in {"receive_task", "claim_task", "extend_lease", "report_finished"}
  /\ says \notin {"nothing", "TaskNotFoundError"}

-----------------------------------------------------------------------------
(* How it crosses.                                                          *)

AccessErrors == {"AuthenticationError", "PermissionDeniedError"}
Refusals ==
  AccessErrors \cup
  {"FlowDefinitionError", "InvalidValueError", "ResolutionError", "PayloadTooLargeError",
   "RunStateError", "TaskStateError", "FlowNotFoundError", "TaskNotFoundError"}
CoreErrors == Refusals \cup {"NeorcError"}

STATUS_OF(error) ==
  CASE error = "NeorcError" -> 500
    [] error \in {"FlowDefinitionError", "InvalidValueError", "ResolutionError"} -> 422
    [] error = "PayloadTooLargeError" -> 413
    [] error \in {"RunStateError", "TaskStateError"} -> 409
    [] error = "AuthenticationError" -> 401
    [] error = "PermissionDeniedError" -> 403
    [] error \in {"FlowNotFoundError", "TaskNotFoundError"} -> 404

\* The response to a decision; one that is no core error is answered for.
Response(decision) ==
  IF decision \in CoreErrors
  THEN [status |-> STATUS_OF(decision), names |-> decision, body |-> "error"]
  ELSE [status |-> 200, names |-> "none", body |-> decision]

\* What a proxy, or whatever else has the address, answers in the manager's place.
Foreign(status) == [status |-> status, names |-> "none", body |-> "foreign"]

\* Slip: an error that is named is raised, whatever the status.
ErrorFromName(reply) ==
  IF reply.names \notin CoreErrors THEN "ManagerUnavailableError" ELSE reply.names

ErrorFrom(reply) ==
  IF reply.status >= 500 \/ reply.names \notin CoreErrors
  THEN "ManagerUnavailableError" ELSE reply.names

\* The calls whose answer is read: the others only look at the status.
Parsed == {"task_definitions", "receive_task", "extend_lease", "upload_flows",
           "start_run", "get_flow", "get_run", "run_state", "wait_for_events"}

\* What a call of a client raises or returns.  Status 0: the request failed.
Heard(r) ==
  IF r.reply.status = 0 THEN "ManagerUnavailableError"
  ELSE IF r.reply.status # 200 THEN ErrorFrom(r.reply)
  ELSE IF r.reply.body # "foreign" THEN r.reply.body
  ELSE IF r.op \in Parsed THEN "ManagerUnavailableError" ELSE "done"

-----------------------------------------------------------------------------
(* The programs.                                                            *)

Ask(op, queue) == [NoCall EXCEPT !.op = op, !.queue = queue]
AskAll(ops, queues) == {Ask(op, queue) : op \in ops, queue \in queues}

SchedulerAsks(pc) ==
  CASE pc = "poll" -> {Ask("wait_for_events", NoQueue)}
    [] pc \in {"read", "refused"} -> {Ask("get_run", NoQueue)}
    [] pc = "define" -> {Ask("get_flow", NoQueue)}
    [] pc = "recall" -> {Ask("run_state", NoQueue)}
    [] pc = "apply" -> AskAll({"publish_task"}, Queues)
                       \cup AskAll({"start_sub_run", "succeed_run", "fail_run"}, {NoQueue})
    [] pc = "fail" -> {Ask("fail_run", NoQueue)}

WorkerAsks(pc) ==
  CASE pc = "prepare" -> {"task_definitions"}
    [] pc \in {"receive", "dropped"} -> {"receive_task"}
    [] pc = "claim" -> {"claim_task"}
    [] pc = "work" -> {"extend_lease", "report_finished"}

\* What a program asks next.  A script names the task of any queue.
Asks(c) ==
  IF at[c] \in {"ended", "done"} THEN {}
  ELSE CASE Kind(c) = "scheduler" -> SchedulerAsks(at[c])
         [] Kind(c) = "worker" -> AskAll(WorkerAsks(at[c]), {Works(c)})
         [] Kind(c) = "script" -> AskAll({"claim_task", "extend_lease", "report_finished"}, Queues)
         [] Kind(c) = "ci" -> {[Ask("upload_flows", NoQueue) EXCEPT !.data = d] : d \in Documents}
         [] Kind(c) = "trigger" -> {Ask("start_run", NoQueue)}
         [] Kind(c) = "page" -> AskAll({"get_run", "cancel_run"}, {NoQueue})

\* Scheduler.run: a refused token ends it; any other error it does not act on
\* takes it back to its poll, and so does the end of its plan.  It keeps the
\* definitions it has read.
SchedulerGoes(pc, heard) ==
  CASE pc = "poll" /\ heard = "news" -> {"read"}
    [] pc = "read" /\ heard = "active" -> {"define", "recall"}
    [] pc = "define" /\ heard = "done" -> {"recall"}
    [] pc = "recall" /\ heard = "done" -> {"apply"}
    [] pc = "apply" /\ heard = "done" -> {"apply", "poll"}
    [] pc = "apply" /\ heard \in CoreErrors -> {"refused"}
    [] pc = "refused" /\ heard = "active" -> {"fail"}
    [] OTHER -> {"poll"}

\* _prepared, then Worker.run: a task whose claim finds its run over is dropped.
WorkerGoes(pc, op, heard) ==
  CASE pc = "prepare" -> IF heard = "done" THEN {"receive"} ELSE {"prepare"}
    [] pc \in {"receive", "dropped"} -> IF heard = "delivery" THEN {"claim"} ELSE {"receive"}
    [] pc = "claim" /\ heard = "done" -> {"work"}
    [] pc = "claim" /\ heard = "RunStateError" -> {"dropped"}
    [] pc = "work" /\ op = "extend_lease" -> {"work"}
    [] OTHER -> {"receive"}

Goes(c, op, heard) ==
  IF heard \in AccessErrors THEN {"ended"}
  ELSE CASE Kind(c) = "scheduler" -> SchedulerGoes(at[c], heard)
         [] Kind(c) = "worker" -> WorkerGoes(at[c], op, heard)
         [] Kind(c) = "ci" -> {"done"}
         [] OTHER -> {"ready"}

-----------------------------------------------------------------------------
(* A request on its way.                                                    *)

Answered(c, decision, reply) ==
  call' = [call EXCEPT ![c].stage = "answered", ![c].decision = decision, ![c].reply = reply]

Send(c) ==
  /\ call[c].stage = "none"
  /\ \E r \in Asks(c) : call' = [call EXCEPT ![c] = [r EXCEPT !.stage = "sent"]]
  /\ UNCHANGED <<cast, access, valid, at, state, mishaps>>

\* The guard comes before the body is read and the manager asked.
Enter(c) ==
  /\ call[c].stage = "sent"
  /\ LET refusal == Refusal(c, call[c].op, call[c].queue)
     IN  IF refusal = "none" THEN call' = [call EXCEPT ![c].stage = "let_in"]
         ELSE Answered(c, refusal, Response(refusal))
  /\ UNCHANGED <<cast, access, valid, at, state, mishaps>>

Serve(c) ==
  /\ call[c].stage = "let_in"
  /\ \E o \in Outcomes(c, call[c]) :
       /\ Answered(c, o.says, Response(o.says))
       /\ run' = o.run /\ task' = o.task /\ stored' = o.stored
       /\ reached' = IF GetsAtTask(call[c].op, o.says)
                     THEN reached \cup {[by |-> c, queue |-> call[c].queue]} ELSE reached
  /\ UNCHANGED <<cast, access, valid, at, mishaps>>

\* The manager cannot serve the request: its store fails, or it has a bug.
Breaks(c) ==
  /\ call[c].stage = "let_in"
  /\ Mishap
  /\ Answered(c, "NeorcError", Response("NeorcError"))
  /\ UNCHANGED <<cast, access, valid, at, state>>

\* The network loses a request or a response, or a proxy answers in its place.
Outage(c) ==
  /\ call[c].stage \in {"sent", "answered"}
  /\ Mishap
  /\ \E status \in {0, 200, 403, 409, 502} : Answered(c, call[c].decision, Foreign(status))
  /\ UNCHANGED <<cast, access, valid, at, state>>

Hear(c) ==
  /\ call[c].stage = "answered"
  /\ \E pc \in Goes(c, call[c].op, Heard(call[c])) : at' = [at EXCEPT ![c] = pc]
  /\ call' = [call EXCEPT ![c] = NoCall]
  /\ UNCHANGED <<cast, access, valid, state, mishaps>>

\* A token is revoked or expires, a session is ended.
Revoke(c) ==
  /\ access /\ c \in valid
  /\ Mishap
  /\ valid' = valid \ {c}
  /\ UNCHANGED <<cast, access, at, call, state>>

Next ==
  \E c \in cast :
    Send(c) \/ Enter(c) \/ Serve(c) \/ Breaks(c) \/ Outage(c) \/ Hear(c) \/ Revoke(c)

Spec == Init /\ [][Next]_vars

-----------------------------------------------------------------------------
(* Properties.                                                              *)

\* A program that ended because it was refused has a token that was revoked, or a
\* worker one for another queue than it was told to work on: the routes ask for
\* no permission that its role does not have, whatever the program comes to do.
EndsOnlyForItsToken ==
  \A c \in cast : at[c] = "ended" =>
    access /\ (c \in valid => Kind(c) = "worker" /\ Works(c) # BoundTo(c))

\* "the manager could not serve the request, which is not the same as refusing it,
\* and a caller retries rather than acting on a refusal" (error_from): a program
\* ends, a run is on its way to be failed and a task is dropped only on what the
\* manager decided, never on what a network, a proxy or a failing manager says.
OutagesDecideNothing ==
  [][\A c \in cast :
       /\ at[c] # "ended" /\ at'[c] = "ended" => call[c].decision \in AccessErrors
       /\ at[c] = "apply" /\ at'[c] = "refused" => call[c].decision \in Refusals \ AccessErrors
       /\ at[c] = "claim" /\ at'[c] = "dropped" => call[c].decision = "RunStateError"]_vars

\* With authentication on, a task is received, claimed, kept by a heartbeat and
\* reported with a token of its queue only, although it is named by an id that
\* tells no queue; with another token not even its status can be learned, for "a
\* token learns nothing about other queues' tasks" (manager).
WorkersKeepToQueue == access => \A x \in reached : BoundTo(x.by) = x.queue
=============================================================================
