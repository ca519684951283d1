---------------------------- MODULE HttpApiProofs ----------------------------
(* Proofs about HttpApi, for any callers, queues and documents: what ends a   *)
(* program, what moves it, and whose tasks it reaches.                        *)
EXTENDS HttpApi, TLAPS

-----------------------------------------------------------------------------
(* What the programs ask, and what their roles are let do.                    *)

\* All that a program of a kind ever asks.
OpsOf(c) ==
  CASE Kind(c) = "scheduler" ->
         {"wait_for_events", "get_run", "get_flow", "run_state", "publish_task",
          "start_sub_run", "succeed_run", "fail_run"}
    [] Kind(c) = "worker" -> WorkerCalls
    [] Kind(c) = "script" -> {"claim_task", "extend_lease", "report_finished"}
    [] Kind(c) = "ci" -> {"upload_flows"}
    [] Kind(c) = "trigger" -> {"start_run"}
    [] Kind(c) = "page" -> {"get_run", "cancel_run"}

PlacesOf(c) ==
  CASE Kind(c) = "scheduler" -> {"poll", "read", "refused", "define", "recall", "apply", "fail", "ended"}
    [] Kind(c) = "worker" -> {"prepare", "receive", "dropped", "claim", "work", "ended"}
    [] OTHER -> {"ready", "done", "ended"}

IsCaller(c) == \E among \in Casts : c \in among

LEMMA Callers ==
  ASSUME NEW c, IsCaller(c)
  PROVE  /\ Kind(c) \in {"scheduler", "worker", "script", "ci", "trigger", "page"}
         /\ Kind(c) \in {"worker", "script"} => BoundTo(c) # NoQueue
BY HttpApiAssumption DEF IsCaller

\* The permission of a request is one of its program's role.
LEMMA RolesSuffice ==
  ASSUME NEW c, IsCaller(c), NEW op \in OpsOf(c)
  PROVE  PermissionOf(op) \in PERMISSIONS(Role(c))
<1>1. CASE Kind(c) = "scheduler"
  BY <1>1 DEF OpsOf, PermissionOf, PERMISSIONS, Role
<1>2. CASE Kind(c) \in {"worker", "script"}
  BY <1>2 DEF OpsOf, PermissionOf, PERMISSIONS, QUEUE_PERMISSIONS, Role, WorkerCalls
<1>3. CASE Kind(c) \in {"ci", "trigger", "page"}
  BY <1>3 DEF OpsOf, PermissionOf, PERMISSIONS, Role
<1> QED
  BY <1>1, <1>2, <1>3, Callers

Asked(op, queue, data) ==
  [stage |-> "none", op |-> op, queue |-> queue, data |-> data, decision |-> "none",
   reply |-> NoReply]

\* What is asked anew: one of those, by a worker about the queue it works on.
LEMMA AsksKnown ==
  ASSUME NEW c, IsCaller(c), at[c] \in PlacesOf(c), NEW r \in Asks(c)
  PROVE  /\ r = [stage |-> r.stage, op |-> r.op, queue |-> r.queue, data |-> r.data,
                 decision |-> "none", reply |-> r.reply]
         /\ r.op \in OpsOf(c)
         /\ Kind(c) = "worker" => r.queue = Works(c)
<1>1. \A op, queue : Ask(op, queue) = Asked(op, queue, NoDocument)
  <2> TAKE op, queue
  <2>1. [NoCall EXCEPT !.op = op] = Asked(op, NoQueue, NoDocument)
    BY DEF NoCall, Asked
  <2>2. Ask(op, queue) = [[NoCall EXCEPT !.op = op] EXCEPT !.queue = queue]
    BY DEF Ask
  <2> QED
    BY <2>1, <2>2 DEF Asked
<1>2. CASE Kind(c) = "scheduler"
  <2>1. at[c] # "ended" /\ r \in SchedulerAsks(at[c])
    BY <1>2 DEF Asks
  <2>2. \E op \in OpsOf(c), queue \in Queues \cup {NoQueue} : r = Ask(op, queue)
    BY <1>2, <2>1 DEF PlacesOf, SchedulerAsks, AskAll, OpsOf
  <2> QED
    BY <1>1, <1>2, <2>2 DEF Asked
<1>3. CASE Kind(c) = "worker"
  <2>1. at[c] # "ended" /\ \E op \in WorkerAsks(at[c]) : r = Ask(op, Works(c))
    BY <1>3 DEF Asks, AskAll
  <2>2. \E op \in OpsOf(c) : r = Ask(op, Works(c))
    BY <1>3, <2>1 DEF PlacesOf, WorkerAsks, OpsOf, WorkerCalls
  <2> QED
    BY <1>1, <2>2 DEF Asked
<1>4. CASE Kind(c) = "script"
  <2>1. \E op \in OpsOf(c), queue \in Queues : r = Ask(op, queue)
    BY <1>4 DEF Asks, AskAll, OpsOf
  <2> QED
    BY <1>1, <1>4, <2>1 DEF Asked
<1>5. CASE Kind(c) = "ci"
  <2>1. \E d \in Documents : r = [Ask("upload_flows", NoQueue) EXCEPT !.data = d]
    BY <1>5 DEF Asks
  <2>2. \E d \in Documents : r = Asked("upload_flows", NoQueue, d)
    BY <1>1, <2>1 DEF Asked
  <2> QED
    BY <1>5, <2>2 DEF Asked, OpsOf
<1>6. CASE Kind(c) \in {"trigger", "page"}
  <2>1. \E op \in OpsOf(c) : r = Ask(op, NoQueue)
    BY <1>6 DEF Asks, AskAll, OpsOf
  <2> QED
    BY <1>1, <1>6, <2>1 DEF Asked
<1> QED
  BY <1>2, <1>3, <1>4, <1>5, <1>6, Callers

LEMMA GoesKnown ==
  ASSUME NEW c, IsCaller(c), NEW op, NEW heard, NEW pc \in Goes(c, op, heard)
  PROVE  pc \in PlacesOf(c)
<1>1. CASE Kind(c) = "scheduler"
  BY <1>1 DEF Goes, SchedulerGoes, PlacesOf
<1>2. CASE Kind(c) = "worker"
  BY <1>2 DEF Goes, WorkerGoes, PlacesOf
<1>3. CASE Kind(c) \notin {"scheduler", "worker"}
  BY <1>3 DEF Goes, PlacesOf
<1> QED
  BY <1>1, <1>2, <1>3

-----------------------------------------------------------------------------
(* What the manager decides.                                                  *)

\* The manager itself never answers that it does not know who is calling, or that
\* they may not: the guard does.
LEMMA OutcomesSay ==
  ASSUME NEW c, NEW r, r.op \in OpsOf(c), IsCaller(c), run \in {"active", "over"},
         NEW o \in Outcomes(c, r)
  PROVE  o.says \notin AccessErrors /\ o.run \in {"active", "over"}
<1>1. \A says : Same(says).says = says /\ Same(says).run = run /\ Ends(says).says = says
                /\ Ends(says).run = "over"
  BY DEF Same, Ends
<1>2. \A queue, status : /\ Becomes(queue, status).says = "done"
                         /\ Becomes(queue, status).run = run
  BY DEF Same, Becomes
<1>3. \A queue, status, says :
        /\ [Becomes(queue, status) EXCEPT !.says = says].says = says
        /\ [Becomes(queue, status) EXCEPT !.says = says].run = run
  BY DEF Same, Becomes
<1>4. \A data : /\ [Same("done") EXCEPT !.stored = @ \cup {data}].says = "done"
                /\ [Same("done") EXCEPT !.stored = @ \cup {data}].run = run
  BY DEF Same
<1>5. CASE r.op = "upload_flows"
  <2>1. o \in UploadOutcomes(r.data)
    BY <1>5 DEF Outcomes
  <2>2. o.says \in {"done", "InvalidValueError", "FlowDefinitionError"} /\ o.run = run
    BY <1>1, <1>4, <2>1 DEF UploadOutcomes
  <2> QED
    BY <2>2 DEF AccessErrors
<1>6. CASE r.op \in {"start_run", "task_definitions", "get_flow", "get_run", "run_state",
                   "wait_for_events"}
  BY <1>1, <1>6 DEF Outcomes, AccessErrors
<1>7. CASE r.op = "receive_task"
  <2>1. o \in ReceiveOutcomes(r.queue)
    BY <1>7 DEF Outcomes
  <2>2. o = Same("nothing")
        \/ o = [Becomes(r.queue, "received") EXCEPT !.says = "delivery"]
    BY <2>1 DEF ReceiveOutcomes
  <2> DEFINE given == [Becomes(r.queue, "received") EXCEPT !.says = "delivery"]
  <2>3. given.says = "delivery" /\ given.run = run
    BY <1>3
  <2>4. o.says \in {"nothing", "delivery"} /\ o.run = run
    BY <1>1, <2>2, <2>3
  <2> QED
    BY <2>4 DEF AccessErrors
<1>8. CASE r.op \in {"claim_task", "extend_lease", "report_finished"}
  <2>1. o = Same("TaskNotFoundError") \/ o \in TaskOutcomes(r.op, r.queue)
    BY <1>8 DEF Outcomes
  <2>2. ASSUME o \in ClaimOutcomes(r.queue)
        PROVE  o.says \in {"done", "RunStateError"} /\ o.run = run
    <3> DEFINE dropped == [Becomes(r.queue, "failed") EXCEPT !.says = "RunStateError"]
    <3>1. o = Becomes(r.queue, "running") \/ o = dropped
      BY <2>2 DEF ClaimOutcomes
    <3>2. dropped.says = "RunStateError" /\ dropped.run = run
      BY <1>3
    <3> HIDE DEF dropped
    <3> QED
      BY <1>2, <3>1, <3>2
  <2>3. o.says \in {"TaskNotFoundError", "TaskStateError", "done", "RunStateError"}
        /\ o.run = run
    BY <1>1, <1>2, <1>8, <2>1, <2>2 DEF TaskOutcomes
  <2> QED
    BY <2>3 DEF AccessErrors
<1>9. CASE r.op \in {"publish_task", "start_sub_run", "succeed_run", "fail_run", "cancel_run"}
  BY <1>1, <1>2, <1>9 DEF Outcomes, RunOutcomes, AccessErrors
<1> QED
  BY <1>5, <1>6, <1>7, <1>8, <1>9, Callers DEF OpsOf, WorkerCalls

\* What a call gets at a task it gets with a token of the task's queue.
LEMMA OutcomesKeepToQueue ==
  ASSUME NEW c, IsCaller(c), NEW r, r.op \in OpsOf(c), access,
         NamesQueue(r.op) => r.queue = BoundTo(c),
         NEW o \in Outcomes(c, r), GetsAtTask(r.op, o.says)
  PROVE  BoundTo(c) = r.queue
<1>1. Kind(c) \in {"worker", "script"}
  BY Callers DEF OpsOf, GetsAtTask
<1>2. CASE NamesQueue(r.op)
  BY <1>2
<1>3. CASE r.op \in Ensured
  <2>1. CASE OnQueue(c, r.queue)
    BY <1>1, <2>1, Callers DEF OnQueue
  <2>2. CASE ~ OnQueue(c, r.queue)
    <3>1. o = Same("TaskNotFoundError")
      BY <1>3, <2>2 DEF Outcomes, Ensured
    <3>2. o.says = "TaskNotFoundError"
      BY <3>1 DEF Same
    <3> QED
      BY <3>2 DEF GetsAtTask
  <2> QED
    BY <2>1, <2>2
<1> QED
  BY <1>2, <1>3 DEF GetsAtTask, NamesQueue, Ensured

-----------------------------------------------------------------------------
(* What is heard.                                                             *)

Statuses == {0, 200, 403, 409, 502}

\* A reply comes from the manager, with its decision, or from elsewhere.
IsReplyTo(reply, decision) ==
  reply = Response(decision) \/ \E status \in Statuses : reply = Foreign(status)

LEMMA ServerErrors ==
  ASSUME NEW reply, reply.status = 500
  PROVE  /\ reply.status # 0 /\ reply.status # 200
         /\ ErrorFrom(reply) = "ManagerUnavailableError"
BY DEF ErrorFrom

LEMMA NamedErrors ==
  ASSUME NEW reply, reply.names \in CoreErrors,
         reply.status \in {422, 413, 409, 401, 403, 404}
  PROVE  reply.status # 0 /\ reply.status # 200 /\ ErrorFrom(reply) = reply.names
BY DEF ErrorFrom

\* An error that a client raises is the manager's own, unless it says that the
\* manager is not there.
LEMMA Crossing ==
  ASSUME NEW r, IsReplyTo(r.reply, r.decision), Heard(r) \in CoreErrors
  PROVE  Heard(r) = r.decision /\ r.decision \in Refusals
<1>1. CASE \E status \in Statuses : r.reply = Foreign(status)
  <2>1. PICK status \in Statuses : r.reply = Foreign(status)
    BY <1>1
  <2>2. "ManagerUnavailableError" \notin CoreErrors /\ "none" \notin CoreErrors
        /\ "done" \notin CoreErrors
    BY DEF CoreErrors, Refusals, AccessErrors
  <2>3. Heard(r) \in {"ManagerUnavailableError", "done"}
    BY <2>1, <2>2 DEF Heard, Foreign, ErrorFrom
  <2> QED
    BY <2>2, <2>3
<1>2. CASE r.reply = Response(r.decision)
  <2>1. CASE r.decision \notin CoreErrors
    BY <1>2, <2>1 DEF Heard, Response, CoreErrors, Refusals, AccessErrors
  <2>2. CASE r.decision = "NeorcError"
    <3>1. r.reply.status = 500
      BY <1>2, <2>2 DEF Response, CoreErrors, STATUS_OF
    <3>2. Heard(r) = "ManagerUnavailableError"
      BY <3>1, ServerErrors DEF Heard
    <3> QED
      BY <3>2 DEF CoreErrors, Refusals, AccessErrors
  <2>3. CASE r.decision \in Refusals
    <3>1. STATUS_OF(r.decision) \in {422, 413, 409, 401, 403, 404}
      BY <2>3 DEF Refusals, AccessErrors, STATUS_OF
    <3>2. r.reply.status = STATUS_OF(r.decision) /\ r.reply.names = r.decision
      BY <1>2, <2>3 DEF Response, CoreErrors
    <3>3. r.reply.names \in CoreErrors
      BY <2>3, <3>2 DEF CoreErrors
    <3> QED
      BY <2>3, <3>1, <3>2, <3>3, NamedErrors DEF Heard
  <2> QED
    BY <2>1, <2>2, <2>3 DEF CoreErrors
<1> QED
  BY <1>1, <1>2 DEF IsReplyTo

-----------------------------------------------------------------------------
(* The invariant.                                                             *)

\* The token is not accepted, or it is one for another queue.
TokenRefused(c) ==
  access /\ (c \in valid => Kind(c) = "worker" /\ Works(c) # BoundTo(c))

IsCall(r) == DOMAIN r = {"stage", "op", "queue", "data", "decision", "reply"}

\* A request under way is one of its program's; past the guard it is about the
\* queue of its token; what it is answered with is the manager's decision or
\* comes from elsewhere, and is an access error only for the token.
InOrder(c, r) ==
  /\ IsCall(r)
  /\ r.stage \in {"none", "sent", "let_in", "answered"}
  /\ r.stage # "none" => r.op \in OpsOf(c) /\ (Kind(c) = "worker" => r.queue = Works(c))
  /\ r.stage = "let_in" /\ access /\ NamesQueue(r.op) => r.queue = BoundTo(c)
  /\ r.stage = "answered" => IsReplyTo(r.reply, r.decision)
  /\ r.decision \in AccessErrors => TokenRefused(c)

ApiInv ==
  /\ cast \in Casts
  /\ run \in {"active", "over"}
  /\ at = [c \in cast |-> at[c]] /\ call = [c \in cast |-> call[c]]
  /\ \A c \in cast : at[c] \in PlacesOf(c) /\ InOrder(c, call[c])
  /\ EndsOnlyForItsToken
  /\ WorkersKeepToQueue

LEMMA NoCallShape ==
  IsCall(NoCall) /\ NoCall.stage = "none" /\ NoCall.decision = "none"
BY DEF NoCall, IsCall

LEMMA ApiInvInit == Init => ApiInv
<1> SUFFICES ASSUME Init
             PROVE  ApiInv
  OBVIOUS
<1>1. \A c \in cast : IsCaller(c)
  BY DEF Init, IsCaller
<1>2. \A c \in cast : Begins(c) \in PlacesOf(c) /\ Begins(c) # "ended"
  BY <1>1, Callers DEF Begins, PlacesOf
<1>3. \A c \in cast : InOrder(c, NoCall)
  BY NoCallShape DEF InOrder, AccessErrors
<1> QED
  BY <1>2, <1>3 DEF Init, ApiInv, EndsOnlyForItsToken, WorkersKeepToQueue

\* A step of the request of one program that leaves tokens and places alone.
LEMMA CallMoves ==
  ASSUME ApiInv, NEW c \in cast, NEW r, call' = [call EXCEPT ![c] = r], InOrder(c, r),
         UNCHANGED <<cast, access, valid, at>>, run' \in {"active", "over"},
         WorkersKeepToQueue'
  PROVE  ApiInv'
<1>1. \A d \in cast : call'[d] = IF d = c THEN r ELSE call[d]
  BY DEF ApiInv
<1>2. \A d, s : InOrder(d, s)' <=> InOrder(d, s)
  BY DEF InOrder, TokenRefused
<1> QED
  BY <1>1, <1>2 DEF ApiInv, EndsOnlyForItsToken, PlacesOf

-----------------------------------------------------------------------------
(* Its steps.                                                                 *)

LEMMA SendStep == ASSUME ApiInv, NEW c \in cast, Send(c) PROVE ApiInv'
<1>1. PICK r \in Asks(c) : call' = [call EXCEPT ![c] = [r EXCEPT !.stage = "sent"]]
  BY DEF Send
<1>2. IsCaller(c) /\ at[c] \in PlacesOf(c)
  BY DEF ApiInv, IsCaller
<1> DEFINE s == [r EXCEPT !.stage = "sent"]
<1>3. s = [stage |-> "sent", op |-> r.op, queue |-> r.queue, data |-> r.data,
           decision |-> "none", reply |-> r.reply]
  BY <1>2, AsksKnown
<1>4. r.op \in OpsOf(c) /\ (Kind(c) = "worker" => r.queue = Works(c))
  BY <1>2, AsksKnown
<1>5. InOrder(c, s)
  BY <1>3, <1>4 DEF InOrder, IsCall, AccessErrors
<1> HIDE DEF s
<1> QED
  BY <1>1, <1>5, CallMoves DEF Send, state, ApiInv, WorkersKeepToQueue, s

\* The request of c is answered.
LEMMA AnsweredShape ==
  ASSUME ApiInv, NEW c \in cast, NEW decision, NEW reply, Answered(c, decision, reply)
  PROVE  \E r : /\ call' = [call EXCEPT ![c] = r]
                /\ IsCall(r) /\ r.stage = "answered" /\ r.op = call[c].op
                /\ r.queue = call[c].queue /\ r.decision = decision /\ r.reply = reply
<1> DEFINE r1 == [call[c] EXCEPT !.stage = "answered"]
           r2 == [r1 EXCEPT !.decision = decision]
           r3 == [r2 EXCEPT !.reply = reply]
<1>1. IsCall(call[c])
  BY DEF ApiInv, InOrder
<1>2. IsCall(r1) /\ r1.stage = "answered" /\ r1.op = call[c].op /\ r1.queue = call[c].queue
  BY <1>1 DEF IsCall
<1>3. /\ IsCall(r2) /\ r2.stage = r1.stage /\ r2.op = r1.op /\ r2.queue = r1.queue
      /\ r2.decision = decision
  BY <1>2 DEF IsCall
<1>4. /\ IsCall(r3) /\ r3.stage = r2.stage /\ r3.op = r2.op /\ r3.queue = r2.queue
      /\ r3.decision = r2.decision /\ r3.reply = reply
  BY <1>3 DEF IsCall
<1>5. call' = [call EXCEPT ![c] = r3]
  BY DEF Answered, ApiInv
<1> HIDE DEF r1, r2, r3
<1> QED
  BY <1>2, <1>3, <1>4, <1>5

LEMMA EnterStep == ASSUME ApiInv, NEW c \in cast, Enter(c) PROVE ApiInv'
<1> DEFINE q == call[c]
           refusal == Refusal(c, q.op, q.queue)
<1>1. /\ IsCall(q) /\ q.stage = "sent" /\ q.op \in OpsOf(c) /\ IsCaller(c)
      /\ Kind(c) = "worker" => q.queue = Works(c)
      /\ q.decision \in AccessErrors => TokenRefused(c)
  BY DEF Enter, ApiInv, InOrder, IsCaller
<1>2. WorkersKeepToQueue' /\ run' \in {"active", "over"}
  BY DEF Enter, state, ApiInv, WorkersKeepToQueue
<1>3. CASE refusal = "none"
  <2> DEFINE r == [q EXCEPT !.stage = "let_in"]
  <2>1. IsCall(r) /\ r.stage = "let_in" /\ r.op = q.op /\ r.queue = q.queue
        /\ r.decision = q.decision
    BY <1>1 DEF IsCall
  <2>2. access /\ NamesQueue(q.op) => q.queue = BoundTo(c)
    BY <1>3 DEF Refusal, Authorize
  <2>3. call' = [call EXCEPT ![c] = r]
    BY <1>3 DEF Enter, ApiInv
  <2> HIDE DEF r
  <2>4. InOrder(c, r)
    BY <1>1, <2>1, <2>2 DEF InOrder
  <2> QED
    BY <1>2, <2>3, <2>4, CallMoves DEF Enter
<1>4. CASE refusal # "none"
  <2>1. Answered(c, refusal, Response(refusal))
    BY <1>4 DEF Enter
  <2>2. PICK r : /\ call' = [call EXCEPT ![c] = r]
                 /\ IsCall(r) /\ r.stage = "answered" /\ r.op = q.op
                 /\ r.queue = q.queue /\ r.decision = refusal /\ r.reply = Response(refusal)
    BY <2>1, AnsweredShape
  <2>3. access /\ (c \in valid => NamesQueue(q.op) /\ q.queue # BoundTo(c))
    BY <1>1, <1>4, RolesSuffice DEF Refusal, Authorize
  <2>4. NamesQueue(q.op) => Kind(c) = "worker"
    BY <1>1, Callers DEF NamesQueue, OpsOf
  <2>5. TokenRefused(c)
    BY <1>1, <2>3, <2>4 DEF TokenRefused
  <2>6. InOrder(c, r)
    BY <1>1, <2>2, <2>5 DEF InOrder, IsReplyTo
  <2> QED
    BY <1>2, <2>2, <2>6, CallMoves DEF Enter
<1> QED
  BY <1>3, <1>4

LEMMA ServeStep == ASSUME ApiInv, NEW c \in cast, Serve(c) PROVE ApiInv'
<1> DEFINE q == call[c]
<1>1. PICK o \in Outcomes(c, q) :
        /\ Answered(c, o.says, Response(o.says))
        /\ run' = o.run
        /\ reached' = IF GetsAtTask(q.op, o.says)
                      THEN reached \cup {[by |-> c, queue |-> q.queue]} ELSE reached
  BY DEF Serve
<1>2. /\ q.stage = "let_in" /\ q.op \in OpsOf(c) /\ IsCaller(c)
      /\ Kind(c) = "worker" => q.queue = Works(c)
      /\ access /\ NamesQueue(q.op) => q.queue = BoundTo(c)
      /\ run \in {"active", "over"}
  BY DEF Serve, ApiInv, InOrder, IsCaller
<1>3. PICK r : /\ call' = [call EXCEPT ![c] = r]
               /\ IsCall(r) /\ r.stage = "answered" /\ r.op = q.op
               /\ r.queue = q.queue /\ r.decision = o.says /\ r.reply = Response(o.says)
  BY <1>1, AnsweredShape
<1>4. o.says \notin AccessErrors /\ o.run \in {"active", "over"}
  BY <1>2, OutcomesSay
<1>5. InOrder(c, r)
  BY <1>2, <1>3, <1>4 DEF InOrder, IsReplyTo
<1>6. WorkersKeepToQueue'
  <2>1. access /\ GetsAtTask(q.op, o.says) => BoundTo(c) = q.queue
    BY <1>2, OutcomesKeepToQueue
  <2> QED
    BY <1>1, <2>1 DEF Serve, ApiInv, WorkersKeepToQueue
<1> QED
  BY <1>1, <1>3, <1>4, <1>5, <1>6, CallMoves DEF Serve

\* The manager breaks, or the network does: neither is a refusal.
LEMMA FailureStep ==
  ASSUME ApiInv, NEW c \in cast, Breaks(c) \/ Outage(c)
  PROVE  ApiInv'
<1> DEFINE q == call[c]
<1>1. /\ q.stage \in {"sent", "let_in", "answered"} /\ q.op \in OpsOf(c)
      /\ Kind(c) = "worker" => q.queue = Works(c)
      /\ q.decision \in AccessErrors => TokenRefused(c)
  BY DEF Breaks, Outage, ApiInv, InOrder
<1>2. PICK decision, reply :
        /\ Answered(c, decision, reply) /\ IsReplyTo(reply, decision)
        /\ decision = "NeorcError" \/ decision = q.decision
  BY DEF Breaks, Outage, IsReplyTo, Statuses
<1>3. PICK r : /\ call' = [call EXCEPT ![c] = r]
               /\ IsCall(r) /\ r.stage = "answered" /\ r.op = q.op
               /\ r.queue = q.queue /\ r.decision = decision /\ r.reply = reply
  BY <1>2, AnsweredShape
<1>4. InOrder(c, r)
  BY <1>1, <1>2, <1>3 DEF InOrder, AccessErrors
<1> QED
  BY <1>3, <1>4, CallMoves DEF Breaks, Outage, state, ApiInv, WorkersKeepToQueue

LEMMA HearStep == ASSUME ApiInv, NEW c \in cast, Hear(c) PROVE ApiInv'
<1> DEFINE q == call[c]
<1>1. PICK pc \in Goes(c, q.op, Heard(q)) : at' = [at EXCEPT ![c] = pc]
  BY DEF Hear
<1>2. /\ q.stage = "answered" /\ IsReplyTo(q.reply, q.decision) /\ IsCaller(c)
      /\ q.decision \in AccessErrors => TokenRefused(c)
  BY DEF Hear, ApiInv, InOrder, IsCaller
<1>3. pc \in PlacesOf(c)
  BY <1>1, <1>2, GoesKnown
<1>4. ASSUME pc = "ended" PROVE TokenRefused(c)
  <2>1. Heard(q) \in AccessErrors
    BY <1>1, <1>4 DEF Goes, SchedulerGoes, WorkerGoes
  <2> QED
    BY <1>2, <2>1, Crossing DEF CoreErrors, Refusals
<1>5. InOrder(c, NoCall)
  BY NoCallShape DEF InOrder, AccessErrors
<1>6. \A d, s : InOrder(d, s)' <=> InOrder(d, s)
  BY DEF Hear, InOrder, TokenRefused
<1>7. at = [d \in cast |-> at[d]] /\ call = [d \in cast |-> call[d]]
  BY DEF ApiInv
<1>8. EndsOnlyForItsToken'
  <2>1. \A d \in cast : at'[d] = IF d = c THEN pc ELSE at[d]
    BY <1>1, <1>7
  <2> QED
    BY <1>4, <2>1 DEF Hear, ApiInv, EndsOnlyForItsToken, TokenRefused
<1>9. ASSUME NEW d \in cast
      PROVE  at'[d] \in PlacesOf(d) /\ InOrder(d, call'[d])
  <2>1. at[d] \in PlacesOf(d) /\ InOrder(d, call[d])
    BY DEF ApiInv
  <2>2. CASE d = c
    <3>1. at'[d] = pc /\ call'[d] = NoCall
      BY <1>1, <1>7, <2>2 DEF Hear
    <3> QED
      BY <1>3, <1>5, <2>2, <3>1
  <2>3. CASE d # c
    <3>1. at'[d] = at[d] /\ call'[d] = call[d]
      BY <1>1, <1>7, <2>3 DEF Hear
    <3> QED
      BY <2>1, <3>1
  <2> QED
    BY <2>2, <2>3
<1>10. at' = [d \in cast |-> at'[d]] /\ call' = [d \in cast |-> call'[d]]
  BY <1>1 DEF Hear, ApiInv
<1> QED
  BY <1>6, <1>8, <1>9, <1>10 DEF Hear, state, ApiInv, WorkersKeepToQueue, PlacesOf

LEMMA RevokeStep == ASSUME ApiInv, NEW c \in cast, Revoke(c) PROVE ApiInv'
<1>1. \A d : TokenRefused(d) => TokenRefused(d)'
  BY DEF Revoke, TokenRefused
<1>2. \A d, r : InOrder(d, r) => InOrder(d, r)'
  BY <1>1 DEF Revoke, InOrder
<1> QED
  BY <1>2 DEF Revoke, state, ApiInv, EndsOnlyForItsToken, WorkersKeepToQueue, PlacesOf

LEMMA ApiInvariant == Spec => []ApiInv
<1>1. ApiInv /\ [Next]_vars => ApiInv'
  <2> SUFFICES ASSUME ApiInv, [Next]_vars
               PROVE  ApiInv'
    OBVIOUS
  <2>1. CASE UNCHANGED vars
    BY <2>1 DEF vars, state, ApiInv, PlacesOf, InOrder, TokenRefused, EndsOnlyForItsToken,
                WorkersKeepToQueue
  <2>2. CASE Next
    BY <2>2, SendStep, EnterStep, ServeStep, FailureStep, HearStep, RevokeStep DEF Next
  <2> QED
    BY <2>1, <2>2
<1> QED
  BY <1>1, ApiInvInit, PTL DEF Spec

-----------------------------------------------------------------------------
(* The theorems.                                                              *)

\* A program ends only when its token is revoked, or is for another queue than it
\* works on: whatever a program comes to ask, its role is let do.
THEOREM EndsForTokenOnly == Spec => []EndsOnlyForItsToken
<1>1. ApiInv => EndsOnlyForItsToken
  BY DEF ApiInv
<1> QED
  BY <1>1, ApiInvariant, PTL

\* With authentication on, a task is received, claimed, kept by a heartbeat,
\* reported or asked after with a token of its queue only.
THEOREM TokensKeepToQueue == Spec => []WorkersKeepToQueue
<1>1. ApiInv => WorkersKeepToQueue
  BY DEF ApiInv
<1> QED
  BY <1>1, ApiInvariant, PTL

MovesOnDecisions ==
  \A c \in cast :
    /\ at[c] # "ended" /\ at'[c] = "ended" => call[c].decision \in AccessErrors
    /\ at[c] = "apply" /\ at'[c] = "refused" => call[c].decision \in Refusals \ AccessErrors
    /\ at[c] = "claim" /\ at'[c] = "dropped" => call[c].decision = "RunStateError"

LEMMA HearsDecisions ==
  ASSUME ApiInv, NEW c \in cast, Hear(c)
  PROVE  MovesOnDecisions
<1> DEFINE q == call[c]
<1>1. PICK pc \in Goes(c, q.op, Heard(q)) : at' = [at EXCEPT ![c] = pc]
  BY DEF Hear
<1>2. IsReplyTo(q.reply, q.decision)
  BY DEF Hear, ApiInv, InOrder
<1>3. Heard(q) \in CoreErrors => Heard(q) = q.decision /\ q.decision \in Refusals
  BY <1>2, Crossing
<1>4. \A d \in cast : at'[d] = IF d = c THEN pc ELSE at[d]
  BY <1>1 DEF ApiInv
<1>5. pc = "ended" => Heard(q) \in AccessErrors
  BY <1>1 DEF Goes, SchedulerGoes, WorkerGoes
<1>6. at[c] = "apply" /\ pc = "refused" => Heard(q) \in CoreErrors \ AccessErrors
  BY <1>1 DEF Goes, SchedulerGoes, WorkerGoes
<1>7. at[c] = "claim" /\ pc = "dropped" => Heard(q) = "RunStateError"
  BY <1>1 DEF Goes, SchedulerGoes, WorkerGoes
<1>8. "RunStateError" \in CoreErrors /\ AccessErrors \subseteq CoreErrors
  BY DEF CoreErrors, Refusals
<1>9. /\ at[c] # "ended" /\ pc = "ended" => q.decision \in AccessErrors
      /\ at[c] = "apply" /\ pc = "refused" => q.decision \in Refusals \ AccessErrors
      /\ at[c] = "claim" /\ pc = "dropped" => q.decision = "RunStateError"
  BY <1>3, <1>5, <1>6, <1>7, <1>8
<1> QED
  BY <1>4, <1>9 DEF MovesOnDecisions

\* A program ends, fails a run or drops a task only on what the manager decided,
\* never on what a network, a proxy or a failing manager says.
THEOREM DecisionsDecide == Spec => OutagesDecideNothing
<1>1. ApiInv /\ [Next]_vars => [MovesOnDecisions]_vars
  <2> SUFFICES ASSUME ApiInv, Next
               PROVE  MovesOnDecisions
    OBVIOUS
  <2>1. PICK c \in cast :
          Send(c) \/ Enter(c) \/ Serve(c) \/ Breaks(c) \/ Outage(c) \/ Hear(c) \/ Revoke(c)
    BY DEF Next
  <2>2. CASE Hear(c)
    BY <2>2, HearsDecisions
  <2>3. CASE at' = at
    BY <2>3 DEF MovesOnDecisions
  <2> QED
    BY <2>1, <2>2, <2>3 DEF Send, Enter, Serve, Breaks, Outage, Revoke
<1> QED
  BY <1>1, ApiInvariant, PTL DEF Spec, OutagesDecideNothing, MovesOnDecisions
=============================================================================
