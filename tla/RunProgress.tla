---------------------------- MODULE RunProgress ----------------------------
(***************************************************************************)
(* One run, from its start to its end, moved forward by the scheduler,     *)
(* which plans from a snapshot of its state and applies the actions one    *)
(* call at a time, while workers finish what was started.  A deployment    *)
(* has one scheduler, but a call it lost (a timeout, a crash) may still be *)
(* under way when it, or the one started in its place, plans again.        *)
(*                                                                         *)
(* A sub-flow run is one step here, as the planner sees it.  Definitions   *)
(* marked as slips are there for the runs, as in Planner.                  *)
(***************************************************************************)
EXTENDS Planner

CONSTANTS
  Flows,             \* the names of the flows that may run
  DefinitionOf(_),   \* the definition of each
  Returns(_, _),     \* what the handler of a step of a flow may return
  MaxLost(_)         \* bound: calls lost in a run of a flow

VARIABLES
  flow,     \* the name of the flow that runs
  status,   \* of the run
  steps,    \* RunState.steps
  plan,     \* the actions the scheduler has yet to apply
  late,     \* the lost actions the manager may still carry out
  lost      \* how many calls were lost

vars == <<flow, status, steps, plan, late, lost>>

Definition == DefinitionOf(flow)
\* Inputs are given when the run is started, and none is a list.
State == [inputs |-> [name \in Definition.inputs |-> Other], steps |-> steps]
StepNamed(name) == (CHOOSE w \in Walk(Definition.steps, <<>>) : w.step.name = name).step

Init ==
  /\ flow \in Flows
  /\ status = "active"
  /\ steps = <<>>
  /\ plan = <<>>
  /\ late = {}
  /\ lost = 0

-----------------------------------------------------------------------------
\* Scheduler.advance up to the plan: the run is active, its state is read.
MakePlan ==
  /\ plan = <<>>
  /\ status = "active"
  /\ plan' = Plan(Definition, State)
  /\ plan' # <<>>
  /\ UNCHANGED <<flow, status, steps, late, lost>>

\* Whether the manager accepts a request of the scheduler for an active run:
\* the inputs of a step, or the output of the run, have to be available.
Accepted(action) ==
  CASE action.do \in {"publish", "start"} ->
         InputsOf(Definition, State, StepNamed(action.at.step), action.at) = "value"
    [] action.do = "succeed" ->
         \/ Definition.output = NoReference
         \/ Resolve(Definition, State, NoConsumer, Definition.output).got = "value"
    [] action.do = "fail" -> TRUE

\* Slip: publishing an address again starts it over.
CarryAfresh(action) ==
  CASE action.do \in {"publish", "start"} ->
         /\ steps' = (action.at :> [outcome |-> "running", value |-> Other]) @@ steps
         /\ UNCHANGED status
    [] action.do = "succeed" -> status' = "succeeded" /\ UNCHANGED steps
    [] action.do = "fail" -> status' = "failed" /\ UNCHANGED steps

\* The request as the manager and the store carry it out: an address started
\* before is left as it is.
Carry(action) ==
  CASE action.do \in {"publish", "start"} ->
         /\ steps' = IF Started(State, action.at) THEN steps
                     ELSE steps @@ (action.at :> [outcome |-> "running", value |-> Other])
         /\ UNCHANGED status
    [] action.do = "succeed" -> status' = "succeeded" /\ UNCHANGED steps
    [] action.do = "fail" -> status' = "failed" /\ UNCHANGED steps

\* One turn of the loop over the actions, for a run that is still active: a
\* refused request fails the run and ends the plan (Scheduler._rejected).
Apply ==
  /\ plan # <<>>
  /\ status = "active"
  /\ IF Accepted(Head(plan))
     THEN Carry(Head(plan)) /\ plan' = Tail(plan)
     ELSE status' = "failed" /\ plan' = <<>> /\ UNCHANGED steps
  /\ UNCHANGED <<flow, late, lost>>

\* The run ended meanwhile: the request is refused, the rest is not asked.
GiveUp ==
  /\ plan # <<>>
  /\ status # "active"
  /\ plan' = <<>>
  /\ UNCHANGED <<flow, status, steps, late, lost>>

\* The scheduler crashes, or gives up waiting for the reply: the rest of the
\* plan is gone, the call itself may never arrive or arrive late.
LoseCall ==
  /\ plan # <<>>
  /\ lost < MaxLost(flow)
  /\ lost' = lost + 1
  /\ late' \in {late, late \cup {Head(plan)}}
  /\ plan' = <<>>
  /\ UNCHANGED <<flow, status, steps>>

\* A late call is served; nobody waits for the answer.
LateCall(action) ==
  /\ action \in late
  /\ IF status = "active" /\ Accepted(action) THEN Carry(action) ELSE UNCHANGED <<status, steps>>
  /\ late' = late \ {action}
  /\ UNCHANGED <<flow, plan, lost>>

\* A worker reports a result or a sub-flow run succeeds.
StepSucceeds(a) ==
  /\ steps[a].outcome = "running"
  /\ \E value \in Returns(flow, a.step) :
       steps' = [steps EXCEPT ![a] = [outcome |-> "succeeded", value |-> value]]
  /\ UNCHANGED <<flow, status, plan, late, lost>>

StepFails(a) ==
  /\ steps[a].outcome = "running"
  /\ steps' = [steps EXCEPT ![a] = [outcome |-> "failed", value |-> Other]]
  /\ UNCHANGED <<flow, status, plan, late, lost>>

\* The run is over and nothing is under way.
Over ==
  /\ status # "active"
  /\ plan = <<>> /\ late = {}
  /\ \A a \in DOMAIN steps : steps[a].outcome # "running"
  /\ UNCHANGED vars

Next ==
  \/ MakePlan
  \/ Apply
  \/ GiveUp
  \/ LoseCall
  \/ \E action \in late : LateCall(action)
  \/ \E a \in DOMAIN steps : StepSucceeds(a) \/ StepFails(a)
  \/ Over

CanPlan == plan = <<>> /\ status = "active" /\ Plan(Definition, State) # <<>>
CanFinish == \E a \in DOMAIN steps : steps[a].outcome = "running"

\* The scheduler keeps planning and applying; a task that was published is
\* finished, since it is delivered again until a worker reports.  Each is weak
\* fairness with the enabling condition written out: TLC evaluates ENABLED of a
\* planner step too slowly.  The calls lost are bounded.
Fairness ==
  /\ <>[]CanPlan => []<><<MakePlan>>_vars
  /\ <>[](plan # <<>>) => []<><<Apply \/ GiveUp \/ LoseCall>>_vars
  /\ <>[]CanFinish => []<><<\E a \in DOMAIN steps : StepSucceeds(a) \/ StepFails(a)>>_vars

Spec == Init /\ [][Next]_vars /\ Fairness

-----------------------------------------------------------------------------
(* Properties.                                                              *)

\* A run never waits for nothing: while it is active and no step of it is under
\* way, plan has an action for it.
NeverStuck ==
  status = "active" /\ (\A a \in DOMAIN steps : steps[a].outcome # "running")
    => Plan(Definition, State) # <<>>

PlanNow == ToSet(Plan(Definition, State))
StartsIn(actions) == {action \in actions : action.do \in {"publish", "start"}}
PlanWithStarted(a) ==
  ToSet(Plan(Definition, [State EXCEPT
    !.steps = (a :> [outcome |-> "running", value |-> Other]) @@ @]))

\* A plan starts only what is not started, and lets the run succeed only when
\* nothing is under way and there is nothing else to do.
SoundNow(planned) ==
  /\ \A action \in StartsIn(planned) : ~ Started(State, action.at)
  /\ SucceedRun \in planned =>
       planned = {SucceedRun} /\ \A a \in DOMAIN steps : steps[a].outcome # "running"

\* A plan is sound when it is made and safe to apply however old it is: as long
\* as the run is active the manager accepts every action yet to be applied, and
\* every late one; none that starts a step comes when the run is ready to succeed
\* without it, or makes the scheduler do what it would not have done anyway.
StalePlansSafe ==
  status = "active" =>
    LET planned == PlanNow
        asked == late \cup ToSet(plan)
    IN  /\ SoundNow(planned)
        /\ \A action \in asked : Accepted(action)
        /\ \A action \in StartsIn(asked) :
             ~ Started(State, action.at) =>
               SucceedRun \notin planned /\ PlanWithStarted(action.at) \subseteq planned

\* The loops and fan-outs around the step at a, with its number in each.
Around(a) ==
  LET around == Enclosing(Definition, a.step)
  IN  [i \in DOMAIN around |-> [container |-> around[i], number |-> a.scope[i][2],
                                scope |-> SubSeq(a.scope, 1, i - 1)]]

\* What a started step refers to is settled: every instance of it, within the
\* loops and fan-outs both are in, had succeeded and no further one appears.
InputsSettled ==
  \A a \in DOMAIN steps : \A ref \in References(StepNamed(a.step)) :
    LET shared == Shared(Names(Enclosing(Definition, a.step)),
                         Names(Enclosing(Definition, ref.name)))
    IN  NamesStep(ref) =>
          \A b \in DOMAIN steps :
            b.step = ref.name /\ IsPrefix(SubSeq(a.scope, 1, shared), b.scope)
              => steps[b].outcome = "succeeded"

\* A run succeeds only when nothing it started is left under way or failed, each
\* step outside loops and fan-outs ran, and the exit task of the last iteration
\* of each loop returned true.
SucceededIsComplete ==
  status = "succeeded" =>
    /\ \A a \in DOMAIN steps : steps[a].outcome = "succeeded"
    /\ \A i \in DOMAIN Definition.steps :
         ~ IsContainer(Definition.steps[i])
           => At(Definition.steps[i].name, <<>>) \in DOMAIN steps
    /\ \A a \in DOMAIN steps : \A i \in DOMAIN Around(a) :
         LET c == Around(a)[i]
             last == LastIn(State, c.scope, c.container.name)
         IN  c.container.kind = "loop" =>
               steps[At(c.container.exit_condition,
                        Append(c.scope, <<c.container.name, last>>))].value = True

\* The instances of a step that have succeeded, and what they returned.
DoneOf(name) == {a \in DOMAIN steps : a.step = name /\ steps[a].outcome = "succeeded"}
ReturnedBy(name) == {steps[a].value : a \in DoneOf(name)}

\* What a fan-out is over came out as something that is no list.
ListUnfit(c) ==
  c.over.namespace = "inputs" \/ \E value \in ReturnedBy(c.over.name) : value.is # "list"

\* A branch of a fan-out inside a loop does not exist in an earlier iteration, so
\* that its results so far cannot be gathered.
BranchIsNew(c) ==
  \E a \in DOMAIN steps : \E i \in DOMAIN a.scope : \E k \in 1 .. i - 1 :
    /\ a.scope[i][1] = c.name /\ Around(a)[k].container.kind = "loop"
    /\ \E n \in 1 .. a.scope[k][2] - 1 :
         LET earlier == [SubSeq(a.scope, 1, i - 1) EXCEPT ![k] = <<@[1], n>>]
         IN  LastIn(State, earlier, c.name) < a.scope[i][2]

\* The loop came to its last cycle and was not done, or its exit task returned
\* neither true nor false.
LoopUnfit(c) ==
  \E a \in DoneOf(c.exit_condition) :
    /\ steps[a].value # True
    /\ steps[a].value = False => Last(a.scope)[2] = c.max_cycles

\* A run fails only when a step of it failed, or a task returned what a loop or a
\* fan-out of the flow cannot go on with: never since the planner lost its way or
\* a request of the scheduler was refused.
FailsForCause ==
  status = "failed" =>
    \/ \E a \in DOMAIN steps : steps[a].outcome = "failed"
    \/ \E w \in Walk(Definition.steps, <<>>) :
         \/ w.step.kind = "loop" /\ LoopUnfit(w.step)
         \/ w.step.kind = "fan_out" /\ w.step.over # NoReference
            /\ (ListUnfit(w.step) \/ BranchIsNew(w.step))

\* A run that is started comes to an end.
RunEnds == <>(status # "active")
=============================================================================
