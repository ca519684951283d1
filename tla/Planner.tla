------------------------------ MODULE Planner ------------------------------
(***************************************************************************)
(* What happens next for a run: the pure planner, with the reference       *)
(* resolution it asks whether a step's inputs are there.                   *)
(*                                                                         *)
(* A flow definition d is [inputs, steps, output], inputs the names of its *)
(* inputs; a step is [kind, name, ...]:                                    *)
(*   task      params                 a sequence of references             *)
(*   sub_flow  params, flow                                                *)
(*   loop      steps, max_cycles, exit_condition                           *)
(*   fan_out   steps, range, over     range 0 when it is over a reference  *)
(* A reference is [namespace, name].  An address is [step, scope], a scope *)
(* a sequence of <<container, number>>.  A run state st is [inputs, steps] *)
(* and st.steps maps the addresses started so far to [outcome, value].     *)
(* A value is told apart as far as the planner does: true, false, a list   *)
(* of values, or anything else.                                            *)
(*                                                                         *)
(* A Python exception on the way (ResolutionError, _RunFailed) is a value  *)
(* here: Error for resolve, "error" for finished, a fail action in scope.  *)
(*                                                                         *)
(* A definition marked as a slip is a mistake the one below it could hold, *)
(* there for the runs to show that a property notices it.                  *)
(***************************************************************************)
EXTENDS Naturals, Sequences, FiniteSets, SequencesExt

True == [is |-> "true", items |-> <<>>]
False == [is |-> "false", items |-> <<>>]
Other == [is |-> "other", items |-> <<>>]
ListOf(values) == [is |-> "list", items |-> values]

\* What resolve answers: a value, None, or the ResolutionError it raises.
Resolved(value) == [got |-> "value", value |-> value]
Unavailable == [got |-> "none", value |-> Other]
Error == [got |-> "error", value |-> Other]

NoReference == [namespace |-> "none", name |-> "none"]
At(step, scope) == [step |-> step, scope |-> scope]
NoConsumer == At("", <<>>)

IsContainer(step) == step.kind \in {"loop", "fan_out"}
Names(containers) == [i \in DOMAIN containers |-> containers[i].name]

-----------------------------------------------------------------------------
(* The shape of a flow.                                                     *)

\* Every step at any depth, with the loops and fan-outs around it.
RECURSIVE Walk(_, _)
Walk(steps, around) ==
  UNION {{[step |-> steps[i], around |-> around]}
           \cup IF IsContainer(steps[i])
                THEN Walk(steps[i].steps, Append(around, steps[i])) ELSE {}
         : i \in DOMAIN steps}

Enclosing(d, name) ==
  (CHOOSE w \in Walk(d.steps, <<>>) : w.step.name = name).around

References(step) ==
  CASE step.kind \in {"task", "sub_flow"} -> ToSet(step.params)
    [] step.kind = "fan_out" -> {step.over} \ {NoReference}
    [] step.kind = "loop" -> {}

NamesStep(reference) == reference.namespace \in {"tasks", "flows"}

\* How many containers the two chains of names have in common.
Shared(p, q) == Max({i \in 0 .. Len(p) : IsPrefix(SubSeq(p, 1, i), q)})

\* The siblings that must finish before step name can start.
WaitsOn(d, name) ==
  UNION {LET consumer == Append(Names(w.around), w.step.name)
             targets == {Append(Names(Enclosing(d, ref.name)), ref.name) :
                           ref \in {x \in References(w.step) : NamesStep(x)}}
         IN  {t[Shared(consumer, t) + 1] :
                t \in {x \in targets :
                         /\ Shared(consumer, x) < Len(consumer)
                         /\ Shared(consumer, x) < Len(x)
                         /\ consumer[Shared(consumer, x) + 1] = name}}
         : w \in Walk(d.steps, <<>>)}

-----------------------------------------------------------------------------
(* The state of a run.                                                      *)

Started(st, a) == a \in DOMAIN st.steps
\* Slip: what was started counts as done.
SucceededOnceStarted(st, a) == Started(st, a)

Succeeded(st, a) == Started(st, a) /\ st.steps[a].outcome = "succeeded"

\* RunState.last: the highest iteration or index started in scope, 0 if none.
LastIn(st, scope, container) ==
  LET depth == Len(scope) + 1
      inside == {a \in DOMAIN st.steps :
                   /\ Len(a.scope) >= depth
                   /\ SubSeq(a.scope, 1, depth - 1) = scope
                   /\ a.scope[depth][1] = container}
  IN  Max({0} \cup {a.scope[depth][2] : a \in inside})

-----------------------------------------------------------------------------
(* Resolving references.                                                    *)

\* Each container around the target, and how its instances are gathered.
Levels(around, targetAround) ==
  LET shared == Shared(Names(around), Names(targetAround))
  IN  [i \in DOMAIN targetAround |->
         [container |-> targetAround[i],
          level |-> IF targetAround[i].kind = "loop"
                    THEN IF i <= shared THEN "iterations_so_far" ELSE "iterations"
                    ELSE IF i <= shared THEN "own_branch" ELSE "branches"]]

FinishedIterations(st, loop, scope) ==
  LET last == LastIn(st, scope, loop.name)
      exit == At(loop.exit_condition, Append(scope, <<loop.name, last>>))
  IN  IF last > 0 /\ Succeeded(st, exit) /\ st.steps[exit].value = True
      THEN last ELSE 0

RECURSIVE Resolve(_, _, _, _), Collect(_, _, _, _, _, _)

\* The list a fan-out is over, in scope.
OverItems(d, st, fanOut, scope) ==
  LET items == Resolve(d, st, At(fanOut.name, scope), fanOut.over)
  IN  IF items.got = "value" /\ items.value.is # "list" THEN Error ELSE items

\* fan_out_width, its number as the length of a list.
FanOutWidth(d, st, fanOut, scope) ==
  IF fanOut.over = NoReference
  THEN Resolved(ListOf([i \in 1 .. fanOut.range |-> Other]))
  ELSE OverItems(d, st, fanOut, scope)

Width(resolved) == Len(resolved.value.items)

\* Slip: the last element is past the end.
PastLast(number, resolved) ==
  resolved.got = "error" \/ (resolved.got = "value" /\ number >= Width(resolved))

\* Whether the list is known to have no element of this number.
Past(number, resolved) ==
  resolved.got = "error" \/ (resolved.got = "value" /\ number > Width(resolved))

ItemAt(number, items) ==
  IF Past(number, items) THEN Error
  ELSE IF items.got = "none" THEN items ELSE Resolved(items.value.items[number])

\* neorc.loop_count, neorc.index and neorc.item.
Metadata(d, st, consumer, reference) ==
  LET around == Enclosing(d, consumer.step)
      depth == Max({i \in DOMAIN around : around[i].kind = "fan_out"})
  IN  IF reference.name # "item" THEN Resolved(Other)
      ELSE ItemAt(consumer.scope[depth][2],
                  OverItems(d, st, around[depth], SubSeq(consumer.scope, 1, depth - 1)))

\* The value of reference for the step instance at consumer.
Resolve(d, st, consumer, reference) ==
  LET around == IF consumer = NoConsumer THEN <<>> ELSE Enclosing(d, consumer.step)
  IN  CASE reference.namespace = "inputs" -> Resolved(st.inputs[reference.name])
        [] reference.namespace = "neorc" -> Metadata(d, st, consumer, reference)
        [] NamesStep(reference) ->
             Collect(d, st, reference.name,
                     Levels(around, Enclosing(d, reference.name)), consumer.scope, <<>>)

\* A list of what was gathered, unless something in it is not there.
Gathered(found) ==
  LET missing == {n \in DOMAIN found : found[n].got # "value"}
  IN  IF missing # {} THEN found[Min(missing)]
      ELSE Resolved(ListOf([n \in DOMAIN found |-> found[n].value]))

\* How many instances of the container at this level to gather in scope, as the
\* length of a list: all branches, the iterations up to the consumer's own, or
\* those of a loop that finished.
Instances(d, st, at, own, onPath, scope) ==
  LET finished == FinishedIterations(st, at.container, scope)
      count == IF at.level = "iterations_so_far" /\ onPath THEN own ELSE finished
  IN  IF at.level = "branches" THEN FanOutWidth(d, st, at.container, scope)
      ELSE IF count = 0 THEN Unavailable
      ELSE Resolved(ListOf([n \in 1 .. count |-> Other]))

\* _Collector.collect: the instances of target, level by level below scope.
Collect(d, st, target, levels, consumerScope, scope) ==
  LET depth == Len(scope) + 1
      at == levels[depth]
      onPath == IsPrefix(scope, consumerScope)
      own == consumerScope[depth][2]
      instances == Instances(d, st, at, own, onPath, scope)
      Below(n) == Collect(d, st, target, levels, consumerScope,
                          Append(scope, <<at.container.name, n>>))
  IN  IF depth > Len(levels)
      THEN IF Succeeded(st, At(target, scope))
           THEN Resolved(st.steps[At(target, scope)].value) ELSE Unavailable
      ELSE IF at.level = "own_branch"
      THEN IF at.container.over # NoReference
              /\ Past(own, FanOutWidth(d, st, at.container, scope))
           THEN Error ELSE Below(own)
      ELSE IF instances.got # "value" THEN instances
      ELSE Gathered([n \in 1 .. Width(instances) |-> Below(n)])

-----------------------------------------------------------------------------
(* The planner.                                                             *)

FailRun == [do |-> "fail", at |-> NoConsumer]
SucceedRun == [do |-> "succeed", at |-> NoConsumer]

\* What all(...) makes of these verdicts: the first that is not good, if any.
AllOf(good, verdicts) ==
  LET stops == {i \in DOMAIN verdicts : verdicts[i] # good}
  IN  IF stops = {} THEN good ELSE verdicts[Min(stops)]

RECURSIVE Finished(_, _, _, _)

BodyFinished(d, st, steps, scope) ==
  AllOf("yes", [i \in DOMAIN steps |-> Finished(d, st, steps[i], scope)])

BranchesFinished(d, st, fanOut, scope, width) ==
  CASE width.got = "none" -> "no"
    [] width.got = "error" -> "error"
    [] width.got = "value" ->
         AllOf("yes", [n \in 1 .. Width(width) |->
                         BodyFinished(d, st, fanOut.steps, Append(scope, <<fanOut.name, n>>))])

ExitValue(st, loop, iteration) == st.steps[At(loop.exit_condition, iteration)].value

\* Slip: a loop is finished with its body, whatever the exit task returned.
LoopFinishedWithBody(st, loop, iteration, body) == body

\* The last iteration finished with an exit task that returned true.
LoopFinished(st, loop, iteration, body) ==
  IF body = "yes" /\ ExitValue(st, loop, iteration) # True THEN "no" ELSE body

\* Whether a step instance, and everything inside it, has succeeded.
Finished(d, st, step, scope) ==
  LET last == LastIn(st, scope, step.name)
      iteration == Append(scope, <<step.name, last>>)
  IN  CASE ~ IsContainer(step) ->
             IF Succeeded(st, At(step.name, scope)) THEN "yes" ELSE "no"
        [] step.kind = "loop" ->
             IF last = 0 THEN "no"
             ELSE LoopFinished(st, step, iteration, BodyFinished(d, st, step.steps, iteration))
        [] step.kind = "fan_out" ->
             BranchesFinished(d, st, step, scope, FanOutWidth(d, st, step, scope))

\* Metadata the manager or the worker fills in is not asked of the state.
FilledInLater(reference) ==
  reference.namespace = "neorc" /\ reference.name \in {"task_id", "flow_run_id", "attempts"}

\* The first param that is unavailable or raises, in file order, else a value.
InputsOf(d, st, step, a) ==
  LET asked == SelectSeq(step.params, LAMBDA ref : ~ FilledInLater(ref))
  IN  AllOf("value", [i \in DOMAIN asked |-> Resolve(d, st, a, asked[i]).got])

\* Publish a task, or start a sub-flow run, once its inputs resolve.
StartStep(step, a, inputs) ==
  CASE inputs = "none" -> <<>>
    [] inputs = "error" -> <<FailRun>>
    [] inputs = "value" -> <<[do |-> IF step.kind = "task" THEN "publish" ELSE "start", at |-> a]>>

RECURSIVE AdvanceStep(_, _, _, _)

\* Advance the steps of one scope whose dependencies have finished.
AdvanceReady(d, st, steps, scope, finished) ==
  LET Ready(i) == /\ finished[i] = "no"
                  /\ \A j \in DOMAIN steps :
                       steps[j].name \in WaitsOn(d, steps[i].name) => finished[j] = "yes"
  IN  IF \E i \in DOMAIN steps : finished[i] = "error" THEN <<FailRun>>
      ELSE FlattenSeq([i \in DOMAIN steps |->
             IF Ready(i) THEN AdvanceStep(d, st, steps[i], scope) ELSE <<>>])

AdvanceScope(d, st, steps, scope) ==
  AdvanceReady(d, st, steps, scope,
               [i \in DOMAIN steps |-> Finished(d, st, steps[i], scope)])

\* Slip: the next iteration has the number of the last one.
IterationInPlace(st, loop, scope, last, body) == IF last = 0 THEN 1 ELSE last

\* The iteration to run: the last one, or the next once its body finished with
\* an exit task that returned false; 0 if the run fails instead.
Iteration(st, loop, scope, last, body) ==
  IF last = 0 THEN 1
  ELSE IF body = "no" THEN last
  ELSE IF body = "error" \/ last >= loop.max_cycles
          \/ ExitValue(st, loop, Append(scope, <<loop.name, last>>)) # False
       THEN 0 ELSE last + 1

\* Run the current iteration, or start the next one once it finished.
AdvanceLoop(d, st, loop, scope) ==
  LET last == LastIn(st, scope, loop.name)
      Inside(n) == Append(scope, <<loop.name, n>>)
      next == Iteration(st, loop, scope, last, BodyFinished(d, st, loop.steps, Inside(last)))
  IN  IF next = 0 THEN <<FailRun>> ELSE AdvanceScope(d, st, loop.steps, Inside(next))

AdvanceFanOut(d, st, fanOut, scope, width) ==
  IF width.got # "value" THEN <<>>
  ELSE FlattenSeq([n \in 1 .. Width(width) |->
         AdvanceScope(d, st, fanOut.steps, Append(scope, <<fanOut.name, n>>))])

AdvanceStep(d, st, step, scope) ==
  CASE ~ IsContainer(step) ->
         LET a == At(step.name, scope)
         IN  IF Started(st, a) THEN <<>> ELSE StartStep(step, a, InputsOf(d, st, step, a))
    [] step.kind = "loop" -> AdvanceLoop(d, st, step, scope)
    [] step.kind = "fan_out" ->
         AdvanceFanOut(d, st, step, scope, FanOutWidth(d, st, step, scope))

\* Slip: a step that failed is not looked for.
DecidePastFailures(st, finished, actions) ==
  IF finished = "yes" THEN <<SucceedRun>>
  ELSE IF finished = "error" \/ FailRun \in ToSet(actions) THEN <<FailRun>>
  ELSE actions

\* A single fail if the run cannot go on, a single succeed if everything
\* finished, else what is ready to start.
Decide(st, finished, actions) ==
  IF \E a \in DOMAIN st.steps : st.steps[a].outcome = "failed" THEN <<FailRun>>
  ELSE IF finished = "yes" THEN <<SucceedRun>>
  ELSE IF finished = "error" \/ FailRun \in ToSet(actions) THEN <<FailRun>>
  ELSE actions

\* The actions that move a run forward from st.
Plan(d, st) ==
  Decide(st, BodyFinished(d, st, d.steps, <<>>), AdvanceScope(d, st, d.steps, <<>>))
=============================================================================
