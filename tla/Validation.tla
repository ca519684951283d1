----------------------------- MODULE Validation -----------------------------
(***************************************************************************)
(* The checks a flow must pass before it is stored, beyond its shape: its  *)
(* references, its cycles, and the flows it is deployed with.              *)
(*                                                                         *)
(* Definitions are those of Planner with, in addition, inputs: the names   *)
(* of the flow's inputs.  For a set of flows each has its name, and a      *)
(* sub-flow step the flow it calls and the names it is given.  What the    *)
(* parser sees to holds by the shape of these records: names of steps are  *)
(* used once, bodies are not empty, a fan-out has a range or a reference,  *)
(* numbers are positive.                                                   *)
(*                                                                         *)
(* A check answers whether it has no problem to report.                    *)
(***************************************************************************)
EXTENDS Planner

\* What a task can request under "neorc.".
NEORC_METADATA == {"task_id", "attempts", "flow_run_id", "loop_count", "index", "item"}

\* No name comes after itself: of any names, one has none of them after it.
IsAcyclic(after) ==
  \A some \in (SUBSET DOMAIN after) \ {{}} : \E n \in some : after[n] \cap some = {}

FanOuts(around) == SelectSeq(around, LAMBDA c : c.kind = "fan_out")

-----------------------------------------------------------------------------
(* One flow.                                                                *)

\* The exit condition is a task directly in the loop.
CheckExitCondition(loop) ==
  \E i \in DOMAIN loop.steps :
    loop.steps[i].name = loop.exit_condition /\ loop.steps[i].kind = "task"

\* tasks. refers to a task of the flow, flows. to a sub-flow.
CheckTarget(d, reference) ==
  \E w \in Walk(d.steps, <<>>) :
    /\ w.step.name = reference.name
    /\ w.step.kind = IF reference.namespace = "tasks" THEN "task" ELSE "sub_flow"

CheckMetadata(consumer, around, reference) ==
  /\ consumer.kind = "task"
  /\ reference.name \in NEORC_METADATA
  /\ reference.name = "index" => FanOuts(around) # <<>>
  /\ reference.name = "item" =>
       FanOuts(around) # <<>> /\ Last(FanOuts(around)).over # NoReference
  /\ reference.name = "loop_count" => \E i \in DOMAIN around : around[i].kind = "loop"

\* A fan-out over what is inside it would need itself to be done.
CheckReference(d, consumer, around, reference) ==
  CASE reference.namespace = "inputs" -> reference.name \in d.inputs
    [] reference.namespace = "neorc" -> CheckMetadata(consumer, around, reference)
    [] NamesStep(reference) ->
         /\ CheckTarget(d, reference)
         /\ reference.name # consumer.name
         /\ consumer.kind = "fan_out" =>
              consumer.name \notin ToSet(Names(Enclosing(d, reference.name)))

\* A task or a sub-flow of the flow.
CheckOutput(d, output) == NamesStep(output) /\ CheckTarget(d, output)

\* Slip: only the steps outside loops and fan-outs are looked at.
CheckCyclesOutside(d) ==
  IsAcyclic([n \in {d.steps[i].name : i \in DOMAIN d.steps} |-> WaitsOn(d, n)])

\* No steps wait on each other.  A step waits on siblings only, so the graphs
\* of the scopes have no step in common and are one graph here.
CheckCycles(d) ==
  IsAcyclic([n \in {w.step.name : w \in Walk(d.steps, <<>>)} |-> WaitsOn(d, n)])

\* check_flow.  The cycles are looked for only where every reference names a
\* step; otherwise the flow is refused already.
CheckFlow(d) ==
  /\ \A w \in Walk(d.steps, <<>>) :
       /\ w.step.kind = "loop" => CheckExitCondition(w.step)
       /\ \A reference \in References(w.step) :
            CheckReference(d, w.step, w.around, reference)
  /\ d.output # NoReference => CheckOutput(d, d.output)
  /\ CheckCycles(d)

-----------------------------------------------------------------------------
(* Flows deployed together.                                                 *)

\* Every call of a flow: its name and the sub-flow step.
Calls(definitions) ==
  UNION {{<<d.name, w.step>> :
            w \in {x \in Walk(d.steps, <<>>) : x.step.kind = "sub_flow"}} : d \in definitions}

\* check_flow_set, for definitions of which no two have the same name: each call
\* is of a flow that is there, is given exactly its inputs, and no flow calls
\* itself through others.
CheckFlowSet(definitions) ==
  /\ \A call \in Calls(definitions) : \E d \in definitions :
       d.name = call[2].flow /\ d.inputs = call[2].given
  /\ IsAcyclic([n \in {d.name : d \in definitions} |->
                  {call[2].flow : call \in {x \in Calls(definitions) : x[1] = n}}])
=============================================================================
