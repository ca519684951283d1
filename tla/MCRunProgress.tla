--------------------------- MODULE MCRunProgress ---------------------------
(* Flows for TLC: three of the shapes the planner's tests use, and the       *)
(* accepted ones of a family of small flows.                                 *)
EXTENDS RunProgress, Validation

Ref(namespace, name) == [namespace |-> namespace, name |-> name]
TaskStep(name, params) == [kind |-> "task", name |-> name, params |-> params]
SubFlowStep(name, params) == [kind |-> "sub_flow", name |-> name, params |-> params]
LoopStep(name, cycles, exit, body) ==
  [kind |-> "loop", name |-> name, max_cycles |-> cycles,
   exit_condition |-> exit, steps |-> body]
FanOut(name, range, over, body) ==
  [kind |-> "fan_out", name |-> name, range |-> range, over |-> over, steps |-> body]
Flow(output, body) == [inputs |-> {"given"}, output |-> output, steps |-> body]

\* Two steps and a sub-flow, in a file order that is not the order they run in.
Chain ==
  Flow(Ref("tasks", "report"),
       <<TaskStep("report", <<Ref("flows", "child"), Ref("tasks", "fetch")>>),
         SubFlowStep("child", <<Ref("tasks", "fetch")>>),
         TaskStep("fetch", <<Ref("neorc", "attempts"), Ref("inputs", "given")>>)>>)

\* A loop whose iterations fan out over what was made in all of them so far, so
\* that each iteration is wider than the one before.
Rounds ==
  Flow(NoReference,
       <<LoopStep("rounds", 2, "done",
           <<TaskStep("make", <<>>),
             FanOut("picking", 0, Ref("tasks", "make"),
               <<TaskStep("pick", <<Ref("neorc", "item")>>),
                 TaskStep("use", <<Ref("tasks", "pick")>>)>>),
             TaskStep("done", <<Ref("tasks", "use")>>)>>)>>)

\* Loops that move on their own in the branches of a fan-out, joined after it.
Branches ==
  Flow(Ref("tasks", "join"),
       <<FanOut("branch", 2, NoReference,
           <<LoopStep("tries", 2, "check",
               <<TaskStep("check", <<Ref("neorc", "loop_count")>>)>>),
             TaskStep("sum", <<Ref("tasks", "check")>>)>>),
         TaskStep("join", <<Ref("tasks", "sum")>>)>>)

-----------------------------------------------------------------------------
(* The family: a flow is built from a shape, a tuple of names.              *)

\* "none", or a reference to a task, to metadata, or to the flow's input.
Tasks == {"a", "b", "c"}
RefTo(name) ==
  CASE name = "none" -> NoReference
    [] name \in Tasks -> Ref("tasks", name)
    [] name = "given" -> Ref("inputs", "given")
    [] OTHER -> Ref("neorc", name)
Task(name, reference) ==
  TaskStep(name, IF reference = "none" THEN <<>> ELSE <<RefTo(reference)>>)

\* "loop" until a task, "range" or "over" a reference.
Container(name, kind, of, body) ==
  IF kind = "loop" THEN LoopStep(name, 2, of, body)
  ELSE FanOut(name, IF kind = "range" THEN 2 ELSE 0, RefTo(of), body)

Kinds == {<<"range", "none">>}
           \cup {<<"loop", task>> : task \in Tasks}
           \cup {<<"over", name>> : name \in {"a", "b", "given"}}
Metadatas == {"item", "index", "loop_count"}

\* A task beside a container of two; two containers that refer to each other; a
\* container inside another.
Shapes ==
  {<<"beside", k[1], k[2], a, b, c>> :
     k \in Kinds, a \in {"none", "b"}, b \in {"none", "a", "b", "c"} \cup Metadatas,
     c \in {"none", "a", "b"}}
  \cup {<<"apart", k[1], k[2], l[1], l[2], a, b>> :
     k \in Kinds, l \in Kinds, a \in {"none", "b"}, b \in {"none", "a"}}
  \cup {<<"within", k[1], k[2], l[1], l[2], a, b>> :
     k \in Kinds, l \in Kinds, a \in {"none", "b"}, b \in {"none", "a"} \cup Metadatas}

Built(s) ==
  CASE s[1] = "chain" -> Chain
    [] s[1] = "rounds" -> Rounds
    [] s[1] = "branches" -> Branches
    [] s[1] = "beside" ->
         Flow(Ref("tasks", "c"),
              <<Task("a", s[4]),
                Container("around", s[2], s[3], <<Task("b", s[5]), Task("c", s[6])>>)>>)
    [] s[1] = "apart" ->
         Flow(NoReference,
              <<Container("first", s[2], s[3], <<Task("a", s[6])>>),
                Container("second", s[4], s[5], <<Task("b", s[7])>>)>>)
    [] s[1] = "within" ->
         Flow(Ref("tasks", "b"),
              <<Container("first", s[2], s[3],
                  <<Task("a", s[6]), Container("second", s[4], s[5], <<Task("b", s[7])>>)>>)>>)

Named == {<<"chain">>, <<"rounds">>, <<"branches">>}
MCFlows == Named \cup {s \in Shapes : CheckFlow(Built(s))}
MCMaxLost(s) == IF s \in Named THEN 1 ELSE 0

\* A task that ends a loop returns true, false or neither; one that is fanned
\* out over, a list or not.
MCReturns(s, name) ==
  LET containers == {w.step : w \in {x \in Walk(Built(s).steps, <<>>) : IsContainer(x.step)}}
  IN  {Other}
      \cup (IF \E x \in containers : x.kind = "loop" /\ x.exit_condition = name
            THEN {True, False} ELSE {})
      \cup (IF \E x \in containers : x.kind = "fan_out" /\ x.over = Ref("tasks", name)
            THEN {ListOf(<<>>), ListOf(<<Other>>), ListOf(<<Other, Other>>)} ELSE {})
=============================================================================
