-------------------------- MODULE MCOrchestration --------------------------
(* A deployment small enough for TLC: an outer flow of a task and a sub-flow *)
(* step, and the inner flow it calls, planned by the real planner.           *)
EXTENDS Orchestration

CONSTANTS r1, r2, w1, w2

P == INSTANCE Planner

MCSubRunIdFor(p, a) == Append(p, a)
MCRootIds == {<<r1>>}
MCRunIds == {<<r1>>, <<r1, P!At("call", <<>>)>>}
MCTaskAddresses == {P!At("work", <<>>)}
MCSubFlowAddresses == {P!At("call", <<>>)}
MCValues == {P!Other}

\* The content of a flow; "narrow" takes inputs that the outer flow's call does
\* not give.
MCContents == {"outer", "inner", "narrow"}

Definition(content) ==
  [output |-> IF content = "outer" THEN [namespace |-> "tasks", name |-> "work"]
              ELSE P!NoReference,
   steps |-> (IF content = "outer"
              THEN <<[kind |-> "sub_flow", name |-> "call", params |-> <<>>]>>
              ELSE <<>>)
             \o <<[kind |-> "task", name |-> "work", params |-> <<>>]>>]

\* Any state of the steps the content has.
MCRunStates(content) ==
  {StateOf(s) : s \in UNION {[A -> StepState] :
     A \in SUBSET {P!At(Definition(content).steps[i].name, <<>>) :
                      i \in DOMAIN Definition(content).steps}}}

\* An action on the run as a whole is at no step.
Actions(plan) ==
  [i \in DOMAIN plan |->
     [plan[i] EXCEPT !.at = IF plan[i].do \in {"publish", "start"} THEN @ ELSE None]]
PlanTable ==
  [content \in MCContents |->
     [state \in MCRunStates(content) |-> Actions(P!Plan(Definition(content), state))]]
MCPlan(content, state) == PlanTable[content][state]

MCReady(content, state, q) ==
  LET d == Definition(content)
      step == (CHOOSE w \in P!Walk(d.steps, <<>>) : w.step.name = q.at.step).step
  IN  IF q.do = "succeed"
      THEN \/ d.output = P!NoReference
           \/ P!Resolve(d, state, P!NoConsumer, d.output).got = "value"
      ELSE P!InputsOf(d, state, step, q.at) = "value"

MCOutput(content, state) ==
  IF Definition(content).output = P!NoReference THEN None
  ELSE P!Resolve(Definition(content), state, P!NoConsumer, Definition(content).output).value

MCCalls(content, a) == "inner"
MCQueueOf(content, a) == "default"
MCFits(content, a, callee) == callee # "narrow"

MCValidFlowSet(latest) ==
  /\ latest["outer"] \in {"outer", None} /\ latest["inner"] \in {"inner", "narrow", None}
  /\ latest["outer"] = "outer" => latest["inner"] # None

\* Both flows, and then a version of the inner flow.
First == {[name |-> "outer", version |-> 1, content |-> "outer"],
          [name |-> "inner", version |-> 1, content |-> "inner"]}
Change(content) == {[name |-> "inner", version |-> 2, content |-> content]}
MCReleases == {First, Change("inner"), Change("narrow")}
=============================================================================
