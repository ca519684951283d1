------------------------------ MODULE MCStore ------------------------------
(* Small instances of the store for TLC.  A run's id is the path to it: its  *)
(* root's id followed by the addresses of the sub-flow steps on the way.     *)
EXTENDS Store

CONSTANTS r1, t1, s1

MCSubRunIdFor(p, a) == Append(p, a)

\* Bounds: a run and its sub-flow run; the same with a sub-flow run of that
\* one.
MCRootIds1 == {<<r1>>}
MCPair == {<<r1>>, <<r1, s1>>}
MCChain == MCPair \cup {<<r1, s1, s1>>}

\* Of two flows either may call the other; a content says whether it does.
V == INSTANCE Validation

MCContents == {"plain", "calls"}
MCDefinition(f, content) ==
  [name |-> f, inputs |-> {}, output |-> V!NoReference,
   steps |-> <<IF content = "plain" THEN [kind |-> "task", name |-> "step", params |-> <<>>]
               ELSE [kind |-> "sub_flow", name |-> "step", params |-> <<>>, given |-> {},
                     flow |-> IF f = "outer" THEN "inner" ELSE "outer"]>>]
MCValidFlowSet(latest) ==
  V!CheckFlowSet({MCDefinition(f, latest[f]) : f \in {g \in FlowNames : latest[g] # None}})
=============================================================================
