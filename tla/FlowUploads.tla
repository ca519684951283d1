----------------------------- MODULE FlowUploads -----------------------------
(* The HTTP API with the parser that an upload is handed to, and what the     *)
(* manager may rely on in the flows it has stored.                            *)
EXTENDS HttpApi, FlowParser

ASSUME ParserAssumption ==
  \A data \in Documents :
    KeysAreUnique(data) = HasUniqueKeys(data) /\ Parses(data) = ParseFlow(data)

\* A stored flow says what its document says: every step entry, at any depth, is a
\* step of a name of its own; every reference is one of the definition's; no body
\* is empty, a loop has its exit task and a bound, a fan-out one kind of width.
StoredFlowsAreWhole ==
  \A data \in stored :
    LET d == DefinitionIn(data)
        walked == {w.step : w \in Walk(d.steps, <<>>)}
        inParams == UNION {ToSet(Get(v, "params", NothingGiven).fields) : v \in Within(data)}
        widths == {Get(v, "fan_out", NothingGiven) : v \in Within(data)}
        said == {f.value : f \in inParams}
                \cup {Get(v, "over", NothingGiven) : v \in {x \in widths : Has(x, "over")}}
    IN  /\ Cardinality({s.name : s \in walked}) = Len(StepNames(Get(data, "steps", NothingGiven)))
        /\ {Reference(v) : v \in said} = UNION {References(s) : s \in walked}
        /\ \A s \in walked : IsContainer(s) => s.steps # <<>>
        /\ \A s \in walked : s.kind = "loop" =>
             s.max_cycles >= 1 /\ \E t \in ToSet(s.steps) : t.name = s.exit_condition
        /\ \A s \in walked : s.kind = "fan_out" => (s.range >= 1) # (s.over # NoReference)
=============================================================================
