----------------------------- MODULE MCHttpApi -----------------------------
(* Callers, and the documents that differ in one place from one of three     *)
(* that are accepted.                                                        *)
EXTENDS FlowUploads

CONSTANTS Scheduler, WorkerA, WorkerB, Astray, Script, Ci, Trigger, Page

MCKind(c) ==
  CASE c = Scheduler -> "scheduler" [] c = Script -> "script" [] c = Ci -> "ci"
    [] c = Trigger -> "trigger" [] c = Page -> "page" [] OTHER -> "worker"
MCBoundTo(c) ==
  CASE c \in {WorkerA, Astray, Script} -> "default" [] c = WorkerB -> "gpu-2" [] OTHER -> "none"
MCWorks(c) == IF c = WorkerA THEN "default" ELSE "gpu-2"
MCCasts ==
  {{Scheduler, WorkerA}, {Scheduler, Page}, {WorkerB, Script}, {Astray}, {Trigger}, {Ci}}

-----------------------------------------------------------------------------
Name(word) == Text(<<word>>)
Ref(namespace, name) == Text(<<namespace, name>>)
Handler(name, params) ==
  Field(name, Mapping(<<Field("handler", Name("work")), Field("params", Mapping(params))>>))
Flow(rest) ==
  Mapping(<<Field("name", Name("f")), Field("version", Text(<<"1", "0", "0">>))>> \o rest)

Chain ==
  Flow(<<Field("inputs", Mapping(<<Field("given", Name("string"))>>)),
         Field("output", Ref("tasks", "b")),
         Field("steps", Mapping(<<
           Handler("a", <<Field("x", Ref("inputs", "given"))>>),
           Field("b", Mapping(<<Field("handler", Name("work")), Field("queue", Name("gpu-2")),
             Field("params", Mapping(<<Field("x", Ref("tasks", "a"))>>)),
             Field("fixed_params", Mapping(<<Field("y", Whole(0))>>))>>))>>))>>)

Loop ==
  Flow(<<Field("steps", Mapping(<<
    Field("again", Mapping(<<
      Field("loop", Mapping(<<Field("max_cycles", Whole(2)), Field("exit_condition", Name("b"))>>)),
      Field("steps", Mapping(<<
        Field("c", Mapping(<<Field("fan_out", Mapping(<<Field("range", Whole(2))>>)),
          Field("steps", Mapping(<<Handler("a", <<Field("x", Ref("neorc", "index"))>>)>>))>>)),
        Handler("b", <<Field("x", Ref("tasks", "a"))>>)>>))>>))>>))>>)

Over ==
  Flow(<<Field("steps", Mapping(<<
    Handler("a", <<>>),
    Field("c", Mapping(<<Field("fan_out", Mapping(<<Field("over", Ref("tasks", "a"))>>)),
      Field("steps", Mapping(<<Handler("b", <<Field("x", Ref("neorc", "item"))>>)>>))>>)),
    Field("sub", Mapping(<<Field("flow", Name("g")),
      Field("params", Mapping(<<Field("x", Ref("tasks", "b"))>>))>>))>>))>>)

OddValues ==
  {Scalar("null"), Scalar("list"), Scalar("boolean"), Whole(0), Whole(1), Text(<<>>), Mapping(<<>>),
   Name("a"), Name("1st"), Name("nul"), Text(<<"1", "2", "3">>), Text(<<"1", "01", "3">>),
   Ref("tasks", "a"), Ref("tasks", "c"), Ref("flows", "a"), Ref("neorc", "item"),
   Text(<<"a", "b">>), Text(<<"tasks", "">>),
   Mapping(<<Field("$datetime", Name("f"))>>), Mapping(<<Field("$datetime", Whole(1))>>)}
OddKeys == {"a", "b", "c", "1st", "nul", "loop", "range", "over", "queue"}

Put(data, i, field) == [data EXCEPT !.fields[i] = field]

\* The documents that differ from data in one value, one key, or a field that is
\* left out or added.
RECURSIVE Variants(_)
Variants(data) ==
  OddValues
  \cup {[data EXCEPT !.fields = Append(@, Field(key, value))] :
          key \in {k \in OddKeys : IsMapping(data)}, value \in {Whole(1), Ref("tasks", "a")}}
  \cup UNION {
         LET f == data.fields[i]
         IN  {[data EXCEPT !.fields = RemoveAt(@, i)]}
             \cup {Put(data, i, Field(key, f.value)) : key \in OddKeys}
             \cup {Put(data, i, Field(f.key, v)) : v \in Variants(f.value)}
         : i \in DOMAIN data.fields}

MCDocuments == UNION {{d} \cup Variants(d) : d \in {Chain, Loop, Over}}
=============================================================================
