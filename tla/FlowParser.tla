----------------------------- MODULE FlowParser -----------------------------
(***************************************************************************)
(* From an uploaded document, a JSON structure of any shape, to the flow   *)
(* definition that is stored, or to a refusal.                             *)
(*                                                                         *)
(* A JSON value is [is, parts, number, fields]: a text has the parts       *)
(* between its dots, a mapping or a list the fields [key, value] it has,   *)
(* in order.  A part is one of a few words, told apart by what they may    *)
(* name.  The parser gathers problems and refuses if there are any, so its *)
(* methods are here two operators each: whether there is none, and what is *)
(* made of the value then.                                                 *)
(***************************************************************************)
EXTENDS Validation

CONSTANTS
  Words,       \* the parts that are identifiers
  QueueWords,  \* the parts that are no identifiers but may name a queue
  Digits,      \* the parts that are numbers a version may have
  Nul          \* a part no store can hold

Scalar(is) == [is |-> is, parts |-> <<>>, number |-> 0, fields |-> <<>>]
Text(parts) == [Scalar("text") EXCEPT !.parts = parts]
Whole(number) == [Scalar("whole") EXCEPT !.number = number]
Mapping(fields) == [Scalar("mapping") EXCEPT !.fields = fields]
Field(key, value) == [key |-> key, value |-> value]

Keys(data) == {data.fields[i].key : i \in DOMAIN data.fields}
Has(data, key) == key \in Keys(data)
Get(data, key, default) ==
  IF Has(data, key)
  THEN data.fields[CHOOSE i \in DOMAIN data.fields : data.fields[i].key = key].value
  ELSE default
IsMapping(data) == data.is = "mapping"
NothingGiven == Mapping(<<>>)

\* What a text says, as far as it may be a step's name.
Said(data) == IF Len(data.parts) = 1 THEN data.parts[1] ELSE "..."

\* A value and every value in it.
RECURSIVE Within(_)
Within(data) == {data} \cup UNION {Within(data.fields[i].value) : i \in DOMAIN data.fields}

-----------------------------------------------------------------------------
(* Reading and storing.                                                     *)

\* read_json refuses a key that comes twice in one object.
HasUniqueKeys(data) ==
  \A v \in Within(data) : IsMapping(v) => Cardinality(Keys(v)) = Len(v.fields)

\* No text, key or value, known field or not, holds what a store cannot.
HasStorableText(data) ==
  \A v \in Within(data) : Nul \notin ToSet(v.parts) \cup Keys(v)

-----------------------------------------------------------------------------
(* The small things.                                                        *)

IsText(data) == data.is = "text" /\ data.parts # <<>>
IsOnePart(data) == data.is = "text" /\ Len(data.parts) = 1
IsName(data) == IsOnePart(data) /\ data.parts[1] \in Words
IsQueueName(data) == IsOnePart(data) /\ data.parts[1] \in Words \cup QueueWords
IsVersion(data) ==
  data.is = "text" /\ Len(data.parts) = 3 /\ ToSet(data.parts) \subseteq Digits
IsPositive(data) == data.is = "whole" /\ data.number >= 1

\* A reference's name need not be a word: check_flow looks for what it names.
IsReference(data) ==
  /\ data.is = "text" /\ Len(data.parts) = 2 /\ data.parts[2] # ""
  /\ data.parts[1] \in {"inputs", "tasks", "flows", "neorc"}
Reference(data) == [namespace |-> data.parts[1], name |-> data.parts[2]]

OnlyKeys(data, allowed, required) == required \subseteq Keys(data) /\ Keys(data) \subseteq allowed

\* A mapping whose keys are names and whose values are as expected.
IsNamed(data, IsExpected(_)) ==
  /\ IsMapping(data)
  /\ \A i \in DOMAIN data.fields : data.fields[i].key \in Words /\ IsExpected(data.fields[i].value)

IsInputType(data) ==
  IsOnePart(data) /\ data.parts[1] \in {"string", "number", "boolean", "datetime"}

\* decode: a key that begins with "$" is that of a tagged datetime, or refused.
IsValue(data) ==
  \A v \in Within(data) : Has(v, "$datetime") => Len(v.fields) = 1 /\ v.fields[1].value.is = "text"

-----------------------------------------------------------------------------
(* Steps.                                                                   *)

StepKeys(kind) ==
  CASE kind = "handler" -> {"handler", "queue", "params", "fixed_params"}
    [] kind = "flow" -> {"flow", "params", "fixed_params"}
    [] kind = "loop" -> {"loop", "steps"}
    [] kind = "fan_out" -> {"fan_out", "steps"}
KindsIn(data) == {"handler", "loop", "fan_out", "flow"} \cap Keys(data)

ParseParams(data) ==
  /\ IsNamed(Get(data, "params", NothingGiven), IsReference)
  /\ IsNamed(Get(data, "fixed_params", NothingGiven), IsValue)

ParseLoop(config) ==
  /\ IsMapping(config)
  /\ OnlyKeys(config, {"max_cycles", "exit_condition"}, {"max_cycles", "exit_condition"})
  /\ IsPositive(Get(config, "max_cycles", NothingGiven))
  /\ IsText(Get(config, "exit_condition", NothingGiven))

ParseFanOut(config) ==
  /\ IsMapping(config)
  /\ OnlyKeys(config, {"range", "over"}, {})
  /\ Has(config, "range") # Has(config, "over")
  /\ Has(config, "range") => IsPositive(Get(config, "range", NothingGiven))
  /\ Has(config, "over") => IsReference(Get(config, "over", NothingGiven))

\* A step and those in it have no problem of their own.
RECURSIVE ParseSteps(_)
ParseStep(data) ==
  /\ IsMapping(data)
  /\ Cardinality(KindsIn(data)) = 1
  /\ \A kind \in KindsIn(data) :
       /\ OnlyKeys(data, StepKeys(kind), {})
       /\ kind \in {"handler", "flow"} => IsText(Get(data, kind, NothingGiven)) /\ ParseParams(data)
       /\ kind = "handler" => IsQueueName(Get(data, "queue", Text(<<"default">>)))
       /\ kind = "loop" => ParseLoop(Get(data, kind, NothingGiven))
       /\ kind = "fan_out" => ParseFanOut(Get(data, kind, NothingGiven))
       /\ kind \in {"loop", "fan_out"} => ParseSteps(Get(data, "steps", NothingGiven))
ParseSteps(data) == data.fields # <<>> /\ IsNamed(data, ParseStep)

\* The names of the steps at any depth, as often as they come.
RECURSIVE StepNames(_)
StepNames(data) ==
  FlattenSeq([i \in DOMAIN data.fields |->
    <<data.fields[i].key>> \o StepNames(Get(data.fields[i].value, "steps", NothingGiven))])

\* Slip: names are compared within one body only.
NamesOnceInBody(data) == HasUniqueKeys(data)

\* A name is used once in a flow, at whatever depth.
NamesOnce(data) == IsInjective(StepNames(data))

RECURSIVE StepsOf(_)
StepOf(name, data) ==
  LET kind == CHOOSE k \in KindsIn(data) : TRUE
      config == Get(data, kind, NothingGiven)
      params == Get(data, "params", NothingGiven).fields
      references == [i \in DOMAIN params |-> Reference(params[i].value)]
      given == Keys(Get(data, "params", NothingGiven)) \cup Keys(Get(data, "fixed_params", NothingGiven))
  IN  CASE kind = "handler" ->
             [kind |-> "task", name |-> name, params |-> references, given |-> given,
              queue |-> Said(Get(data, "queue", Text(<<"default">>)))]
        [] kind = "flow" ->
             [kind |-> "sub_flow", name |-> name, params |-> references, given |-> given,
              flow |-> Said(config)]
        [] kind = "loop" ->
             [kind |-> "loop", name |-> name, steps |-> StepsOf(Get(data, "steps", NothingGiven)),
              max_cycles |-> Get(config, "max_cycles", NothingGiven).number,
              exit_condition |-> Said(Get(config, "exit_condition", NothingGiven))]
        [] kind = "fan_out" ->
             [kind |-> "fan_out", name |-> name, steps |-> StepsOf(Get(data, "steps", NothingGiven)),
              range |-> Get(config, "range", NothingGiven).number,
              over |-> IF Has(config, "over") THEN Reference(Get(config, "over", NothingGiven))
                       ELSE NoReference]
StepsOf(data) == [i \in DOMAIN data.fields |-> StepOf(data.fields[i].key, data.fields[i].value)]

-----------------------------------------------------------------------------
(* A flow.                                                                  *)

ParseFlowFields(data) ==
  /\ IsMapping(data)
  /\ OnlyKeys(data, {"name", "version", "inputs", "output", "steps"}, {"name", "version"})
  /\ IsName(Get(data, "name", NothingGiven))
  /\ IsVersion(Get(data, "version", NothingGiven))
  /\ IsNamed(Get(data, "inputs", NothingGiven), IsInputType)
  /\ Has(data, "output") => IsReference(Get(data, "output", NothingGiven))
  /\ ParseSteps(Get(data, "steps", NothingGiven))
  /\ NamesOnce(Get(data, "steps", NothingGiven))

DefinitionIn(data) ==
  [name |-> Said(Get(data, "name", NothingGiven)),
   version |-> Get(data, "version", NothingGiven).parts,
   inputs |-> Keys(Get(data, "inputs", NothingGiven)),
   output |-> IF Has(data, "output") THEN Reference(Get(data, "output", NothingGiven)) ELSE NoReference,
   steps |-> StepsOf(Get(data, "steps", NothingGiven))]

\* parse_flow: whether a document is taken.
ParseFlow(data) ==
  /\ HasStorableText(data)
  /\ ParseFlowFields(data)
  /\ CheckFlow(DefinitionIn(data))
=============================================================================
