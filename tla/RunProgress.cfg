\* One run of each flow; in the three larger ones a call of the scheduler may be
\* lost.
SPECIFICATION Spec
CONSTANTS
  Flows <- MCFlows
  DefinitionOf <- Built
  Returns <- MCReturns
  MaxLost <- MCMaxLost
INVARIANTS
  NeverStuck
  StalePlansSafe
  InputsSettled
  SucceededIsComplete
  FailsForCause
PROPERTIES
  RunEnds
