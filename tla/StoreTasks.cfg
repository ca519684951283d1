\* A root run and its sub-flow run, their tasks and leases.
SPECIFICATION Spec
CONSTANTS
  r1 = r1  t1 = t1  s1 = s1  None = None
  RunIds <- MCPair
  RootIds <- MCRootIds1
  SubRunIdFor <- MCSubRunIdFor
  TaskAddresses = {t1}
  SubFlowAddresses = {s1}
  FlowNames = {"outer", "inner"}
  MaxVersion = 1
  Contents = {"plain"}
  ValidFlowSet <- MCValidFlowSet
  Queues = {"default"}
  Values = {"done"}
  MaxAttempts = 2
  MaxDeploy = 1
INVARIANTS
  NoTaskStranded
PROPERTIES
  FinalStaysFinal
  NoWorkForEndedRuns
  LeaseExcludes
CHECK_DEADLOCK FALSE
