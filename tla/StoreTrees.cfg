\* A tree of nested sub-flow runs, stopped by failures, cancels and uploads.
SPECIFICATION Spec
CONSTANTS
  r1 = r1  t1 = t1  s1 = s1  None = None
  RunIds <- MCChain
  RootIds <- MCRootIds1
  SubRunIdFor <- MCSubRunIdFor
  TaskAddresses = {}
  SubFlowAddresses = {s1}
  FlowNames = {"outer", "inner"}
  MaxVersion = 2
  Contents <- MCContents
  ValidFlowSet <- MCValidFlowSet
  Queues = {"default"}
  Values = {}
  MaxAttempts = 1
  MaxDeploy = 2
INVARIANTS
  TreeShape
  TreeEndsTogether
  EventsTellRuns
  LatestFlowsValid
  ActiveOnLatest
CHECK_DEADLOCK FALSE
