\* One run tree, one worker, a second version of the inner flow, two mishaps;
\* under fairness.
SPECIFICATION FairSpec
CONSTANTS
  r1 = r1  r2 = r2  w1 = w1  w2 = w2  None = None
  RunIds <- MCRunIds
  RootIds <- MCRootIds
  SubRunIdFor <- MCSubRunIdFor
  TaskAddresses <- MCTaskAddresses
  SubFlowAddresses <- MCSubFlowAddresses
  FlowNames = {"outer", "inner"}
  MaxVersion = 2
  Contents <- MCContents
  ValidFlowSet <- MCValidFlowSet
  Queues = {"default"}
  Values <- MCValues
  MaxAttempts = 3
  MaxDeploy = 2
  NextActions <- MCPlan
  RunStates <- MCRunStates
  IsAvailable <- MCReady
  Output <- MCOutput
  Calls <- MCCalls
  QueueOf <- MCQueueOf
  Fits <- MCFits
  Releases <- MCReleases
  Workers = {w1}
  Page = 2
  StartAttempts = 3
  MaxMishaps = 2
INVARIANTS
  NoLostWakeup
  ChildWithinParent
  FailedForCause
PROPERTIES
  EverythingEnds
CHECK_DEADLOCK FALSE
