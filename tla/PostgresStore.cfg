\* Two transactions at a time on two trees and a task.
SPECIFICATION Spec
CONSTANTS
  r1 = r1  r2 = r2  t1 = t1  s1 = s1  None = None
  RunIds <- MCForest
  RootIds <- MCRootIds2
  SubRunIdFor <- MCSubRunIdFor
  TaskAddresses = {t1}
  SubFlowAddresses = {s1}
  FlowNames = {"flow"}
  MaxVersion = 2
  Contents = {"plain"}
  ValidFlowSet <- MCValidFlowSet
  Queues = {"default"}
  Values = {}
  MaxAttempts = 2
  MaxDeploy = 1
  Before <- MCBefore
  Txns = {x1, x2}
  Requests <- MCRequests
SYMMETRY TxnSymmetry
INVARIANTS
  NoWaitCycle
  WritersApart
PROPERTIES
  ImplementsStore
  RunsCommitInOrder
