------------------------ MODULE OrchestrationProofs ------------------------
(* Proofs about a deployment at work, for any number of runs, workers, late  *)
(* requests, events and mishaps.                                             *)
EXTENDS Orchestration, StoreProofs

-----------------------------------------------------------------------------
(* What a step of the store does to each run and each task.                  *)

RunStep(r) ==
  \/ runs'[r] = runs[r]
  \/ runs[r].status = "none" /\ runs'[r].status = "active" /\ runs'[r].output = None
  \/ /\ runs[r].status = "active" /\ runs'[r].status \in RunEnded
     /\ runs'[r].flow = runs[r].flow /\ runs'[r].version = runs[r].version
     /\ runs'[r].parent = runs[r].parent /\ runs'[r].root = runs[r].root

TaskMoves(t) ==
  \/ tasks'[t].status = tasks[t].status /\ tasks'[t].result = tasks[t].result
  \/ /\ tasks[t].status = "none" /\ IsActive(t[1])
     /\ tasks'[t].status = "pending" /\ tasks'[t].result = None
  \/ tasks[t].status \in {"pending"} \cup TaskLeased /\ tasks'[t].status # "none"

FlowsKept ==
  \A f \in FlowNames, v \in Versions : flows[f][v] # None => flows'[f][v] = flows[f][v]

LEMMA RunStepEnds ==
  ASSUME TypeOK, NEW roots, NEW status \in RunEnded, TreesEnded(roots, status),
         NEW r \in RunIds
  PROVE  RunStep(r)
<1>1. CASE r \in ActiveInTrees(roots)
  BY <1>1, TreesEndedRuns DEF RunStep, ActiveInTrees, IsActive
<1>2. CASE r \notin ActiveInTrees(roots)
  BY <1>2 DEF RunStep, TreesEnded
<1> QED
  BY <1>1, <1>2

LEMMA RunStepNext == TypeOK /\ [Next]_storeVars => \A r \in RunIds : RunStep(r)
<1> SUFFICES ASSUME TypeOK, [Next]_storeVars, NEW r \in RunIds PROVE RunStep(r)
  OBVIOUS
<1>1. CASE runs' = runs
  BY <1>1 DEF RunStep
<1>2. CASE \E U \in Deploys : StoreFlows(U)
  <2>1. PICK roots : FinishRuns(ActiveInTrees(roots), "cancelled")
    BY <1>2 DEF StoreFlows
  <2> QED
    BY <2>1, RunStepEnds DEF FinishRuns, TreesEnded, RunEnded
<1>3. CASE \E s \in RunIds, status \in {"failed", "cancelled"} : FinishTree(s, status)
  BY <1>3, RunStepEnds DEF FinishTree, FinishRuns, TreesEnded, RunEnded
<1>4. CASE \E s \in RunIds, f \in FlowNames, v \in Versions : \E root, p, a :
             runs[s].status = "none" /\ AddRun(s, f, v, root, p, a)
  BY <1>4 DEF AddRun, RunStep, TypeOK
<1>5. CASE \E s \in RunIds, output \in Values \cup {None} : SucceedRun(s, output)
  BY <1>5 DEF SucceedRun, IsActive, RunStep, RunEnded, TypeOK, Run
<1> QED
  BY <1>1, <1>2, <1>3, <1>4, <1>5, StoreAssumption
  DEF Next, storeVars, StartRun, StartSubRun, FailRunTree, CancelRunTree, PublishTask,
      ReceiveTask, HandOut, ClaimTask, DropTask, ExtendTaskLease, FinishTask, LeaseLapses

LEMMA TaskMovesNext == TypeOK /\ [Next]_storeVars => \A t \in TaskIds : TaskMoves(t)
<1> SUFFICES ASSUME TypeOK, [Next]_storeVars, NEW t \in TaskIds PROVE TaskMoves(t)
  OBVIOUS
<1>0. \A s \in TaskIds : tasks[s] \in Task
  BY DEF TypeOK
<1>1. CASE tasks' = tasks
  BY <1>1 DEF TaskMoves
<1>2. CASE \E s \in TaskIds, q \in Queues : PublishTask(s, q)
  BY <1>0, <1>2 DEF PublishTask, TaskMoves, TypeOK, NoTask
<1>3. CASE \E q \in Queues, i \in DOMAIN published : ReceiveTask(q, i)
  <2>1. PICK q \in Queues, i \in DOMAIN published : ReceiveTask(q, i)
    BY <1>3
  <2> DEFINE s == published[i]
             new == [tasks[s] EXCEPT !.status = "received", !.lease = "held",
                                     !.attempts = tasks[s].attempts + 1]
  <2>2. s \in TaskIds /\ tasks[s] \in Task
    BY <1>0 DEF TypeOK
  <2>3. new.status = "received"
    BY <2>2 DEF Task
  <2>4. tasks' = [tasks EXCEPT ![s] = new]
    BY <2>1, Zenon DEF ReceiveTask, HandOut
  <2>5. tasks[s].status \in {"pending"} \cup TaskLeased
    BY <2>1 DEF ReceiveTask, IsOldestReceivable, IsReceivable
  <2> HIDE DEF s, new
  <2> QED
    BY <2>2, <2>3, <2>4, <2>5, OneTaskChanges DEF TaskMoves
<1>4. CASE \E s \in TaskIds : ClaimTask(s) \/ DropTask(s) \/ ExtendTaskLease(s) \/ LeaseLapses(s)
  <2>1. PICK s \in TaskIds : ClaimTask(s) \/ DropTask(s) \/ ExtendTaskLease(s) \/ LeaseLapses(s)
    BY <1>4
  <2>2. CASE ClaimTask(s)
    BY <1>0, <2>2 DEF ClaimTask, MayBecome, TypeOK, Task, TaskMoves, TaskLeased
  <2>3. CASE DropTask(s)
    BY <1>0, <2>3 DEF DropTask, MayBecome, TypeOK, Task, TaskMoves, TaskLeased
  <2>4. CASE ExtendTaskLease(s)
    BY <1>0, <2>4 DEF ExtendTaskLease, TypeOK, Task, TaskMoves
  <2>5. CASE LeaseLapses(s)
    BY <1>0, <2>5 DEF LeaseLapses, TypeOK, Task, TaskMoves
  <2> QED
    BY <2>1, <2>2, <2>3, <2>4, <2>5
<1>5. CASE \E s \in TaskIds, status \in TaskTerminal, result \in Values \cup {None} :
             FinishTask(s, status, result)
  BY <1>0, <1>5 DEF FinishTask, MayBecome, TypeOK, Task, TaskTerminal, TaskLeased, TaskMoves
<1> QED
  BY <1>1, <1>2, <1>3, <1>4, <1>5
  DEF Next, storeVars, StoreFlows, StartRun, StartSubRun, AddRun, SucceedRun, FailRunTree,
      CancelRunTree, FinishTree

LEMMA FlowsKeptNext == TypeOK /\ [Next]_storeVars => FlowsKept
<1> SUFFICES ASSUME TypeOK, [Next]_storeVars PROVE FlowsKept
  OBVIOUS
<1>1. CASE flows' = flows
  BY <1>1 DEF FlowsKept
<1>2. CASE \E U \in Deploys : StoreFlows(U)
  <2>1. PICK U \in Deploys : StoreFlows(U)
    BY <1>2
  <2> SUFFICES ASSUME NEW f \in FlowNames, NEW v \in Versions, flows[f][v] # None
               PROVE  flows'[f][v] = flows[f][v]
    BY DEF FlowsKept
  <2>2. \A u \in NewUploads(U) : ~ (u.name = f /\ u.version = v)
    <3> SUFFICES ASSUME NEW u \in NewUploads(U), u.name = f, u.version = v PROVE FALSE
      OBVIOUS
    <3>1. v < v
      BY DEF NewUploads, IsNewUpload, StoredVersions
    <3> QED
      BY <3>1 DEF Versions
  <2> QED
    BY <2>1, <2>2 DEF StoreFlows
<1> QED
  BY <1>1, <1>2
  DEF Next, storeVars, StartRun, StartSubRun, AddRun, SucceedRun, FailRunTree, CancelRunTree,
      FinishTree, PublishTask, ReceiveTask, HandOut, ClaimTask, DropTask, ExtendTaskLease,
      FinishTask, LeaseLapses

-----------------------------------------------------------------------------
(* What becomes of the state of a run.                                       *)

\* A run that is there has a content, and only such a run has tasks.
ContentsKept ==
  \A r \in RunIds : runs[r].status # "none" =>
    runs[r].flow \in FlowNames /\ runs[r].version \in StoredVersions(runs[r].flow)
TasksOfRuns ==
  \A t \in TaskIds : tasks[t].status # "none" => runs[t[1]].status # "none"

HasTask(r, a) == a \in TaskAddresses /\ tasks[<<r, a>>].status # "none"
HasSubRun(r, a) ==
  a \in SubFlowAddresses /\ SubRun(r, a) \in RunIds /\ runs[SubRun(r, a)].status # "none"

Begun(r) == DOMAIN RunStateOf(r).steps

LEMMA ContentKnown ==
  ASSUME TypeOK, ContentsKept, NEW r \in RunIds, runs[r].status # "none"
  PROVE  ContentOf(r) \in Contents
BY DEF ContentsKept, ContentOf, StoredVersions, TypeOK

LEMMA ContentStays ==
  ASSUME TypeOK, ContentsKept, FlowsKept, NEW r \in RunIds, RunStep(r), runs[r].status # "none"
  PROVE  runs'[r].status # "none" /\ ContentOf(r)' = ContentOf(r)
BY DEF RunStep, RunEnded, FlowsKept, ContentsKept, ContentOf, StoredVersions

LEMMA Outcomes ==
  /\ \A s \in {"pending", "received", "running", "active"} : OutcomeOf(s) = "running"
  /\ \A s \in {"succeeded", "failed", "cancelled"} :
       OutcomeOf(s) \in {"succeeded", "failed"}
BY DEF OutcomeOf

LEMMA OutcomesKnown ==
  ASSUME NEW s \in (TaskStatus \cup RunStatus) \ {"none"}
  PROVE  /\ OutcomeOf(s) \in {"running", "succeeded", "failed"}
         /\ OutcomeOf(s) = "running" <=> s \in {"pending", "received", "running", "active"}
BY Outcomes DEF TaskStatus, TaskLeased, TaskTerminal, RunStatus, RunEnded

\* What the state of a run is made of.
StateShaped(r) ==
  /\ RunStateOf(r) = StateOf(RunStateOf(r).steps)
  /\ \A a : a \in Begun(r) <=> HasTask(r, a) \/ HasSubRun(r, a)
  /\ RunStateOf(r).steps \in [Begun(r) -> StepState]
  /\ \A a \in TaskAddresses : HasTask(r, a) =>
       RunStateOf(r).steps[a] = [outcome |-> OutcomeOf(tasks[<<r, a>>].status),
                                 value |-> tasks[<<r, a>>].result]
  /\ \A a \in SubFlowAddresses : HasSubRun(r, a) =>
       RunStateOf(r).steps[a] = [outcome |-> OutcomeOf(runs[SubRun(r, a)].status),
                                 value |-> runs[SubRun(r, a)].output]

StatesShaped == \A r \in RunIds : StateShaped(r)

LEMMA StateShape == TypeOK => StatesShaped
<1> SUFFICES ASSUME TypeOK, NEW r \in RunIds PROVE StateShaped(r)
  BY DEF StatesShaped
<1> DEFINE published_ == {a \in TaskAddresses : tasks[<<r, a>>].status # "none"}
           started == {a \in SubFlowAddresses :
                         SubRun(r, a) \in RunIds /\ runs[SubRun(r, a)].status # "none"}
           Step(a) == IF a \in published_
                      THEN [outcome |-> OutcomeOf(tasks[<<r, a>>].status),
                            value |-> tasks[<<r, a>>].result]
                      ELSE [outcome |-> OutcomeOf(runs[SubRun(r, a)].status),
                            value |-> runs[SubRun(r, a)].output]
           steps == [a \in published_ \cup started |-> Step(a)]
<1>1. RunStateOf(r) = StateOf(steps)
  BY DEF RunStateOf
<1>2. RunStateOf(r).steps = steps
  BY <1>1 DEF StateOf
<1>3. \A a : /\ a \in published_ <=> HasTask(r, a)
             /\ a \in started <=> HasSubRun(r, a)
             /\ ~ (a \in published_ /\ a \in started)
  BY OrchestrationAssumption DEF HasTask, HasSubRun
<1>4. \A a \in published_ \cup started : Step(a) \in StepState
  <2> SUFFICES ASSUME NEW a \in published_ \cup started PROVE Step(a) \in StepState
    OBVIOUS
  <2>1. CASE a \in published_
    <3>1. <<r, a>> \in TaskIds /\ tasks[<<r, a>>].status \in TaskStatus \ {"none"}
          /\ tasks[<<r, a>>].result \in Values \cup {None}
      BY <2>1 DEF TypeOK, Task, TaskIds
    <3> QED
      BY <2>1, <3>1, OutcomesKnown DEF StepState
  <2>2. CASE a \notin published_
    <3>1. runs[SubRun(r, a)].status \in RunStatus \ {"none"}
          /\ runs[SubRun(r, a)].output \in Values \cup {None}
      BY <2>2 DEF TypeOK, Run
    <3> QED
      BY <2>2, <3>1, OutcomesKnown DEF StepState
  <2> QED
    BY <2>1, <2>2
<1>5. steps \in [published_ \cup started -> StepState]
  BY <1>4
<1>6. /\ \A a \in published_ : steps[a] = [outcome |-> OutcomeOf(tasks[<<r, a>>].status),
                                           value |-> tasks[<<r, a>>].result]
      /\ \A a \in started : steps[a] = [outcome |-> OutcomeOf(runs[SubRun(r, a)].status),
                                        value |-> runs[SubRun(r, a)].output]
  BY <1>3
<1>7. DOMAIN steps = published_ \cup started
  OBVIOUS
<1> HIDE DEF steps
<1> QED
  BY <1>1, <1>2, <1>3, <1>5, <1>6, <1>7 DEF StateShaped, Begun, HasTask, HasSubRun

LEMMA GrowsTransitive ==
  ASSUME NEW st1, NEW st2, NEW st3, Grows(st1, st2), Grows(st2, st3)
  PROVE  Grows(st1, st3)
BY DEF Grows

LEMMA GrowsReflexive == \A st : Grows(st, st)
BY DEF Grows

\* Nothing begins in run r.
BeginsNothing(r) ==
  /\ \A a \in TaskAddresses : tasks[<<r, a>>].status = "none" => tasks'[<<r, a>>].status = "none"
  /\ \A a \in SubFlowAddresses : SubRun(r, a) \in RunIds /\ runs[SubRun(r, a)].status = "none"
       => runs'[SubRun(r, a)].status = "none"

\* A task or a sub-flow run that is there stays, and changes only while under way.
LEMMA StepsGrow ==
  ASSUME TypeOK, TypeOK', NEW r \in RunIds,
         \A s \in RunIds : RunStep(s), \A t \in TaskIds : TaskMoves(t)
  PROVE  Grows(RunStateOf(r), RunStateOf(r)')
<1> DEFINE st == RunStateOf(r)
<1>0. StateShaped(r) /\ StateShaped(r)'
  <2>1. StatesShaped /\ StatesShaped'
    BY StateShape, PTL
  <2> QED
    BY <2>1 DEF StatesShaped
<1> SUFFICES ASSUME NEW a \in Begun(r)
             PROVE  /\ a \in Begun(r)'
                    /\ st.steps[a].outcome = "running" \/ st'.steps[a] = st.steps[a]
  BY DEF Grows, Begun
<1>1. CASE HasTask(r, a)
  <2>1. <<r, a>> \in TaskIds /\ TaskMoves(<<r, a>>)
    BY <1>1 DEF HasTask, TaskIds
  <2>2. HasTask(r, a)'
    BY <1>1, <2>1 DEF HasTask, TaskMoves
  <2>3. /\ st.steps[a] = [outcome |-> OutcomeOf(tasks[<<r, a>>].status),
                          value |-> tasks[<<r, a>>].result]
        /\ st'.steps[a] = [outcome |-> OutcomeOf(tasks'[<<r, a>>].status),
                           value |-> tasks'[<<r, a>>].result]
        /\ a \in Begun(r)'
    BY <1>0, <1>1, <2>1, <2>2 DEF StateShaped, HasTask
  <2>4. CASE tasks'[<<r, a>>].status = tasks[<<r, a>>].status
             /\ tasks'[<<r, a>>].result = tasks[<<r, a>>].result
    BY <2>3, <2>4
  <2>5. CASE tasks[<<r, a>>].status \in {"pending"} \cup TaskLeased
    <3>1. OutcomeOf(tasks[<<r, a>>].status) = "running"
      BY <2>5, Outcomes DEF TaskLeased
    <3> QED
      BY <2>3, <3>1
  <2> QED
    BY <1>1, <2>1, <2>3, <2>4, <2>5 DEF TaskMoves, HasTask
<1>2. CASE HasSubRun(r, a)
  <2>1. SubRun(r, a) \in RunIds /\ RunStep(SubRun(r, a)) /\ a \in SubFlowAddresses
    BY <1>2 DEF HasSubRun
  <2>2. HasSubRun(r, a)'
    BY <1>2, <2>1 DEF HasSubRun, RunStep, RunEnded, SubRun
  <2>3. /\ st.steps[a] = [outcome |-> OutcomeOf(runs[SubRun(r, a)].status),
                          value |-> runs[SubRun(r, a)].output]
        /\ st'.steps[a] = [outcome |-> OutcomeOf(runs'[SubRun(r, a)].status),
                           value |-> runs'[SubRun(r, a)].output]
        /\ a \in Begun(r)'
    BY <1>0, <1>2, <2>1, <2>2 DEF StateShaped
  <2>4. CASE runs'[SubRun(r, a)] = runs[SubRun(r, a)]
    BY <2>3, <2>4
  <2>5. CASE runs[SubRun(r, a)].status = "active"
    BY <2>3, <2>5, Outcomes
  <2> QED
    BY <1>2, <2>1, <2>4, <2>5 DEF RunStep, HasSubRun
<1> QED
  BY <1>0, <1>1, <1>2 DEF StateShaped

\* A state that grows while nothing begins stays one that the run may come to.
LEMMA StateEnds ==
  ASSUME TypeOK, TypeOK', NEW r \in RunIds, BeginsNothing(r),
         \A s \in RunIds : RunStep(s), \A t \in TaskIds : TaskMoves(t)
  PROVE  /\ Begun(r)' = Begun(r)
         /\ \A c \in Contents : RunStateOf(r) \in RunStates(c) => RunStateOf(r)' \in RunStates(c)
<1>0. StateShaped(r) /\ StateShaped(r)'
  <2>1. StatesShaped /\ StatesShaped'
    BY StateShape, PTL
  <2> QED
    BY <2>1 DEF StatesShaped
<1>1. Grows(RunStateOf(r), RunStateOf(r)')
  BY StepsGrow
<1>2. \A a : HasTask(r, a)' => HasTask(r, a)
  BY DEF HasTask, BeginsNothing
<1>3. \A a : HasSubRun(r, a)' => HasSubRun(r, a)
  BY DEF HasSubRun, BeginsNothing, SubRun
<1>4. Begun(r)' = Begun(r)
  <2>1. Begun(r) \subseteq Begun(r)'
    BY <1>1 DEF Grows, Begun
  <2>2. Begun(r)' \subseteq Begun(r)
    BY <1>0, <1>2, <1>3 DEF StateShaped
  <2> QED
    BY <2>1, <2>2
<1>5. ASSUME NEW c \in Contents, RunStateOf(r) \in RunStates(c)
      PROVE  RunStateOf(r)' \in RunStates(c)
  <2> DEFINE steps == RunStateOf(r)'.steps
  <2>1. steps \in [DOMAIN RunStateOf(r).steps -> StepState]
    BY <1>0, <1>4 DEF StateShaped, Begun, StepState
  <2>2. RunStateOf(r)' = StateOf(steps)
    BY <1>0 DEF StateShaped, StateOf
  <2> HIDE DEF steps
  <2> QED
    BY <1>1, <1>5, <2>1, <2>2, PlannerAssumption
<1> QED
  BY <1>4, <1>5

\* The state of a run of which nothing changes.
LEMMA StateSame ==
  ASSUME TypeOK, TypeOK', NEW r \in RunIds,
         \A a \in TaskAddresses : tasks'[<<r, a>>] = tasks[<<r, a>>],
         \A a \in SubFlowAddresses : SubRun(r, a) \in RunIds => runs'[SubRun(r, a)] = runs[SubRun(r, a)]
  PROVE  RunStateOf(r)' = RunStateOf(r)
<1>0. StateShaped(r) /\ StateShaped(r)'
  <2>1. StatesShaped /\ StatesShaped'
    BY StateShape, PTL
  <2> QED
    BY <2>1 DEF StatesShaped
<1>1. \A a : /\ HasTask(r, a)' <=> HasTask(r, a)
             /\ HasSubRun(r, a)' <=> HasSubRun(r, a)
  BY DEF HasTask, HasSubRun, SubRun
<1>2. Begun(r)' = Begun(r)
  BY <1>0, <1>1 DEF StateShaped
<1>3. \A a \in Begun(r) : RunStateOf(r)'.steps[a] = RunStateOf(r).steps[a]
  <2> SUFFICES ASSUME NEW a \in Begun(r)
               PROVE  RunStateOf(r)'.steps[a] = RunStateOf(r).steps[a]
    OBVIOUS
  <2>1. CASE HasTask(r, a)
    BY <1>0, <1>1, <2>1 DEF StateShaped, HasTask
  <2>2. CASE HasSubRun(r, a)
    BY <1>0, <1>1, <2>2 DEF StateShaped, HasSubRun, SubRun
  <2> QED
    BY <1>0, <2>1, <2>2 DEF StateShaped
<1>4. RunStateOf(r)'.steps = RunStateOf(r).steps
  BY <1>0, <1>2, <1>3 DEF StateShaped
<1> QED
  BY <1>0, <1>4 DEF StateShaped, StateOf

\* The state of a run in which one step begins.
LEMMA StateStarts ==
  ASSUME TypeOK, TypeOK', NEW r \in RunIds, NEW a, a \notin Begun(r),
         Begun(r)' = Begun(r) \cup {a},
         RunStateOf(r)'.steps[a] = Underway,
         \A b \in Begun(r) : RunStateOf(r)'.steps[b] = RunStateOf(r).steps[b]
  PROVE  RunStateOf(r)' = WithStarted(RunStateOf(r), a)
<1>0. StateShaped(r)'
  <2>1. StatesShaped'
    BY StateShape, PTL
  <2> QED
    BY <2>1 DEF StatesShaped
<1>1. RunStateOf(r)'.steps = [b \in Begun(r) \cup {a} |-> IF b = a THEN Underway ELSE RunStateOf(r).steps[b]]
  BY <1>0 DEF StateShaped
<1> QED
  BY <1>0, <1>1 DEF StateShaped, StateOf, WithStarted, Begun

LEMMA PublishBegins ==
  ASSUME TypeOK, TypeOK', NEW r \in RunIds, NEW a \in TaskAddresses, NEW queue,
         PublishTask(<<r, a>>, queue), NEW s \in RunIds
  PROVE  RunStateOf(s)' = IF s = r /\ a \notin Begun(r)
                          THEN WithStarted(RunStateOf(s), a) ELSE RunStateOf(s)
<1>0. StateShaped(r) /\ StateShaped(r)'
  <2>1. StatesShaped /\ StatesShaped'
    BY StateShape, PTL
  <2> QED
    BY <2>1 DEF StatesShaped
<1>1. /\ runs' = runs
      /\ \A t \in TaskIds : t # <<r, a>> => tasks'[t] = tasks[t]
      /\ IF tasks[<<r, a>>].status = "none"
         THEN tasks'[<<r, a>>].status = "pending" /\ tasks'[<<r, a>>].result = None
         ELSE tasks'[<<r, a>>] = tasks[<<r, a>>]
  <2>1. <<r, a>> \in TaskIds /\ runs' = runs
    BY DEF TaskIds, PublishTask
  <2>2. CASE tasks[<<r, a>>].status # "none"
    BY <2>1, <2>2 DEF PublishTask
  <2>3. CASE tasks[<<r, a>>].status = "none"
    <3> DEFINE new == [NoTask EXCEPT !.status = "pending", !.queue = queue]
    <3>1. tasks' = [tasks EXCEPT ![<<r, a>>] = new]
      BY <2>3 DEF PublishTask
    <3>2. new.status = "pending" /\ new.result = None
      BY DEF NoTask
    <3> HIDE DEF new
    <3> QED
      BY <2>1, <2>3, <3>1, <3>2, OneTaskChanges
  <2> QED
    BY <2>1, <2>2, <2>3
<1>2. a \in Begun(r) <=> tasks[<<r, a>>].status # "none"
  BY <1>0, OrchestrationAssumption DEF StateShaped, HasTask, HasSubRun
<1>3. CASE s # r \/ a \in Begun(r)
  <2>1. \A b \in TaskAddresses : tasks'[<<s, b>>] = tasks[<<s, b>>]
    BY <1>1, <1>2, <1>3 DEF TaskIds
  <2> QED
    BY <1>1, <1>3, <2>1, StateSame
<1>4. CASE s = r /\ a \notin Begun(r)
  <2>1. \A b : /\ HasTask(r, b)' <=> HasTask(r, b) \/ b = a
               /\ HasSubRun(r, b)' <=> HasSubRun(r, b)
    BY <1>1, <1>2, <1>4 DEF HasTask, HasSubRun, SubRun, TaskIds
  <2>2. Begun(r)' = Begun(r) \cup {a}
    BY <1>0, <2>1 DEF StateShaped
  <2>3. RunStateOf(r)'.steps[a] = Underway
    BY <1>0, <1>1, <1>2, <1>4, <2>1, Outcomes DEF StateShaped, Underway
  <2>4. ASSUME NEW b \in Begun(r) PROVE RunStateOf(r)'.steps[b] = RunStateOf(r).steps[b]
    <3>1. CASE HasTask(r, b)
      <4>1. b \in TaskAddresses /\ <<r, b>> \in TaskIds /\ <<r, b>> # <<r, a>>
        BY <1>4, <3>1 DEF HasTask, TaskIds
      <4>2. tasks'[<<r, b>>] = tasks[<<r, b>>]
        BY <1>1, <4>1
      <4>3. /\ RunStateOf(r).steps[b] = [outcome |-> OutcomeOf(tasks[<<r, b>>].status),
                                         value |-> tasks[<<r, b>>].result]
            /\ RunStateOf(r)'.steps[b] = [outcome |-> OutcomeOf(tasks'[<<r, b>>].status),
                                          value |-> tasks'[<<r, b>>].result]
        BY <1>0, <2>1, <3>1, <4>1 DEF StateShaped
      <4> QED
        BY <4>2, <4>3
    <3>2. CASE HasSubRun(r, b)
      BY <1>0, <1>1, <2>1, <3>2 DEF StateShaped, HasSubRun, SubRun
    <3> QED
      BY <1>0, <3>1, <3>2 DEF StateShaped
  <2> QED
    BY <1>4, <2>2, <2>3, <2>4, StateStarts
<1> QED
  BY <1>3, <1>4

LEMMA SubRunBegins ==
  ASSUME TypeOK, TypeOK', NEW r \in RunIds, NEW a \in SubFlowAddresses, NEW f, NEW v,
         StartSubRun(r, a, f, v), NEW s \in RunIds
  PROVE  RunStateOf(s)' = IF s = r /\ a \notin Begun(r)
                          THEN WithStarted(RunStateOf(s), a) ELSE RunStateOf(s)
<1>0. StateShaped(r) /\ StateShaped(r)'
  <2>1. StatesShaped /\ StatesShaped'
    BY StateShape, PTL
  <2> QED
    BY <2>1 DEF StatesShaped
<1> DEFINE sub == SubRun(r, a)
<1>1. /\ tasks' = tasks
      /\ sub \in RunIds
      /\ \A x \in RunIds : x # sub => runs'[x] = runs[x]
      /\ IF runs[sub].status = "none"
         THEN runs'[sub].status = "active" /\ runs'[sub].output = None
         ELSE runs'[sub] = runs[sub]
  BY DEF StartSubRun, AddRun, TypeOK, SubRun, storeVars
<1>2. a \in Begun(r) <=> runs[sub].status # "none"
  BY <1>0, <1>1, OrchestrationAssumption DEF StateShaped, HasTask, HasSubRun
<1>3. \A x \in RunIds, b \in SubFlowAddresses : SubRun(x, b) = sub => x = r /\ b = a
  BY StoreAssumption DEF SubRun
<1>4. CASE s # r \/ a \in Begun(r)
  <2>1. \A b \in SubFlowAddresses : SubRun(s, b) \in RunIds => runs'[SubRun(s, b)] = runs[SubRun(s, b)]
    BY <1>1, <1>2, <1>3, <1>4
  <2> QED
    BY <1>1, <1>4, <2>1, StateSame
<1>5. CASE s = r /\ a \notin Begun(r)
  <2>1. \A b : /\ HasTask(r, b)' <=> HasTask(r, b)
               /\ HasSubRun(r, b)' <=> HasSubRun(r, b) \/ b = a
    BY <1>1, <1>2, <1>3, <1>5 DEF HasTask, HasSubRun, SubRun
  <2>2. Begun(r)' = Begun(r) \cup {a}
    BY <1>0, <2>1 DEF StateShaped
  <2>3. RunStateOf(r)'.steps[a] = Underway
    <3>1. HasSubRun(r, a)'
      BY <2>1
    <3>2. RunStateOf(r)'.steps[a] = [outcome |-> OutcomeOf(runs'[sub].status),
                                     value |-> runs'[sub].output]
      BY <1>0, <3>1 DEF StateShaped, SubRun
    <3> QED
      BY <1>1, <1>2, <1>5, <3>2, Outcomes DEF Underway
  <2>4. ASSUME NEW b \in Begun(r) PROVE RunStateOf(r)'.steps[b] = RunStateOf(r).steps[b]
    <3>1. CASE HasTask(r, b)
      BY <1>0, <1>1, <2>1, <3>1 DEF StateShaped, HasTask
    <3>2. CASE HasSubRun(r, b)
      <4>1. b # a /\ SubRun(r, b) # sub /\ SubRun(r, b) \in RunIds /\ b \in SubFlowAddresses
        BY <1>3, <1>5, <3>2 DEF HasSubRun
      <4>2. /\ RunStateOf(r).steps[b] = [outcome |-> OutcomeOf(runs[SubRun(r, b)].status),
                                         value |-> runs[SubRun(r, b)].output]
            /\ RunStateOf(r)'.steps[b] = [outcome |-> OutcomeOf(runs'[SubRun(r, b)].status),
                                          value |-> runs'[SubRun(r, b)].output]
        BY <1>0, <2>1, <3>2, <4>1 DEF StateShaped, SubRun
      <4> QED
        BY <1>1, <4>1, <4>2
    <3> QED
      BY <1>0, <3>1, <3>2 DEF StateShaped
  <2> QED
    BY <1>5, <2>2, <2>3, <2>4, StateStarts
<1> QED
  BY <1>4, <1>5

-----------------------------------------------------------------------------
(* Types of what the scheduler and the workers keep.                         *)

Requests == [do : {"publish", "start", "succeed", "fail", "cancel"}, run : RunIds,
             at : Addresses \cup {None}, latest : Versions \cup {None}, tries : Nat]
Scheduler == [pc : {"poll", "work", "rejected"}, after : Nat, upto : Nat,
              todo : Seq(RunIds), plan : Seq(Requests)]
Hands == [pc : {"idle"}, task : {None}] \cup [pc : {"received", "running"}, task : TaskIds]

SysTypeOK ==
  /\ sched \in Scheduler
  /\ worker \in [Workers -> Hands]
  /\ late \subseteq Requests
  /\ sched.pc = "poll" => sched.todo = <<>> /\ sched.plan = <<>>
  /\ sched.pc = "rejected" => sched.plan # <<>>

PlannedRequests == {sched.plan[i] : i \in DOMAIN sched.plan}
InFlight == late \cup PlannedRequests

\* A request in flight to begin a step was planned, for the run as it was then.
PlannedBefore(q) ==
  \E st \in RunStates(ContentOf(q.run)) :
    /\ Grows(st, RunStateOf(q.run))
    /\ ActionOf(q) \in StartsPlanned(ContentOf(q.run), st)

StartsWerePlanned ==
  \A q \in InFlight : q.do \in {"publish", "start"} =>
    runs[q.run].status # "none" /\ PlannedBefore(q)

\* Requests that are the same but for how far they have come.
SameRequest(q, s) == s.do = q.do /\ s.run = q.run /\ s.at = q.at

LEMMA LeastNumber ==
  ASSUME NEW T \in SUBSET Nat, T # {}
  PROVE  \E m \in T : \A n \in T : m <= n
<1>1. PICK m \in T : \A n \in T : ~ (<<n, m>> \in OpToRel(<, Nat))
  BY NatLessThanWellFounded, WFMin
<1>2. \A n \in T : ~ (n < m)
  BY <1>1 DEF OpToRel
<1> QED
  BY <1>2

LEMMA LatestKnown ==
  ASSUME TypeOK, NEW f \in FlowNames, StoredVersions(f) # {}
  PROVE  LatestOf(f) \in Versions /\ IsLatest(f, LatestOf(f))
<1> DEFINE T == {MaxVersion - v : v \in StoredVersions(f)}
<1>1. StoredVersions(f) \subseteq 1 .. MaxVersion /\ MaxVersion \in Nat
  BY StoreAssumption DEF StoredVersions, Versions
<1>2. T \in SUBSET Nat /\ T # {}
  BY <1>1
<1>3. PICK v \in StoredVersions(f) : \A w \in StoredVersions(f) : MaxVersion - v <= MaxVersion - w
  <2>1. PICK m \in T : \A n \in T : m <= n
    BY <1>2, LeastNumber
  <2> QED
    BY <2>1
<1>4. v \in Versions /\ IsLatest(f, v)
  BY <1>1, <1>3 DEF IsLatest, StoredVersions
<1> QED
  BY <1>4 DEF LatestOf

LEMMA PlannedTypes ==
  ASSUME NEW c \in Contents, NEW st \in RunStates(c)
  PROVE  /\ NextActions(c, st) \in Seq(Action)
         /\ Planned(c, st) \subseteq Action
         /\ \A action \in Planned(c, st) :
              /\ action.do = "publish" => action.at \in TaskAddresses
              /\ action.do = "start" => action.at \in SubFlowAddresses
              /\ action.do = "succeed" => action = Succeed
<1>1. NextActions(c, st) \in Seq(Action)
  BY PlannerAssumption DEF PlanIsSound
<1>2. Planned(c, st) \subseteq Action
  BY <1>1 DEF Planned
<1>3. \A action \in Action :
        /\ action.do = "publish" => action.at \in TaskAddresses
        /\ action.do = "start" => action.at \in SubFlowAddresses
        /\ action.do = "succeed" => action = Succeed
  BY DEF Action, Succeed
<1> QED
  BY <1>1, <1>2, <1>3

\* Where a request in flight begins a step.
LEMMA StartTypes ==
  ASSUME TypeOK, ContentsKept, StartsWerePlanned, SysTypeOK, NEW q \in InFlight
  PROVE  /\ q \in Requests
         /\ q.do = "publish" => q.at \in TaskAddresses
         /\ q.do = "start" => q.at \in SubFlowAddresses
         /\ q.do \in {"publish", "start"} =>
              runs[q.run].status # "none" /\ ContentOf(q.run) \in Contents
<1>1. q \in Requests
  BY DEF InFlight, PlannedRequests, SysTypeOK, Scheduler
<1>2. ASSUME q.do \in {"publish", "start"}
      PROVE  /\ runs[q.run].status # "none" /\ ContentOf(q.run) \in Contents
             /\ \E st \in RunStates(ContentOf(q.run)) : ActionOf(q) \in Planned(ContentOf(q.run), st)
  <2>1. q.run \in RunIds
    BY <1>1 DEF Requests
  <2> QED
    BY <1>2, <2>1, ContentKnown DEF StartsWerePlanned, PlannedBefore, StartsPlanned
<1> QED
  BY <1>1, <1>2, PlannedTypes DEF ActionOf

LEMMA NextStepAgain ==
  ASSUME NEW q \in Requests
  PROVE  StartAgain(q) \in Requests /\ SameRequest(q, StartAgain(q))
<1> DEFINE n == q.tries + 1
<1>1. n \in Nat
  BY DEF Requests
<1>2. StartAgain(q) = [q EXCEPT !.latest = None, !.tries = n]
  BY DEF StartAgain
<1> HIDE DEF n
<1> QED
  BY <1>1, <1>2 DEF Requests, SameRequest

LEMMA NextStepsKeep ==
  ASSUME TypeOK, ContentsKept, StartsWerePlanned, SysTypeOK, NEW q \in InFlight,
         NEW s \in NextSteps(q)
  PROVE  s \in Requests /\ SameRequest(q, s)
<1>0. q \in Requests /\ q.do = "start" /\ ~ Refuses(q)
  BY StartTypes DEF NextSteps
<1>1. Callee(q) \in FlowNames
  BY <1>0, StartTypes, OrchestrationAssumption DEF Callee
<1>2. CASE q.latest = None
  <2>1. s = ReadLatest(q) /\ LatestFits(q)
    BY <1>0, <1>2 DEF NextSteps, Refuses
  <2>2. LatestOf(Callee(q)) \in Versions
    BY <1>1, <2>1, LatestKnown DEF LatestFits
  <2> QED
    BY <1>0, <2>1, <2>2 DEF ReadLatest, Requests, SameRequest
<1>3. CASE q.latest # None
  <2>1. s = StartAgain(q)
    BY <1>0, <1>3 DEF NextSteps
  <2> QED
    BY <1>0, <1>3, NextStepAgain, <2>1
<1> QED
  BY <1>2, <1>3

-----------------------------------------------------------------------------
(* The runs of a page, in the order of its events.                           *)

\* A finite set whose elements have numbers of their own can be counted off in
\* the order of these.
LEMMA Enumeration ==
  ASSUME NEW C, IsFiniteSet(C), NEW at \in [C -> Nat],
         \A x, y \in C : at[x] = at[y] => x = y
  PROVE  \E s \in [1 .. Cardinality(C) -> C] :
           \A i, j \in 1 .. Cardinality(C) : i < j => at[s[i]] < at[s[j]]
<1> DEFINE n == Cardinality(C)
           upto(x) == {y \in C : at[y] <= at[x]}
           rank == [x \in C |-> Cardinality(upto(x))]
<1>1. n \in Nat
  BY FS_CardinalityType
<1>2. \A x \in C : /\ IsFiniteSet(upto(x)) /\ Cardinality(upto(x)) \in Nat
                   /\ Cardinality(upto(x)) <= n /\ Cardinality(upto(x)) # 0
  <2> SUFFICES ASSUME NEW x \in C
               PROVE  /\ IsFiniteSet(upto(x)) /\ Cardinality(upto(x)) \in Nat
                      /\ Cardinality(upto(x)) <= n /\ Cardinality(upto(x)) # 0
    OBVIOUS
  <2>1. IsFiniteSet(upto(x)) /\ Cardinality(upto(x)) <= n
    BY FS_Subset
  <2>2. x \in upto(x)
    OBVIOUS
  <2> QED
    BY <2>1, <2>2, FS_CardinalityType, FS_EmptySet
<1>3. \A x, y \in C : at[x] < at[y] => rank[x] < rank[y]
  <2> SUFFICES ASSUME NEW x \in C, NEW y \in C, at[x] < at[y]
               PROVE  Cardinality(upto(x)) < Cardinality(upto(y))
    OBVIOUS
  <2>1. upto(x) \subseteq upto(y) /\ y \in upto(y) /\ y \notin upto(x)
    OBVIOUS
  <2>2. Cardinality(upto(x)) <= Cardinality(upto(y))
        /\ Cardinality(upto(x)) # Cardinality(upto(y))
    <3> HIDE DEF upto
    <3> QED
      BY <1>2, <2>1, FS_Subset
  <2> QED
    BY <1>2, <2>2
<1>4. rank \in [C -> 1 .. n]
  BY <1>1, <1>2
<1> HIDE DEF rank
<1>5. rank \in Surjection(C, 1 .. n)
  <2>1. \A x, y \in C : rank[x] = rank[y] => x = y
    BY <1>3, <1>4
  <2>2. rank \in Injection(C, 1 .. n)
    BY <1>4, <2>1 DEF Injection, IsInjective
  <2>3. IsFiniteSet(1 .. n) /\ Cardinality(1 .. n) = n
    BY <1>1, FS_Interval
  <2> QED
    BY <2>2, <2>3, FS_Injection
<1>6. \A i \in 1 .. n : \E x \in C : rank[x] = i
  BY <1>5 DEF Surjection
<1> DEFINE s == [i \in 1 .. n |-> CHOOSE x \in C : rank[x] = i]
<1>7. s \in [1 .. n -> C] /\ \A i \in 1 .. n : rank[s[i]] = i
  BY <1>6
<1> HIDE DEF s
<1>8. \A i, j \in 1 .. n : i < j => at[s[i]] < at[s[j]]
  <2> SUFFICES ASSUME NEW i \in 1 .. n, NEW j \in 1 .. n, i < j PROVE at[s[i]] < at[s[j]]
    OBVIOUS
  <2>1. ~ (at[s[j]] < at[s[i]]) /\ s[i] # s[j]
    BY <1>1, <1>3, <1>7
  <2> QED
    BY <1>7, <2>1
<1> QED
  BY <1>7, <1>8

\* Such a count leaves nothing out.
LEMMA EnumerationCovers ==
  ASSUME NEW C, IsFiniteSet(C), NEW at \in [C -> Nat], NEW s \in [1 .. Cardinality(C) -> C],
         \A i, j \in 1 .. Cardinality(C) : i < j => at[s[i]] < at[s[j]]
  PROVE  \A x \in C : \E i \in 1 .. Cardinality(C) : s[i] = x
<1> DEFINE n == Cardinality(C)
<1>1. n \in Nat
  BY FS_CardinalityType
<1>2. \A i, j \in 1 .. n : s[i] = s[j] => i = j
  <2> SUFFICES ASSUME NEW i \in 1 .. n, NEW j \in 1 .. n, s[i] = s[j], i # j PROVE FALSE
    OBVIOUS
  <2>1. i < j \/ j < i
    BY <1>1
  <2>2. at[s[i]] \in Nat
    OBVIOUS
  <2> QED
    BY <2>1, <2>2
<1>3. s \in Injection(1 .. n, C)
  BY <1>2 DEF Injection, IsInjective
<1>4. IsFiniteSet(1 .. n) /\ Cardinality(1 .. n) = n
  BY <1>1, FS_Interval
<1>5. s \in Surjection(1 .. n, C)
  BY <1>3, <1>4, FS_Injection
<1> QED
  BY <1>5 DEF Surjection

LEMMA ConcernsType ==
  ASSUME TypeOK, NEW i \in DOMAIN events
  PROVE  Concerns(events[i]) \in RunIds \cup {None}
<1>1. events[i] \in Event
  BY DEF TypeOK
<1> QED
  BY <1>1 DEF Concerns, Event, TypeOK, Run

\* The page holds exactly the runs its events are about.
LEMMA PageRuns ==
  ASSUME TypeOK, NEW first \in Nat \ {0}, NEW last \in Nat, last <= Len(events)
  PROVE  /\ RunsOf(first, last) \in Seq(RunIds)
         /\ \A i \in DOMAIN RunsOf(first, last) :
              \E k \in first .. last : Concerns(events[k]) = RunsOf(first, last)[i]
         /\ \A k \in first .. last : Concerns(events[k]) # None =>
              \E i \in DOMAIN RunsOf(first, last) : RunsOf(first, last)[i] = Concerns(events[k])
<1> DEFINE concerned == {Concerns(events[i]) : i \in first .. last} \ {None}
           FirstAt(r) == CHOOSE i \in first .. last :
                           /\ Concerns(events[i]) = r
                           /\ \A j \in first .. i - 1 : Concerns(events[j]) # r
           n == Cardinality(concerned)
           at == [r \in concerned |-> FirstAt(r)]
           InOrder(s) == \A i, j \in 1 .. n : i < j => at[s[i]] < at[s[j]]
<1>1. first .. last \subseteq DOMAIN events
  BY DEF TypeOK
<1>2. concerned \in SUBSET RunIds
  BY <1>1, ConcernsType
<1>3. IsFiniteSet(concerned) /\ n \in Nat
  BY <1>2, FS_Subset, FS_CardinalityType, StoreAssumption
<1>4. \A r \in concerned : FirstAt(r) \in first .. last /\ Concerns(events[FirstAt(r)]) = r
  <2> SUFFICES ASSUME NEW r \in concerned
               PROVE  FirstAt(r) \in first .. last /\ Concerns(events[FirstAt(r)]) = r
    OBVIOUS
  <2> DEFINE T == {i \in first .. last : Concerns(events[i]) = r}
  <2>1. T \in SUBSET Nat /\ T # {}
    OBVIOUS
  <2>2. PICK m \in T : \A k \in T : m <= k
    BY <2>1, LeastNumber
  <2>3. m \in first .. last /\ Concerns(events[m]) = r
        /\ \A j \in first .. m - 1 : Concerns(events[j]) # r
    BY <2>2
  <2> QED
    BY <2>3
<1>5. \A s \in [1 .. n -> concerned] :
        InOrder(s) <=> \A i, j \in DOMAIN s : i < j => FirstAt(s[i]) < FirstAt(s[j])
  <2> SUFFICES ASSUME NEW s \in [1 .. n -> concerned]
               PROVE  InOrder(s) <=> \A i, j \in DOMAIN s : i < j => FirstAt(s[i]) < FirstAt(s[j])
    OBVIOUS
  <2> HIDE DEF FirstAt, concerned, n
  <2>1. DOMAIN s = 1 .. n /\ \A i \in 1 .. n : at[s[i]] = FirstAt(s[i])
    OBVIOUS
  <2> QED
    BY <2>1
<1> DEFINE page == RunsOf(first, last)
<1>6. page = CHOOSE s \in [1 .. n -> concerned] :
               \A i, j \in DOMAIN s : i < j => FirstAt(s[i]) < FirstAt(s[j])
  BY Zenon DEF RunsOf
<1> HIDE DEF FirstAt
<1>7. /\ first .. last \subseteq Nat
      /\ \A k \in first .. last : Concerns(events[k]) # None => Concerns(events[k]) \in concerned
      /\ \A r \in concerned : \E k \in first .. last : Concerns(events[k]) = r
  OBVIOUS
<1> HIDE DEF concerned
<1>8. at \in [concerned -> Nat] /\ \A x, y \in concerned : at[x] = at[y] => x = y
  BY <1>4, <1>7
<1> HIDE DEF at
<1>9. \E s \in [1 .. n -> concerned] : InOrder(s)
  BY <1>3, <1>8, Enumeration
<1> HIDE DEF page
<1>10. page \in [1 .. n -> concerned] /\ InOrder(page)
  BY <1>5, <1>6, <1>9
<1>11. \A x \in concerned : \E i \in 1 .. n : page[i] = x
  BY <1>3, <1>8, <1>10, EnumerationCovers
<1> HIDE DEF n
<1>12. page \in Seq(RunIds)
  BY <1>2, <1>3, <1>10
<1> QED
  BY <1>7, <1>10, <1>11, <1>12 DEF page

-----------------------------------------------------------------------------
(* The steps of the system as steps of its store.                            *)

\* A step of the store in which no run goes on, nor succeeds.
Elsewhere ==
  \/ UNCHANGED storeVars
  \/ \E U \in Deploys : StoreFlows(U)
  \/ \E r \in RootIds, f \in FlowNames, v \in Versions : StartRun(r, f, v)
  \/ \E r \in RunIds : FailRunTree(r)
  \/ \E r \in RunIds : CancelRunTree(r)
  \/ \E q \in Queues, i \in DOMAIN published : ReceiveTask(q, i)
  \/ \E t \in TaskIds : ClaimTask(t)
  \/ \E t \in TaskIds : DropTask(t)
  \/ \E t \in TaskIds : ExtendTaskLease(t)
  \/ \E t \in TaskIds, status \in TaskTerminal, result \in Values \cup {None} :
       FinishTask(t, status, result)
  \/ \E t \in TaskIds : LeaseLapses(t)

\* What a request in flight does for its run.
Carried(q) ==
  \/ q.do = "publish" /\ PublishTask(<<q.run, q.at>>, QueueOf(ContentOf(q.run), q.at))
  \/ q.do = "start" /\ StartSubRun(q.run, q.at, Callee(q), q.latest)
  \/ /\ q.do = "succeed"
     /\ SucceedRun(q.run, Output(ContentOf(q.run), RunStateOf(q.run)))

NothingNewInFlight ==
  \A q \in InFlight' : q.do \in {"fail", "cancel"} \/ \E s \in InFlight : SameRequest(s, q)

\* What the proofs below start from.
StatesKnown ==
  \A r \in RunIds : runs[r].status # "none" => RunStateOf(r) \in RunStates(ContentOf(r))

SysBasics ==
  TypeOK /\ ContentsKept /\ StatesKnown /\ SysTypeOK /\ StartsWerePlanned

LEMMA CarryCarries ==
  ASSUME SysBasics, NEW q \in InFlight, Carry(q)
  PROVE  Elsewhere \/ Carried(q)
<1>1. q \in Requests
  BY StartTypes DEF SysBasics
<1>2. q.run \in RunIds /\ q.do \in {"publish", "start", "succeed", "fail", "cancel"}
  BY <1>1 DEF Requests
<1>3. CASE q.do = "publish"
  BY <1>3 DEF Carry, Carried
<1>4. CASE q.do = "start"
  BY <1>4 DEF Carry, Carried
<1>5. CASE q.do = "succeed"
  BY <1>5 DEF Carry, Carried
<1>6. CASE q.do = "fail"
  BY <1>2, <1>6 DEF Carry, Elsewhere
<1>7. CASE q.do = "cancel"
  BY <1>2, <1>7 DEF Carry, Elsewhere
<1> QED
  BY <1>2, <1>3, <1>4, <1>5, <1>6, <1>7

LEMMA CarriedIsNext ==
  ASSUME SysBasics, NEW q \in InFlight, Carried(q)
  PROVE  Next
<1>1. /\ q \in Requests
      /\ q.do = "publish" => q.at \in TaskAddresses
      /\ q.do = "start" => q.at \in SubFlowAddresses
      /\ q.do \in {"publish", "start"} =>
           runs[q.run].status # "none" /\ ContentOf(q.run) \in Contents
  BY StartTypes DEF SysBasics
<1>2. q.run \in RunIds
  BY <1>1 DEF Requests
<1>3. CASE q.do = "publish" /\ PublishTask(<<q.run, q.at>>, QueueOf(ContentOf(q.run), q.at))
  <2>1. <<q.run, q.at>> \in TaskIds /\ QueueOf(ContentOf(q.run), q.at) \in Queues
    BY <1>1, <1>2, <1>3, OrchestrationAssumption DEF TaskIds
  <2> QED
    BY <1>3, <2>1 DEF Next
<1>4. CASE q.do = "start" /\ StartSubRun(q.run, q.at, Callee(q), q.latest)
  <2>1. Callee(q) \in FlowNames /\ q.at \in SubFlowAddresses
    BY <1>1, <1>4, OrchestrationAssumption DEF Callee
  <2>2. q.latest \in Versions
    BY <1>4 DEF StartSubRun, IsLatest, StoredVersions
  <2> QED
    BY <1>2, <1>4, <2>1, <2>2 DEF Next
<1>5. CASE /\ q.do = "succeed"
           /\ SucceedRun(q.run, Output(ContentOf(q.run), RunStateOf(q.run)))
  <2>1. runs[q.run].status # "none"
    BY <1>5 DEF SucceedRun, IsActive
  <2>2. ContentOf(q.run) \in Contents /\ RunStateOf(q.run) \in RunStates(ContentOf(q.run))
    BY <1>2, <2>1, ContentKnown DEF SysBasics, StatesKnown
  <2>3. Output(ContentOf(q.run), RunStateOf(q.run)) \in Values \cup {None}
    BY <2>2, PlannerAssumption
  <2> QED
    BY <1>2, <1>5, <2>3 DEF Next
<1> QED
  BY <1>3, <1>4, <1>5 DEF Carried

LEMMA ElsewhereIsNext == Elsewhere => [Next]_storeVars
BY DEF Elsewhere, Next

\* Requests may only be fewer, and their steps change none of what they are for.
LEMMA SchedulerWork ==
  ASSUME SysBasics, Apply \/ Rejected
  PROVE  /\ SysTypeOK' /\ NothingNewInFlight
         /\ \/ Elsewhere
            \/ \E q \in InFlight : Carried(q)
<1> DEFINE q == Head(sched.plan)
<1>0. /\ sched \in Scheduler /\ late \subseteq Requests /\ worker \in [Workers -> Hands]
      /\ sched.plan \in Seq(Requests)
      /\ None \in Addresses \cup {None} /\ None \in Versions \cup {None}
  BY DEF SysBasics, SysTypeOK, Scheduler
<1>1. CASE Apply
  <2>1. sched.plan # <<>> /\ sched.pc = "work" /\ late' = late /\ worker' = worker
    BY <1>1 DEF Apply
  <2>2. /\ q \in PlannedRequests /\ q \in InFlight /\ q \in Requests
        /\ Tail(sched.plan) \in Seq(Requests)
        /\ \A i \in DOMAIN Tail(sched.plan) : Tail(sched.plan)[i] \in PlannedRequests
    BY <1>0, <2>1 DEF PlannedRequests, InFlight
  <2>3. CASE \E s \in NextSteps(q) :
               /\ sched' = [sched EXCEPT !.plan = <<s>> \o Tail(sched.plan)]
               /\ UNCHANGED storeVars
    <3>1. PICK s \in NextSteps(q) :
            /\ sched' = [sched EXCEPT !.plan = <<s>> \o Tail(sched.plan)]
            /\ UNCHANGED storeVars
      BY <2>3
    <3>2. s \in Requests /\ SameRequest(q, s)
      BY <2>2, NextStepsKeep DEF SysBasics
    <3> DEFINE plan == <<s>> \o Tail(sched.plan)
    <3>3. /\ plan \in Seq(Requests)
          /\ \A i \in DOMAIN plan : plan[i] = s \/ plan[i] \in PlannedRequests
      BY <2>2, <3>2
    <3>4. sched' = [sched EXCEPT !.plan = plan]
      BY <3>1
    <3> HIDE DEF plan
    <3>5. sched' \in Scheduler /\ sched'.plan = plan /\ sched'.pc = "work"
      BY <1>0, <2>1, <3>3, <3>4 DEF Scheduler
    <3>6. SysTypeOK'
      BY <1>0, <2>1, <3>5 DEF SysTypeOK
    <3>7. NothingNewInFlight
      BY <2>1, <2>2, <3>2, <3>3, <3>5
      DEF NothingNewInFlight, InFlight, PlannedRequests, SameRequest
    <3> QED
      BY <3>1, <3>6, <3>7 DEF Elsewhere
  <2>4. CASE Carry(q) /\ sched' = [sched EXCEPT !.plan = Tail(sched.plan)]
    <3>1. sched' \in Scheduler /\ sched'.plan = Tail(sched.plan) /\ sched'.pc = "work"
      BY <1>0, <2>1, <2>2, <2>4 DEF Scheduler
    <3>2. SysTypeOK'
      BY <1>0, <2>1, <3>1 DEF SysTypeOK
    <3>3. NothingNewInFlight
      BY <2>1, <2>2, <3>1 DEF NothingNewInFlight, InFlight, PlannedRequests, SameRequest
    <3> QED
      BY <2>2, <2>4, <3>2, <3>3, CarryCarries
  <2>5. CASE sched' = [sched EXCEPT !.pc = "rejected"] /\ UNCHANGED storeVars
    <3>1. sched' \in Scheduler /\ sched'.plan = sched.plan /\ sched'.pc = "rejected"
      BY <1>0, <2>5 DEF Scheduler
    <3>2. SysTypeOK'
      BY <1>0, <2>1, <3>1 DEF SysTypeOK
    <3>3. NothingNewInFlight
      BY <2>1, <2>2, <3>1 DEF NothingNewInFlight, InFlight, PlannedRequests, SameRequest
    <3> QED
      BY <2>5, <3>2, <3>3 DEF Elsewhere
  <2> QED
    BY <1>1, <2>3, <2>4, <2>5 DEF Apply
<1>2. CASE Rejected
  <2>1. /\ sched.pc = "rejected" /\ sched.plan # <<>> /\ late' = late /\ worker' = worker
        /\ UNCHANGED storeVars
    BY <1>2 DEF Rejected, SysBasics, SysTypeOK
  <2>2. q \in Requests
    BY <1>0, <2>1
  <2> DEFINE plan == IF IsActive(q.run) THEN <<Request("fail", q.run, None)>> ELSE <<>>
  <2>3. Request("fail", q.run, None) \in Requests
    BY <2>2 DEF Requests, Request
  <2>4. plan \in Seq(Requests) /\ \A i \in DOMAIN plan : plan[i].do = "fail"
    BY <2>3 DEF Request
  <2>5. sched' = [sched EXCEPT !.pc = "work", !.plan = plan]
    BY <1>2, Zenon DEF Rejected
  <2> HIDE DEF plan
  <2>6. sched' \in Scheduler /\ sched'.plan = plan /\ sched'.pc = "work"
    BY <1>0, <2>4, <2>5 DEF Scheduler
  <2>7. SysTypeOK'
    BY <1>0, <2>1, <2>6 DEF SysTypeOK
  <2>8. NothingNewInFlight
    BY <2>1, <2>4, <2>6 DEF NothingNewInFlight, InFlight, PlannedRequests, SameRequest
  <2> QED
    BY <2>1, <2>7, <2>8 DEF Elsewhere
<1> QED
  BY <1>1, <1>2

LEMMA PlanTyped ==
  ASSUME SysBasics, NEW r \in RunIds
  PROVE  /\ PlanFor(r) \in Seq(Action)
         /\ ~ IsActive(r) => PlanFor(r) = <<>>
         /\ IsActive(r) => /\ ContentOf(r) \in Contents
                           /\ RunStateOf(r) \in RunStates(ContentOf(r))
                           /\ PlanFor(r) = NextActions(ContentOf(r), RunStateOf(r))
<1>1. CASE ~ IsActive(r)
  BY <1>1 DEF PlanFor
<1>2. CASE IsActive(r)
  <2>1. runs[r].status # "none"
    BY <1>2 DEF IsActive
  <2>2. ContentOf(r) \in Contents /\ RunStateOf(r) \in RunStates(ContentOf(r))
    BY <2>1, ContentKnown DEF SysBasics, StatesKnown
  <2> QED
    BY <1>2, <2>2, PlannedTypes DEF PlanFor
<1> QED
  BY <1>1, <1>2

\* What becomes of the scheduler when it starts on the next run of its page.
LEMMA AdvanceTypes ==
  ASSUME SysBasics, Advance
  PROVE  /\ SysTypeOK' /\ UNCHANGED <<storeVars, worker, late>>
         /\ sched.todo # <<>> /\ sched.plan = <<>> /\ sched.pc = "work" /\ sched'.pc = "work"
         /\ sched'.after = sched.after /\ sched'.upto = sched.upto
         /\ Head(sched.todo) \in RunIds /\ sched'.todo = Tail(sched.todo)
         /\ DOMAIN sched'.plan = DOMAIN PlanFor(Head(sched.todo))
         /\ \A i \in DOMAIN PlanFor(Head(sched.todo)) :
              sched'.plan[i] = Request(PlanFor(Head(sched.todo))[i].do, Head(sched.todo),
                                       PlanFor(Head(sched.todo))[i].at)
<1> DEFINE r == Head(sched.todo)
           actions == PlanFor(r)
           todo == Tail(sched.todo)
           plan == [i \in DOMAIN actions |-> Request(actions[i].do, r, actions[i].at)]
<1>1. sched \in Scheduler /\ sched.todo # <<>> /\ sched.pc = "work" /\ sched.plan = <<>>
  BY DEF SysBasics, SysTypeOK, Advance
<1>2. r \in RunIds /\ todo \in Seq(RunIds)
  BY <1>1 DEF Scheduler
<1>3. actions \in Seq(Action)
  BY <1>2, PlanTyped
<1>4. sched' = [sched EXCEPT !.todo = todo, !.plan = plan]
  BY Zenon DEF Advance
<1> HIDE DEF actions, r, todo
<1>5. \A i \in DOMAIN actions : Request(actions[i].do, r, actions[i].at) \in Requests
  <2> SUFFICES ASSUME NEW i \in DOMAIN actions
               PROVE  Request(actions[i].do, r, actions[i].at) \in Requests
    OBVIOUS
  <2>1. actions[i] \in Action
    BY <1>3
  <2>2. actions[i].do \in {"publish", "start", "succeed", "fail"} /\ actions[i].at \in Addresses \cup {None}
    BY <2>1 DEF Action, Addresses
  <2> QED
    BY <1>2, <2>2 DEF Request, Requests
<1>6. /\ plan \in Seq(Requests) /\ DOMAIN plan = DOMAIN actions
      /\ \A i \in DOMAIN actions : plan[i] = Request(actions[i].do, r, actions[i].at)
  BY <1>3, <1>5
<1> HIDE DEF plan
<1>7. /\ sched' \in Scheduler /\ sched'.plan = plan /\ sched'.todo = todo /\ sched'.pc = "work"
      /\ sched'.after = sched.after /\ sched'.upto = sched.upto
  BY <1>1, <1>2, <1>4, <1>6 DEF Scheduler
<1>8. UNCHANGED <<storeVars, worker, late>>
  BY DEF Advance
<1>9. SysTypeOK'
  BY <1>7, <1>8 DEF SysBasics, SysTypeOK
<1> QED
  BY <1>1, <1>2, <1>6, <1>7, <1>8, <1>9 DEF actions, r, todo

\* What becomes of it when it reads events, is done with them or loses its way.
LEMMA PollTypes ==
  ASSUME SysBasics, Poll
  PROVE  /\ SysTypeOK' /\ UNCHANGED <<storeVars, worker, late>>
         /\ sched.pc = "poll" /\ sched'.pc = "work"
         /\ sched'.plan = <<>> /\ sched'.after = sched.after
         /\ sched'.upto \in Nat /\ sched.after < sched'.upto /\ sched'.upto <= Len(events)
         /\ sched'.todo = RunsOf(sched.after + 1, sched'.upto)
<1> DEFINE end == Len(events)
           upto == IF sched.after + Page < end THEN sched.after + Page ELSE end
           todo == RunsOf(sched.after + 1, upto)
<1>1. /\ sched \in Scheduler /\ sched.pc = "poll" /\ sched.plan = <<>> /\ sched.after < end
      /\ sched.after \in Nat /\ end \in Nat
  BY DEF SysBasics, SysTypeOK, TypeOK, Poll, Scheduler
<1>2. upto \in Nat /\ upto <= end /\ sched.after < upto
  BY <1>1, OrchestrationAssumption
<1>3. sched' = [sched EXCEPT !.pc = "work", !.upto = upto, !.todo = todo]
  BY Zenon DEF Poll
<1> HIDE DEF upto
<1>4. todo \in Seq(RunIds)
  BY <1>1, <1>2, PageRuns DEF SysBasics
<1> HIDE DEF todo
<1>5. /\ sched' \in Scheduler /\ sched'.pc = "work" /\ sched'.plan = <<>>
      /\ sched'.after = sched.after /\ sched'.upto = upto /\ sched'.todo = todo
  BY <1>1, <1>2, <1>3, <1>4 DEF Scheduler
<1>6. UNCHANGED <<storeVars, worker, late>>
  BY DEF Poll
<1>7. SysTypeOK'
  BY <1>5, <1>6 DEF SysBasics, SysTypeOK
<1> QED
  BY <1>1, <1>2, <1>5, <1>6, <1>7 DEF todo

LEMMA PageDoneTypes ==
  ASSUME SysBasics, PageDone
  PROVE  /\ SysTypeOK' /\ UNCHANGED <<storeVars, worker, late>>
         /\ sched.pc = "work" /\ sched'.pc = "poll" /\ sched.todo = <<>> /\ sched.plan = <<>>
         /\ sched'.after = sched.upto /\ sched'.upto = sched.upto
         /\ sched'.plan = <<>> /\ sched'.todo = <<>>
<1> DEFINE upto == sched.upto
<1>1. /\ sched \in Scheduler /\ sched.pc = "work" /\ sched.plan = <<>> /\ sched.todo = <<>>
      /\ upto \in Nat /\ sched' = [sched EXCEPT !.pc = "poll", !.after = upto]
      /\ UNCHANGED <<storeVars, worker, late>>
  BY DEF SysBasics, SysTypeOK, PageDone, Scheduler
<1> HIDE DEF upto
<1>2. /\ sched' \in Scheduler /\ sched'.pc = "poll" /\ sched'.plan = <<>> /\ sched'.todo = <<>>
      /\ sched'.after = upto /\ sched'.upto = sched.upto
  BY <1>1 DEF Scheduler
<1>3. SysTypeOK'
  BY <1>1, <1>2 DEF SysBasics, SysTypeOK
<1> QED
  BY <1>1, <1>2, <1>3 DEF upto

LEMMA LossTypes ==
  ASSUME SysBasics, NEW after \in {0, sched.after}, LoseScheduler(after)
  PROVE  /\ SysTypeOK' /\ UNCHANGED <<storeVars, worker>>
         /\ sched' = [Stopped EXCEPT !.after = after]
         /\ late' \subseteq late \cup PlannedRequests
<1>1. sched \in Scheduler /\ late \subseteq Requests
  BY DEF SysBasics, SysTypeOK
<1>2. after \in Nat /\ sched.plan \in Seq(Requests)
  BY <1>1 DEF Scheduler
<1>3. sched' = [Stopped EXCEPT !.after = after] /\ UNCHANGED <<storeVars, worker>>
  BY DEF LoseScheduler
<1>4. late' \subseteq late \cup PlannedRequests
  <2>1. sched.plan # <<>> => Head(sched.plan) \in PlannedRequests
    BY <1>2 DEF PlannedRequests
  <2> QED
    BY <2>1 DEF LoseScheduler
<1>5. PlannedRequests \subseteq Requests
  BY <1>2 DEF PlannedRequests
<1>6. <<>> \in Seq(RunIds) /\ <<>> \in Seq(Requests)
  OBVIOUS
<1>7. sched' \in Scheduler /\ sched'.pc = "poll" /\ sched'.todo = <<>> /\ sched'.plan = <<>>
  BY <1>2, <1>3, <1>6 DEF Stopped, Scheduler
<1>8. SysTypeOK'
  BY <1>1, <1>3, <1>4, <1>5, <1>7 DEF SysBasics, SysTypeOK
<1> QED
  BY <1>3, <1>4, <1>8

\* A request that nobody waits for goes on as one that is waited for.
LEMMA LateWork ==
  ASSUME SysBasics, NEW q \in late, LateCall(q)
  PROVE  /\ SysTypeOK' /\ NothingNewInFlight /\ UNCHANGED <<sched, worker>>
         /\ Elsewhere \/ \E s \in InFlight : Carried(s)
<1>1. q \in InFlight /\ late \subseteq Requests /\ UNCHANGED <<sched, worker>>
  BY DEF InFlight, SysBasics, SysTypeOK, LateCall
<1>2. UNCHANGED PlannedRequests
  BY <1>1 DEF PlannedRequests
<1>3. CASE \E s \in NextSteps(q) : late' = (late \ {q}) \cup {s} /\ UNCHANGED storeVars
  <2>1. PICK s \in NextSteps(q) : late' = (late \ {q}) \cup {s} /\ UNCHANGED storeVars
    BY <1>3
  <2>2. s \in Requests /\ SameRequest(q, s)
    BY <1>1, NextStepsKeep DEF SysBasics
  <2>3. SysTypeOK'
    BY <1>1, <2>1, <2>2 DEF SysBasics, SysTypeOK
  <2>4. NothingNewInFlight
    BY <1>1, <1>2, <2>1, <2>2 DEF NothingNewInFlight, InFlight, SameRequest
  <2> QED
    BY <1>1, <2>1, <2>3, <2>4 DEF Elsewhere
<1>4. CASE late' = late \ {q}
  <2>1. SysTypeOK'
    BY <1>1, <1>4 DEF SysBasics, SysTypeOK
  <2>2. NothingNewInFlight
    BY <1>1, <1>2, <1>4 DEF NothingNewInFlight, InFlight, SameRequest
  <2>3. Elsewhere \/ Carried(q) \/ UNCHANGED storeVars \/ \E s \in NextSteps(q) : UNCHANGED storeVars
    BY <1>1, CarryCarries DEF LateCall
  <2> QED
    BY <1>1, <2>1, <2>2, <2>3 DEF Elsewhere
<1> QED
  BY <1>3, <1>4 DEF LateCall

LEMMA WorkersWork ==
  ASSUME SysBasics, NEW w \in Workers,
         Receive(w) \/ Claim(w) \/ Report(w) \/ Heartbeat(w) \/ LoseWorker(w)
  PROVE  SysTypeOK' /\ UNCHANGED <<sched, late>> /\ Elsewhere
<1>1. /\ sched \in Scheduler /\ late \subseteq Requests /\ worker \in [Workers -> Hands]
      /\ sched.pc = "poll" => sched.todo = <<>> /\ sched.plan = <<>>
      /\ sched.pc = "rejected" => sched.plan # <<>>
  BY DEF SysBasics, SysTypeOK
<1>2. UNCHANGED <<sched, late>>
  BY DEF Receive, Claim, Report, Heartbeat, LoseWorker, ownVars
<1>3. Idle \in Hands
  BY DEF Idle, Hands
<1>4. worker[w].pc \in {"received", "running"} => worker[w].task \in TaskIds
  BY <1>1 DEF Hands
<1>5. worker' \in [Workers -> Hands] => SysTypeOK'
  BY <1>1, <1>2 DEF SysTypeOK
<1>6. CASE Receive(w)
  <2>1. PICK q \in Queues, i \in DOMAIN published :
          /\ ReceiveTask(q, i)
          /\ worker' = [worker EXCEPT ![w] = [pc |-> "received", task |-> published[i]]]
    BY <1>6 DEF Receive
  <2>2. [pc |-> "received", task |-> published[i]] \in Hands
    BY DEF SysBasics, TypeOK, Hands
  <2> QED
    BY <1>1, <1>2, <1>5, <2>1, <2>2 DEF Elsewhere
<1>7. CASE Claim(w)
  <2>1. [worker[w] EXCEPT !.pc = "running"] \in Hands
    BY <1>1, <1>7 DEF Claim, Hands
  <2>2. worker' \in [Workers -> Hands]
    BY <1>1, <1>3, <1>7, <2>1 DEF Claim
  <2>3. Elsewhere
    BY <1>4, <1>7 DEF Claim, Elsewhere
  <2> QED
    BY <1>2, <1>5, <2>2, <2>3
<1>8. CASE Report(w)
  <2>1. worker' \in [Workers -> Hands]
    BY <1>1, <1>3, <1>8 DEF Report
  <2>2. worker[w].task \in TaskIds
    BY <1>4, <1>8 DEF Report
  <2>3. Elsewhere
    <3>1. CASE \E value \in Values : FinishTask(worker[w].task, "succeeded", value)
      BY <2>2, <3>1 DEF Elsewhere, TaskTerminal
    <3>2. CASE FinishTask(worker[w].task, "failed", None)
      BY <2>2, <3>2 DEF Elsewhere, TaskTerminal
    <3>3. CASE UNCHANGED storeVars
      BY <3>3 DEF Elsewhere
    <3> QED
      BY <1>8, <3>1, <3>2, <3>3 DEF Report
  <2> QED
    BY <1>2, <1>5, <2>1, <2>3
<1>9. CASE Heartbeat(w)
  <2>1. worker' = worker /\ Elsewhere
    BY <1>4, <1>9 DEF Heartbeat, ownVars, Elsewhere
  <2> QED
    BY <1>1, <1>2, <1>5, <2>1
<1>10. CASE LoseWorker(w)
  <2>1. worker' \in [Workers -> Hands] /\ Elsewhere
    BY <1>1, <1>3, <1>10 DEF LoseWorker, Elsewhere
  <2> QED
    BY <1>2, <1>5, <2>1
<1> QED
  BY <1>6, <1>7, <1>8, <1>9, <1>10

LEMMA OthersWork ==
  ASSUME SysBasics, (\E t \in TaskIds : Lapse(t)) \/ UserStarts \/ UserDeploys
  PROVE  SysTypeOK' /\ UNCHANGED <<sched, worker, late>> /\ Elsewhere
<1>1. UNCHANGED <<sched, worker, late>>
  BY DEF Lapse, UserStarts, UserDeploys, ownVars
<1>2. SysTypeOK'
  BY <1>1 DEF SysBasics, SysTypeOK
<1>3. Elsewhere
  BY OrchestrationAssumption DEF Lapse, UserStarts, UserDeploys, Elsewhere
<1> QED
  BY <1>1, <1>2, <1>3

LEMMA CancelTypes ==
  ASSUME SysBasics, UserCancels
  PROVE  /\ SysTypeOK' /\ UNCHANGED <<storeVars, sched, worker>> /\ NothingNewInFlight
<1>1. PICK r \in RunIds : late' = late \cup {Request("cancel", r, None)}
  BY DEF UserCancels
<1>2. UNCHANGED <<storeVars, sched, worker>>
  BY DEF UserCancels
<1>3. /\ Request("cancel", r, None) \in Requests
      /\ Request("cancel", r, None).do = "cancel"
  BY DEF Request, Requests
<1>4. SysTypeOK'
  BY <1>1, <1>2, <1>3 DEF SysBasics, SysTypeOK
<1>5. UNCHANGED PlannedRequests
  BY <1>2 DEF PlannedRequests
<1>6. NothingNewInFlight
  BY <1>1, <1>3, <1>5 DEF NothingNewInFlight, InFlight, SameRequest
<1> QED
  BY <1>2, <1>4, <1>6

LEMMA SameInFlight == UNCHANGED <<sched, late>> => NothingNewInFlight
BY DEF NothingNewInFlight, InFlight, PlannedRequests, SameRequest

\* A step of the system is one of its store that its caller may make.
StoreStep ==
  \/ Elsewhere
  \/ \E q \in InFlight : Carried(q)

LEMMA SystemSteps ==
  ASSUME SysBasics, [SysNext]_sysVars
  PROVE  /\ SysTypeOK' /\ StoreStep
         /\ NothingNewInFlight \/ Advance
<1>1. CASE Poll
  <2>1. sched'.plan = <<>> /\ UNCHANGED <<storeVars, late>> /\ SysTypeOK'
    BY <1>1, PollTypes
  <2>2. NothingNewInFlight
    BY <2>1 DEF NothingNewInFlight, InFlight, PlannedRequests, SameRequest
  <2> QED
    BY <2>1, <2>2 DEF StoreStep, Elsewhere
<1>2. CASE PageDone
  <2>1. sched'.plan = <<>> /\ UNCHANGED <<storeVars, late>> /\ SysTypeOK'
    BY <1>2, PageDoneTypes
  <2>2. NothingNewInFlight
    BY <2>1 DEF NothingNewInFlight, InFlight, PlannedRequests, SameRequest
  <2> QED
    BY <2>1, <2>2 DEF StoreStep, Elsewhere
<1>3. CASE Advance
  BY <1>3, AdvanceTypes DEF StoreStep, Elsewhere
<1>4. CASE Apply \/ Rejected
  BY <1>4, SchedulerWork DEF StoreStep
<1>5. CASE \E after \in {0, sched.after} : LoseScheduler(after)
  <2>1. PICK after \in {0, sched.after} : LoseScheduler(after)
    BY <1>5
  <2>2. /\ SysTypeOK' /\ UNCHANGED storeVars /\ sched' = [Stopped EXCEPT !.after = after]
        /\ late' \subseteq late \cup PlannedRequests
    BY <2>1, LossTypes
  <2>3. sched'.plan = <<>>
    BY <2>2 DEF Stopped
  <2>4. NothingNewInFlight
    BY <2>2, <2>3 DEF NothingNewInFlight, InFlight, PlannedRequests, SameRequest
  <2> QED
    BY <2>2, <2>4 DEF StoreStep, Elsewhere
<1>6. CASE \E q \in late : LateCall(q)
  BY <1>6, LateWork DEF StoreStep
<1>7. CASE \E w \in Workers : WorkerStep(w) \/ Heartbeat(w) \/ LoseWorker(w)
  BY <1>7, WorkersWork, SameInFlight DEF StoreStep, WorkerStep
<1>8. CASE (\E t \in TaskIds : Lapse(t)) \/ UserStarts \/ UserDeploys
  BY <1>8, OthersWork, SameInFlight DEF StoreStep
<1>9. CASE UserCancels
  BY <1>9, CancelTypes DEF StoreStep, Elsewhere
<1>10. CASE UNCHANGED sysVars
  <2>1. UNCHANGED <<storeVars, sched, worker, late>>
    BY <1>10 DEF sysVars, ownVars
  <2>2. SysTypeOK'
    BY <2>1 DEF SysBasics, SysTypeOK
  <2> QED
    BY <2>1, <2>2, SameInFlight DEF StoreStep, Elsewhere
<1> QED
  BY <1>1, <1>2, <1>3, <1>4, <1>5, <1>6, <1>7, <1>8, <1>9, <1>10
  DEF SysNext, SchedulerStep

LEMMA StoreStepIsNext == SysBasics /\ StoreStep => [Next]_storeVars
BY CarriedIsNext, ElsewhereIsNext DEF StoreStep

-----------------------------------------------------------------------------
(* Contents, states and requests in flight: what every step keeps.           *)

SysInv == TreeInv /\ LogInv /\ TasksOfRuns /\ SysBasics

LEMMA StoreSame ==
  ASSUME UNCHANGED storeVars, NEW r
  PROVE  /\ RunStateOf(r)' = RunStateOf(r) /\ ContentOf(r)' = ContentOf(r)
         /\ IsActive(r)' = IsActive(r) /\ PlanFor(r)' = PlanFor(r)
BY DEF storeVars, RunStateOf, SubRun, ContentOf, IsActive, PlanFor

\* One run comes at a time, to be the root of a tree or below a run that is there.
NewRunAlone(r) ==
  /\ \A s \in RunIds : s # r => runs'[s] = runs[s]
  /\ r \in RootIds \/ \E p \in RunIds, a \in SubFlowAddresses : r = SubRun(p, a) /\ IsActive(p)

LEMMA NewRunNext ==
  ASSUME TypeOK, [Next]_storeVars, NEW r \in RunIds,
         runs[r].status = "none", runs'[r].status # "none"
  PROVE  NewRunAlone(r)
<1>1. CASE runs' = runs
  BY <1>1
<1>2. CASE \E U \in Deploys : StoreFlows(U)
  <2>1. PICK roots : FinishRuns(ActiveInTrees(roots), "cancelled")
    BY <1>2 DEF StoreFlows
  <2> QED
    BY <2>1, FinishRunsKeepEnded
<1>3. CASE \E s \in RunIds, status \in {"failed", "cancelled"} : FinishTree(s, status)
  <2>1. PICK roots, status : FinishRuns(ActiveInTrees(roots), status)
    BY <1>3 DEF FinishTree
  <2> QED
    BY <2>1, FinishRunsKeepEnded
<1>4. CASE \E s \in RunIds, output \in Values \cup {None} : SucceedRun(s, output)
  BY <1>4 DEF SucceedRun, IsActive, TypeOK
<1>5. CASE \E s \in RootIds, f \in FlowNames, v \in Versions : StartRun(s, f, v)
  BY <1>5, StoreAssumption DEF StartRun, AddRun, NewRunAlone, TypeOK
<1>6. CASE \E p \in RunIds, a \in SubFlowAddresses, f \in FlowNames, v \in Versions :
             StartSubRun(p, a, f, v)
  <2>1. PICK p \in RunIds, a \in SubFlowAddresses, f \in FlowNames, v \in Versions :
          StartSubRun(p, a, f, v)
    BY <1>6
  <2>2. /\ IsActive(p) /\ SubRun(p, a) \in RunIds
        /\ \/ runs' = runs
           \/ AddRun(SubRun(p, a), f, v, runs[p].root, p, a)
    BY <2>1 DEF StartSubRun, SubRun, storeVars
  <2>3. \A s \in RunIds : s # SubRun(p, a) => runs'[s] = runs[s]
    BY <2>2 DEF AddRun, TypeOK
  <2> QED
    BY <2>2, <2>3 DEF NewRunAlone
<1> QED
  BY <1>1, <1>2, <1>3, <1>4, <1>5, <1>6
  DEF Next, storeVars, FailRunTree, CancelRunTree, PublishTask, ReceiveTask, HandOut,
      ClaimTask, DropTask, ExtendTaskLease, FinishTask, LeaseLapses

LEMMA ContentsKeptNext ==
  ASSUME TreeInv, ContentsKept, [Next]_storeVars
  PROVE  ContentsKept'
<1>1. TypeOK /\ TreeInv'
  BY TreeInvNext DEF TreeInv
<1>2. FlowsKept /\ \A r \in RunIds : RunStep(r)
  BY <1>1, FlowsKeptNext, RunStepNext
<1> SUFFICES ASSUME NEW r \in RunIds, runs'[r].status # "none"
             PROVE  /\ runs'[r].flow \in FlowNames
                    /\ runs'[r].version \in StoredVersions(runs[r].flow)'
  BY DEF ContentsKept, StoredVersions
<1>3. CASE runs[r].status # "none"
  <2>1. runs'[r].flow = runs[r].flow /\ runs'[r].version = runs[r].version
    BY <1>2, <1>3 DEF RunStep
  <2>2. runs[r].flow \in FlowNames /\ runs[r].version \in StoredVersions(runs[r].flow)
    BY <1>3 DEF ContentsKept
  <2> QED
    BY <1>2, <2>1, <2>2 DEF FlowsKept, StoredVersions
<1>4. CASE runs[r].status = "none"
  <2>1. runs'[r].status = "active"
    BY <1>2, <1>4 DEF RunStep
  <2>2. runs'[r].flow \in FlowNames
    BY <1>1, <2>1 DEF TreeInv, TreeShape
  <2>3. IsLatest(runs[r].flow, runs[r].version)'
    BY <1>1, <2>1 DEF TreeInv, ActiveOnLatest, IsActive
  <2> QED
    BY <2>2, <2>3 DEF IsLatest
<1> QED
  BY <1>3, <1>4

LEMMA TasksOfRunsNext ==
  ASSUME TypeOK, TasksOfRuns, [Next]_storeVars
  PROVE  TasksOfRuns'
<1>1. (\A r \in RunIds : RunStep(r)) /\ (\A t \in TaskIds : TaskMoves(t))
  BY RunStepNext, TaskMovesNext
<1> SUFFICES ASSUME NEW t \in TaskIds, tasks'[t].status # "none"
             PROVE  runs'[t[1]].status # "none"
  BY DEF TasksOfRuns
<1>2. t[1] \in RunIds
  BY DEF TaskIds
<1>3. runs[t[1]].status # "none"
  BY <1>1 DEF TaskMoves, TasksOfRuns, IsActive, TaskLeased
<1> QED
  BY <1>1, <1>2, <1>3 DEF RunStep, RunEnded

\* A run comes with nothing begun.
LEMMA NewRunIsBare ==
  ASSUME TreeInv, TypeOK', TasksOfRuns, [Next]_storeVars, NEW r \in RunIds,
         runs[r].status = "none", runs'[r].status # "none"
  PROVE  RunStateOf(r)' = StateOf([a \in {} |-> Underway])
<1>0. TypeOK /\ StateShaped(r)'
  <2>1. TypeOK
    BY DEF TreeInv
  <2>2. StatesShaped'
    BY StateShape, PTL
  <2> QED
    BY <2>1, <2>2 DEF StatesShaped
<1>1. NewRunAlone(r)
  BY <1>0, NewRunNext
<1>2. \A a : ~ HasTask(r, a)'
  <2> SUFFICES ASSUME NEW a \in TaskAddresses PROVE tasks'[<<r, a>>].status = "none"
    BY DEF HasTask
  <2>1. <<r, a>> \in TaskIds /\ <<r, a>>[1] = r
    BY DEF TaskIds
  <2>2. tasks[<<r, a>>].status = "none" /\ TaskMoves(<<r, a>>)
    BY <1>0, <2>1, TaskMovesNext DEF TasksOfRuns
  <2> QED
    BY <2>1, <2>2 DEF TaskMoves, IsActive, TaskLeased
<1>3. \A a : ~ HasSubRun(r, a)'
  <2> SUFFICES ASSUME NEW a \in SubFlowAddresses, SubRun(r, a) \in RunIds,
                      runs'[SubRun(r, a)].status # "none"
               PROVE  FALSE
    BY DEF HasSubRun, SubRun
  <2>1. CASE SubRun(r, a) = r
    <3>1. SubRun(r, a) \notin RootIds
      BY StoreAssumption DEF SubRun
    <3>2. PICK p \in RunIds, b \in SubFlowAddresses : r = SubRun(p, b) /\ IsActive(p)
      BY <1>1, <2>1, <3>1 DEF NewRunAlone
    <3>3. p = r
      BY <2>1, <3>2, StoreAssumption DEF SubRun
    <3> QED
      BY <3>2, <3>3 DEF IsActive
  <2>2. CASE SubRun(r, a) # r
    <3>1. runs[SubRun(r, a)].status # "none"
      BY <1>1, <2>2 DEF NewRunAlone
    <3> DEFINE run == runs[SubRun(r, a)]
    <3>2. /\ SubRun(r, a) \notin RootIds
          /\ run.parent \in RunIds /\ run.address \in SubFlowAddresses
          /\ SubRun(r, a) = SubRunIdFor(run.parent, run.address)
          /\ runs[run.parent].status # "none"
      BY <3>1, StoreAssumption DEF TreeInv, TreeShape, SubRun
    <3>3. run.parent = r
      BY <3>2, StoreAssumption DEF SubRun
    <3> QED
      BY <3>2, <3>3
  <2> QED
    BY <2>1, <2>2
<1>4. Begun(r)' = {}
  BY <1>0, <1>2, <1>3 DEF StateShaped
<1>5. RunStateOf(r)'.steps = [a \in {} |-> Underway]
  BY <1>0, <1>4 DEF StateShaped
<1> QED
  BY <1>0, <1>5 DEF StateShaped, StateOf

\* Nothing begins unless a request for it is carried out.
LEMMA ElsewhereBeginsNothing ==
  ASSUME TypeOK, Elsewhere, NEW r \in RunIds
  PROVE  BeginsNothing(r)
<1>0. [Next]_storeVars
  BY ElsewhereIsNext
<1>1. ASSUME NEW a \in TaskAddresses, tasks[<<r, a>>].status = "none"
      PROVE  tasks'[<<r, a>>].status = "none"
  <2>1. <<r, a>> \in TaskIds
    BY DEF TaskIds
  <2>2. CASE UNCHANGED tasks
    BY <1>1, <2>2
  <2>3. CASE \E q \in Queues, i \in DOMAIN published : ReceiveTask(q, i)
    <3>1. PICK q \in Queues, i \in DOMAIN published : ReceiveTask(q, i)
      BY <2>3
    <3>2. published[i] # <<r, a>>
      BY <1>1, <3>1 DEF ReceiveTask, IsOldestReceivable, IsReceivable, TaskLeased
    <3> QED
      BY <1>1, <2>1, <3>1, <3>2 DEF ReceiveTask, HandOut, TypeOK
  <2>4. CASE \E t \in TaskIds : ClaimTask(t) \/ DropTask(t) \/ ExtendTaskLease(t)
    BY <1>1, <2>1, <2>4 DEF ClaimTask, DropTask, ExtendTaskLease, MayBecome, TypeOK, TaskLeased
  <2>5. CASE \E t \in TaskIds : LeaseLapses(t)
    <3>1. PICK t \in TaskIds : LeaseLapses(t)
      BY <2>5
    <3>2. tasks'[t].status = tasks[t].status /\ \A s \in TaskIds : s # t => tasks'[s] = tasks[s]
      BY <3>1 DEF LeaseLapses, TypeOK, Task
    <3> QED
      BY <1>1, <2>1, <3>2
  <2>6. CASE \E t \in TaskIds, status \in TaskTerminal, result \in Values \cup {None} :
               FinishTask(t, status, result)
    BY <1>1, <2>1, <2>6 DEF FinishTask, MayBecome, TypeOK, TaskTerminal
  <2> QED
    BY <2>2, <2>3, <2>4, <2>5, <2>6
    DEF Elsewhere, storeVars, StoreFlows, StartRun, AddRun, FailRunTree, CancelRunTree, FinishTree
<1>2. ASSUME NEW a \in SubFlowAddresses, SubRun(r, a) \in RunIds,
             runs[SubRun(r, a)].status = "none"
      PROVE  runs'[SubRun(r, a)].status = "none"
  <2> DEFINE s == SubRun(r, a)
  <2>1. s \notin RootIds
    BY StoreAssumption DEF SubRun
  <2>2. CASE UNCHANGED runs
    BY <1>2, <2>2
  <2>3. CASE \E roots, status : FinishRuns(ActiveInTrees(roots), status)
    BY <1>2, <2>3, FinishRunsKeepEnded
  <2>4. CASE \E x \in RootIds, f \in FlowNames, v \in Versions : StartRun(x, f, v)
    BY <1>2, <2>1, <2>4, StoreAssumption DEF StartRun, AddRun, TypeOK
  <2> QED
    BY <2>2, <2>3, <2>4
    DEF Elsewhere, storeVars, StoreFlows, FailRunTree, CancelRunTree, FinishTree, ReceiveTask,
        HandOut, ClaimTask, DropTask, ExtendTaskLease, FinishTask, LeaseLapses
<1> QED
  BY <1>1, <1>2 DEF BeginsNothing

LEMMA SucceedBeginsNothing ==
  ASSUME TypeOK, NEW s \in RunIds, NEW output, SucceedRun(s, output), NEW r \in RunIds
  PROVE  BeginsNothing(r)
BY DEF SucceedRun, BeginsNothing, TypeOK, IsActive

\* What a request carried out does to the states of the runs.
LEMMA CarriedState ==
  ASSUME SysBasics, TypeOK', NEW q \in InFlight, Carried(q), NEW r \in RunIds
  PROVE  \/ q.do = "succeed" /\ BeginsNothing(r)
         \/ /\ q.do \in {"publish", "start"}
            /\ RunStateOf(r)' = IF r = q.run /\ q.at \notin Begun(q.run)
                                THEN WithStarted(RunStateOf(r), q.at) ELSE RunStateOf(r)
<1>1. /\ q \in Requests
      /\ q.do = "publish" => q.at \in TaskAddresses
      /\ q.do = "start" => q.at \in SubFlowAddresses
  BY StartTypes DEF SysBasics
<1>2. q.run \in RunIds /\ TypeOK
  BY <1>1 DEF Requests, SysBasics
<1>3. CASE q.do = "publish" /\ PublishTask(<<q.run, q.at>>, QueueOf(ContentOf(q.run), q.at))
  <2>1. q.at \in TaskAddresses
    BY <1>1, <1>3
  <2> QED
    BY <1>2, <1>3, <2>1, PublishBegins
<1>4. CASE q.do = "start" /\ StartSubRun(q.run, q.at, Callee(q), q.latest)
  <2>1. q.at \in SubFlowAddresses
    BY <1>1, <1>4
  <2> QED
    BY <1>2, <1>4, <2>1, SubRunBegins
<1>5. CASE q.do = "succeed" /\ SucceedRun(q.run, Output(ContentOf(q.run), RunStateOf(q.run)))
  BY <1>2, <1>5, SucceedBeginsNothing
<1> QED
  BY <1>3, <1>4, <1>5 DEF Carried

\* What the planner says of a start that comes late.
LEMMA LateStart ==
  ASSUME SysBasics, NEW q \in InFlight, q.do \in {"publish", "start"}, q.at \notin Begun(q.run)
  PROVE  LET c == ContentOf(q.run)
             st == RunStateOf(q.run)
         IN  /\ runs[q.run].status # "none"
             /\ Succeed \notin Planned(c, st)
             /\ WithStarted(st, q.at) \in RunStates(c)
             /\ Planned(c, WithStarted(st, q.at)) \subseteq Planned(c, st)
<1> DEFINE c == ContentOf(q.run)
           st2 == RunStateOf(q.run)
<1>1. q.run \in RunIds /\ runs[q.run].status # "none" /\ c \in Contents
  BY StartTypes DEF SysBasics, Requests
<1>2. st2 \in RunStates(c)
  BY <1>1 DEF SysBasics, StatesKnown
<1>3. PICK st1 \in RunStates(c) : Grows(st1, st2) /\ ActionOf(q) \in StartsPlanned(c, st1)
  BY DEF SysBasics, StartsWerePlanned, PlannedBefore
<1>4. PlanMayBeLate(c, st1, st2)
  BY <1>1, <1>2, <1>3, PlannerAssumption
<1>5. ActionOf(q).at = q.at /\ q.at \notin DOMAIN st2.steps
  BY DEF ActionOf, Begun
<1> QED
  BY <1>1, <1>3, <1>4, <1>5 DEF PlanMayBeLate

LEMMA StatesKnownNext ==
  ASSUME SysInv, TypeOK', StoreStep
  PROVE  StatesKnown'
<1>0. /\ SysBasics /\ TypeOK /\ TreeInv /\ TasksOfRuns /\ ContentsKept
      /\ [Next]_storeVars /\ FlowsKept
      /\ \A s \in RunIds : RunStep(s)
      /\ \A t \in TaskIds : TaskMoves(t)
  BY StoreStepIsNext, RunStepNext, TaskMovesNext, FlowsKeptNext DEF SysInv, SysBasics
<1> SUFFICES ASSUME NEW r \in RunIds, runs'[r].status # "none"
             PROVE  RunStateOf(r)' \in RunStates(ContentOf(r)')
  BY DEF StatesKnown
<1>1. CASE runs[r].status = "none"
  <2>1. RunStateOf(r)' = StateOf([a \in {} |-> Underway])
    BY <1>0, <1>1, NewRunIsBare
  <2>2. ContentsKept'
    BY <1>0, ContentsKeptNext
  <2>3. ContentOf(r)' \in Contents
    BY <2>2 DEF ContentsKept, ContentOf, StoredVersions, TypeOK
  <2> QED
    BY <2>1, <2>3, PlannerAssumption
<1>2. CASE runs[r].status # "none"
  <2> DEFINE c == ContentOf(r)
  <2>1. c \in Contents /\ ContentOf(r)' = c /\ RunStateOf(r) \in RunStates(c)
    BY <1>0, <1>2, ContentKnown, ContentStays DEF SysBasics, StatesKnown
  <2>2. BeginsNothing(r) => RunStateOf(r)' \in RunStates(c)
    BY <1>0, <2>1, StateEnds
  <2>3. CASE Elsewhere
    BY <1>0, <2>1, <2>2, <2>3, ElsewhereBeginsNothing
  <2>4. CASE \E q \in InFlight : Carried(q)
    <3>1. PICK q \in InFlight : Carried(q)
      BY <2>4
    <3>2. CASE BeginsNothing(r)
      BY <2>1, <2>2, <3>2
    <3>3. CASE RunStateOf(r)' = RunStateOf(r)
      BY <2>1, <3>3
    <3>4. CASE /\ q.do \in {"publish", "start"} /\ r = q.run /\ q.at \notin Begun(q.run)
               /\ RunStateOf(r)' = WithStarted(RunStateOf(r), q.at)
      BY <1>0, <2>1, <3>4, LateStart
    <3> QED
      BY <1>0, <3>1, <3>2, <3>3, <3>4, CarriedState
  <2> QED
    BY <2>3, <2>4 DEF StoreStep
<1> QED
  BY <1>1, <1>2

\* What was planned stays planned, as the run goes on.
LEMMA PlannedBeforeStays ==
  ASSUME SysInv, TypeOK', [Next]_storeVars, NEW s \in InFlight, s.do \in {"publish", "start"},
         NEW q, SameRequest(s, q)
  PROVE  runs'[q.run].status # "none" /\ PlannedBefore(q)'
<1>0. /\ SysBasics /\ TypeOK /\ ContentsKept /\ FlowsKept
      /\ \A x \in RunIds : RunStep(x)
      /\ \A t \in TaskIds : TaskMoves(t)
  BY RunStepNext, TaskMovesNext, FlowsKeptNext DEF SysInv, SysBasics
<1>1. s.run \in RunIds /\ runs[s.run].status # "none" /\ q.run = s.run /\ ActionOf(q) = ActionOf(s)
  BY <1>0, StartTypes DEF SysBasics, Requests, SameRequest, ActionOf
<1>2. PICK st \in RunStates(ContentOf(s.run)) :
        /\ Grows(st, RunStateOf(s.run))
        /\ ActionOf(s) \in StartsPlanned(ContentOf(s.run), st)
  BY <1>0 DEF SysBasics, StartsWerePlanned, PlannedBefore
<1>3. Grows(RunStateOf(s.run), RunStateOf(s.run)')
  BY <1>0, <1>1, StepsGrow
<1>4. Grows(st, RunStateOf(s.run)')
  BY <1>2, <1>3, GrowsTransitive
<1>5. ContentOf(s.run)' = ContentOf(s.run) /\ runs'[s.run].status # "none"
  BY <1>0, <1>1, ContentStays
<1>6. ContentOf(q.run)' = ContentOf(s.run) /\ RunStateOf(q.run)' = RunStateOf(s.run)'
      /\ ActionOf(q)' = ActionOf(s)
  BY <1>1, <1>5 DEF ActionOf
<1>7. Grows(st, RunStateOf(q.run)')
  BY <1>4, <1>6
<1>8. \E x \in RunStates(ContentOf(q.run)') :
        Grows(x, RunStateOf(q.run)') /\ ActionOf(q) \in StartsPlanned(ContentOf(q.run)', x)
  BY <1>1, <1>2, <1>6, <1>7
<1>9. PlannedBefore(q)'
  BY <1>8 DEF PlannedBefore, StartsPlanned, ActionOf
<1> QED
  BY <1>1, <1>5, <1>9

\* What is in flight after the scheduler made a plan.
LEMMA AdvanceInFlight ==
  ASSUME SysBasics, Advance, NEW q \in InFlight'
  PROVE  \/ q \in InFlight
         \/ LET r == Head(sched.todo)
            IN  /\ r \in RunIds /\ IsActive(r)
                /\ q.run = r /\ ActionOf(q) \in Planned(ContentOf(r), RunStateOf(r))
<1> DEFINE r == Head(sched.todo)
<1>1. CASE q \in late'
  BY <1>1, AdvanceTypes DEF InFlight
<1>2. CASE q \in PlannedRequests'
  <2>1. r \in RunIds /\ DOMAIN sched'.plan = DOMAIN PlanFor(r)
        /\ \A i \in DOMAIN PlanFor(r) :
             sched'.plan[i] = Request(PlanFor(r)[i].do, r, PlanFor(r)[i].at)
    BY AdvanceTypes
  <2>2. PICK i \in DOMAIN PlanFor(r) : q = Request(PlanFor(r)[i].do, r, PlanFor(r)[i].at)
    BY <1>2, <2>1 DEF PlannedRequests
  <2>3. IsActive(r)
    BY <2>1, <2>2, PlanTyped
  <2>4. PlanFor(r) \in Seq(Action) /\ PlanFor(r) = NextActions(ContentOf(r), RunStateOf(r))
    BY <2>1, <2>3, PlanTyped
  <2>5. PlanFor(r)[i] \in Action /\ PlanFor(r)[i] \in Planned(ContentOf(r), RunStateOf(r))
    BY <2>2, <2>4 DEF Planned
  <2>6. q.run = r /\ q.do = PlanFor(r)[i].do /\ q.at = PlanFor(r)[i].at
    BY <2>2 DEF Request
  <2>7. \A action \in Action : [do |-> action.do, at |-> action.at] = action
    BY DEF Action
  <2>8. ActionOf(q) = PlanFor(r)[i]
    BY <2>5, <2>6, <2>7 DEF ActionOf
  <2> QED
    BY <2>1, <2>3, <2>5, <2>6, <2>8
<1> QED
  BY <1>1, <1>2 DEF InFlight

LEMMA StartsWerePlannedNext ==
  ASSUME SysInv, TypeOK', [SysNext]_sysVars
  PROVE  StartsWerePlanned'
<1>0. SysBasics /\ [Next]_storeVars
  BY SystemSteps, StoreStepIsNext DEF SysInv
<1> SUFFICES ASSUME NEW q \in InFlight', q.do \in {"publish", "start"}
             PROVE  runs'[q.run].status # "none" /\ PlannedBefore(q)'
  BY DEF StartsWerePlanned
<1>1. CASE \E s \in InFlight : SameRequest(s, q)
  <2>1. PICK s \in InFlight : SameRequest(s, q)
    BY <1>1
  <2>2. s.do \in {"publish", "start"}
    BY <2>1 DEF SameRequest
  <2> QED
    BY <1>0, <2>1, <2>2, PlannedBeforeStays
<1>2. CASE Advance
  <2>1. CASE q \in InFlight
    BY <1>1, <2>1 DEF SameRequest
  <2>2. CASE \E r \in RunIds : /\ IsActive(r) /\ q.run = r
                               /\ ActionOf(q) \in Planned(ContentOf(r), RunStateOf(r))
    <3>0. PICK r \in RunIds : /\ IsActive(r) /\ q.run = r
                              /\ ActionOf(q) \in Planned(ContentOf(r), RunStateOf(r))
      BY <2>2
    <3>1. UNCHANGED storeVars
      BY <1>0, <1>2, AdvanceTypes
    <3>2. RunStateOf(r)' = RunStateOf(r) /\ ContentOf(r)' = ContentOf(r) /\ runs' = runs
      BY <3>1, StoreSame DEF storeVars
    <3>3. runs[r].status # "none" /\ RunStateOf(r) \in RunStates(ContentOf(r))
      BY <1>0, <3>0, PlanTyped DEF IsActive
    <3>4. ActionOf(q) \in StartsPlanned(ContentOf(r), RunStateOf(r))
      BY <3>0 DEF StartsPlanned, ActionOf
    <3>5. \E x \in RunStates(ContentOf(r)') :
            Grows(x, RunStateOf(r)') /\ ActionOf(q) \in StartsPlanned(ContentOf(r)', x)
      BY <3>2, <3>3, <3>4, GrowsReflexive
    <3>6. PlannedBefore(q)'
      BY <3>0, <3>5 DEF PlannedBefore, StartsPlanned, ActionOf
    <3> QED
      BY <3>0, <3>2, <3>3, <3>6
  <2> QED
    BY <1>0, <1>2, <2>1, <2>2, AdvanceInFlight
<1> QED
  BY <1>0, <1>1, <1>2, SystemSteps DEF NothingNewInFlight

LEMMA SysInvNext == SysInv /\ [SysNext]_sysVars => SysInv'
<1> SUFFICES ASSUME SysInv, [SysNext]_sysVars PROVE SysInv'
  OBVIOUS
<1>1. SysBasics /\ StoreStep /\ SysTypeOK' /\ [Next]_storeVars
  BY SystemSteps, StoreStepIsNext DEF SysInv
<1>2. TreeInv' /\ LogInv' /\ TypeOK'
  BY <1>1, TreeInvNext, LogInvNext DEF SysInv, TreeInv
<1>3. TasksOfRuns' /\ ContentsKept'
  BY <1>1, TasksOfRunsNext, ContentsKeptNext DEF SysInv, SysBasics
<1>4. StatesKnown' /\ StartsWerePlanned'
  BY <1>1, <1>2, StatesKnownNext, StartsWerePlannedNext
<1> QED
  BY <1>1, <1>2, <1>3, <1>4 DEF SysInv, SysBasics

LEMMA SysInvInit == SysInit => SysInv
<1> SUFFICES ASSUME SysInit PROVE SysInv
  OBVIOUS
<1>1. TreeInv /\ LogInv /\ TypeOK
  BY TreeInvInit, LogInvInit DEF SysInit, TreeInv
<1>2. ContentsKept /\ TasksOfRuns /\ StatesKnown
  BY DEF SysInit, Init, ContentsKept, TasksOfRuns, StatesKnown, NoRun, NoTask
<1>3. SysTypeOK
  <2>1. <<>> \in Seq(RunIds) /\ <<>> \in Seq(Requests)
    OBVIOUS
  <2>2. sched \in Scheduler
    BY <2>1 DEF SysInit, Stopped, Scheduler
  <2> QED
    BY <2>2 DEF SysInit, SysTypeOK, Stopped, Idle, Hands
<1>4. StartsWerePlanned
  BY DEF SysInit, StartsWerePlanned, InFlight, PlannedRequests, Stopped
<1> QED
  BY <1>1, <1>2, <1>3, <1>4 DEF SysInv, SysBasics

LEMMA SystemKeeps == SysSpec => []SysInv
<1> QED
  BY SysInvInit, SysInvNext, PTL DEF SysSpec

\* The scheduler, the workers and the users ask nothing of the store that it does
\* not offer: whatever the system does is a behaviour of Store, and what is proved
\* of the store holds in it.
THEOREM SystemRunsOnStore == SysSpec => Spec
<1>1. SysInit => Init
  BY DEF SysInit
<1>2. SysInv /\ [SysNext]_sysVars => [Next]_storeVars
  BY SystemSteps, StoreStepIsNext DEF SysInv
<1> QED
  BY <1>1, <1>2, SystemKeeps, PTL DEF SysSpec, Spec

-----------------------------------------------------------------------------
(* Runs succeed when everything is settled.                                  *)

\* A run that is about to succeed has nothing under way, and stays so.
Settled(r) == Succeed \in Planned(ContentOf(r), RunStateOf(r))

SuccessesSettled ==
  \A q \in InFlight : q.do = "succeed" =>
    runs[q.run].status # "none" /\ (IsActive(q.run) => Settled(q.run))

LEMMA ActiveStays ==
  ASSUME NEW r \in RunIds, RunStep(r), runs[r].status # "none", IsActive(r)'
  PROVE  runs'[r] = runs[r]
BY DEF RunStep, IsActive, RunEnded

LEMMA SettledStays ==
  ASSUME SysInv, TypeOK', StoreStep, NEW r \in RunIds, runs[r].status # "none",
         Settled(r)
  PROVE  Settled(r)'
<1>0. /\ SysBasics /\ TypeOK /\ ContentsKept /\ FlowsKept /\ [Next]_storeVars
      /\ \A x \in RunIds : RunStep(x)
      /\ \A t \in TaskIds : TaskMoves(t)
  BY StoreStepIsNext, RunStepNext, TaskMovesNext, FlowsKeptNext DEF SysInv, SysBasics
<1> DEFINE c == ContentOf(r)
           st == RunStateOf(r)
<1>1. /\ c \in Contents /\ st \in RunStates(c)
      /\ ContentOf(r)' = ContentOf(r)
  BY <1>0, ContentKnown, ContentStays DEF SysBasics, StatesKnown
<1>2. \A a \in Begun(r) : st.steps[a].outcome # "running"
  BY <1>1, PlannerAssumption DEF PlanIsSound, Settled, Begun
<1>3. ASSUME BeginsNothing(r) PROVE RunStateOf(r)' = RunStateOf(r)
  <2>1. StateShaped(r) /\ StateShaped(r)'
    <3>1. StatesShaped /\ StatesShaped'
      BY <1>0, StateShape, PTL
    <3> QED
      BY <3>1 DEF StatesShaped
  <2>2. Begun(r)' = Begun(r)
    BY <1>0, <1>3, StateEnds
  <2>3. \A a \in Begun(r) : RunStateOf(r)'.steps[a] = RunStateOf(r).steps[a]
    BY <1>0, <1>2, StepsGrow DEF Grows, Begun
  <2>4. RunStateOf(r)'.steps = RunStateOf(r).steps
    BY <2>1, <2>2, <2>3 DEF StateShaped
  <2> QED
    BY <2>1, <2>4 DEF StateShaped, StateOf
<1>4. RunStateOf(r)' = RunStateOf(r)
  <2>1. CASE Elsewhere
    BY <1>0, <1>3, <2>1, ElsewhereBeginsNothing
  <2>2. CASE \E q \in InFlight : Carried(q)
    <3>1. PICK q \in InFlight : Carried(q)
      BY <2>2
    <3>2. CASE /\ q.do \in {"publish", "start"} /\ r = q.run /\ q.at \notin Begun(q.run)
      BY <1>0, <3>2, LateStart DEF Settled
    <3> QED
      BY <1>0, <1>3, <3>1, <3>2, CarriedState
  <2> QED
    BY <2>1, <2>2 DEF StoreStep
<1> QED
  BY <1>1, <1>4 DEF Settled, Planned

LEMMA SuccessesSettledNext ==
  ASSUME SysInv, TypeOK', SuccessesSettled, [SysNext]_sysVars
  PROVE  SuccessesSettled'
<1>0. /\ SysBasics /\ StoreStep /\ [Next]_storeVars /\ TypeOK
      /\ \A x \in RunIds : RunStep(x)
  BY SystemSteps, StoreStepIsNext, RunStepNext DEF SysInv, SysBasics
<1> SUFFICES ASSUME NEW q \in InFlight', q.do = "succeed"
             PROVE  /\ runs'[q.run].status # "none"
                    /\ IsActive(q.run)' => Settled(q.run)'
  BY DEF SuccessesSettled
<1>1. CASE \E s \in InFlight : SameRequest(s, q)
  <2>1. PICK s \in InFlight : SameRequest(s, q)
    BY <1>1
  <2>2. q.run \in RunIds /\ runs[q.run].status # "none" /\ (IsActive(q.run) => Settled(q.run))
    BY <1>0, <2>1, StartTypes DEF SuccessesSettled, SameRequest, SysBasics, Requests
  <2>3. runs'[q.run].status # "none"
    BY <1>0, <2>2 DEF RunStep, RunEnded
  <2>4. ASSUME IsActive(q.run)' PROVE Settled(q.run)'
    <3>1. Settled(q.run)
      BY <1>0, <2>2, <2>4, ActiveStays DEF IsActive
    <3> QED
      BY <1>0, <2>2, <3>1, SettledStays
  <2> QED
    BY <2>3, <2>4
<1>2. CASE Advance
  <2>1. CASE q \in InFlight
    BY <1>1, <2>1 DEF SameRequest
  <2>2. CASE \E r \in RunIds : /\ IsActive(r) /\ q.run = r
                               /\ ActionOf(q) \in Planned(ContentOf(r), RunStateOf(r))
    <3>1. PICK r \in RunIds : /\ IsActive(r) /\ q.run = r
                              /\ ActionOf(q) \in Planned(ContentOf(r), RunStateOf(r))
      BY <2>2
    <3>2. ContentOf(r) \in Contents /\ RunStateOf(r) \in RunStates(ContentOf(r))
      BY <1>0, <3>1, PlanTyped
    <3>3. ActionOf(q) = Succeed
      BY <3>1, <3>2, PlannedTypes DEF ActionOf
    <3>4. Settled(r) /\ runs[r].status # "none"
      BY <3>1, <3>3 DEF Settled, IsActive
    <3>5. UNCHANGED storeVars
      BY <1>0, <1>2, AdvanceTypes
    <3>6. Settled(r)' /\ runs' = runs
      BY <3>4, <3>5, StoreSame DEF Settled, Planned, storeVars
    <3> QED
      BY <3>1, <3>4, <3>6
  <2> QED
    BY <1>0, <1>2, <2>1, <2>2, AdvanceInFlight
<1> QED
  BY <1>0, <1>1, <1>2, SystemSteps DEF NothingNewInFlight

\* A run succeeds by a request for it only.
LEMMA SucceededBy ==
  ASSUME SysBasics, StoreStep, NEW r \in RunIds,
         runs[r].status # "succeeded", runs'[r].status = "succeeded"
  PROVE  \E q \in InFlight : q.do = "succeed" /\ q.run = r /\ IsActive(r)
<1>0. TypeOK
  BY DEF SysBasics
<1>1. CASE UNCHANGED runs
  BY <1>1
<1>2. CASE \E roots, status : status # "succeeded" /\ FinishRuns(ActiveInTrees(roots), status)
  <2>1. PICK roots, status : status # "succeeded" /\ FinishRuns(ActiveInTrees(roots), status)
    BY <1>2
  <2> QED
    BY <1>0, <2>1 DEF FinishRuns, TypeOK, Run
<1>3. CASE \E s \in RunIds : \E f, v, root, p, a : AddRun(s, f, v, root, p, a)
  BY <1>0, <1>3 DEF AddRun, TypeOK
<1>4. CASE \E q \in InFlight : /\ q.do = "succeed"
                               /\ SucceedRun(q.run, Output(ContentOf(q.run), RunStateOf(q.run)))
  BY <1>0, <1>4 DEF SucceedRun, TypeOK
<1>5. CASE Elsewhere
  <2>1. \A U \in Deploys : StoreFlows(U) =>
          \E roots : FinishRuns(ActiveInTrees(roots), "cancelled")
    BY DEF StoreFlows
  <2>2. \A s \in RunIds : FailRunTree(s) \/ CancelRunTree(s) =>
          \E roots, status : status # "succeeded" /\ FinishRuns(ActiveInTrees(roots), status)
    BY DEF FailRunTree, CancelRunTree, FinishTree
  <2> QED
    BY <1>1, <1>2, <1>3, <1>5, <2>1, <2>2, StoreAssumption
    DEF Elsewhere, storeVars, StartRun, ReceiveTask, HandOut, ClaimTask, DropTask,
        ExtendTaskLease, FinishTask, LeaseLapses
<1>6. CASE \E q \in InFlight : Carried(q)
  BY <1>1, <1>3, <1>4, <1>6 DEF Carried, PublishTask, StartSubRun, storeVars
<1> QED
  BY <1>5, <1>6 DEF StoreStep

TreesInv == SysInv /\ SuccessesSettled /\ ChildWithinParent

LEMMA ChildWithinParentNext ==
  ASSUME TreesInv, TreeInv', StoreStep
  PROVE  ChildWithinParent'
<1>0. /\ SysInv /\ SysBasics /\ TypeOK /\ TypeOK' /\ TreeInv /\ [Next]_storeVars
      /\ TreeShape' /\ TreeEndsTogether'
      /\ \A x \in RunIds : RunStep(x)
  BY StoreStepIsNext, RunStepNext DEF TreesInv, SysInv, SysBasics, TreeInv
<1> SUFFICES ASSUME NEW r \in RunIds, IsActive(r)', runs'[r].parent # None
             PROVE  IsActive(runs[r].parent)'
  BY DEF ChildWithinParent
<1> DEFINE p == runs'[r].parent
           a == runs'[r].address
<1>1. /\ p \in RunIds /\ a \in SubFlowAddresses /\ r = SubRunIdFor(p, a)
      /\ runs'[r].root = runs'[p].root
  BY <1>0 DEF TreeShape, IsActive
<1>2. CASE runs[r].status = "none"
  <2>1. NewRunAlone(r)
    BY <1>0, <1>2, NewRunNext DEF IsActive
  <2>2. PICK x \in RunIds, b \in SubFlowAddresses : r = SubRun(x, b) /\ IsActive(x)
    BY <1>1, <2>1, StoreAssumption DEF NewRunAlone
  <2>3. p = x
    BY <1>1, <2>2, StoreAssumption DEF SubRun
  <2>4. p # r
    BY <1>2, <2>2, <2>3 DEF IsActive
  <2>5. runs'[p] = runs[p]
    BY <1>1, <2>1, <2>4 DEF NewRunAlone
  <2> QED
    BY <2>2, <2>3, <2>5 DEF IsActive
<1>3. CASE runs[r].status # "none"
  <2>1. runs'[r] = runs[r]
    BY <1>0, <1>3, ActiveStays
  <2>2. IsActive(p)
    BY <2>1 DEF TreesInv, ChildWithinParent, IsActive
  <2>3. SUFFICES ASSUME runs'[p].status # "active" PROVE FALSE
    BY <2>3 DEF IsActive
  <2>4. runs'[p].status \in RunEnded
    BY <1>0, <1>1, <2>2, <2>3 DEF RunStep, IsActive
  <2>5. runs'[p].status = "succeeded"
    <3>1. \A x, y \in RunIds : runs'[x].status \in {"failed", "cancelled"}
            /\ runs'[y].root = runs'[x].root => runs'[y].status # "active"
      BY <1>0 DEF TreeEndsTogether, IsActive
    <3> QED
      BY <1>1, <2>4, <3>1 DEF RunEnded, IsActive
  <2>6. PICK q \in InFlight : q.do = "succeed" /\ q.run = p
    BY <1>0, <1>1, <2>2, <2>5, SucceededBy DEF IsActive
  <2>7. Settled(p)
    BY <2>2, <2>6 DEF TreesInv, SuccessesSettled
  <2>8. ContentOf(p) \in Contents /\ RunStateOf(p) \in RunStates(ContentOf(p))
    BY <1>0, <1>1, <2>2, ContentKnown DEF SysBasics, StatesKnown, IsActive
  <2>9. \A b \in Begun(p) : RunStateOf(p).steps[b].outcome # "running"
    BY <2>7, <2>8, PlannerAssumption DEF PlanIsSound, Settled, Begun
  <2>10. StateShaped(p)
    BY <1>0, <1>1, StateShape DEF StatesShaped
  <2>11. HasSubRun(p, a) /\ runs[SubRun(p, a)].status = "active"
    BY <1>1, <2>1 DEF HasSubRun, SubRun, IsActive
  <2>12. RunStateOf(p).steps[a] = [outcome |-> OutcomeOf(runs[SubRun(p, a)].status),
                                   value |-> runs[SubRun(p, a)].output]
         /\ a \in Begun(p)
    <3> HIDE DEF a, p
    <3> QED
      BY <1>1, <2>10, <2>11 DEF StateShaped
  <2>13. OutcomeOf(runs[SubRun(p, a)].status) = "running"
    BY <2>11, Outcomes
  <2> QED
    BY <2>9, <2>12, <2>13
<1> QED
  BY <1>2, <1>3

LEMMA TreesInvInit == SysInit => TreesInv
<1> SUFFICES ASSUME SysInit PROVE TreesInv
  OBVIOUS
<1>1. ChildWithinParent
  BY DEF SysInit, Init, ChildWithinParent, IsActive, NoRun
<1>2. SuccessesSettled
  BY DEF SysInit, SuccessesSettled, InFlight, PlannedRequests, Stopped
<1> QED
  BY <1>1, <1>2, SysInvInit DEF TreesInv

LEMMA TreesInvNext == TreesInv /\ [SysNext]_sysVars => TreesInv'
<1> SUFFICES ASSUME TreesInv, [SysNext]_sysVars PROVE TreesInv'
  OBVIOUS
<1>1. SysInv' /\ TreeInv' /\ TypeOK'
  BY SysInvNext DEF TreesInv, SysInv, TreeInv
<1>2. StoreStep
  BY SystemSteps DEF TreesInv, SysInv
<1>3. SuccessesSettled'
  BY <1>1, SuccessesSettledNext DEF TreesInv
<1>4. ChildWithinParent'
  BY <1>1, <1>2, ChildWithinParentNext
<1> QED
  BY <1>1, <1>3, <1>4 DEF TreesInv

\* No sub-flow run outlives its parent, however many requests are in flight: a
\* parent succeeds only when it has no sub-flow run under way, a late request
\* starts none from then on, and failed or cancelled trees end as one.
THEOREM ChildrenWithinParents == SysSpec => []ChildWithinParent
<1>1. TreesInv => ChildWithinParent
  BY DEF TreesInv
<1> QED
  BY <1>1, TreesInvInit, TreesInvNext, PTL DEF SysSpec

-----------------------------------------------------------------------------
(* The event log under the scheduler: events stay where they are, and whom   *)
(* they concern.                                                             *)

EventsGrow ==
  /\ Len(events) \in Nat /\ Len(events') \in Nat /\ Len(events) <= Len(events')
  /\ DOMAIN events = 1 .. Len(events) /\ DOMAIN events' = 1 .. Len(events')
  /\ \A i \in DOMAIN events : events'[i] = events[i]

LEMMA EventsGrowBy ==
  ASSUME NEW more \in Seq(Event), events \in Seq(Event), events' = events \o more
  PROVE  EventsGrow
BY DEF EventsGrow

LEMMA EventsGrowNext == TypeOK /\ [Next]_storeVars => EventsGrow
<1> SUFFICES ASSUME TypeOK, [Next]_storeVars PROVE EventsGrow
  OBVIOUS
<1>0. events \in Seq(Event)
  BY DEF TypeOK
<1>1. CASE events' = events
  BY <1>0, <1>1 DEF EventsGrow
<1>2. CASE \E r \in RunIds, kind \in EventKind : events' = Append1(r, kind)
  <2>1. PICK r \in RunIds, kind \in EventKind : events' = Append1(r, kind)
    BY <1>2
  <2>2. <<[run |-> r, kind |-> kind]>> \in Seq(Event)
    BY DEF Event
  <2>3. events' = events \o <<[run |-> r, kind |-> kind]>>
    BY <1>0, <2>1, <2>2 DEF Append1
  <2> QED
    BY <1>0, <2>2, <2>3, EventsGrowBy
<1>3. CASE \E S \in SUBSET RunIds : \E status : FinishRuns(S, status)
  <2>0. PICK S \in SUBSET RunIds : \E status : FinishRuns(S, status)
    BY <1>3
  <2>1. PICK status : FinishRuns(S, status)
    BY <2>0
  <2>2. PICK q \in Orders(S) :
          events' = events \o [i \in DOMAIN q |-> [run |-> q[i], kind |-> "run_finished"]]
    BY <2>1 DEF FinishRuns
  <2>3. [i \in DOMAIN q |-> [run |-> q[i], kind |-> "run_finished"]] \in Seq(Event)
    BY FinishedEventsType
  <2> QED
    BY <1>0, <2>2, <2>3, EventsGrowBy
<1>4. ASSUME NEW roots PROVE ActiveInTrees(roots) \in SUBSET RunIds
  BY DEF ActiveInTrees
<1>5. CASE \E U \in Deploys : StoreFlows(U)
  BY <1>3, <1>4, <1>5 DEF StoreFlows
<1>6. CASE \E r \in RunIds : FailRunTree(r) \/ CancelRunTree(r)
  BY <1>3, <1>4, <1>6 DEF FailRunTree, CancelRunTree, FinishTree
<1>7. CASE \E r \in RunIds : \E f, v, root, p, a : AddRun(r, f, v, root, p, a)
  BY <1>2, <1>7 DEF AddRun, EventKind
<1>8. CASE \E t \in TaskIds, status \in TaskTerminal, result \in Values \cup {None} :
             FinishTask(t, status, result)
  BY <1>2, <1>8 DEF FinishTask, EventKind, TaskIds
<1>9. CASE \E r \in RunIds, output \in Values \cup {None} : SucceedRun(r, output)
  BY <1>2, <1>9 DEF SucceedRun, EventKind
<1> QED
  BY <1>1, <1>5, <1>6, <1>7, <1>8, <1>9, StoreAssumption
  DEF Next, storeVars, StartRun, StartSubRun, PublishTask, ReceiveTask, HandOut, ClaimTask,
      DropTask, ExtendTaskLease, LeaseLapses

\* A finished run keeps its parent, so that its event concerns the same run on.
LEMMA ConcernsStays ==
  ASSUME LogInv, [Next]_storeVars, NEW i \in DOMAIN events
  PROVE  i \in DOMAIN events' /\ Concerns(events[i])' = Concerns(events[i])
<1>1. TypeOK /\ EventsGrow /\ events[i] \in Event
  BY EventsGrowNext DEF LogInv, TypeOK
<1>2. i \in DOMAIN events' /\ events'[i] = events[i]
  BY <1>1 DEF EventsGrow
<1>3. CASE events[i].kind # "run_finished"
  BY <1>2, <1>3 DEF Concerns
<1>4. CASE events[i].kind = "run_finished"
  <2> DEFINE r == events[i].run
  <2>1. r \in RunIds /\ events[i] = [run |-> r, kind |-> "run_finished"]
    BY <1>1, <1>4 DEF Event
  <2>2. runs[r].status \in RunEnded
    BY <2>1 DEF LogInv, EachToldOnce, Logged
  <2>3. runs'[r] = runs[r]
    BY <1>1, <2>1, <2>2, RunStepNext DEF RunStep, RunEnded
  <2> QED
    BY <1>2, <1>4, <2>3 DEF Concerns
<1> QED
  BY <1>2, <1>3, <1>4

EventAfter(n, r) == \E i \in DOMAIN events : i > n /\ Concerns(events[i]) = r
EventIn(m, n, r) == \E i \in DOMAIN events : i > m /\ i <= n /\ Concerns(events[i]) = r
NewEvent(r) == \E i \in DOMAIN events' : i > Len(events) /\ Concerns(events[i])' = r

LEMMA EventsStay ==
  ASSUME LogInv, [Next]_storeVars, NEW m \in Nat, NEW n \in Nat, NEW r
  PROVE  /\ EventAfter(n, r) => EventAfter(n, r)'
         /\ EventIn(m, n, r) => EventIn(m, n, r)'
         /\ n <= Len(events) /\ NewEvent(r) => EventAfter(n, r)'
<1>1. EventsGrow
  BY EventsGrowNext DEF LogInv
<1>2. EventAfter(n, r) => EventAfter(n, r)'
  BY ConcernsStays DEF EventAfter
<1>3. EventIn(m, n, r) => EventIn(m, n, r)'
  BY ConcernsStays DEF EventIn
<1>4. n <= Len(events) /\ NewEvent(r) => EventAfter(n, r)'
  <2> SUFFICES ASSUME n <= Len(events), NewEvent(r) PROVE EventAfter(n, r)'
    OBVIOUS
  <2>1. PICK i \in DOMAIN events' : i > Len(events) /\ Concerns(events[i])' = r
    BY DEF NewEvent
  <2>2. i > n
    BY <1>1, <2>1 DEF EventsGrow
  <2> QED
    BY <2>1, <2>2 DEF EventAfter
<1> QED
  BY <1>2, <1>3, <1>4

LEMMA NewRunTold ==
  ASSUME LogInv, LogInv', [Next]_storeVars, NEW r \in RunIds,
         runs[r].status = "none", runs'[r].status # "none"
  PROVE  NewEvent(r)
<1>1. EventsGrow
  BY EventsGrowNext DEF LogInv
<1>2. PICK i \in DOMAIN events' : events'[i] = [run |-> r, kind |-> "run_started"]
  BY DEF LogInv, EachToldOnce, Logged
<1>3. i \notin DOMAIN events
  <2> SUFFICES ASSUME i \in DOMAIN events PROVE FALSE
    OBVIOUS
  <2>1. events[i] = [run |-> r, kind |-> "run_started"]
    BY <1>1, <1>2 DEF EventsGrow
  <2> QED
    BY <2>1 DEF LogInv, EachToldOnce, Logged
<1>4. i > Len(events)
  BY <1>1, <1>2, <1>3 DEF EventsGrow
<1>5. Concerns(events[i])' = r
  BY <1>2 DEF Concerns
<1> QED
  BY <1>2, <1>4, <1>5 DEF NewEvent

LEMMA AppendedEvent ==
  ASSUME TypeOK, NEW s \in RunIds, NEW kind \in EventKind, events' = Append1(s, kind), NEW r,
         IF kind # "run_finished" THEN s = r ELSE runs'[s].parent = r
  PROVE  NewEvent(r)
<1>1. events \in Seq(Event) /\ [run |-> s, kind |-> kind] \in Event
  BY DEF TypeOK, Event
<1> DEFINE i == Len(events) + 1
<1>2. /\ i \in DOMAIN events' /\ i > Len(events)
      /\ events'[i] = [run |-> s, kind |-> kind]
  BY <1>1 DEF Append1
<1>3. PICK k : k = i
  OBVIOUS
<1>4. Concerns(events[k])' = r
  BY <1>2, <1>3 DEF Concerns
<1> QED
  BY <1>2, <1>3, <1>4 DEF NewEvent

-----------------------------------------------------------------------------
(* When a run's state changes, an event says so, or the run has less to do.  *)

\* The state of a run whose tasks are no further.
LEMMA StateSameTasks ==
  ASSUME TypeOK, TypeOK', NEW r \in RunIds, runs' = runs,
         \A a \in TaskAddresses :
           /\ tasks'[<<r, a>>].status = "none" <=> tasks[<<r, a>>].status = "none"
           /\ OutcomeOf(tasks'[<<r, a>>].status) = OutcomeOf(tasks[<<r, a>>].status)
           /\ tasks'[<<r, a>>].result = tasks[<<r, a>>].result
  PROVE  RunStateOf(r)' = RunStateOf(r)
<1>0. StateShaped(r) /\ StateShaped(r)'
  <2>1. StatesShaped /\ StatesShaped'
    BY StateShape, PTL
  <2> QED
    BY <2>1 DEF StatesShaped
<1>1. \A a : /\ HasTask(r, a)' <=> HasTask(r, a)
             /\ HasSubRun(r, a)' <=> HasSubRun(r, a)
  BY DEF HasTask, HasSubRun, SubRun
<1>2. Begun(r)' = Begun(r)
  BY <1>0, <1>1 DEF StateShaped
<1>3. \A a \in Begun(r) : RunStateOf(r)'.steps[a] = RunStateOf(r).steps[a]
  <2> SUFFICES ASSUME NEW a \in Begun(r)
               PROVE  RunStateOf(r)'.steps[a] = RunStateOf(r).steps[a]
    OBVIOUS
  <2>1. CASE HasTask(r, a)
    <3>1. a \in TaskAddresses /\ HasTask(r, a)'
      BY <1>1, <2>1 DEF HasTask
    <3>2. /\ RunStateOf(r).steps[a] = [outcome |-> OutcomeOf(tasks[<<r, a>>].status),
                                       value |-> tasks[<<r, a>>].result]
          /\ RunStateOf(r)'.steps[a] = [outcome |-> OutcomeOf(tasks'[<<r, a>>].status),
                                        value |-> tasks'[<<r, a>>].result]
      BY <1>0, <2>1, <3>1 DEF StateShaped
    <3> QED
      BY <3>1, <3>2
  <2>2. CASE HasSubRun(r, a)
    BY <1>0, <1>1, <2>2 DEF StateShaped, HasSubRun, SubRun
  <2> QED
    BY <1>0, <2>1, <2>2 DEF StateShaped
<1>4. RunStateOf(r)'.steps = RunStateOf(r).steps
  BY <1>0, <1>2, <1>3 DEF StateShaped
<1> QED
  BY <1>0, <1>4 DEF StateShaped, StateOf

\* Whatever happens to a task on its way, it is under way.
LEMMA TaskUnderWay ==
  ASSUME TypeOK, TypeOK', NEW r \in RunIds, NEW t \in TaskIds, runs' = runs,
         \A s \in TaskIds : s # t => tasks'[s] = tasks[s],
         \/ t[1] # r
         \/ /\ tasks[t].status \in {"pending"} \cup TaskLeased
            /\ tasks'[t].status \in {"pending"} \cup TaskLeased
            /\ tasks'[t].result = tasks[t].result
  PROVE  RunStateOf(r)' = RunStateOf(r)
<1> SUFFICES ASSUME NEW a \in TaskAddresses
             PROVE  /\ tasks'[<<r, a>>].status = "none" <=> tasks[<<r, a>>].status = "none"
                    /\ OutcomeOf(tasks'[<<r, a>>].status) = OutcomeOf(tasks[<<r, a>>].status)
                    /\ tasks'[<<r, a>>].result = tasks[<<r, a>>].result
  BY StateSameTasks
<1>1. <<r, a>> \in TaskIds /\ <<r, a>>[1] = r
  BY DEF TaskIds
<1>2. CASE <<r, a>> # t
  BY <1>1, <1>2
<1>3. CASE <<r, a>> = t
  <2>1. /\ tasks[t].status \in {"pending", "received", "running"}
        /\ tasks'[t].status \in {"pending", "received", "running"}
        /\ tasks'[t].result = tasks[t].result
    BY <1>1, <1>3 DEF TaskLeased
  <2>2. OutcomeOf(tasks[t].status) = "running" /\ OutcomeOf(tasks'[t].status) = "running"
    BY <2>1, Outcomes
  <2> QED
    BY <1>3, <2>1, <2>2
<1> QED
  BY <1>2, <1>3

LEMMA TaskGoesOn ==
  ASSUME TypeOK, TypeOK', NEW r \in RunIds, IsActive(r),
         \/ \E q \in Queues, i \in DOMAIN published : ReceiveTask(q, i)
         \/ \E t \in TaskIds : \/ ClaimTask(t) \/ DropTask(t) \/ ExtendTaskLease(t)
                               \/ LeaseLapses(t)
  PROVE  RunStateOf(r)' = RunStateOf(r)
<1>0. \A t \in TaskIds : tasks[t] \in Task
  BY DEF TypeOK
<1>1. CASE \E q \in Queues, i \in DOMAIN published : ReceiveTask(q, i)
  <2>1. PICK q \in Queues, i \in DOMAIN published : ReceiveTask(q, i)
    BY <1>1
  <2> DEFINE s == published[i]
             new == [tasks[s] EXCEPT !.status = "received", !.lease = "held",
                                     !.attempts = tasks[s].attempts + 1]
  <2>2. s \in TaskIds /\ tasks[s] \in Task
    BY <1>0 DEF TypeOK
  <2>3. new.status = "received" /\ new.result = tasks[s].result
    BY <2>2 DEF Task
  <2>4. tasks' = [tasks EXCEPT ![s] = new] /\ runs' = runs
    BY <2>1, Zenon DEF ReceiveTask, HandOut
  <2>5. tasks[s].status \in {"pending"} \cup TaskLeased
    BY <2>1 DEF ReceiveTask, IsOldestReceivable, IsReceivable
  <2> HIDE DEF new
  <2>6. PICK t \in TaskIds : t = s
    BY <2>2
  <2>7. tasks'[t] = new /\ \A x \in TaskIds : x # t => tasks'[x] = tasks[x]
    BY <2>4, <2>6, OneTaskChanges
  <2>8. /\ tasks[t].status \in {"pending"} \cup TaskLeased
        /\ tasks'[t].status \in {"pending"} \cup TaskLeased
        /\ tasks'[t].result = tasks[t].result
    BY <2>3, <2>5, <2>6, <2>7 DEF TaskLeased
  <2> QED
    BY <2>4, <2>7, <2>8, TaskUnderWay
<1>2. CASE \E t \in TaskIds : ClaimTask(t)
  <2>1. PICK t \in TaskIds : ClaimTask(t)
    BY <1>2
  <2>2. /\ runs' = runs /\ \A x \in TaskIds : x # t => tasks'[x] = tasks[x]
        /\ tasks[t].status \in {"pending"} \cup TaskLeased
        /\ tasks'[t].status \in {"pending"} \cup TaskLeased
        /\ tasks'[t].result = tasks[t].result
    BY <1>0, <2>1 DEF ClaimTask, MayBecome, Task, TypeOK, TaskLeased
  <2> QED
    BY <2>2, TaskUnderWay
<1>3. CASE \E t \in TaskIds : DropTask(t)
  <2>1. PICK t \in TaskIds : DropTask(t)
    BY <1>3
  <2>2. /\ runs' = runs /\ \A x \in TaskIds : x # t => tasks'[x] = tasks[x]
        /\ t[1] # r
    BY <1>0, <2>1 DEF DropTask, TypeOK
  <2> QED
    BY <2>2, TaskUnderWay
<1>4. CASE \E t \in TaskIds : ExtendTaskLease(t) \/ LeaseLapses(t)
  <2>1. PICK t \in TaskIds : ExtendTaskLease(t) \/ LeaseLapses(t)
    BY <1>4
  <2>2. /\ runs' = runs /\ \A x \in TaskIds : x # t => tasks'[x] = tasks[x]
        /\ tasks'[t].status = tasks[t].status /\ tasks'[t].result = tasks[t].result
    BY <1>0, <2>1 DEF ExtendTaskLease, LeaseLapses, Task, TypeOK
  <2>3. \A a \in TaskAddresses :
          /\ tasks'[<<r, a>>].status = tasks[<<r, a>>].status
          /\ tasks'[<<r, a>>].result = tasks[<<r, a>>].result
    <3> SUFFICES ASSUME NEW a \in TaskAddresses
                 PROVE  /\ tasks'[<<r, a>>].status = tasks[<<r, a>>].status
                        /\ tasks'[<<r, a>>].result = tasks[<<r, a>>].result
      OBVIOUS
    <3>1. <<r, a>> \in TaskIds
      BY DEF TaskIds
    <3> QED
      BY <2>2, <3>1
  <2> QED
    BY <2>2, <2>3, StateSameTasks
<1> QED
  BY <1>1, <1>2, <1>3, <1>4

\* The sub-flow runs of a run that stays active end one by one.
LEMMA TreesLeaveActive ==
  ASSUME TypeOK, TypeOK', TreeShape, NEW r \in RunIds, IsActive(r), IsActive(r)', tasks' = tasks,
         NEW roots, NEW status \in {"failed", "cancelled"},
         FinishRuns(ActiveInTrees(roots), status)
  PROVE  RunStateOf(r)' = RunStateOf(r)
<1>1. r \notin ActiveInTrees(roots)
  BY DEF FinishRuns, IsActive, TypeOK, Run
<1>2. ASSUME NEW a \in SubFlowAddresses, SubRun(r, a) \in RunIds
      PROVE  runs'[SubRun(r, a)] = runs[SubRun(r, a)]
  <2> DEFINE s == SubRun(r, a)
  <2>1. s \notin RootIds
    BY StoreAssumption DEF SubRun
  <2>2. runs[s].status # "none" => runs[s].root = runs[r].root
    <3> SUFFICES ASSUME runs[s].status # "none" PROVE runs[s].root = runs[r].root
      OBVIOUS
    <3>1. /\ runs[s].parent \in RunIds /\ runs[s].address \in SubFlowAddresses
          /\ s = SubRunIdFor(runs[s].parent, runs[s].address)
          /\ runs[s].root = runs[runs[s].parent].root
      BY <1>2, <2>1 DEF TreeShape
    <3>2. runs[s].parent = r
      BY <3>1, StoreAssumption DEF SubRun
    <3> QED
      BY <3>1, <3>2
  <2>3. s \notin ActiveInTrees(roots)
    BY <1>1, <2>2 DEF ActiveInTrees, IsActive
  <2> HIDE DEF s
  <2> QED
    BY <1>2, <2>3 DEF FinishRuns, s
<1> QED
  BY <1>2, StateSame

\* Who is the parent of a sub-flow run that is there.
LEMMA ParentOfSubRun ==
  ASSUME TreeShape, NEW r \in RunIds, NEW a \in SubFlowAddresses, SubRun(r, a) \in RunIds,
         runs[SubRun(r, a)].status # "none"
  PROVE  runs[SubRun(r, a)].parent = r
<1> DEFINE s == SubRun(r, a)
<1>1. s \notin RootIds
  BY StoreAssumption DEF SubRun
<1>2. /\ runs[s].parent \in RunIds /\ runs[s].address \in SubFlowAddresses
      /\ s = SubRunIdFor(runs[s].parent, runs[s].address)
  BY <1>1 DEF TreeShape
<1> QED
  BY <1>2, StoreAssumption DEF SubRun

\* What may change the state of a run: something that the log tells, or a request
\* in flight that begins a step.
LEMMA RunMoves ==
  ASSUME SysInv, SysInv', StoreStep, NEW r \in RunIds, IsActive(r), IsActive(r)'
  PROVE  \/ NewEvent(r)
         \/ RunStateOf(r)' = RunStateOf(r)
         \/ \E q \in InFlight :
              /\ q.do \in {"publish", "start"} /\ q.run = r /\ q.at \notin Begun(r)
              /\ RunStateOf(r)' = WithStarted(RunStateOf(r), q.at)
<1>0. SysBasics /\ TypeOK /\ TypeOK' /\ TreeShape
  BY DEF SysInv, SysBasics, TreeInv
<1>1. CASE UNCHANGED storeVars
  BY <1>1, StoreSame
<1>2. CASE \E U \in Deploys : StoreFlows(U)
  <2>1. PICK roots : FinishRuns(ActiveInTrees(roots), "cancelled") /\ tasks' = tasks
    BY <1>2 DEF StoreFlows
  <2> QED
    BY <1>0, <2>1, TreesLeaveActive
<1>3. CASE \E s \in RunIds : FailRunTree(s) \/ CancelRunTree(s)
  <2>1. PICK s \in RunIds, status \in {"failed", "cancelled"} : FinishTree(s, status)
    BY <1>3 DEF FailRunTree, CancelRunTree
  <2>2. PICK roots : FinishRuns(ActiveInTrees(roots), status) /\ tasks' = tasks
    BY <2>1 DEF FinishTree
  <2> QED
    BY <1>0, <2>2, TreesLeaveActive
<1>4. CASE \E s \in RootIds, f \in FlowNames, v \in Versions : StartRun(s, f, v)
  <2>1. PICK s \in RootIds : tasks' = tasks /\ \A x \in RunIds : x # s => runs'[x] = runs[x]
    BY <1>0, <1>4 DEF StartRun, AddRun, TypeOK
  <2>2. \A a \in SubFlowAddresses : SubRun(r, a) # s
    BY <2>1, StoreAssumption DEF SubRun
  <2> QED
    BY <1>0, <2>1, <2>2, StateSame
<1>5. CASE \/ \E q \in Queues, i \in DOMAIN published : ReceiveTask(q, i)
           \/ \E t \in TaskIds : \/ ClaimTask(t) \/ DropTask(t) \/ ExtendTaskLease(t)
                                 \/ LeaseLapses(t)
  BY <1>0, <1>5, TaskGoesOn
<1>6. CASE \E t \in TaskIds, status \in TaskTerminal, result \in Values \cup {None} :
             FinishTask(t, status, result)
  <2>1. PICK t \in TaskIds, status \in TaskTerminal, result \in Values \cup {None} :
          FinishTask(t, status, result)
    BY <1>6
  <2>2. /\ runs' = runs /\ \A x \in TaskIds : x # t => tasks'[x] = tasks[x]
        /\ events' = Append1(t[1], "task_finished") /\ t[1] \in RunIds
    BY <1>0, <2>1 DEF FinishTask, TypeOK, TaskIds
  <2>3. CASE t[1] = r
    BY <1>0, <2>2, <2>3, AppendedEvent DEF EventKind
  <2>4. CASE t[1] # r
    BY <1>0, <2>2, <2>4, TaskUnderWay
  <2> QED
    BY <2>3, <2>4
<1>7. CASE \E q \in InFlight : Carried(q)
  <2>1. PICK q \in InFlight : Carried(q)
    BY <1>7
  <2>2. CASE q.do \in {"publish", "start"}
    BY <1>0, <2>1, <2>2, CarriedState
  <2>3. CASE /\ q.do = "succeed"
             /\ SucceedRun(q.run, Output(ContentOf(q.run), RunStateOf(q.run)))
    <3> DEFINE s == q.run
    <3>1. s \in RunIds
      BY <1>0, StartTypes DEF SysBasics, Requests
    <3>2. /\ tasks' = tasks /\ events' = Append1(s, "run_finished")
          /\ \A x \in RunIds : x # s => runs'[x] = runs[x]
          /\ runs'[s].parent = runs[s].parent /\ IsActive(s)
      BY <1>0, <2>3, <3>1 DEF SucceedRun, TypeOK, Run
    <3>3. CASE \E a \in SubFlowAddresses : SubRun(r, a) = s
      <4>1. runs'[s].parent = r
        BY <1>0, <3>1, <3>2, <3>3, ParentOfSubRun DEF IsActive
      <4> QED
        BY <1>0, <3>1, <3>2, <4>1, AppendedEvent DEF EventKind
    <3>4. CASE ~ \E a \in SubFlowAddresses : SubRun(r, a) = s
      BY <1>0, <3>2, <3>4, StateSame
    <3> QED
      BY <3>3, <3>4
  <2> QED
    BY <2>1, <2>2, <2>3 DEF Carried
<1> QED
  BY <1>1, <1>2, <1>3, <1>4, <1>5, <1>6, <1>7 DEF StoreStep, Elsewhere

\* A run that stays active has more to do only when an event says so.
LEMMA PlanShrinks ==
  ASSUME SysInv, SysInv', StoreStep, NEW r \in RunIds, IsActive(r), IsActive(r)'
  PROVE  NewEvent(r) \/ Planned(ContentOf(r), RunStateOf(r))' \subseteq Planned(ContentOf(r), RunStateOf(r))
<1>0. /\ SysBasics /\ TypeOK /\ ContentsKept /\ [Next]_storeVars
  BY StoreStepIsNext DEF SysInv, SysBasics
<1>1. ContentOf(r)' = ContentOf(r)
  BY <1>0, ContentStays, FlowsKeptNext, RunStepNext DEF IsActive
<1>2. CASE NewEvent(r)
  BY <1>2
<1>3. CASE RunStateOf(r)' = RunStateOf(r)
  BY <1>1, <1>3 DEF Planned
<1>4. CASE \E q \in InFlight :
             /\ q.do \in {"publish", "start"} /\ q.run = r /\ q.at \notin Begun(r)
             /\ RunStateOf(r)' = WithStarted(RunStateOf(r), q.at)
  <2>1. PICK q \in InFlight :
          /\ q.do \in {"publish", "start"} /\ q.run = r /\ q.at \notin Begun(r)
          /\ RunStateOf(r)' = WithStarted(RunStateOf(r), q.at)
    BY <1>4
  <2>2. Planned(ContentOf(r), WithStarted(RunStateOf(r), q.at)) \subseteq Planned(ContentOf(r), RunStateOf(r))
    BY <1>0, <2>1, LateStart
  <2>3. Planned(ContentOf(r), RunStateOf(r))' = Planned(ContentOf(r), WithStarted(RunStateOf(r), q.at))
    BY <1>1, <2>1 DEF Planned
  <2> QED
    BY <2>2, <2>3
<1> QED
  BY <1>2, <1>3, <1>4, RunMoves

-----------------------------------------------------------------------------
(* No wakeup is lost.                                                        *)

\* The events of the page at hand, which the scheduler has not put behind it.
OnPage(r) == EventIn(sched.after, sched.upto, r)

PageKept ==
  /\ sched.after <= Len(events) /\ sched.upto <= Len(events)
  /\ sched.pc # "poll" => sched.after <= sched.upto
  /\ \A i \in DOMAIN sched.todo : OnPage(sched.todo[i])
  /\ \A q \in PlannedRequests : OnPage(q.run)
  /\ \A q1, q2 \in PlannedRequests : q1.run = q2.run

\* How far the scheduler has read.
Seen == IF sched.pc = "poll" THEN sched.after ELSE sched.upto

OnTodo(r) == \E i \in DOMAIN sched.todo : sched.todo[i] = r
IsRejected(r) == sched.pc = "rejected" /\ Head(sched.plan).run = r
ToFail(r) == \E q \in PlannedRequests : q.run = r /\ q.do = "fail"
AllRequested(r) ==
  \A action \in Planned(ContentOf(r), RunStateOf(r)) :
    \E q \in PlannedRequests : q.run = r /\ ActionOf(q) = action

\* An active run has an event to be read, is on the page at hand, is about to be
\* failed, or has all that it could do requested.
AtHand(r) == OnTodo(r) \/ IsRejected(r) \/ ToFail(r) \/ AllRequested(r)
AllTakenUp == \A r \in RunIds : IsActive(r) => EventAfter(Seen, r) \/ AtHand(r)

WakeInv == SysInv /\ PageKept /\ AllTakenUp

LEMMA WakeupKept ==
  ASSUME WakeInv, NEW r \in RunIds, IsActive(r), Planned(ContentOf(r), RunStateOf(r)) # {}
  PROVE  EventAfter(sched.after, r)
<1>1. /\ sched.after \in Nat /\ sched.upto \in Nat /\ sched.plan \in Seq(Requests)
      /\ sched.pc = "rejected" => sched.plan # <<>>
      /\ events \in Seq(Event)
  BY DEF WakeInv, SysInv, SysBasics, SysTypeOK, Scheduler, TypeOK
<1>2. OnPage(r) => EventAfter(sched.after, r)
  BY DEF OnPage, EventIn, EventAfter
<1>3. CASE EventAfter(Seen, r)
  BY <1>1, <1>3 DEF EventAfter, Seen, WakeInv, PageKept
<1>4. CASE OnTodo(r)
  BY <1>2, <1>4 DEF OnTodo, WakeInv, PageKept
<1>5. CASE IsRejected(r)
  <2>1. Head(sched.plan) \in PlannedRequests
    BY <1>1, <1>5 DEF IsRejected, PlannedRequests
  <2> QED
    BY <1>2, <1>5, <2>1 DEF IsRejected, WakeInv, PageKept
<1>6. CASE ToFail(r)
  BY <1>2, <1>6 DEF ToFail, WakeInv, PageKept
<1>7. CASE AllRequested(r)
  BY <1>2, <1>7 DEF AllRequested, WakeInv, PageKept
<1> QED
  BY <1>3, <1>4, <1>5, <1>6, <1>7 DEF WakeInv, AllTakenUp, AtHand

\* The page stays the page while its events are being handled.
LEMMA PageStays ==
  ASSUME SysInv, StoreStep, PageKept, SysTypeOK',
         sched'.after = sched.after, sched'.upto = sched.upto,
         sched'.pc # "poll" => sched.pc # "poll",
         \A i \in DOMAIN sched'.todo : OnTodo(sched'.todo[i]),
         \A q \in PlannedRequests' : OnPage(q.run),
         \A q1, q2 \in PlannedRequests' : q1.run = q2.run
  PROVE  PageKept'
<1>0. LogInv /\ [Next]_storeVars /\ EventsGrow
  BY StoreStepIsNext, EventsGrowNext DEF SysInv, LogInv
<1>1. sched.after \in Nat /\ sched.upto \in Nat
  BY DEF SysInv, SysBasics, SysTypeOK, Scheduler
<1>2. PICK m \in Nat, n \in Nat : m = sched.after /\ n = sched.upto
  BY <1>1
<1>3. \A r : EventIn(m, n, r) => EventIn(m, n, r)'
  BY <1>0, EventsStay
<1>4. \A r : OnPage(r) => EventIn(m, n, r)
  BY <1>2 DEF OnPage
<1>5. \A r : EventIn(m, n, r)' => EventIn(sched.after, sched.upto, r)'
  BY <1>2 DEF EventIn
<1>6. \A i \in DOMAIN sched'.todo : OnPage(sched'.todo[i])
  BY DEF OnTodo, PageKept
<1>7. \A i \in DOMAIN sched'.todo : EventIn(m, n, sched'.todo[i])
  BY <1>4, <1>6
<1>8. \A r : OnPage(r) => EventIn(sched.after, sched.upto, r)'
  BY <1>3, <1>4, <1>5
<1>9. (\A i \in DOMAIN sched.todo : OnPage(sched.todo[i]))'
  <2>1. \A i \in DOMAIN sched'.todo : \E j \in DOMAIN events' :
          j > sched'.after /\ j <= sched'.upto /\ Concerns(events[j])' = sched'.todo[i]
    BY <1>6, <1>8 DEF EventIn
  <2> QED
    BY <2>1 DEF OnPage, EventIn
<1>10. (\A q \in PlannedRequests : OnPage(q.run))'
  <2>1. \A q \in PlannedRequests' : EventIn(sched.after, sched.upto, q.run)'
    BY <1>8
  <2> QED
    BY <2>1 DEF OnPage
<1>11. sched.after <= Len(events') /\ sched.upto <= Len(events')
  BY <1>0, <1>1 DEF EventsGrow, PageKept
<1> QED
  BY <1>9, <1>10, <1>11 DEF PageKept

\* Unless an event calls, an active run has no more to do than what is at hand.
LEMMA TakenUpOn ==
  ASSUME WakeInv, SysInv', StoreStep, Seen' = Seen, NEW r \in RunIds, IsActive(r)'
  PROVE  \/ EventAfter(Seen, r)'
         \/ /\ IsActive(r) /\ AtHand(r)
            /\ Planned(ContentOf(r), RunStateOf(r))' \subseteq Planned(ContentOf(r), RunStateOf(r))
<1>0. SysInv /\ LogInv /\ LogInv' /\ [Next]_storeVars /\ TypeOK
  BY StoreStepIsNext DEF WakeInv, SysInv, LogInv
<1>1. Seen \in Nat /\ Seen <= Len(events)
  BY <1>0 DEF WakeInv, PageKept, Seen, SysInv, SysBasics, SysTypeOK, Scheduler
<1>2. PICK n \in Nat : n = Seen
  BY <1>1
<1>3. EventAfter(n, r)' => EventAfter(Seen, r)'
  BY <1>2 DEF EventAfter
<1>4. NewEvent(r) \/ EventAfter(n, r) => EventAfter(n, r)'
  BY <1>0, <1>1, <1>2, EventsStay
<1>5. CASE runs[r].status = "none"
  BY <1>0, <1>3, <1>4, <1>5, NewRunTold DEF IsActive
<1>6. CASE runs[r].status # "none"
  <2>1. IsActive(r)
    BY <1>0, <1>6, RunStepNext, ActiveStays DEF IsActive
  <2>2. EventAfter(n, r) \/ AtHand(r)
    BY <1>2, <2>1 DEF WakeInv, AllTakenUp
  <2>3. NewEvent(r) \/ Planned(ContentOf(r), RunStateOf(r))' \subseteq Planned(ContentOf(r), RunStateOf(r))
    BY <1>0, <2>1, PlanShrinks
  <2> QED
    BY <1>3, <1>4, <2>1, <2>2, <2>3
<1> QED
  BY <1>5, <1>6

LEMMA NothingToDo ==
  ASSUME NEW r, Planned(ContentOf(r), RunStateOf(r))' = {}
  PROVE  AtHand(r)'
<1>1. AllRequested(r)'
  BY DEF AllRequested
<1> QED
  BY <1>1 DEF AtHand

\* Between pages nothing is at hand but for runs that can do nothing.
LEMMA BetweenPages ==
  ASSUME sched.pc # "rejected", sched.todo = <<>>, sched.plan = <<>>, NEW r, AtHand(r)
  PROVE  Planned(ContentOf(r), RunStateOf(r)) = {}
BY DEF AtHand, OnTodo, IsRejected, ToFail, AllRequested, PlannedRequests

LEMMA SamePlanned ==
  ASSUME UNCHANGED storeVars, NEW r
  PROVE  /\ Planned(ContentOf(r), RunStateOf(r))' = Planned(ContentOf(r), RunStateOf(r))
         /\ IsActive(r)' = IsActive(r)
BY StoreSame DEF Planned

LEMMA PollWakes ==
  ASSUME WakeInv, Poll
  PROVE  PageKept' /\ AllTakenUp'
<1>0. SysBasics /\ TypeOK /\ sched \in Scheduler /\ sched.todo = <<>> /\ sched.plan = <<>>
  BY PollTypes DEF WakeInv, SysInv, SysBasics, SysTypeOK
<1>1. /\ UNCHANGED storeVars /\ sched.pc = "poll" /\ sched'.pc = "work"
      /\ sched'.plan = <<>> /\ sched'.after = sched.after
      /\ sched'.upto \in Nat /\ sched.after < sched'.upto /\ sched'.upto <= Len(events)
      /\ sched'.todo = RunsOf(sched.after + 1, sched'.upto)
  BY <1>0, PollTypes
<1>2. sched.after \in Nat
  BY <1>0 DEF Scheduler
<1>3. PICK m \in Nat, n \in Nat : m = sched.after /\ n = sched'.upto
  BY <1>1, <1>2
<1>4. /\ m < n /\ n <= Len(events) /\ sched'.after = m /\ sched'.upto = n
      /\ sched'.todo = RunsOf(m + 1, n)
  BY <1>1, <1>3
<1>5. /\ \A i \in DOMAIN sched'.todo : \E k \in m + 1 .. n : Concerns(events[k]) = sched'.todo[i]
      /\ \A k \in m + 1 .. n : Concerns(events[k]) # None =>
           \E i \in DOMAIN sched'.todo : sched'.todo[i] = Concerns(events[k])
  BY <1>0, <1>4, PageRuns
<1>6. /\ DOMAIN events = 1 .. Len(events) /\ Len(events) \in Nat /\ events' = events
      /\ \A k \in DOMAIN events : Concerns(events[k])' = Concerns(events[k])
  BY <1>0, <1>1 DEF TypeOK, storeVars, Concerns
<1>7. PageKept'
  <2>1. \A i \in DOMAIN sched'.todo : \E k \in DOMAIN events' :
          k > sched'.after /\ k <= sched'.upto /\ Concerns(events[k])' = sched'.todo[i]
    BY <1>4, <1>5, <1>6
  <2>2. (\A i \in DOMAIN sched.todo : OnPage(sched.todo[i]))'
    BY <2>1 DEF OnPage, EventIn
  <2>3. PlannedRequests' = {}
    BY <1>1 DEF PlannedRequests
  <2> QED
    BY <1>4, <1>6, <2>2, <2>3 DEF PageKept
<1>8. ASSUME NEW r \in RunIds, IsActive(r)'
      PROVE  EventAfter(Seen, r)' \/ AtHand(r)'
  <2>1. IsActive(r)
    BY <1>1, <1>8, SamePlanned
  <2>2. CASE AtHand(r)
    BY <1>0, <1>1, <2>2, BetweenPages, SamePlanned, NothingToDo
  <2>3. CASE EventAfter(Seen, r)
    <3>1. PICK k \in DOMAIN events : k > m /\ Concerns(events[k]) = r
      BY <1>1, <1>3, <2>3 DEF EventAfter, Seen
    <3>2. CASE k <= n
      <4>1. k \in m + 1 .. n /\ Concerns(events[k]) # None
        BY <1>6, <3>1, <3>2, StoreAssumption
      <4>2. OnTodo(r)'
        BY <1>5, <3>1, <4>1 DEF OnTodo
      <4> QED
        BY <4>2 DEF AtHand
    <3>3. CASE k > n
      <4>1. k \in DOMAIN events' /\ k > sched'.upto /\ Concerns(events[k])' = r
        BY <1>4, <1>6, <3>1, <3>3
      <4>2. EventAfter(Seen, r)'
        BY <1>1, <4>1 DEF EventAfter, Seen
      <4> QED
        BY <4>2
    <3> QED
      BY <1>6, <3>1, <3>2, <3>3
  <2> QED
    BY <2>1, <2>2, <2>3 DEF WakeInv, AllTakenUp
<1> QED
  BY <1>7, <1>8 DEF AllTakenUp

LEMMA PageDoneWakes ==
  ASSUME WakeInv, SysInv', PageDone
  PROVE  PageKept' /\ AllTakenUp'
<1>0. SysBasics /\ SysInv /\ sched.after \in Nat /\ sched.upto \in Nat
  BY DEF WakeInv, SysInv, SysBasics, SysTypeOK, Scheduler
<1>1. /\ UNCHANGED storeVars
      /\ sched.pc = "work" /\ sched'.pc = "poll" /\ sched.todo = <<>> /\ sched.plan = <<>>
      /\ sched'.after = sched.upto /\ sched'.upto = sched.upto
      /\ sched'.plan = <<>> /\ sched'.todo = <<>>
  BY <1>0, PageDoneTypes
<1>2. events' = events /\ StoreStep
  BY <1>1 DEF storeVars, StoreStep, Elsewhere
<1>3. PageKept'
  <2>1. PlannedRequests' = {}
    BY <1>1 DEF PlannedRequests
  <2> QED
    BY <1>1, <1>2, <2>1 DEF WakeInv, PageKept
<1>4. Seen' = Seen
  BY <1>1 DEF Seen
<1>5. ASSUME NEW r \in RunIds, IsActive(r)'
      PROVE  EventAfter(Seen, r)' \/ AtHand(r)'
  <2>1. CASE AtHand(r)
    BY <1>1, <2>1, BetweenPages, SamePlanned, NothingToDo
  <2> QED
    BY <1>2, <1>4, <1>5, <2>1, TakenUpOn
<1> QED
  BY <1>3, <1>5 DEF AllTakenUp

\* A scheduler that starts anew, or from where it was, finds every event it needs.
LEMMA LossWakes ==
  ASSUME WakeInv, SysInv', NEW after \in {0, sched.after}, LoseScheduler(after)
  PROVE  PageKept' /\ AllTakenUp'
<1>0. SysBasics /\ TypeOK /\ sched.after \in Nat /\ Len(events) \in Nat
  BY DEF WakeInv, SysInv, SysBasics, SysTypeOK, Scheduler, TypeOK
<1>1. UNCHANGED storeVars /\ sched' = [Stopped EXCEPT !.after = after]
  BY <1>0, LossTypes
<1>2. /\ sched'.pc = "poll" /\ sched'.plan = <<>> /\ sched'.todo = <<>>
      /\ sched'.after = after /\ sched'.upto = 0 /\ after \in Nat /\ after <= sched.after
  BY <1>0, <1>1 DEF Stopped
<1>3. events' = events
  BY <1>1 DEF storeVars
<1>4. PageKept'
  <2>1. PlannedRequests' = {}
    BY <1>2 DEF PlannedRequests
  <2> QED
    BY <1>0, <1>2, <1>3, <2>1 DEF WakeInv, PageKept
<1>5. ASSUME NEW r \in RunIds, IsActive(r)'
      PROVE  EventAfter(Seen, r)' \/ AtHand(r)'
  <2>1. IsActive(r)
    BY <1>1, <1>5, SamePlanned
  <2>2. CASE Planned(ContentOf(r), RunStateOf(r)) = {}
    BY <1>1, <2>2, SamePlanned, NothingToDo
  <2>3. CASE Planned(ContentOf(r), RunStateOf(r)) # {}
    <3>1. PICK k \in DOMAIN events : k > sched.after /\ Concerns(events[k]) = r
      BY <2>1, <2>3, WakeupKept DEF EventAfter
    <3>2. k \in DOMAIN events' /\ k > sched'.after /\ Concerns(events[k])' = r
      BY <1>0, <1>1, <1>2, <1>3, <3>1 DEF storeVars, Concerns, TypeOK
    <3>3. EventAfter(Seen, r)'
      BY <1>2, <3>2 DEF EventAfter, Seen
    <3> QED
      BY <3>3
  <2> QED
    BY <2>2, <2>3
<1> QED
  BY <1>4, <1>5 DEF AllTakenUp

LEMMA AdvanceWakes ==
  ASSUME WakeInv, SysInv', Advance
  PROVE  PageKept' /\ AllTakenUp'
<1>0. SysBasics /\ SysInv /\ SysTypeOK' /\ sched \in Scheduler
  BY DEF WakeInv, SysInv, SysBasics, SysTypeOK
<1>1. PICK r0 \in RunIds : r0 = Head(sched.todo)
  BY <1>0, AdvanceTypes
<1>2. /\ UNCHANGED storeVars
      /\ sched.todo # <<>> /\ sched.plan = <<>> /\ sched.pc = "work" /\ sched'.pc = "work"
      /\ sched'.after = sched.after /\ sched'.upto = sched.upto
      /\ sched'.todo = Tail(sched.todo)
      /\ DOMAIN sched'.plan = DOMAIN PlanFor(r0)
      /\ \A i \in DOMAIN PlanFor(r0) :
           sched'.plan[i] = Request(PlanFor(r0)[i].do, r0, PlanFor(r0)[i].at)
  BY <1>0, <1>1, AdvanceTypes
<1>3. StoreStep /\ Seen' = Seen
  BY <1>2 DEF StoreStep, Elsewhere, Seen
<1>4. /\ sched.todo \in Seq(RunIds) /\ OnTodo(r0)
      /\ \A i \in DOMAIN sched'.todo : OnTodo(sched'.todo[i])
      /\ \A i \in DOMAIN sched.todo : sched.todo[i] # r0 =>
           \E j \in DOMAIN sched'.todo : sched'.todo[j] = sched.todo[i]
  <2>1. sched.todo \in Seq(RunIds)
    BY <1>0 DEF Scheduler
  <2>2. r0 = sched.todo[1] /\ 1 \in DOMAIN sched.todo
    BY <1>1, <1>2, <2>1
  <2>3. /\ \A i \in DOMAIN sched'.todo : i + 1 \in DOMAIN sched.todo /\ sched'.todo[i] = sched.todo[i + 1]
        /\ \A i \in DOMAIN sched.todo : i # 1 =>
             i - 1 \in DOMAIN sched'.todo /\ sched'.todo[i - 1] = sched.todo[i]
    BY <1>2, <2>1
  <2> QED
    BY <2>1, <2>2, <2>3 DEF OnTodo
<1>5. \A q \in PlannedRequests' : q.run = r0
  <2>1. \A do, at : Request(do, r0, at).run = r0
    BY DEF Request
  <2>2. \A i \in DOMAIN sched'.plan : sched'.plan[i].run = r0
    BY <1>2, <2>1
  <2> QED
    BY <2>2 DEF PlannedRequests
<1>6. PageKept'
  <2>1. OnPage(r0)
    BY <1>4 DEF OnTodo, WakeInv, PageKept
  <2>2. \A q \in PlannedRequests' : OnPage(q.run)
    BY <1>5, <2>1
  <2> QED
    BY <1>0, <1>2, <1>3, <1>4, <1>5, <2>2, PageStays DEF WakeInv
<1>7. ASSUME NEW r \in RunIds, IsActive(r)'
      PROVE  EventAfter(Seen, r)' \/ AtHand(r)'
  <2>1. /\ IsActive(r)
        /\ Planned(ContentOf(r), RunStateOf(r))' = Planned(ContentOf(r), RunStateOf(r))
    BY <1>2, <1>7, SamePlanned
  <2>2. CASE r = r0
    <3>1. /\ PlanFor(r) \in Seq(Action)
          /\ PlanFor(r) = NextActions(ContentOf(r), RunStateOf(r))
      BY <1>0, <2>1, PlanTyped
    <3>2. ASSUME NEW action \in Planned(ContentOf(r), RunStateOf(r))
          PROVE  \E q \in PlannedRequests' : q.run = r /\ ActionOf(q) = action
      <4>1. PICK i \in DOMAIN PlanFor(r) : action = PlanFor(r)[i]
        BY <3>1 DEF Planned
      <4>2. action \in Action
        BY <3>1, <4>1
      <4>3. action = [do |-> action.do, at |-> action.at]
        BY <4>2 DEF Action
      <4>4. sched'.plan[i] = Request(action.do, r, action.at) /\ i \in DOMAIN sched'.plan
        BY <1>2, <2>2, <4>1
      <4>5. sched'.plan[i].run = r /\ ActionOf(sched'.plan[i]) = action
        BY <4>3, <4>4 DEF Request, ActionOf
      <4> QED
        BY <4>4, <4>5 DEF PlannedRequests
    <3>3. AllRequested(r)'
      BY <2>1, <3>2 DEF AllRequested, ActionOf
    <3> QED
      BY <3>3 DEF AtHand
  <2>3. CASE r # r0 /\ OnTodo(r)
    <3>1. OnTodo(r)'
      BY <1>4, <2>3 DEF OnTodo
    <3> QED
      BY <3>1 DEF AtHand
  <2>4. CASE AllRequested(r)
    <3>1. Planned(ContentOf(r), RunStateOf(r)) = {}
      BY <1>2, <2>4 DEF AllRequested, PlannedRequests
    <3> QED
      BY <2>1, <3>1, NothingToDo
  <2>5. ~ IsRejected(r) /\ ~ ToFail(r)
    BY <1>2 DEF IsRejected, ToFail, PlannedRequests
  <2> QED
    BY <1>3, <1>7, <2>2, <2>3, <2>4, <2>5, TakenUpOn DEF AtHand
<1> QED
  BY <1>6, <1>7 DEF AllTakenUp

LEMMA RejectedWakes ==
  ASSUME WakeInv, SysInv', Rejected
  PROVE  PageKept' /\ AllTakenUp'
<1>0. SysBasics /\ SysInv /\ SysTypeOK' /\ sched \in Scheduler /\ sched.plan \in Seq(Requests)
  BY DEF WakeInv, SysInv, SysBasics, SysTypeOK, Scheduler
<1>1. sched.pc = "rejected" /\ sched.plan # <<>> /\ UNCHANGED storeVars
  BY <1>0 DEF Rejected, SysBasics, SysTypeOK
<1>2. PICK q \in PlannedRequests : q = Head(sched.plan)
  BY <1>0, <1>1 DEF PlannedRequests
<1> DEFINE plan == IF IsActive(q.run) THEN <<Request("fail", q.run, None)>> ELSE <<>>
<1>3. sched' = [sched EXCEPT !.pc = "work", !.plan = plan]
  BY <1>2, Zenon DEF Rejected
<1>4. /\ \A i \in DOMAIN plan : plan[i].run = q.run
      /\ IsActive(q.run) => \E i \in DOMAIN plan : plan[i].run = q.run /\ plan[i].do = "fail"
  BY DEF Request
<1> HIDE DEF plan
<1>5. /\ sched'.pc = "work" /\ sched'.plan = plan /\ sched'.after = sched.after
      /\ sched'.upto = sched.upto /\ sched'.todo = sched.todo
  BY <1>0, <1>3 DEF Scheduler
<1>6. StoreStep /\ Seen' = Seen
  BY <1>1, <1>5 DEF StoreStep, Elsewhere, Seen
<1>7. \A x \in PlannedRequests' : x.run = q.run
  BY <1>4, <1>5 DEF PlannedRequests
<1>8. PageKept'
  <2>1. \A x \in PlannedRequests' : OnPage(x.run)
    BY <1>7 DEF WakeInv, PageKept
  <2>2. \A i \in DOMAIN sched'.todo : OnTodo(sched'.todo[i])
    BY <1>5 DEF OnTodo
  <2> QED
    BY <1>0, <1>1, <1>5, <1>6, <1>7, <2>1, <2>2, PageStays DEF WakeInv
<1>9. ASSUME NEW r \in RunIds, IsActive(r)'
      PROVE  EventAfter(Seen, r)' \/ AtHand(r)'
  <2>1. /\ IsActive(r)
        /\ Planned(ContentOf(r), RunStateOf(r))' = Planned(ContentOf(r), RunStateOf(r))
    BY <1>1, <1>9, SamePlanned
  <2>2. CASE r = q.run
    <3>1. ToFail(r)'
      BY <1>4, <1>5, <2>1, <2>2 DEF ToFail, PlannedRequests
    <3> QED
      BY <3>1 DEF AtHand
  <2>3. CASE r # q.run /\ OnTodo(r)
    <3>1. OnTodo(r)'
      BY <1>5, <2>3 DEF OnTodo
    <3> QED
      BY <3>1 DEF AtHand
  <2>4. CASE r # q.run /\ AllRequested(r)
    <3>1. Planned(ContentOf(r), RunStateOf(r)) = {}
      BY <1>2, <2>4 DEF AllRequested, WakeInv, PageKept
    <3> QED
      BY <2>1, <3>1, NothingToDo
  <2>5. r # q.run => ~ IsRejected(r) /\ ~ ToFail(r)
    BY <1>2 DEF IsRejected, ToFail, WakeInv, PageKept
  <2> QED
    BY <1>6, <1>9, <2>2, <2>3, <2>4, <2>5, TakenUpOn DEF AtHand
<1> QED
  BY <1>8, <1>9 DEF AllTakenUp

\* A request carried out for a run that goes on is not asked for again.
LEMMA CarriedIsDone ==
  ASSUME SysInv, SysInv', NEW q \in InFlight, Carry(q), q.run \in RunIds, IsActive(q.run)'
  PROVE  /\ q.do # "fail"
         /\ ActionOf(q) \notin Planned(ContentOf(q.run), RunStateOf(q.run))'
<1>0. SysBasics /\ SysBasics' /\ TypeOK /\ TypeOK'
  BY DEF SysInv, SysBasics
<1>1. q \in Requests
  BY <1>0, StartTypes DEF SysBasics
<1>2. \A status \in {"failed", "cancelled"} : ~ FinishTree(q.run, status)
  <2> SUFFICES ASSUME NEW status \in {"failed", "cancelled"}, FinishTree(q.run, status)
               PROVE  FALSE
    OBVIOUS
  <2>1. status \in RunEnded
    BY DEF RunEnded
  <2>2. TreesEnded({runs[q.run].root}, status)
    BY <2>1 DEF FinishTree, FinishRuns, TreesEnded
  <2>3. runs'[q.run].status # "active"
    BY <1>0, <2>1, <2>2, TreesEndedRuns DEF IsActive, RunEnded
  <2> QED
    BY <2>3 DEF IsActive
<1>3. q.do \notin {"fail", "cancel"}
  BY <1>2 DEF Carry, FailRunTree, CancelRunTree
<1>4. q.do # "succeed"
  <2> SUFFICES ASSUME q.do = "succeed" PROVE FALSE
    OBVIOUS
  <2>1. SucceedRun(q.run, Output(ContentOf(q.run), RunStateOf(q.run)))
    BY DEF Carry
  <2> QED
    BY <1>0, <2>1 DEF SucceedRun, IsActive, TypeOK, Run
<1>5. q.do \in {"publish", "start"} /\ Carried(q)
  BY <1>1, <1>3, <1>4 DEF Carry, Carried, Requests
<1>6. RunStateOf(q.run)' = IF q.at \notin Begun(q.run)
                           THEN WithStarted(RunStateOf(q.run), q.at) ELSE RunStateOf(q.run)
  BY <1>0, <1>5, CarriedState
<1>7. q.at \in Begun(q.run)'
  BY <1>6 DEF Begun, WithStarted, StateOf
<1>8. ContentOf(q.run)' \in Contents /\ RunStateOf(q.run)' \in RunStates(ContentOf(q.run)')
  <2>1. runs'[q.run].status # "none"
    BY DEF IsActive
  <2>2. RunStateOf(q.run)' \in RunStates(ContentOf(q.run)')
    BY <1>0, <2>1 DEF SysBasics, StatesKnown
  <2>3. ContentOf(q.run)' \in Contents
    BY <1>0, <2>1 DEF SysBasics, ContentsKept, ContentOf, StoredVersions, TypeOK
  <2> QED
    BY <2>2, <2>3
<1>9. PlanIsSound(ContentOf(q.run)', RunStateOf(q.run)')
  BY <1>8, PlannerAssumption
<1>10. ActionOf(q) \notin Planned(ContentOf(q.run)', RunStateOf(q.run)')
  <2>1. ActionOf(q).do = q.do /\ ActionOf(q).at = q.at
    BY DEF ActionOf
  <2> QED
    BY <1>5, <1>7, <1>9, <2>1 DEF PlanIsSound, StartsPlanned, Begun
<1> QED
  BY <1>3, <1>10 DEF Planned

\* A step of the request at the head of the plan.
LEMMA ApplyTypes ==
  ASSUME SysBasics, Apply
  PROVE  /\ sched.pc = "work" /\ sched.plan # <<>> /\ sched.plan \in Seq(Requests)
         /\ sched'.after = sched.after /\ sched'.upto = sched.upto /\ sched'.todo = sched.todo
         /\ \/ /\ UNCHANGED storeVars /\ sched'.pc = "work"
               /\ \E s \in NextSteps(Head(sched.plan)) : sched'.plan = <<s>> \o Tail(sched.plan)
            \/ Carry(Head(sched.plan)) /\ sched'.pc = "work" /\ sched'.plan = Tail(sched.plan)
            \/ UNCHANGED storeVars /\ sched'.pc = "rejected" /\ sched'.plan = sched.plan
<1> DEFINE q == Head(sched.plan)
           tail == Tail(sched.plan)
<1>1. /\ sched \in Scheduler /\ sched.pc = "work" /\ sched.plan # <<>>
      /\ sched.plan \in Seq(Requests)
  BY DEF SysBasics, SysTypeOK, Scheduler, Apply
<1>2. CASE \E s \in NextSteps(q) :
             sched' = [sched EXCEPT !.plan = <<s>> \o tail] /\ UNCHANGED storeVars
  <2>1. PICK s \in NextSteps(q) :
          sched' = [sched EXCEPT !.plan = <<s>> \o tail] /\ UNCHANGED storeVars
    BY <1>2
  <2> DEFINE plan == <<s>> \o tail
  <2>2. sched' = [sched EXCEPT !.plan = plan]
    BY <2>1
  <2> HIDE DEF plan
  <2>3. /\ sched'.after = sched.after /\ sched'.upto = sched.upto /\ sched'.todo = sched.todo
        /\ sched'.pc = "work" /\ sched'.plan = plan
    BY <1>1, <2>2 DEF Scheduler
  <2> QED
    BY <1>1, <2>1, <2>3 DEF plan
<1>3. CASE Carry(q) /\ sched' = [sched EXCEPT !.plan = tail]
  <2> HIDE DEF tail, q
  <2>1. /\ sched'.after = sched.after /\ sched'.upto = sched.upto /\ sched'.todo = sched.todo
        /\ sched'.pc = "work" /\ sched'.plan = tail
    BY <1>1, <1>3 DEF Scheduler
  <2> QED
    BY <1>1, <1>3, <2>1 DEF tail, q
<1>4. CASE sched' = [sched EXCEPT !.pc = "rejected"] /\ UNCHANGED storeVars
  BY <1>1, <1>4 DEF Scheduler
<1> QED
  BY <1>2, <1>3, <1>4 DEF Apply

LEMMA ApplyWakes ==
  ASSUME WakeInv, SysInv', Apply
  PROVE  PageKept' /\ AllTakenUp'
<1>0. /\ SysBasics /\ SysInv /\ SysTypeOK' /\ StoreStep
      /\ \A q1, q2 \in PlannedRequests : q1.run = q2.run
      /\ \A x \in PlannedRequests : OnPage(x.run)
  BY SchedulerWork DEF WakeInv, SysInv, SysBasics, StoreStep, PageKept
<1>1. /\ sched.pc = "work" /\ sched.plan # <<>> /\ sched.plan \in Seq(Requests)
      /\ sched'.after = sched.after /\ sched'.upto = sched.upto /\ sched'.todo = sched.todo
      /\ sched'.pc \in {"work", "rejected"}
  BY <1>0, ApplyTypes
<1>2. PICK q \in PlannedRequests : q = Head(sched.plan)
  BY <1>1 DEF PlannedRequests
<1>3. /\ q \in InFlight /\ q \in Requests /\ q.run \in RunIds
      /\ \A x \in PlannedRequests : x.run = q.run
  BY <1>0, <1>2, StartTypes DEF InFlight, SysBasics, Requests
<1>4. Seen' = Seen
  BY <1>1 DEF Seen
<1>5. \A i \in DOMAIN sched'.todo : OnTodo(sched'.todo[i])
  BY <1>1 DEF OnTodo
<1>6. \A r \in RunIds : OnTodo(r) => AtHand(r)'
  BY <1>1 DEF OnTodo, AtHand
<1>7. \A r \in RunIds : ~ IsRejected(r)
  BY <1>1 DEF IsRejected
<1>8. ASSUME \A x \in PlannedRequests' : x.run = q.run
      PROVE  PageKept'
  <2>1. \A x \in PlannedRequests' : OnPage(x.run)
    BY <1>0, <1>8
  <2> QED
    BY <1>0, <1>1, <1>5, <1>8, <2>1, PageStays DEF WakeInv
<1>9. ASSUME \A r \in RunIds : IsActive(r)' /\ IsActive(r) /\ (ToFail(r) \/ AllRequested(r))
               /\ Planned(ContentOf(r), RunStateOf(r))' \subseteq Planned(ContentOf(r), RunStateOf(r))
               => AtHand(r)'
      PROVE  AllTakenUp'
  BY <1>0, <1>4, <1>6, <1>7, <1>9, TakenUpOn DEF AtHand, AllTakenUp
<1>10. CASE /\ UNCHANGED storeVars /\ sched'.pc = "work"
            /\ \E s \in NextSteps(q) : sched'.plan = <<s>> \o Tail(sched.plan)
  <2>1. PICK s \in NextSteps(q) : sched'.plan = <<s>> \o Tail(sched.plan)
    BY <1>10
  <2>2. s \in Requests /\ SameRequest(q, s)
    BY <1>0, <1>3, NextStepsKeep DEF SysBasics
  <2>3. /\ \A x \in PlannedRequests' : x = s \/ x \in PlannedRequests
        /\ \A x \in PlannedRequests : x = q \/ x \in PlannedRequests'
        /\ s \in PlannedRequests'
    <3> DEFINE plan == <<s>> \o Tail(sched.plan)
    <3>1. /\ DOMAIN plan = DOMAIN sched.plan /\ 1 \in DOMAIN plan /\ plan[1] = s
          /\ sched.plan[1] = q
          /\ \A i \in DOMAIN plan : i # 1 => plan[i] = sched.plan[i]
      BY <1>1, <1>2, <2>2
    <3> HIDE DEF plan
    <3>2. sched'.plan = plan
      BY <2>1 DEF plan
    <3> QED
      BY <3>1, <3>2 DEF PlannedRequests
  <2>4. \A x \in PlannedRequests : \E y \in PlannedRequests' : SameRequest(x, y)
    BY <2>2, <2>3 DEF SameRequest
  <2>5. PageKept'
    BY <1>3, <1>8, <2>2, <2>3 DEF SameRequest
  <2>6. ASSUME NEW r \in RunIds, ToFail(r) PROVE AtHand(r)'
    <3>1. ToFail(r)'
      BY <2>4, <2>6 DEF ToFail, SameRequest
    <3> QED
      BY <3>1 DEF AtHand
  <2>7. ASSUME NEW r \in RunIds, AllRequested(r),
               Planned(ContentOf(r), RunStateOf(r))' \subseteq Planned(ContentOf(r), RunStateOf(r))
        PROVE  AtHand(r)'
    <3>1. \A action \in Planned(ContentOf(r), RunStateOf(r))' :
            \E y \in PlannedRequests' : y.run = r /\ ActionOf(y) = action
      BY <2>4, <2>7 DEF AllRequested, SameRequest, ActionOf
    <3>2. AllRequested(r)'
      BY <3>1 DEF AllRequested, ActionOf
    <3> QED
      BY <3>2 DEF AtHand
  <2> QED
    BY <1>9, <2>5, <2>6, <2>7
<1>11. CASE Carry(q) /\ sched'.pc = "work" /\ sched'.plan = Tail(sched.plan)
  <2>1. /\ \A x \in PlannedRequests' : x \in PlannedRequests
        /\ \A x \in PlannedRequests : x = q \/ x \in PlannedRequests'
    <3> DEFINE plan == Tail(sched.plan)
    <3>1. /\ \A i \in DOMAIN plan : i + 1 \in DOMAIN sched.plan /\ plan[i] = sched.plan[i + 1]
          /\ sched.plan[1] = q
          /\ \A i \in DOMAIN sched.plan : i # 1 => i - 1 \in DOMAIN plan /\ plan[i - 1] = sched.plan[i]
      BY <1>1, <1>2
    <3> HIDE DEF plan
    <3>2. sched'.plan = plan
      BY <1>11 DEF plan
    <3> QED
      BY <3>1, <3>2 DEF PlannedRequests
  <2>2. PageKept'
    BY <1>3, <1>8, <2>1
  <2>3. IsActive(q.run)' => /\ q.do # "fail"
                            /\ ActionOf(q) \notin Planned(ContentOf(q.run), RunStateOf(q.run))'
    BY <1>0, <1>3, <1>11, CarriedIsDone
  <2>4. ASSUME NEW r \in RunIds, IsActive(r)', ToFail(r) PROVE AtHand(r)'
    <3>1. PICK x \in PlannedRequests : x.run = r /\ x.do = "fail"
      BY <2>4 DEF ToFail
    <3>2. x \in PlannedRequests'
      BY <2>1, <2>3, <2>4, <3>1
    <3>3. ToFail(r)'
      BY <3>1, <3>2 DEF ToFail
    <3> QED
      BY <3>3 DEF AtHand
  <2>5. ASSUME NEW r \in RunIds, IsActive(r)', AllRequested(r),
               Planned(ContentOf(r), RunStateOf(r))' \subseteq Planned(ContentOf(r), RunStateOf(r))
        PROVE  AtHand(r)'
    <3>1. ASSUME NEW action \in Planned(ContentOf(r), RunStateOf(r))'
          PROVE  \E y \in PlannedRequests' : y.run = r /\ ActionOf(y) = action
      <4>1. PICK x \in PlannedRequests : x.run = r /\ ActionOf(x) = action
        BY <2>5, <3>1 DEF AllRequested
      <4>2. x # q
        BY <2>3, <2>5, <3>1, <4>1
      <4> QED
        BY <2>1, <4>1, <4>2
    <3>2. AllRequested(r)'
      BY <3>1 DEF AllRequested, ActionOf
    <3> QED
      BY <3>2 DEF AtHand
  <2> QED
    BY <1>9, <2>2, <2>4, <2>5
<1>12. CASE UNCHANGED storeVars /\ sched'.pc = "rejected" /\ sched'.plan = sched.plan
  <2>1. PlannedRequests' = PlannedRequests
    BY <1>12 DEF PlannedRequests
  <2>2. PageKept'
    BY <1>3, <1>8, <2>1
  <2>3. ASSUME NEW r \in RunIds, ToFail(r) PROVE AtHand(r)'
    <3>1. ToFail(r)'
      BY <2>1, <2>3 DEF ToFail
    <3> QED
      BY <3>1 DEF AtHand
  <2>4. ASSUME NEW r \in RunIds, AllRequested(r) PROVE AtHand(r)'
    <3>1. Planned(ContentOf(r), RunStateOf(r))' = Planned(ContentOf(r), RunStateOf(r))
      BY <1>12, SamePlanned
    <3>2. \A action \in Planned(ContentOf(r), RunStateOf(r))' :
            \E y \in PlannedRequests' : y.run = r /\ ActionOf(y) = action
      BY <2>1, <2>4, <3>1 DEF AllRequested
    <3>3. AllRequested(r)'
      BY <3>2 DEF AllRequested, ActionOf
    <3> QED
      BY <3>3 DEF AtHand
  <2> QED
    BY <1>9, <2>2, <2>3, <2>4
<1> QED
  BY <1>0, <1>2, <1>10, <1>11, <1>12, ApplyTypes

LEMMA OthersWake ==
  ASSUME WakeInv, SysInv', StoreStep, UNCHANGED sched
  PROVE  PageKept' /\ AllTakenUp'
<1>0. /\ SysInv /\ SysTypeOK' /\ Seen' = Seen /\ PlannedRequests' = PlannedRequests
  BY DEF WakeInv, SysInv, SysBasics, Seen, PlannedRequests
<1>1. PageKept'
  <2>1. \A i \in DOMAIN sched'.todo : OnTodo(sched'.todo[i])
    BY DEF OnTodo
  <2> QED
    BY <1>0, <2>1, PageStays DEF WakeInv, PageKept
<1>2. ASSUME NEW r \in RunIds, AtHand(r),
             Planned(ContentOf(r), RunStateOf(r))' \subseteq Planned(ContentOf(r), RunStateOf(r))
      PROVE  AtHand(r)'
  <2>1. CASE OnTodo(r) \/ IsRejected(r) \/ ToFail(r)
    BY <1>0, <2>1 DEF AtHand, OnTodo, IsRejected, ToFail
  <2>2. CASE AllRequested(r)
    <3>1. \A action \in Planned(ContentOf(r), RunStateOf(r))' :
            \E y \in PlannedRequests' : y.run = r /\ ActionOf(y) = action
      BY <1>0, <1>2, <2>2 DEF AllRequested
    <3>2. AllRequested(r)'
      BY <3>1 DEF AllRequested, ActionOf
    <3> QED
      BY <3>2 DEF AtHand
  <2> QED
    BY <1>2, <2>1, <2>2 DEF AtHand
<1>3. AllTakenUp'
  BY <1>0, <1>2, TakenUpOn DEF AllTakenUp
<1> QED
  BY <1>1, <1>3

LEMMA WakeInvInit == SysInit => WakeInv
<1> SUFFICES ASSUME SysInit PROVE WakeInv
  OBVIOUS
<1>1. PageKept
  BY DEF SysInit, Init, Stopped, PageKept, PlannedRequests
<1>2. AllTakenUp
  BY DEF SysInit, Init, AllTakenUp, IsActive, NoRun
<1> QED
  BY <1>1, <1>2, SysInvInit DEF WakeInv

LEMMA WakeInvNext == WakeInv /\ [SysNext]_sysVars => WakeInv'
<1> SUFFICES ASSUME WakeInv, [SysNext]_sysVars PROVE WakeInv'
  OBVIOUS
<1>1. SysInv /\ SysInv' /\ StoreStep
  BY SysInvNext, SystemSteps DEF WakeInv, SysInv
<1>2. CASE SchedulerStep
  BY <1>1, <1>2, PollWakes, AdvanceWakes, PageDoneWakes, ApplyWakes, RejectedWakes
  DEF SchedulerStep, WakeInv
<1>3. CASE \E after \in {0, sched.after} : LoseScheduler(after)
  BY <1>1, <1>3, LossWakes DEF WakeInv
<1>4. CASE UNCHANGED sched
  BY <1>1, <1>4, OthersWake DEF WakeInv
<1> QED
  BY <1>2, <1>3, <1>4
  DEF SysNext, sysVars, ownVars, LateCall, WorkerStep, Receive, Claim, Report, Heartbeat,
      LoseWorker, Lapse, UserStarts, UserDeploys, UserCancels

\* Whatever an active run could do next, however many events, runs and requests
\* there are, the scheduler has yet to put an event behind it that leads it there.
THEOREM WakeupsAreKept == SysSpec => []NoLostWakeup
<1>1. WakeInv => NoLostWakeup
  <2> SUFFICES ASSUME WakeInv, NEW r \in RunIds, IsActive(r), PlanFor(r) # <<>>
               PROVE  \E i \in DOMAIN events : i > sched.after /\ Concerns(events[i]) = r
    BY DEF NoLostWakeup
  <2>1. PlanFor(r) \in Seq(Action) /\ PlanFor(r) = NextActions(ContentOf(r), RunStateOf(r))
    BY PlanTyped DEF WakeInv, SysInv
  <2>2. 1 \in DOMAIN PlanFor(r)
    BY <2>1
  <2>3. Planned(ContentOf(r), RunStateOf(r)) # {}
    BY <2>1, <2>2 DEF Planned
  <2> QED
    BY <2>3, WakeupKept DEF EventAfter
<1> QED
  BY <1>1, WakeInvInit, WakeInvNext, PTL DEF SysSpec
=============================================================================
