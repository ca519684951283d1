---------------------------- MODULE FailureProofs ----------------------------
(* Proofs about why runs fail: whatever is lost, late or read again, a tree  *)
(* fails for a cause that is found in the store.                             *)
EXTENDS OrchestrationProofs

-----------------------------------------------------------------------------
(* Causes.                                                                   *)

HasCause(root) ==
  \E s \in RunIds : runs[s].root = root /\ runs[s].status # "none" /\ IsCause(s)

LEMMA StoredAreFinite ==
  ASSUME NEW f \in FlowNames
  PROVE  /\ IsFiniteSet(StoredVersions(f)) /\ StoredVersions(f) \subseteq Nat
         /\ Cardinality(StoredVersions(f)) \in Nat
<1>1. MaxVersion \in Int /\ 1 \in Int /\ StoredVersions(f) \in SUBSET (1 .. MaxVersion)
  BY StoreAssumption DEF StoredVersions, Versions
<1>2. IsFiniteSet(1 .. MaxVersion)
  BY <1>1, FS_Interval
<1> QED
  BY <1>1, <1>2, FS_Subset, FS_CardinalityType

LEMMA StoredGrow ==
  ASSUME FlowsKept, NEW f \in FlowNames
  PROVE  /\ StoredVersions(f) \subseteq StoredVersions(f)'
         /\ IsFiniteSet(StoredVersions(f)') /\ Cardinality(StoredVersions(f)') \in Nat
         /\ Cardinality(StoredVersions(f)) <= Cardinality(StoredVersions(f)')
<1>1. StoredVersions(f) \subseteq StoredVersions(f)'
  BY DEF FlowsKept, StoredVersions
<1>2. IsFiniteSet(StoredVersions(f)') /\ Cardinality(StoredVersions(f)') \in Nat
  <2>1. MaxVersion \in Int /\ 1 \in Int /\ StoredVersions(f)' \in SUBSET (1 .. MaxVersion)
    BY StoreAssumption DEF StoredVersions, Versions
  <2>2. IsFiniteSet(1 .. MaxVersion)
    BY <2>1, FS_Interval
  <2> QED
    BY <2>1, <2>2, FS_Subset, FS_CardinalityType
<1> QED
  BY <1>1, <1>2, FS_Subset

\* A step of the store leaves causes where they are.
LEMMA CauseStays ==
  ASSUME SysInv, TypeOK', [Next]_storeVars, NEW root, HasCause(root)
  PROVE  HasCause(root)'
<1>0. /\ SysBasics /\ TypeOK /\ ContentsKept /\ FlowsKept
      /\ \A x \in RunIds : RunStep(x)
      /\ \A t \in TaskIds : TaskMoves(t)
  BY RunStepNext, TaskMovesNext, FlowsKeptNext DEF SysInv, SysBasics
<1>1. PICK s \in RunIds : runs[s].root = root /\ runs[s].status # "none" /\ IsCause(s)
  BY DEF HasCause
<1> DEFINE c == ContentOf(s)
<1>2. /\ runs'[s].status # "none" /\ runs'[s].root = root
      /\ c \in Contents /\ ContentOf(s)' = c
  BY <1>0, <1>1, ContentKnown, ContentStays DEF RunStep
<1>3. CASE \E a \in TaskAddresses : tasks[<<s, a>>].status = "failed"
  <2>1. PICK a \in TaskAddresses : tasks[<<s, a>>].status = "failed"
    BY <1>3
  <2>2. <<s, a>> \in TaskIds
    BY DEF TaskIds
  <2>3. tasks'[<<s, a>>].status = "failed"
    BY <1>0, <2>1, <2>2 DEF TaskMoves, TaskLeased
  <2> QED
    BY <1>2, <2>3 DEF HasCause, IsCause
<1>4. CASE \E st \in RunStates(c) : Grows(st, RunStateOf(s)) /\ GivesUp(c, st)
  <2>1. PICK st \in RunStates(c) : Grows(st, RunStateOf(s)) /\ GivesUp(c, st)
    BY <1>4
  <2>2. Grows(st, RunStateOf(s)')
    BY <1>0, <2>1, StepsGrow, GrowsTransitive
  <2>3. \E x \in RunStates(ContentOf(s)') : Grows(x, RunStateOf(s)') /\ GivesUp(ContentOf(s)', x)
    BY <1>2, <2>1, <2>2
  <2>4. IsCause(s)'
    BY <2>3 DEF IsCause, GivesUp, Planned
  <2> QED
    BY <1>2, <2>4 DEF HasCause
<1>5. CASE \E a \in SubFlowAddresses :
             \/ \E v \in StoredVersions(Calls(c, a)) : ~ Fits(c, a, flows[Calls(c, a)][v])
             \/ Cardinality(StoredVersions(Calls(c, a))) > StartAttempts
  <2>1. PICK a \in SubFlowAddresses :
          \/ \E v \in StoredVersions(Calls(c, a)) : ~ Fits(c, a, flows[Calls(c, a)][v])
          \/ Cardinality(StoredVersions(Calls(c, a))) > StartAttempts
    BY <1>5
  <2>2. PICK f \in FlowNames : f = Calls(c, a) /\ f = Calls(ContentOf(s)', a)
    BY <1>2, OrchestrationAssumption
  <2>3. CASE \E v \in StoredVersions(f) : ~ Fits(c, a, flows[f][v])
    <3>1. PICK v \in StoredVersions(f) : ~ Fits(c, a, flows[f][v])
      BY <2>3
    <3>2. v \in StoredVersions(f)' /\ flows'[f][v] = flows[f][v]
      BY <1>0, <2>2, <3>1 DEF FlowsKept, StoredVersions
    <3>3. IsCause(s)'
      BY <1>2, <2>2, <3>1, <3>2 DEF IsCause, StoredVersions
    <3> QED
      BY <1>2, <3>3 DEF HasCause
  <2>4. CASE Cardinality(StoredVersions(f)) > StartAttempts
    <3>1. Cardinality(StoredVersions(f)') > StartAttempts
      BY <1>0, <2>4, StoredGrow, StoredAreFinite, OrchestrationAssumption
    <3>2. IsCause(s)'
      BY <1>2, <2>2, <3>1 DEF IsCause, StoredVersions
    <3> QED
      BY <1>2, <3>2 DEF HasCause
  <2> QED
    BY <2>1, <2>2, <2>3, <2>4
<1> QED
  BY <1>1, <1>3, <1>4, <1>5 DEF IsCause

\* What the planner gives a run up for is a cause already, of the run itself or of
\* the sub-flow run that failed below it.
LEMMA PlanFails ==
  ASSUME SysInv, FailedForCause, NEW r \in RunIds, IsActive(r),
         Fail \in Planned(ContentOf(r), RunStateOf(r))
  PROVE  HasCause(runs[r].root)
<1> DEFINE c == ContentOf(r)
           st == RunStateOf(r)
<1>0. TypeOK /\ TreeShape /\ TreeEndsTogether /\ SysBasics
  BY DEF SysInv, TreeInv
<1>1. runs[r].status # "none" /\ st \in RunStates(c)
  BY <1>0 DEF SysBasics, StatesKnown, IsActive
<1>2. StateShaped(r)
  BY <1>0, StateShape DEF StatesShaped
<1>3. CASE \A a \in DOMAIN st.steps : st.steps[a].outcome # "failed"
  <2>1. GivesUp(c, st)
    BY <1>3 DEF GivesUp
  <2>2. IsCause(r)
    BY <1>1, <2>1, GrowsReflexive DEF IsCause
  <2> QED
    BY <1>1, <2>2 DEF HasCause
<1>4. CASE \E a \in DOMAIN st.steps : st.steps[a].outcome = "failed"
  <2>1. PICK a \in Begun(r) : st.steps[a].outcome = "failed"
    BY <1>4 DEF Begun
  <2>2. CASE HasTask(r, a)
    <3>1. a \in TaskAddresses /\ <<r, a>> \in TaskIds /\ tasks[<<r, a>>].status \in TaskStatus \ {"none"}
      BY <1>0, <2>2 DEF HasTask, TaskIds, TypeOK, Task
    <3>2. OutcomeOf(tasks[<<r, a>>].status) = "failed"
      <4>1. st.steps[a] = [outcome |-> OutcomeOf(tasks[<<r, a>>].status),
                           value |-> tasks[<<r, a>>].result]
        BY <1>2, <2>2, <3>1, Zenon DEF StateShaped
      <4> QED
        BY <2>1, <4>1
    <3>3. tasks[<<r, a>>].status = "failed"
      BY <3>1, <3>2 DEF OutcomeOf, TaskStatus, TaskLeased, TaskTerminal
    <3> QED
      BY <1>1, <3>1, <3>3 DEF IsCause, HasCause
  <2>3. CASE HasSubRun(r, a)
    <3> DEFINE s == SubRun(r, a)
    <3>1. a \in SubFlowAddresses /\ s \in RunIds /\ runs[s].status \in RunStatus \ {"none"}
      BY <1>0, <2>3 DEF HasSubRun, TypeOK, Run
    <3>2. OutcomeOf(runs[s].status) = "failed"
      <4>1. st.steps[a] = [outcome |-> OutcomeOf(runs[s].status), value |-> runs[s].output]
        BY <1>2, <2>3, <3>1, Zenon DEF StateShaped
      <4> QED
        BY <2>1, <4>1
    <3>3. runs[s].status \in {"failed", "cancelled"}
      BY <3>1, <3>2 DEF OutcomeOf, RunStatus, RunEnded
    <3>4. runs[s].root = runs[r].root
      <4>1. /\ runs[s].parent \in RunIds /\ runs[s].address \in SubFlowAddresses
            /\ s = SubRunIdFor(runs[s].parent, runs[s].address)
            /\ runs[s].root = runs[runs[s].parent].root
        BY <1>0, <3>1, StoreAssumption DEF TreeShape, SubRun
      <4>2. runs[s].parent = r
        BY <3>1, <4>1, StoreAssumption DEF SubRun
      <4> QED
        BY <4>1, <4>2
    <3> QED
      BY <1>0, <3>1, <3>3, <3>4 DEF TreeEndsTogether
  <2> QED
    BY <1>2, <2>1, <2>2, <2>3 DEF StateShaped
<1> QED
  BY <1>3, <1>4

-----------------------------------------------------------------------------
(* Requests that start a sub-flow run.                                       *)

\* Whenever such a request tries again, one more version has come.
Attempted(q) ==
  IF q.latest = None
  THEN q.tries > 1 => Cardinality(StoredVersions(Callee(q))) >= q.tries
  ELSE /\ q.latest \in StoredVersions(Callee(q))
       /\ Cardinality({v \in StoredVersions(Callee(q)) : v <= q.latest}) >= q.tries

AttemptsCounted == \A q \in InFlight : q.do = "start" => Attempted(q)

\* A run that may start a sub-flow run finds the flow it calls.
LEMMA CalleeStored ==
  ASSUME SysInv, LatestFlowsValid, NEW q \in InFlight, q.do = "start", IsActive(q.run)
  PROVE  StoredVersions(Callee(q)) # {}
<1> DEFINE r == q.run
           c == ContentOf(r)
           latest == LatestAfter({})
<1>0. TypeOK /\ ActiveOnLatest /\ SysBasics /\ ContentsKept
  BY DEF SysInv, TreeInv, SysBasics
<1>1. /\ r \in RunIds /\ runs[r].status # "none" /\ c \in Contents
      /\ q.at \in SubFlowAddresses
  BY <1>0, StartTypes DEF SysBasics, Requests
<1>2. PICK st \in RunStates(c) : ActionOf(q) \in Planned(c, st)
  BY <1>0 DEF SysBasics, StartsWerePlanned, PlannedBefore, StartsPlanned
<1>3. runs[r].flow \in FlowNames /\ IsLatest(runs[r].flow, runs[r].version)
  BY <1>0, <1>1 DEF ContentsKept, ActiveOnLatest
<1>4. \A f \in FlowNames : latest[f] = IF StoredVersions(f) = {} THEN None
                                       ELSE flows[f][LatestOf(f)]
  BY DEF LatestAfter, NewUploads, LatestOf
<1>5. latest \in [FlowNames -> Contents \cup {None}]
  <2>1. \A f \in FlowNames : latest[f] \in Contents \cup {None}
    BY <1>0, <1>4, LatestKnown DEF TypeOK
  <2>2. latest = [f \in FlowNames |-> latest[f]]
    BY DEF LatestAfter
  <2> HIDE DEF latest
  <2> QED
    BY <2>1, <2>2
<1>6. ValidFlowSet(latest)
  BY <1>3 DEF LatestFlowsValid, IsLatest
<1>7. LatestOf(runs[r].flow) = runs[r].version
  <2>1. LatestOf(runs[r].flow) \in Versions /\ IsLatest(runs[r].flow, LatestOf(runs[r].flow))
    BY <1>0, <1>3, LatestKnown DEF IsLatest
  <2>2. StoredVersions(runs[r].flow) \subseteq Nat
    BY <1>3, StoredAreFinite
  <2> QED
    BY <1>3, <2>1, <2>2 DEF IsLatest
<1>8. latest[runs[r].flow] = c /\ c # None
  <2>1. StoredVersions(runs[r].flow) # {}
    BY <1>3 DEF IsLatest
  <2> HIDE DEF latest
  <2> QED
    BY <1>1, <1>3, <1>4, <1>7, <2>1, StoreAssumption DEF ContentOf
<1>9. ActionOf(q).do = "start" /\ ActionOf(q).at = q.at
  BY DEF ActionOf
<1>10. latest[Calls(c, q.at)] # None
  <2> HIDE DEF latest
  <2> QED
    BY <1>2, <1>3, <1>5, <1>6, <1>8, <1>9, FlowSetAssumption
<1>11. Callee(q) \in FlowNames /\ Callee(q) = Calls(c, q.at)
  BY <1>1, OrchestrationAssumption DEF Callee
<1> HIDE DEF latest
<1> QED
  BY <1>4, <1>10, <1>11

\* A version that is the latest no more has another above it.
LEMMA StaleCounted ==
  ASSUME TypeOK, NEW q \in Requests, Callee(q) \in FlowNames, q.latest # None, Attempted(q), IsStale(q)
  PROVE  Cardinality(StoredVersions(Callee(q))) >= q.tries + 1
<1> DEFINE stored == StoredVersions(Callee(q))
           upto == {v \in stored : v <= q.latest}
<1>1. IsFiniteSet(stored) /\ stored \subseteq Nat /\ Cardinality(stored) \in Nat /\ q.tries \in Nat
  BY StoredAreFinite DEF Requests
<1>2. q.latest \in stored /\ Cardinality(upto) >= q.tries
  BY DEF Attempted
<1>3. PICK w \in stored : ~ (w <= q.latest)
  BY <1>2 DEF IsStale, IsLatest
<1> HIDE DEF stored
<1>4. IsFiniteSet(upto) /\ Cardinality(upto) \in Nat /\ upto \cup {w} \in SUBSET stored
  BY <1>1, <1>3, FS_Subset, FS_CardinalityType
<1>5. Cardinality(upto \cup {w}) = Cardinality(upto) + 1
  BY <1>3, <1>4, FS_AddElement
<1>6. Cardinality(upto \cup {w}) <= Cardinality(stored)
  BY <1>1, <1>4, FS_Subset
<1> HIDE DEF upto
<1> QED
  BY <1>1, <1>2, <1>4, <1>5, <1>6 DEF stored

\* A request that goes on has counted the versions it has seen.
LEMMA AttemptGoesOn ==
  ASSUME SysInv, NEW q \in InFlight, Attempted(q), NEW s \in NextSteps(q)
  PROVE  Attempted(s)
<1>0. SysBasics /\ TypeOK
  BY DEF SysInv, SysBasics
<1>1. q \in Requests /\ q.do = "start" /\ ~ Refuses(q) /\ q.tries \in Nat
  BY <1>0, StartTypes DEF NextSteps, SysBasics, Requests
<1>2. Callee(q) \in FlowNames
  BY <1>0, <1>1, StartTypes, OrchestrationAssumption DEF Callee, SysBasics
<1> DEFINE stored == StoredVersions(Callee(q))
<1>3. IsFiniteSet(stored) /\ stored \subseteq Nat /\ Cardinality(stored) \in Nat
  BY <1>2, StoredAreFinite
<1>4. CASE q.latest = None
  <2>1. s = ReadLatest(q) /\ LatestFits(q)
    BY <1>1, <1>4 DEF NextSteps, Refuses
  <2>2. LatestOf(Callee(q)) \in Versions /\ IsLatest(Callee(q), LatestOf(Callee(q)))
    BY <1>0, <1>2, <2>1, LatestKnown DEF LatestFits
  <2>3. s.latest = LatestOf(Callee(q)) /\ s.tries = q.tries /\ Callee(s) = Callee(q)
    <3>1. s.latest = LatestOf(Callee(q)) /\ s.tries = q.tries /\ s.run = q.run /\ s.at = q.at
      BY <1>1, <2>1 DEF ReadLatest, Requests
    <3> QED
      BY <3>1 DEF Callee
  <2>4. {v \in stored : v <= s.latest} = stored /\ s.latest \in stored
    BY <2>2, <2>3 DEF IsLatest
  <2>5. Cardinality(stored) >= 1
    BY <1>3, <2>4, FS_EmptySet
  <2>6. Cardinality(stored) >= q.tries
    BY <1>1, <1>3, <1>4, <2>5 DEF Attempted
  <2> QED
    BY <2>3, <2>4, <2>6 DEF Attempted
<1>5. CASE q.latest # None
  <2>1. s = StartAgain(q) /\ IsStale(q)
    BY <1>1, <1>5 DEF NextSteps
  <2>2. s.latest = None /\ s.tries = q.tries + 1 /\ Callee(s) = Callee(q)
    <3> DEFINE n == q.tries + 1
    <3>1. s = [q EXCEPT !.latest = None, !.tries = n]
      BY <2>1 DEF StartAgain
    <3> HIDE DEF n
    <3>2. s.latest = None /\ s.tries = n /\ s.run = q.run /\ s.at = q.at
      BY <1>1, <3>1 DEF Requests
    <3> QED
      BY <3>2 DEF n, Callee
  <2>3. Cardinality(stored) >= q.tries + 1
    BY <1>0, <1>1, <1>2, <1>5, <2>1, StaleCounted
  <2> QED
    BY <2>2, <2>3 DEF Attempted
<1> QED
  BY <1>4, <1>5

\* Versions are never removed, so what was counted stays.
LEMMA AttemptStays ==
  ASSUME SysInv, TypeOK', [Next]_storeVars, NEW q \in InFlight, q.do = "start", Attempted(q)
  PROVE  Attempted(q)'
<1>0. SysBasics /\ TypeOK /\ ContentsKept /\ FlowsKept /\ \A x \in RunIds : RunStep(x)
  BY RunStepNext, FlowsKeptNext DEF SysInv, SysBasics
<1>1. /\ q \in Requests /\ q.run \in RunIds /\ q.tries \in Nat /\ q.at \in SubFlowAddresses
      /\ runs[q.run].status # "none" /\ ContentOf(q.run) \in Contents
  BY <1>0, StartTypes DEF SysBasics, Requests
<1>2. ContentOf(q.run)' = ContentOf(q.run)
  BY <1>0, <1>1, ContentStays
<1>3. PICK f \in FlowNames : f = Callee(q) /\ f = Callee(q)'
  BY <1>1, <1>2, OrchestrationAssumption DEF Callee
<1>4. /\ StoredVersions(f) \subseteq StoredVersions(f)' /\ IsFiniteSet(StoredVersions(f)')
      /\ Cardinality(StoredVersions(f)') \in Nat /\ Cardinality(StoredVersions(f)) \in Nat
      /\ Cardinality(StoredVersions(f)) <= Cardinality(StoredVersions(f)')
      /\ IsFiniteSet(StoredVersions(f))
  BY <1>0, StoredGrow, StoredAreFinite
<1>5. StoredVersions(Callee(q)) = StoredVersions(f) /\ StoredVersions(Callee(q))' = StoredVersions(f)'
  BY <1>3 DEF StoredVersions
<1>6. CASE q.latest = None
  BY <1>1, <1>4, <1>5, <1>6 DEF Attempted
<1>7. CASE q.latest # None
  <2> DEFINE seen == {v \in StoredVersions(f) : v <= q.latest}
             seenNow == {v \in StoredVersions(f)' : v <= q.latest}
  <2>1. q.latest \in StoredVersions(f) /\ Cardinality(seen) >= q.tries
    BY <1>5, <1>7 DEF Attempted
  <2>2. seen \in SUBSET seenNow /\ IsFiniteSet(seenNow) /\ IsFiniteSet(seen)
    BY <1>4, FS_Subset
  <2>3. /\ Cardinality(seen) <= Cardinality(seenNow)
        /\ Cardinality(seen) \in Nat /\ Cardinality(seenNow) \in Nat
    <3> HIDE DEF seen, seenNow
    <3> QED
      BY <2>2, FS_Subset, FS_CardinalityType
  <2>4. Cardinality(seenNow) >= q.tries
    <3> HIDE DEF seen, seenNow
    <3> QED
      BY <1>1, <2>1, <2>3
  <2> QED
    BY <1>4, <1>5, <1>7, <2>1, <2>4 DEF Attempted
<1> QED
  BY <1>6, <1>7

-----------------------------------------------------------------------------
(* Refusals.                                                                 *)

\* To succeed is asked for the run as a whole.
SuccessesWhole == \A q \in InFlight : q.do = "succeed" => ActionOf(q) = Succeed

\* Whatever was planned for a run that is still active may begin.
LEMMA PlannedMayBegin ==
  ASSUME SysInv, SuccessesSettled, SuccessesWhole, NEW q \in InFlight,
         q.do \in {"publish", "start", "succeed"}, IsActive(q.run)
  PROVE  MayBegin(q)
<1> DEFINE c == ContentOf(q.run)
           st == RunStateOf(q.run)
<1>0. SysBasics /\ TypeOK /\ ContentsKept
  BY DEF SysInv, SysBasics
<1>1. q.run \in RunIds
  BY <1>0, StartTypes DEF SysBasics, Requests
<1>2. c \in Contents /\ st \in RunStates(c)
  BY <1>0, <1>1, ContentKnown DEF IsActive, SysBasics, StatesKnown
<1>3. PICK was \in RunStates(c) : Grows(was, st) /\ ActionOf(q) \in Planned(c, was)
  <2>1. CASE q.do \in {"publish", "start"}
    BY <1>0, <2>1 DEF SysBasics, StartsWerePlanned, PlannedBefore, StartsPlanned
  <2>2. CASE q.do = "succeed"
    <3>1. Settled(q.run) /\ Grows(st, st)
      BY <2>2, GrowsReflexive DEF SuccessesSettled
    <3> QED
      BY <1>2, <2>2, <3>1 DEF Settled, SuccessesWhole
  <2> QED
    BY <2>1, <2>2
<1>4. PlanStaysAvailable(c, was, st)
  BY <1>2, <1>3, PlannerAssumption
<1>5. ActionOf(q).do # "fail"
  BY DEF ActionOf
<1> QED
  BY <1>3, <1>4, <1>5 DEF PlanStaysAvailable, MayBegin

\* The manager refuses a request for an active run for a cause only: the flow it
\* calls does not fit, or was uploaded again whenever the request came to it.
LEMMA RefusedForCause ==
  ASSUME SysInv, SuccessesSettled, SuccessesWhole, LatestFlowsValid, NEW q \in InFlight,
         q.do = "start" => Attempted(q), Refuses(q), IsActive(q.run)
  PROVE  HasCause(runs[q.run].root)
<1>0. SysBasics /\ TypeOK /\ ContentsKept
  BY DEF SysInv, SysBasics
<1>1. q \in Requests /\ q.run \in RunIds /\ runs[q.run].status # "none" /\ q.tries \in Nat
      /\ q.do \in {"publish", "start", "succeed", "fail", "cancel"}
  BY <1>0, StartTypes DEF SysBasics, Requests, IsActive
<1>2. q.do = "start"
  BY <1>1, PlannedMayBegin DEF Refuses
<1>3. q.at \in SubFlowAddresses /\ ContentOf(q.run) \in Contents
  BY <1>0, <1>2, StartTypes DEF SysBasics
<1>4. Callee(q) \in FlowNames /\ Callee(q) = Calls(ContentOf(q.run), q.at)
  BY <1>3, OrchestrationAssumption DEF Callee
<1>5. CASE q.latest = None
  <2>1. ~ LatestFits(q)
    BY <1>2, <1>5, PlannedMayBegin DEF Refuses
  <2>2. StoredVersions(Callee(q)) # {}
    BY <1>2, CalleeStored
  <2>3. LatestOf(Callee(q)) \in StoredVersions(Callee(q))
    BY <1>0, <1>4, <2>2, LatestKnown DEF IsLatest
  <2>4. ~ Fits(ContentOf(q.run), q.at, flows[Callee(q)][LatestOf(Callee(q))])
    BY <2>1, <2>2 DEF LatestFits
  <2>5. IsCause(q.run)
    BY <1>3, <1>4, <2>3, <2>4 DEF IsCause
  <2> QED
    BY <1>1, <2>5 DEF HasCause
<1>6. CASE q.latest # None
  <2>1. IsStale(q) /\ q.tries = StartAttempts
    BY <1>2, <1>6 DEF Refuses
  <2>2. Cardinality(StoredVersions(Callee(q))) >= q.tries + 1
    BY <1>0, <1>1, <1>2, <1>4, <1>6, <2>1, StaleCounted
  <2>3. Cardinality(StoredVersions(Callee(q))) > StartAttempts
    BY <1>1, <1>4, <2>1, <2>2, StoredAreFinite
  <2>4. IsCause(q.run)
    BY <1>3, <1>4, <2>3 DEF IsCause
  <2> QED
    BY <1>1, <2>4 DEF HasCause
<1> QED
  BY <1>5, <1>6

-----------------------------------------------------------------------------
(* What a step of the system does to the requests in flight.                 *)

\* Where a request in flight after a step comes from.
Goes(q) == q \in InFlight
GoesOn(q) == UNCHANGED storeVars /\ \E s \in InFlight : q \in NextSteps(s)
IsPlanned(q) ==
  /\ UNCHANGED storeVars
  /\ \E r \in RunIds : /\ IsActive(r) /\ q.run = r
                       /\ ActionOf(q) \in Planned(ContentOf(r), RunStateOf(r))
                       /\ q.latest = None /\ q.tries = 1
FailsRefused(q) ==
  /\ UNCHANGED storeVars /\ sched.pc = "rejected"
  /\ q = Request("fail", Head(sched.plan).run, None) /\ IsActive(Head(sched.plan).run)
Cancels(q) == q.do = "cancel"
ComesFrom(q) == Goes(q) \/ GoesOn(q) \/ IsPlanned(q) \/ FailsRefused(q) \/ Cancels(q)

LEMMA SameRequestsGo ==
  ASSUME InFlight' \subseteq InFlight
  PROVE  \A q \in InFlight' : ComesFrom(q)
BY DEF ComesFrom, Goes

LEMMA ApplyRequests ==
  ASSUME SysBasics, Apply
  PROVE  /\ \A q \in InFlight' : ComesFrom(q)
         /\ sched'.pc = "rejected" =>
              /\ UNCHANGED storeVars /\ sched'.plan = sched.plan
              /\ Head(sched.plan) \in InFlight /\ Refuses(Head(sched.plan))
<1> DEFINE q == Head(sched.plan)
<1>1. /\ sched \in Scheduler /\ sched.plan \in Seq(Requests) /\ sched.plan # <<>>
      /\ sched.pc = "work" /\ late' = late
  BY DEF SysBasics, SysTypeOK, Scheduler, Apply
<1>2. /\ q \in PlannedRequests /\ q \in InFlight
      /\ \A i \in DOMAIN Tail(sched.plan) : Tail(sched.plan)[i] \in PlannedRequests
  BY <1>1 DEF PlannedRequests, InFlight
<1>3. ASSUME NEW s \in NextSteps(q), sched' = [sched EXCEPT !.plan = <<s>> \o Tail(sched.plan)],
             UNCHANGED storeVars
      PROVE  sched'.pc = "work" /\ \A x \in InFlight' : ComesFrom(x)
  <2>1. s \in Requests
    BY <1>2, NextStepsKeep DEF SysBasics
  <2> DEFINE plan == <<s>> \o Tail(sched.plan)
  <2>2. \A i \in DOMAIN plan : plan[i] = s \/ plan[i] \in PlannedRequests
    BY <1>1, <1>2, <2>1
  <2> HIDE DEF plan
  <2>3. sched'.plan = plan /\ sched'.pc = "work"
    BY <1>1, <1>3 DEF Scheduler, plan
  <2>4. \A x \in InFlight' : x = s \/ x \in InFlight
    BY <1>1, <2>2, <2>3 DEF InFlight, PlannedRequests
  <2> QED
    BY <1>2, <1>3, <2>3, <2>4 DEF ComesFrom, Goes, GoesOn
<1>4. ASSUME sched' = [sched EXCEPT !.plan = Tail(sched.plan)]
      PROVE  sched'.pc = "work" /\ \A x \in InFlight' : ComesFrom(x)
  <2>1. sched'.plan = Tail(sched.plan) /\ sched'.pc = "work"
    BY <1>1, <1>4 DEF Scheduler
  <2>2. InFlight' \subseteq InFlight
    BY <1>1, <1>2, <2>1 DEF InFlight, PlannedRequests
  <2> QED
    BY <2>1, <2>2, SameRequestsGo
<1>5. ASSUME sched' = [sched EXCEPT !.pc = "rejected"]
      PROVE  sched'.plan = sched.plan /\ \A x \in InFlight' : ComesFrom(x)
  <2>1. sched'.plan = sched.plan
    BY <1>1, <1>5 DEF Scheduler
  <2>2. InFlight' \subseteq InFlight
    BY <1>1, <2>1 DEF InFlight, PlannedRequests
  <2> QED
    BY <2>1, <2>2, SameRequestsGo
<1> QED
  BY <1>2, <1>3, <1>4, <1>5 DEF Apply

LEMMA RejectedRequests ==
  ASSUME SysBasics, Rejected
  PROVE  sched'.pc = "work" /\ \A q \in InFlight' : ComesFrom(q)
<1> DEFINE r == Head(sched.plan).run
           plan == IF IsActive(r) THEN <<Request("fail", r, None)>> ELSE <<>>
<1>1. /\ sched \in Scheduler /\ sched.pc = "rejected" /\ late' = late /\ UNCHANGED storeVars
      /\ sched' = [sched EXCEPT !.pc = "work", !.plan = plan]
  BY DEF SysBasics, SysTypeOK, Rejected
<1>2. \A i \in DOMAIN plan : plan[i] = Request("fail", r, None) /\ IsActive(r)
  OBVIOUS
<1> HIDE DEF plan
<1>3. sched'.pc = "work" /\ sched'.plan = plan
  BY <1>1 DEF Scheduler
<1>4. \A q \in InFlight' : q \in InFlight \/ (q = Request("fail", r, None) /\ IsActive(r))
  BY <1>1, <1>2, <1>3 DEF InFlight, PlannedRequests
<1> QED
  BY <1>1, <1>3, <1>4 DEF ComesFrom, Goes, FailsRefused

LEMMA AdvanceRequests ==
  ASSUME SysBasics, Advance
  PROVE  sched'.pc = "work" /\ \A q \in InFlight' : ComesFrom(q)
<1> DEFINE r == Head(sched.todo)
<1>1. /\ UNCHANGED storeVars /\ sched'.pc = "work" /\ late' = late /\ r \in RunIds
      /\ DOMAIN sched'.plan = DOMAIN PlanFor(r)
      /\ \A i \in DOMAIN PlanFor(r) :
           sched'.plan[i] = Request(PlanFor(r)[i].do, r, PlanFor(r)[i].at)
  BY AdvanceTypes
<1> SUFFICES ASSUME NEW q \in InFlight' PROVE ComesFrom(q)
  BY <1>1
<1>2. CASE q \in InFlight
  BY <1>2 DEF ComesFrom, Goes
<1>3. CASE q \notin InFlight
  <2>1. PICK i \in DOMAIN PlanFor(r) : q = Request(PlanFor(r)[i].do, r, PlanFor(r)[i].at)
    BY <1>1, <1>3 DEF InFlight, PlannedRequests
  <2>2. /\ r \in RunIds /\ IsActive(r) /\ q.run = r
        /\ ActionOf(q) \in Planned(ContentOf(r), RunStateOf(r))
    BY <1>3, AdvanceInFlight
  <2>3. q.latest = None /\ q.tries = 1
    BY <2>1 DEF Request
  <2> QED
    BY <1>1, <2>2, <2>3 DEF ComesFrom, IsPlanned
<1> QED
  BY <1>2, <1>3

LEMMA LateRequests ==
  ASSUME SysBasics, NEW q \in late, LateCall(q)
  PROVE  UNCHANGED sched /\ \A x \in InFlight' : ComesFrom(x)
<1>1. sched' = sched /\ q \in InFlight /\ PlannedRequests' = PlannedRequests
  BY DEF LateCall, InFlight, PlannedRequests
<1>2. CASE \E s \in NextSteps(q) : late' = (late \ {q}) \cup {s} /\ UNCHANGED storeVars
  <2>1. PICK s \in NextSteps(q) : late' = (late \ {q}) \cup {s} /\ UNCHANGED storeVars
    BY <1>2
  <2>2. \A x \in InFlight' : x = s \/ x \in InFlight
    BY <1>1, <2>1 DEF InFlight
  <2> QED
    BY <1>1, <2>1, <2>2 DEF ComesFrom, Goes, GoesOn
<1>3. CASE late' = late \ {q}
  <2>1. InFlight' \subseteq InFlight
    BY <1>1, <1>3 DEF InFlight
  <2> QED
    BY <1>1, <2>1, SameRequestsGo
<1> QED
  BY <1>2, <1>3 DEF LateCall

\* Where the requests in flight come from, and a refusal.
LEMMA RequestsNext ==
  ASSUME SysBasics, [SysNext]_sysVars
  PROVE  /\ \A q \in InFlight' : ComesFrom(q)
         /\ sched'.pc = "rejected" =>
              /\ sched'.plan = sched.plan
              /\ \/ sched.pc = "rejected"
                 \/ /\ UNCHANGED storeVars
                    /\ Head(sched.plan) \in InFlight /\ Refuses(Head(sched.plan))
<1>1. CASE Apply
  BY <1>1, ApplyRequests
<1>2. CASE Rejected
  BY <1>2, RejectedRequests
<1>3. CASE Advance
  BY <1>3, AdvanceRequests
<1>4. CASE Poll \/ PageDone
  <2>1. sched'.plan = <<>> /\ late' = late /\ sched'.pc # "rejected"
    BY <1>4, PollTypes, PageDoneTypes
  <2>2. InFlight' \subseteq InFlight
    BY <2>1 DEF InFlight, PlannedRequests
  <2> QED
    BY <2>1, <2>2, SameRequestsGo
<1>5. CASE \E after \in {0, sched.after} : LoseScheduler(after)
  <2>1. PICK after \in {0, sched.after} : LoseScheduler(after)
    BY <1>5
  <2>2. sched' = [Stopped EXCEPT !.after = after] /\ late' \subseteq late \cup PlannedRequests
    BY <2>1, LossTypes
  <2>3. sched'.plan = <<>> /\ sched'.pc = "poll"
    BY <2>2 DEF Stopped
  <2>4. InFlight' \subseteq InFlight
    BY <2>2, <2>3 DEF InFlight, PlannedRequests
  <2> QED
    BY <2>3, <2>4, SameRequestsGo
<1>6. CASE \E q \in late : LateCall(q)
  BY <1>6, LateRequests
<1>7. CASE UNCHANGED <<sched, late>>
  <2>1. InFlight' \subseteq InFlight /\ sched' = sched
    BY <1>7 DEF InFlight, PlannedRequests
  <2> QED
    BY <2>1, SameRequestsGo
<1>8. CASE UserCancels
  <2>1. PICK r \in RunIds : late' = late \cup {Request("cancel", r, None)} /\ sched' = sched
    BY <1>8 DEF UserCancels
  <2>2. \A q \in InFlight' : q \in InFlight \/ q.do = "cancel"
    BY <2>1 DEF InFlight, PlannedRequests, Request
  <2> QED
    BY <2>1, <2>2 DEF ComesFrom, Goes, Cancels
<1>9. CASE \E w \in Workers : WorkerStep(w) \/ Heartbeat(w) \/ LoseWorker(w)
  <2>1. UNCHANGED <<sched, late>>
    BY <1>9, WorkersWork DEF WorkerStep
  <2> QED
    BY <1>7, <2>1
<1>10. CASE (\E t \in TaskIds : Lapse(t)) \/ UserStarts \/ UserDeploys
  BY <1>7, <1>10, OthersWork
<1> QED
  BY <1>1, <1>2, <1>3, <1>4, <1>5, <1>6, <1>7, <1>8, <1>9, <1>10
  DEF SysNext, SchedulerStep, sysVars, ownVars

-----------------------------------------------------------------------------
(* Who fails a run.                                                          *)

NobodyFails == \A r \in RunIds : runs'[r].status = "failed" => runs[r].status = "failed"

LEMMA CarryFails ==
  ASSUME SysBasics, NEW q \in InFlight, Carry(q), NEW r \in RunIds,
         runs[r].status # "failed", runs'[r].status = "failed"
  PROVE  q.do = "fail" /\ runs[r].root = runs[q.run].root
<1>0. TypeOK /\ runs \in [RunIds -> Run]
  BY DEF SysBasics, TypeOK
<1>1. q \in Requests /\ q.run \in RunIds
      /\ q.do \in {"publish", "start", "succeed", "fail", "cancel"}
  BY StartTypes DEF SysBasics, Requests
<1>2. CASE q.do = "publish"
  BY <1>2 DEF Carry, PublishTask
<1>3. CASE q.do = "start"
  <2>1. StartSubRun(q.run, q.at, Callee(q), q.latest)
    BY <1>3 DEF Carry
  <2> QED
    BY <1>0, <2>1 DEF StartSubRun, AddRun, storeVars
<1>4. CASE q.do = "succeed"
  <2>1. SucceedRun(q.run, Output(ContentOf(q.run), RunStateOf(q.run)))
    BY <1>4 DEF Carry
  <2> QED
    BY <1>0, <1>1, <2>1 DEF SucceedRun
<1>5. CASE q.do = "cancel"
  <2>1. FinishRuns(ActiveInTrees({runs[q.run].root}), "cancelled")
    BY <1>5 DEF Carry, CancelRunTree, FinishTree
  <2>2. runs[r] \in Run
    BY <1>0
  <2> QED
    BY <2>1, <2>2 DEF FinishRuns, Run
<1>6. CASE q.do = "fail"
  <2>1. FinishRuns(ActiveInTrees({runs[q.run].root}), "failed")
    BY <1>6 DEF Carry, FailRunTree, FinishTree
  <2>2. r \in ActiveInTrees({runs[q.run].root})
    BY <2>1 DEF FinishRuns
  <2> QED
    BY <1>6, <2>2 DEF ActiveInTrees
<1> QED
  BY <1>1, <1>2, <1>3, <1>4, <1>5, <1>6

LEMMA OthersFailNobody ==
  ASSUME TypeOK, \/ UNCHANGED runs
                 \/ \E r \in RootIds, f \in FlowNames, v \in Versions : StartRun(r, f, v)
                 \/ \E U \in Deploys : StoreFlows(U)
  PROVE  NobodyFails
<1>0. runs \in [RunIds -> Run]
  BY DEF TypeOK
<1>1. CASE UNCHANGED runs
  BY <1>1 DEF NobodyFails
<1>2. CASE \E r \in RootIds, f \in FlowNames, v \in Versions : StartRun(r, f, v)
  BY <1>0, <1>2 DEF StartRun, AddRun, NobodyFails
<1>3. CASE \E U \in Deploys : StoreFlows(U)
  <2>1. PICK roots : FinishRuns(ActiveInTrees(roots), "cancelled")
    BY <1>3 DEF StoreFlows
  <2>2. \A r \in RunIds : runs'[r] = IF r \in ActiveInTrees(roots)
                                     THEN [runs[r] EXCEPT !.status = "cancelled"] ELSE runs[r]
    BY <2>1 DEF FinishRuns
  <2>3. \A r \in RunIds : [runs[r] EXCEPT !.status = "cancelled"].status = "cancelled"
    BY <1>0 DEF Run
  <2> QED
    BY <2>2, <2>3 DEF NobodyFails
<1> QED
  BY <1>1, <1>2, <1>3

\* A run fails by a request for a run of its tree only.
LEMMA FailedBy ==
  ASSUME SysBasics, [SysNext]_sysVars
  PROVE  NobodyFails \/ \E q \in InFlight : Carry(q)
<1>0. TypeOK
  BY DEF SysBasics
<1>1. CASE Apply
  <2>1. /\ sched.plan \in Seq(Requests) /\ sched.plan # <<>>
    BY <1>1 DEF SysBasics, SysTypeOK, Scheduler, Apply
  <2>2. Head(sched.plan) \in InFlight
    BY <2>1 DEF InFlight, PlannedRequests
  <2>3. Carry(Head(sched.plan)) \/ UNCHANGED storeVars
    BY <1>1 DEF Apply
  <2> QED
    BY <1>0, <2>2, <2>3, OthersFailNobody DEF storeVars
<1>2. CASE \E q \in late : LateCall(q)
  <2>1. PICK q \in late : Carry(q) \/ UNCHANGED storeVars
    BY <1>2 DEF LateCall
  <2> QED
    BY <1>0, <2>1, OthersFailNobody DEF InFlight, storeVars
<1>3. CASE \E w \in Workers : WorkerStep(w) \/ Heartbeat(w) \/ LoseWorker(w)
  <2>1. UNCHANGED runs
    BY <1>3 DEF WorkerStep, Receive, Claim, Report, Heartbeat, LoseWorker, ReceiveTask, HandOut,
                ClaimTask, DropTask, ExtendTaskLease, FinishTask, storeVars
  <2> QED
    BY <1>0, <2>1, OthersFailNobody
<1>4. CASE (\E t \in TaskIds : Lapse(t)) \/ UserStarts \/ UserDeploys
  <2>1. CASE \E t \in TaskIds : Lapse(t)
    BY <1>0, <2>1, OthersFailNobody DEF Lapse, LeaseLapses
  <2>2. CASE UserStarts
    BY <1>0, <2>2, OthersFailNobody, StoreAssumption DEF UserStarts
  <2>3. CASE UserDeploys
    BY <1>0, <2>3, OthersFailNobody, OrchestrationAssumption DEF UserDeploys
  <2> QED
    BY <1>4, <2>1, <2>2, <2>3
<1>5. CASE UNCHANGED storeVars
  BY <1>0, <1>5, OthersFailNobody DEF storeVars
<1>6. CASE Poll \/ Advance \/ PageDone \/ Rejected \/ UserCancels
           \/ \E after \in {0, sched.after} : LoseScheduler(after)
  BY <1>5, <1>6 DEF Poll, Advance, PageDone, Rejected, UserCancels, LoseScheduler
<1> QED
  BY <1>1, <1>2, <1>3, <1>4, <1>5, <1>6 DEF SysNext, SchedulerStep, sysVars

-----------------------------------------------------------------------------
(* The invariant.                                                            *)

\* A request to fail a run has its cause when it is made, and so has a refusal.
FailuresCaused ==
  \A q \in InFlight : q.do = "fail" =>
    runs[q.run].status # "none" /\ HasCause(runs[q.run].root)
RefusalsCaused ==
  sched.pc = "rejected" =>
    LET r == Head(sched.plan).run
    IN  runs[r].status # "none" /\ (IsActive(r) => HasCause(runs[r].root))

CauseInv ==
  /\ TreesInv /\ LatestFlowsValid
  /\ SuccessesWhole /\ AttemptsCounted
  /\ FailuresCaused /\ RefusalsCaused /\ FailedForCause

LEMMA SuccessesWholeNext ==
  ASSUME CauseInv, [SysNext]_sysVars
  PROVE  SuccessesWhole'
<1>0. SysInv /\ SysBasics
  BY DEF CauseInv, TreesInv, SysInv
<1> SUFFICES ASSUME NEW q \in InFlight', q.do = "succeed" PROVE ActionOf(q) = Succeed
  BY DEF SuccessesWhole, ActionOf, Succeed
<1>1. ComesFrom(q)
  BY <1>0, RequestsNext
<1>2. CASE Goes(q)
  BY <1>2 DEF Goes, CauseInv, SuccessesWhole
<1>3. CASE GoesOn(q)
  <2>1. PICK s \in InFlight : q \in NextSteps(s)
    BY <1>3 DEF GoesOn
  <2>2. SameRequest(s, q)
    BY <1>0, <2>1, NextStepsKeep DEF SysBasics
  <2> QED
    BY <2>2 DEF SameRequest, ActionOf, CauseInv, SuccessesWhole
<1>4. CASE IsPlanned(q)
  <2>1. PICK r \in RunIds : IsActive(r) /\ ActionOf(q) \in Planned(ContentOf(r), RunStateOf(r))
    BY <1>4 DEF IsPlanned
  <2>2. ContentOf(r) \in Contents /\ RunStateOf(r) \in RunStates(ContentOf(r))
    BY <1>0, <2>1, PlanTyped
  <2> QED
    BY <2>1, <2>2, PlannedTypes DEF ActionOf
<1> QED
  BY <1>1, <1>2, <1>3, <1>4 DEF ComesFrom, FailsRefused, Cancels, Request

LEMMA AttemptsCountedNext ==
  ASSUME CauseInv, TypeOK', [SysNext]_sysVars
  PROVE  AttemptsCounted'
<1>0. SysInv /\ SysBasics /\ [Next]_storeVars
  BY SystemSteps, StoreStepIsNext DEF CauseInv, TreesInv, SysInv
<1> SUFFICES ASSUME NEW q \in InFlight', q.do = "start" PROVE Attempted(q)'
  BY DEF AttemptsCounted
<1>1. ComesFrom(q)
  BY <1>0, RequestsNext
<1>2. CASE Goes(q)
  BY <1>0, <1>2, AttemptStays DEF Goes, CauseInv, AttemptsCounted
<1>3. CASE GoesOn(q)
  <2>1. PICK s \in InFlight : q \in NextSteps(s)
    BY <1>3 DEF GoesOn
  <2>2. s.do = "start"
    BY <2>1 DEF NextSteps
  <2>3. Attempted(q)
    BY <1>0, <2>1, <2>2, AttemptGoesOn DEF CauseInv, AttemptsCounted
  <2> QED
    BY <1>3, <2>3 DEF GoesOn, Attempted, Callee, ContentOf, StoredVersions, storeVars
<1>4. CASE q.latest = None /\ q.tries = 1
  BY <1>4 DEF Attempted
<1> QED
  BY <1>1, <1>2, <1>3, <1>4 DEF ComesFrom, IsPlanned, FailsRefused, Cancels, Request

LEMMA FailuresCausedNext ==
  ASSUME CauseInv, TypeOK', [SysNext]_sysVars
  PROVE  FailuresCaused'
<1>0. /\ SysInv /\ SysBasics /\ [Next]_storeVars /\ TypeOK
      /\ \A x \in RunIds : RunStep(x)
  BY SystemSteps, StoreStepIsNext, RunStepNext DEF CauseInv, TreesInv, SysInv, SysBasics
<1> SUFFICES ASSUME NEW q \in InFlight', q.do = "fail"
             PROVE  runs'[q.run].status # "none" /\ HasCause(runs[q.run].root)'
  BY DEF FailuresCaused
<1>1. ComesFrom(q)
  BY <1>0, RequestsNext
<1>2. q.run \in RunIds /\ runs[q.run].status # "none" /\ HasCause(runs[q.run].root)
  <2>1. CASE Goes(q)
    BY <1>0, <2>1, StartTypes DEF Goes, CauseInv, FailuresCaused, SysBasics, Requests
  <2>2. CASE GoesOn(q)
    <3>1. PICK s \in InFlight : q \in NextSteps(s)
      BY <2>2 DEF GoesOn
    <3>2. SameRequest(s, q) /\ s \in InFlight
      BY <1>0, <3>1, NextStepsKeep DEF SysBasics
    <3> QED
      BY <1>0, <3>2, StartTypes DEF SameRequest, CauseInv, FailuresCaused, SysBasics, Requests
  <2>3. CASE IsPlanned(q)
    <3>1. PICK r \in RunIds : /\ IsActive(r) /\ q.run = r
                              /\ ActionOf(q) \in Planned(ContentOf(r), RunStateOf(r))
      BY <2>3 DEF IsPlanned
    <3>2. Planned(ContentOf(r), RunStateOf(r)) \subseteq Action
      BY <1>0, <3>1, PlanTyped, PlannedTypes
    <3>3. ActionOf(q) = Fail
      <4>1. ActionOf(q).do = "fail" /\ ActionOf(q) \in Action
        BY <3>1, <3>2 DEF ActionOf
      <4>2. ActionOf(q).at = None
        BY <4>1 DEF Action
      <4> QED
        BY <4>1, <4>2 DEF ActionOf, Fail
    <3> QED
      BY <1>0, <3>1, <3>3, PlanFails DEF CauseInv, IsActive
  <2>4. CASE FailsRefused(q)
    <3>1. Head(sched.plan) \in Requests
      BY <1>0, <2>4 DEF SysBasics, SysTypeOK, Scheduler, FailsRefused
    <3>2. q.run = Head(sched.plan).run
      BY <2>4 DEF FailsRefused, Request
    <3> QED
      BY <2>4, <3>1, <3>2 DEF FailsRefused, CauseInv, RefusalsCaused, Requests, IsActive
  <2> QED
    BY <1>1, <2>1, <2>2, <2>3, <2>4 DEF ComesFrom, Cancels
<1>3. runs'[q.run].status # "none" /\ runs'[q.run].root = runs[q.run].root
  BY <1>0, <1>2 DEF RunStep, RunEnded
<1>4. PICK root : root = runs[q.run].root
  OBVIOUS
<1>5. HasCause(root)'
  BY <1>0, <1>2, <1>4, CauseStays
<1> QED
  BY <1>3, <1>4, <1>5 DEF HasCause, IsCause

LEMMA RefusalsCausedNext ==
  ASSUME CauseInv, TypeOK', [SysNext]_sysVars
  PROVE  RefusalsCaused'
<1>0. /\ SysInv /\ SysBasics /\ [Next]_storeVars /\ TypeOK /\ SysTypeOK'
      /\ \A x \in RunIds : RunStep(x)
  BY SystemSteps, StoreStepIsNext, RunStepNext DEF CauseInv, TreesInv, SysInv, SysBasics
<1> SUFFICES ASSUME sched'.pc = "rejected" PROVE RefusalsCaused'
  BY DEF RefusalsCaused
<1> PICK r : r = Head(sched.plan).run
  OBVIOUS
<1>1. /\ sched'.plan = sched.plan
      /\ \/ sched.pc = "rejected"
         \/ UNCHANGED storeVars /\ Head(sched.plan) \in InFlight /\ Refuses(Head(sched.plan))
  BY <1>0, RequestsNext
<1>2. Head(sched.plan) \in InFlight /\ Head(sched.plan) \in Requests /\ r \in RunIds
  <2>1. sched.plan # <<>> /\ sched.plan \in Seq(Requests)
    BY <1>0, <1>1 DEF SysBasics, SysTypeOK, Scheduler
  <2>2. Head(sched.plan) \in PlannedRequests /\ Head(sched.plan) \in Requests
    BY <2>1 DEF PlannedRequests
  <2> QED
    BY <2>2 DEF InFlight, Requests
<1>3. runs[r].status # "none" /\ (IsActive(r) => HasCause(runs[r].root))
  <2>1. CASE sched.pc = "rejected"
    BY <2>1 DEF CauseInv, RefusalsCaused
  <2>2. CASE Refuses(Head(sched.plan))
    <3>1. Head(sched.plan).do \in {"publish", "start", "succeed"}
      BY <1>2, <2>2 DEF Refuses, Requests
    <3>2. runs[r].status # "none"
      BY <1>0, <1>2, <3>1, StartTypes DEF CauseInv, TreesInv, SuccessesSettled, SysBasics
    <3> QED
      BY <1>0, <1>2, <2>2, <3>2, RefusedForCause DEF CauseInv, TreesInv, AttemptsCounted
  <2> QED
    BY <1>1, <2>1, <2>2
<1>4. runs'[r].status # "none"
  BY <1>0, <1>2, <1>3 DEF RunStep, RunEnded
<1>5. ASSUME IsActive(r)' PROVE HasCause(runs[r].root)'
  <2>1. runs'[r] = runs[r] /\ IsActive(r)
    <3>1. RunStep(r) /\ r \in RunIds
      BY <1>0, <1>2
    <3>2. runs'[r] = runs[r]
      BY <1>3, <1>5, <3>1, ActiveStays
    <3> QED
      BY <1>5, <3>2 DEF IsActive
  <2>2. PICK root : root = runs[r].root
    OBVIOUS
  <2>3. HasCause(root)'
    BY <1>0, <1>3, <2>1, <2>2, CauseStays
  <2> QED
    BY <1>1, <2>1, <2>2, <2>3 DEF HasCause, IsCause
<1> QED
  <2>1. Head(sched'.plan).run = r
    BY <1>1
  <2>2. runs'[r].status = "active" => HasCause(runs[r].root)'
    BY <1>5 DEF IsActive
  <2> QED
    BY <1>4, <2>1, <2>2 DEF RefusalsCaused, IsActive, HasCause, IsCause

LEMMA FailedForCauseNext ==
  ASSUME CauseInv, TypeOK', [SysNext]_sysVars
  PROVE  FailedForCause'
<1>0. /\ SysInv /\ SysBasics /\ [Next]_storeVars /\ TypeOK
      /\ \A x \in RunIds : RunStep(x)
  BY SystemSteps, StoreStepIsNext, RunStepNext DEF CauseInv, TreesInv, SysInv, SysBasics
<1> SUFFICES ASSUME NEW r \in RunIds, runs'[r].status = "failed"
             PROVE  HasCause(runs[r].root)'
  BY DEF FailedForCause, HasCause
<1>1. HasCause(runs[r].root)
  <2>1. CASE runs[r].status = "failed"
    BY <2>1 DEF CauseInv, FailedForCause, HasCause
  <2>2. CASE runs[r].status # "failed"
    <3>1. PICK q \in InFlight : Carry(q)
      BY <1>0, <2>2, FailedBy DEF NobodyFails
    <3> QED
      BY <1>0, <2>2, <3>1, CarryFails DEF CauseInv, FailuresCaused
  <2> QED
    BY <2>1, <2>2
<1>2. runs'[r].root = runs[r].root
  BY <1>0 DEF RunStep
<1>3. PICK root : root = runs[r].root
  OBVIOUS
<1>4. HasCause(root)'
  BY <1>0, <1>1, <1>3, CauseStays
<1> QED
  BY <1>2, <1>3, <1>4 DEF HasCause, IsCause

LEMMA CauseInvInit == SysInit => CauseInv
<1> SUFFICES ASSUME SysInit PROVE CauseInv
  OBVIOUS
<1>1. TreesInv /\ InFlight = {} /\ sched.pc = "poll"
  BY TreesInvInit DEF SysInit, InFlight, PlannedRequests, Stopped
<1>2. LatestFlowsValid
  BY DEF SysInit, Init, LatestFlowsValid, StoredVersions
<1>3. FailedForCause
  BY DEF SysInit, Init, FailedForCause, NoRun
<1> QED
  BY <1>1, <1>2, <1>3
  DEF CauseInv, SuccessesWhole, AttemptsCounted, FailuresCaused, RefusalsCaused

LEMMA CauseInvNext == CauseInv /\ [SysNext]_sysVars => CauseInv'
<1> SUFFICES ASSUME CauseInv, [SysNext]_sysVars PROVE CauseInv'
  OBVIOUS
<1>1. TreesInv' /\ TypeOK'
  BY TreesInvNext DEF CauseInv, TreesInv, SysInv, TreeInv
<1>2. LatestFlowsValid'
  <2>1. [Next]_storeVars /\ FlowsInv
    BY SystemSteps, StoreStepIsNext DEF CauseInv, TreesInv, SysInv, TreeInv, FlowsInv
  <2> QED
    BY <2>1, FlowsInvNext DEF FlowsInv
<1>3. SuccessesWhole' /\ AttemptsCounted'
  BY <1>1, SuccessesWholeNext, AttemptsCountedNext
<1>4. FailuresCaused' /\ RefusalsCaused' /\ FailedForCause'
  BY <1>1, FailuresCausedNext, RefusalsCausedNext, FailedForCauseNext
<1> QED
  BY <1>1, <1>2, <1>3, <1>4 DEF CauseInv

\* No crash, lost call, replayed page or late request fails a run that is well:
\* a plan stays good until it is carried out, however late, and a refusal that
\* does not come from the run's end comes from what was uploaded.
THEOREM FailuresHaveCauses == SysSpec => []FailedForCause
<1>1. CauseInv => FailedForCause
  BY DEF CauseInv
<1> QED
  BY <1>1, CauseInvInit, CauseInvNext, PTL DEF SysSpec
=============================================================================
