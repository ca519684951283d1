--------------------------- MODULE Orchestration ---------------------------
(***************************************************************************)
(* A deployment at work: the scheduler moves runs forward through the      *)
(* manager, workers take the tasks, users start and cancel runs and upload *)
(* flows, all on one Store.  The scheduler and the workers keep nothing    *)
(* but where they are: the scheduler how far it has read the event log,    *)
(* a worker the task in its hands.                                         *)
(*                                                                         *)
(* A call to the manager is a request: the store operations behind it are  *)
(* steps of their own, and others come in between.  A caller that crashes  *)
(* or stops waiting leaves its request behind in late, where it may be     *)
(* served at any time or never.  Such losses, a worker gone and a lease    *)
(* that lapses while a worker holds the task are mishaps, MaxMishaps of    *)
(* them; with none left the deployment must get everything done.           *)
(*                                                                         *)
(* Definitions marked as slips are there for the runs, as in Store.        *)
(***************************************************************************)
EXTENDS Store

CONSTANTS
  NextActions(_, _),  \* planner.plan: actions [do, at] for a content and a state
  RunStates(_),       \* the states a run of a content may come to
  IsAvailable(_, _, _), \* whether what an action's inputs or output name is there
  Output(_, _),       \* the value of a run's output, or None
  Calls(_, _),        \* the flow that a content's sub-flow step calls
  QueueOf(_, _),      \* the queue of a content's task step
  Fits(_, _, _),      \* check_inputs: a sub-flow step's inputs and a content called
  Releases,           \* the deploys the users may make
  Workers,
  Page,               \* how many events one poll brings: 100 in wait_for_events
  StartAttempts,      \* _START_ATTEMPTS: 3
  MaxMishaps          \* bound

ASSUME OrchestrationAssumption ==
  /\ Page \in Nat \ {0}
  /\ StartAttempts \in Nat \ {0}
  /\ MaxMishaps \in Nat
  /\ Releases \subseteq Deploys
  /\ TaskAddresses \cap SubFlowAddresses = {}
  /\ \A c \in Contents :
       /\ \A a \in SubFlowAddresses : Calls(c, a) \in FlowNames
       /\ \A a \in TaskAddresses : QueueOf(c, a) \in Queues

-----------------------------------------------------------------------------
(* What the planner is relied on for.  A state of a run maps the addresses   *)
(* started so far to what became of them.                                    *)

StepState == [outcome : {"running", "succeeded", "failed"}, value : Values \cup {None}]
Underway == [outcome |-> "running", value |-> None]

Action == [do : {"publish"}, at : TaskAddresses]
            \cup [do : {"start"}, at : SubFlowAddresses]
            \cup [do : {"succeed", "fail"}, at : {None}]
Succeed == [do |-> "succeed", at |-> None]
Fail == [do |-> "fail", at |-> None]

StateOf(steps) == [inputs |-> <<>>, steps |-> steps]

\* What becomes of a state: what is under way ends, and more is started.
Grows(st1, st2) ==
  /\ DOMAIN st1.steps \subseteq DOMAIN st2.steps
  /\ \A a \in DOMAIN st1.steps :
       st1.steps[a].outcome = "running" \/ st2.steps[a] = st1.steps[a]

WithStarted(st, at) ==
  StateOf([a \in DOMAIN st.steps \cup {at} |-> IF a = at THEN Underway ELSE st.steps[a]])

Planned(c, st) == {NextActions(c, st)[i] : i \in DOMAIN NextActions(c, st)}
StartsPlanned(c, st) == {action \in Planned(c, st) : action.do \in {"publish", "start"}}

\* A plan starts only what is not started, and is a single succeed action or has
\* none, which it is only while nothing is under way.
PlanIsSound(c, st) ==
  /\ NextActions(c, st) \in Seq(Action)
  /\ \A action \in StartsPlanned(c, st) : action.at \notin DOMAIN st.steps
  /\ Succeed \in Planned(c, st) =>
       /\ Planned(c, st) = {Succeed}
       /\ \A a \in DOMAIN st.steps : st.steps[a].outcome # "running"

\* A plan carried out late, in st2, starts nothing that a finished run lacks, and
\* leaves the run nothing to do that it had not to do before.
PlanMayBeLate(c, st1, st2) ==
  \A action \in StartsPlanned(c, st1) : action.at \notin DOMAIN st2.steps =>
    /\ Succeed \notin Planned(c, st2)
    /\ WithStarted(st2, action.at) \in RunStates(c)
    /\ Planned(c, WithStarted(st2, action.at)) \subseteq Planned(c, st2)

\* What was planned in st1 has its inputs, or the run its output, in st2 as well.
PlanStaysAvailable(c, st1, st2) ==
  \A action \in Planned(c, st1) : action.do # "fail" => IsAvailable(c, st2, action)

\* RunStates holds the state that nothing is started in, and what becomes of its
\* states when steps end, or are started as planned then or earlier.
ASSUME PlannerAssumption ==
  \A c \in Contents :
    /\ StateOf([a \in {} |-> Underway]) \in RunStates(c)
    /\ \A st \in RunStates(c) :
         /\ PlanIsSound(c, st)
         /\ Output(c, st) \in Values \cup {None}
         /\ \A steps \in [DOMAIN st.steps -> StepState] :
              Grows(st, StateOf(steps)) => StateOf(steps) \in RunStates(c)
    /\ \A st1, st2 \in RunStates(c) : Grows(st1, st2) =>
         PlanMayBeLate(c, st1, st2) /\ PlanStaysAvailable(c, st1, st2)

\* flows.validate_flow_set: a valid set has every flow that its flows may call.
ASSUME FlowSetAssumption ==
  \A latest \in [FlowNames -> Contents \cup {None}] : ValidFlowSet(latest) =>
    \A f \in FlowNames : latest[f] # None =>
      \A st \in RunStates(latest[f]) : \A action \in Planned(latest[f], st) :
        action.do = "start" => latest[Calls(latest[f], action.at)] # None

VARIABLES
  sched,    \* [pc, after, upto, todo, plan]
  worker,   \* by worker: [pc, task]
  late,     \* requests in flight with nobody waiting for the reply
  mishaps

ownVars == <<sched, worker, late, mishaps>>
sysVars == <<storeVars, ownVars>>

Idle == [pc |-> "idle", task |-> None]
Stopped == [pc |-> "poll", after |-> 0, upto |-> 0, todo |-> <<>>, plan |-> <<>>]

SysInit ==
  /\ Init
  /\ sched = Stopped
  /\ worker = [w \in Workers |-> Idle]
  /\ late = {}
  /\ mishaps = 0

-----------------------------------------------------------------------------
(* What the scheduler sees of a run: get_run, get_flow and run_state.       *)

ContentOf(r) == flows[runs[r].flow][runs[r].version]
SubRun(r, a) == SubRunIdFor(r, a)

OutcomeOf(status) ==
  CASE status \in {"pending", "received", "running", "active"} -> "running"
    [] status = "succeeded" -> "succeeded"
    [] status \in {"failed", "cancelled"} -> "failed"

RunStateOf(r) ==
  LET published_ == {a \in TaskAddresses : tasks[<<r, a>>].status # "none"}
      started == {a \in SubFlowAddresses :
                    SubRun(r, a) \in RunIds /\ runs[SubRun(r, a)].status # "none"}
  IN  StateOf([a \in published_ \cup started |->
          IF a \in published_
          THEN [outcome |-> OutcomeOf(tasks[<<r, a>>].status),
                value |-> tasks[<<r, a>>].result]
          ELSE [outcome |-> OutcomeOf(runs[SubRun(r, a)].status),
                value |-> runs[SubRun(r, a)].output]])

PlanFor(r) == IF IsActive(r) THEN NextActions(ContentOf(r), RunStateOf(r)) ELSE <<>>

-----------------------------------------------------------------------------
(* Requests as the manager serves them.  Starting a sub-flow run takes      *)
(* several steps: latest is the version read so far, tries how often.       *)

Request(do, r, at) == [do |-> do, run |-> r, at |-> at, latest |-> None, tries |-> 1]

ActionOf(q) == [do |-> q.do, at |-> q.at]
Callee(q) == Calls(ContentOf(q.run), q.at)
LatestOf(f) == CHOOSE v \in Versions : IsLatest(f, v)

\* _context and ensure_active, then the inputs or the output filled in.
MayBegin(q) ==
  IsActive(q.run) /\ IsAvailable(ContentOf(q.run), RunStateOf(q.run), ActionOf(q))

\* The version read is the latest no more: FlowVersionError, before anything
\* else start_run looks at.
IsStale(q) == q.latest # None /\ ~ IsLatest(Callee(q), q.latest)

\* _start_latest: get_flow and check_inputs.
LatestFits(q) ==
  /\ StoredVersions(Callee(q)) # {}
  /\ Fits(ContentOf(q.run), q.at, flows[Callee(q)][LatestOf(Callee(q))])

\* The manager answers with an error and nothing has changed.
Refuses(q) ==
  CASE q.do \in {"publish", "succeed"} -> ~ MayBegin(q)
    [] q.do = "start" /\ q.latest = None ->
         \/ q.tries = 1 /\ ~ MayBegin(q)
         \/ ~ LatestFits(q)
    [] q.do = "start" /\ q.latest # None ->
         IF IsStale(q) THEN q.tries = StartAttempts ELSE ~ IsActive(q.run)
    [] q.do \in {"fail", "cancel"} -> FALSE

\* The request goes on to its next step.
ReadLatest(q) == [q EXCEPT !.latest = LatestOf(Callee(q))]
StartAgain(q) == [q EXCEPT !.latest = None, !.tries = @ + 1]

NextSteps(q) ==
  IF q.do # "start" \/ Refuses(q) THEN {}
  ELSE IF q.latest = None THEN {ReadLatest(q)}
  ELSE IF IsStale(q) THEN {StartAgain(q)} ELSE {}

\* The request's write, its last step.
Carry(q) ==
  /\ ~ Refuses(q)
  /\ NextSteps(q) = {}
  /\ CASE q.do = "publish" -> PublishTask(<<q.run, q.at>>, QueueOf(ContentOf(q.run), q.at))
       [] q.do = "start" -> StartSubRun(q.run, q.at, Callee(q), q.latest)
       [] q.do = "succeed" ->
            SucceedRun(q.run, Output(ContentOf(q.run), RunStateOf(q.run)))
       [] q.do = "fail" -> FailRunTree(q.run)
       [] q.do = "cancel" -> CancelRunTree(q.run)

-----------------------------------------------------------------------------
(* The scheduler.                                                           *)

\* Slip: every event is about the run it names.
ConcernsNamed(event) == event.run

\* _runs_to_advance: the run, or once it finished the parent waiting on it.
Concerns(event) ==
  IF event.kind # "run_finished" THEN event.run ELSE runs[event.run].parent

\* The runs a page of events is about, once each, in the order of the events.
RunsOf(first, last) ==
  LET concerned == {Concerns(events[i]) : i \in first .. last} \ {None}
      FirstAt(r) == CHOOSE i \in first .. last :
                      /\ Concerns(events[i]) = r
                      /\ \A j \in first .. i - 1 : Concerns(events[j]) # r
  IN  CHOOSE s \in [1 .. Cardinality(concerned) -> concerned] :
        \A i, j \in DOMAIN s : i < j => FirstAt(s[i]) < FirstAt(s[j])

\* Slip: the events are put behind before they are handled.
PollAhead ==
  LET end == Len(events)
      upto == IF sched.after + Page < end THEN sched.after + Page ELSE end
  IN  /\ sched.pc = "poll"
      /\ sched.after < end
      /\ sched' = [sched EXCEPT !.pc = "work", !.after = upto, !.upto = upto,
                                !.todo = RunsOf(sched.after + 1, upto)]
      /\ UNCHANGED <<storeVars, worker, late, mishaps>>

\* run_once: events_after brings the events, if there are any.
Poll ==
  LET end == Len(events)
      upto == IF sched.after + Page < end THEN sched.after + Page ELSE end
  IN  /\ sched.pc = "poll"
      /\ sched.after < end
      /\ sched' = [sched EXCEPT !.pc = "work", !.upto = upto,
                                !.todo = RunsOf(sched.after + 1, upto)]
      /\ UNCHANGED <<storeVars, worker, late, mishaps>>

\* advance up to the plan, for the next run of the page.  The run and its state
\* are read one after the other; a run that ends in between refuses its actions.
Advance ==
  LET r == Head(sched.todo)
      actions == PlanFor(r)
  IN  /\ sched.pc = "work" /\ sched.plan = <<>> /\ sched.todo # <<>>
      /\ sched' = [sched EXCEPT !.todo = Tail(sched.todo),
                     !.plan = [i \in DOMAIN actions |->
                                 Request(actions[i].do, r, actions[i].at)]]
      /\ UNCHANGED <<storeVars, worker, late, mishaps>>

\* The page is done: only now are its events behind the scheduler.
PageDone ==
  /\ sched.pc = "work" /\ sched.plan = <<>> /\ sched.todo = <<>>
  /\ sched' = [sched EXCEPT !.pc = "poll", !.after = sched.upto]
  /\ UNCHANGED <<storeVars, worker, late, mishaps>>

\* A step of the request the scheduler waits for.
Apply ==
  LET q == Head(sched.plan)
  IN  /\ sched.pc = "work" /\ sched.plan # <<>>
      /\ \/ \E s \in NextSteps(q) :
              /\ sched' = [sched EXCEPT !.plan = <<s>> \o Tail(sched.plan)]
              /\ UNCHANGED storeVars
         \/ /\ Carry(q)
            /\ sched' = [sched EXCEPT !.plan = Tail(sched.plan)]
         \/ /\ Refuses(q)
            /\ sched' = [sched EXCEPT !.pc = "rejected"]
            /\ UNCHANGED storeVars
      /\ UNCHANGED <<worker, late, mishaps>>

\* Slip: the run is not looked at again.
RejectedAlways ==
  LET r == Head(sched.plan).run
  IN  /\ sched.pc = "rejected"
      /\ sched' = [sched EXCEPT !.pc = "work", !.plan = <<Request("fail", r, None)>>]
      /\ UNCHANGED <<storeVars, worker, late, mishaps>>

\* _rejected: a refused request fails the run unless it ended meanwhile.
Rejected ==
  LET r == Head(sched.plan).run
  IN  /\ sched.pc = "rejected"
      /\ sched' = [sched EXCEPT !.pc = "work",
                     !.plan = IF IsActive(r) THEN <<Request("fail", r, None)>> ELSE <<>>]
      /\ UNCHANGED <<storeVars, worker, late, mishaps>>

\* The scheduler loses a call: ManagerUnavailableError, and it polls again from
\* where it was; or it crashes and a new one starts from the first event.
LoseScheduler(after) ==
  /\ mishaps < MaxMishaps
  /\ sched.pc # "poll" \/ after # sched.after
  /\ sched' = [Stopped EXCEPT !.after = after]
  /\ late' \in {late} \cup (IF sched.pc = "work" /\ sched.plan # <<>>
                            THEN {late \cup {Head(sched.plan)}} ELSE {})
  /\ mishaps' = mishaps + 1
  /\ UNCHANGED <<storeVars, worker>>

\* A step of a request nobody waits for.
LateCall(q) ==
  /\ q \in late
  /\ \/ \E s \in NextSteps(q) : late' = (late \ {q}) \cup {s} /\ UNCHANGED storeVars
     \/ Carry(q) /\ late' = late \ {q}
     \/ Refuses(q) /\ late' = late \ {q} /\ UNCHANGED storeVars
  /\ UNCHANGED <<sched, worker, mishaps>>

-----------------------------------------------------------------------------
(* Workers.                                                                 *)

Receive(w) ==
  /\ worker[w] = Idle
  /\ \E q \in Queues, i \in DOMAIN published :
       /\ ReceiveTask(q, i)
       /\ worker' = [worker EXCEPT ![w] = [pc |-> "received", task |-> published[i]]]
  /\ UNCHANGED <<sched, late, mishaps>>

\* execute: the claim.  A task of an ended run is dropped, one that somebody
\* finished meanwhile refuses the claim; both leave the worker idle.
Claim(w) ==
  LET t == worker[w].task
  IN  /\ worker[w].pc = "received"
      /\ \/ /\ ClaimTask(t)
            /\ worker' = [worker EXCEPT ![w].pc = "running"]
         \/ /\ DropTask(t)
            /\ worker' = [worker EXCEPT ![w] = Idle]
         \/ /\ ~ MayBecome(tasks[t].status, "running")
            /\ worker' = [worker EXCEPT ![w] = Idle]
            /\ UNCHANGED storeVars
      /\ UNCHANGED <<sched, late, mishaps>>

Heartbeat(w) ==
  /\ worker[w].pc = "running"
  /\ ExtendTaskLease(worker[w].task)
  /\ UNCHANGED ownVars

\* The handler is done: the report is taken, or refused since the task is over.
Report(w) ==
  LET t == worker[w].task
  IN  /\ worker[w].pc = "running"
      /\ \/ \E value \in Values : FinishTask(t, "succeeded", value)
         \/ FinishTask(t, "failed", None)
         \/ ~ MayBecome(tasks[t].status, "failed") /\ UNCHANGED storeVars
      /\ worker' = [worker EXCEPT ![w] = Idle]
      /\ UNCHANGED <<sched, late, mishaps>>

\* The worker crashes, or a call of its fails and it lets the task go.
LoseWorker(w) ==
  /\ mishaps < MaxMishaps
  /\ worker[w] # Idle
  /\ worker' = [worker EXCEPT ![w] = Idle]
  /\ mishaps' = mishaps + 1
  /\ UNCHANGED <<storeVars, sched, late>>

InHands(t) == \E w \in Workers : worker[w].task = t

\* A lease lapses once its time is over; while a worker is at the task, only
\* when its heartbeats fail or come too late.
Lapse(t) ==
  /\ LeaseLapses(t)
  /\ IF InHands(t) THEN mishaps < MaxMishaps /\ mishaps' = mishaps + 1
     ELSE UNCHANGED mishaps
  /\ UNCHANGED <<sched, worker, late>>

-----------------------------------------------------------------------------
(* Users.                                                                   *)

\* start_run; the inputs given are taken to fit, and a version uploaded between
\* its two reads only makes the manager try again.
UserStarts ==
  /\ \E r \in RootIds, f \in FlowNames, v \in Versions : StartRun(r, f, v)
  /\ UNCHANGED ownVars

UserDeploys ==
  /\ \E U \in Releases : StoreFlows(U)
  /\ UNCHANGED ownVars

\* cancel_run: the check that the run is active, and the request it lets pass.
UserCancels ==
  /\ mishaps < MaxMishaps
  /\ \E r \in RunIds :
       IsActive(r) /\ late' = late \cup {Request("cancel", r, None)}
  /\ mishaps' = mishaps + 1
  /\ UNCHANGED <<storeVars, sched, worker>>

-----------------------------------------------------------------------------
SchedulerStep == Poll \/ Advance \/ PageDone \/ Apply \/ Rejected
WorkerStep(w) == Receive(w) \/ Claim(w) \/ Report(w)

SysNext ==
  \/ SchedulerStep
  \/ \E after \in {0, sched.after} : LoseScheduler(after)
  \/ \E q \in late : LateCall(q)
  \/ \E w \in Workers : WorkerStep(w)
  \/ \E w \in Workers : Heartbeat(w)
  \/ \E w \in Workers : LoseWorker(w)
  \/ \E t \in TaskIds : Lapse(t)
  \/ UserStarts
  \/ UserDeploys
  \/ UserCancels

\* The scheduler and the workers keep going, and time passes.  Nothing is asked
\* of users, of late requests or of mishaps.
Fairness ==
  /\ WF_sysVars(SchedulerStep)
  /\ \A w \in Workers : WF_sysVars(WorkerStep(w))
  /\ \A t \in TaskIds : WF_sysVars(Lapse(t) /\ ~ InHands(t))

SysSpec == SysInit /\ [][SysNext]_sysVars
FairSpec == SysSpec /\ Fairness

-----------------------------------------------------------------------------
(* Properties.                                                              *)

\* No wakeup is lost: whatever an active run could do next, an event the
\* scheduler has yet to put behind it leads back to that run, at every step of
\* its page and after any crash.
NoLostWakeup ==
  \A r \in RunIds :
    IsActive(r) /\ PlanFor(r) # <<>>
      => \E i \in DOMAIN events : i > sched.after /\ Concerns(events[i]) = r

\* A sub-flow run is active only while its parent is, although neither
\* succeed_run nor start_run of the store looks at the other of the two.
ChildWithinParent ==
  \A r \in RunIds : IsActive(r) /\ runs[r].parent # None => IsActive(runs[r].parent)

\* The planner gives a run up that none of its steps failed: a loop is out of
\* cycles, or a value is not what a loop or a fan-out can go on with.
GivesUp(c, st) ==
  Fail \in Planned(c, st) /\ \A a \in DOMAIN st.steps : st.steps[a].outcome # "failed"

\* What a run's tree may fail for.
IsCause(r) ==
  \/ \E a \in TaskAddresses : tasks[<<r, a>>].status = "failed"
  \/ \E st \in RunStates(ContentOf(r)) : Grows(st, RunStateOf(r)) /\ GivesUp(ContentOf(r), st)
  \/ \E a \in SubFlowAddresses :
       LET callee == Calls(ContentOf(r), a)
       IN  \/ \E v \in StoredVersions(callee) : ~ Fits(ContentOf(r), a, flows[callee][v])
           \/ Cardinality(StoredVersions(callee)) > StartAttempts

\* A tree fails for a cause: one of its tasks failed, the planner gave one of its
\* runs up, or a flow one of its runs calls is at a version that the call does not
\* fit, or at more of them than the manager tries to start.  Crashes, late
\* requests, replayed pages and refusals of what is over fail no healthy run.
FailedForCause ==
  \A r \in RunIds :
    runs[r].status = "failed" =>
      \E s \in RunIds : runs[s].root = runs[r].root /\ runs[s].status # "none" /\ IsCause(s)

\* Everything comes to an end and stays there: every run that is started, and
\* every task that is published, also when its run was cancelled before a worker
\* got to it, whatever was lost on the way.
EverythingEnds ==
  <>[](/\ \A r \in RunIds : ~ IsActive(r)
       /\ \A t \in TaskIds : tasks[t].status \in TaskTerminal \cup {"none"})
=============================================================================
