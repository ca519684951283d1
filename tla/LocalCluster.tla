---------------------------- MODULE LocalCluster ----------------------------
(***************************************************************************)
(* The whole system in one process: the loops of the scheduler and of a    *)
(* worker per queue as tasks of one event loop, an owner that uploads,     *)
(* starts and closes the cluster, and callers of run that each start a run *)
(* and wait for its end while the loops work, crash or are stopped.        *)
(*                                                                         *)
(* A run has one task, on the queue of its caller.  The owner makes one    *)
(* call after the other, as the cluster's own users do.                    *)
(*                                                                         *)
(* Definitions marked as slips are there for the runs, as in Store.        *)
(***************************************************************************)
EXTENDS Naturals, FiniteSets

CONSTANTS
  Callers,
  Queues,
  QueueOf(_),  \* the queue of a caller's run
  MaxMishaps   \* bound: failures, crashes, handlers cancelled, timeouts

ASSUME ClusterAssumption ==
  /\ \A x \in Callers : QueueOf(x) \in Queues
  /\ MaxMishaps \in Nat

VARIABLES
  used,     \* the queues of the latest flows
  run,      \* by caller, its run: "none", "new", "published", "taken", "worked", "over"
  news,     \* there are events the scheduler has not put behind it or in its page
  loop,     \* by loop: where it is
  crash,    \* _crash and _crashed: a loop has crashed
  owner,    \* [pc, todo]: todo being the queues that start_workers has to look at
  caller,   \* by caller of run: where it is
  mishaps

vars == <<used, run, news, loop, crash, owner, caller, mishaps>>
runVars == <<run, news>>
loopVars == <<loop, crash>>

Loops == Queues \cup {"scheduler"}
Going == {"poll", "work", "pause"}

Init ==
  /\ used = {}
  /\ run = [x \in Callers |-> "none"]
  /\ news = FALSE
  /\ loop = [l \in Loops |-> "none"]
  /\ crash = FALSE
  /\ owner = [pc |-> "idle", todo |-> {}]
  /\ caller = [x \in Callers |-> "idle"]
  /\ mishaps = 0

Mishap == mishaps < MaxMishaps /\ mishaps' = mishaps + 1

Stopping == owner.pc \in {"closing", "closed"}
Goes(l, pc) == loop' = [loop EXCEPT ![l] = pc]
Again == IF Stopping THEN "returned" ELSE "poll"

-----------------------------------------------------------------------------
(* The scheduler's loop.                                                    *)

EventsCome ==
  /\ loop["scheduler"] = "poll" /\ news
  /\ Goes("scheduler", "work")
  /\ news' = FALSE
  /\ UNCHANGED <<used, run, crash, owner, caller, mishaps>>

\* A run is moved forward: its task is published, or it succeeds.
Moves(x) ==
  /\ loop["scheduler"] = "work"
  /\ \/ run[x] = "new" /\ run' = [run EXCEPT ![x] = "published"] /\ UNCHANGED news
     \/ run[x] = "worked" /\ run' = [run EXCEPT ![x] = "over"] /\ news' = TRUE
  /\ UNCHANGED <<used, loopVars, owner, caller, mishaps>>

\* The runs of the page have been moved, and any that came to need it meanwhile.
PageDone ==
  /\ loop["scheduler"] = "work"
  /\ \A x \in Callers : run[x] \notin {"new", "worked"}
  /\ Goes("scheduler", Again)
  /\ UNCHANGED <<used, runVars, crash, owner, caller, mishaps>>

-----------------------------------------------------------------------------
(* The loop of a queue's worker.                                            *)

Receive(q, x) ==
  /\ loop[q] = "poll"
  /\ QueueOf(x) = q /\ run[x] = "published"
  /\ run' = [run EXCEPT ![x] = "taken"]
  /\ Goes(q, "work")
  /\ UNCHANGED <<used, news, crash, owner, caller, mishaps>>

\* The handler is done and its report taken, or its run has ended meanwhile.
Report(q, x) ==
  /\ loop[q] = "work"
  /\ QueueOf(x) = q /\ run[x] = "taken"
  /\ run' = [run EXCEPT ![x] = "worked"]
  /\ news' = TRUE
  /\ Goes(q, Again)
  /\ UNCHANGED <<used, crash, owner, caller, mishaps>>

Drop(q) ==
  /\ loop[q] = "work"
  /\ \A x \in Callers : QueueOf(x) = q => run[x] # "taken"
  /\ Goes(q, Again)
  /\ UNCHANGED <<used, runVars, crash, owner, caller, mishaps>>

-----------------------------------------------------------------------------
(* What may become of a loop.                                               *)

\* A NeorcError: run logs it and sleeps for a second.  The scheduler will read
\* its page again; the lease of a task in hand lapses.
Stumbles(l) ==
  /\ loop[l] \in {"poll", "work"}
  /\ Mishap
  /\ Goes(l, "pause")
  /\ run' = [x \in Callers |-> IF l \in Queues /\ QueueOf(x) = l /\ run[x] = "taken"
                               THEN "published" ELSE run[x]]
  /\ news' = (news \/ (l = "scheduler" /\ loop[l] = "work"))
  /\ UNCHANGED <<used, crash, owner, caller>>

GoesOn(l) ==
  /\ loop[l] = "pause"
  /\ Goes(l, Again)
  /\ UNCHANGED <<used, runVars, crash, owner, caller, mishaps>>

\* Slip: only the scheduler's end is looked at.
NotesCrashOf(l) == l = "scheduler"

\* _finished is told of the end of every loop.
NotesCrash(l) == TRUE

Crashes(l) ==
  /\ loop[l] \in Going
  /\ Mishap
  /\ Goes(l, "crashed")
  /\ crash' = (crash \/ NotesCrash(l))
  /\ UNCHANGED <<used, runVars, owner, caller>>

\* A handler raises CancelledError: the loop of its worker ends as cancelled,
\* which is no crash.
Deserts(q) ==
  /\ loop[q] = "work"
  /\ Mishap
  /\ Goes(q, "cancelled")
  /\ UNCHANGED <<used, runVars, crash, owner, caller>>

-----------------------------------------------------------------------------
(* The owner.                                                               *)

\* Flows that use one more queue.
Upload ==
  /\ owner.pc = "idle"
  /\ \E q \in Queues \ used : used' = used \cup {q}
  /\ UNCHANGED <<runVars, loopVars, owner, caller, mishaps>>

\* start: the scheduler is started once, and the queues in use are looked at.
Start ==
  /\ owner.pc = "idle"
  /\ owner' = [pc |-> "starting", todo |-> used]
  /\ IF loop["scheduler"] = "none" THEN Goes("scheduler", "poll") ELSE UNCHANGED loop
  /\ UNCHANGED <<used, runVars, crash, caller, mishaps>>

\* A worker per queue that has none yet, once its handlers are found to fit.
StartWorker(q) ==
  /\ owner.pc = "starting" /\ q \in owner.todo
  /\ owner' = [owner EXCEPT !.todo = @ \ {q}]
  /\ IF loop[q] = "none" THEN Goes(q, "poll") ELSE UNCHANGED loop
  /\ UNCHANGED <<used, runVars, crash, caller, mishaps>>

\* HandlerError: the queues after this one are left without a worker.
StartFails(q) ==
  /\ owner.pc = "starting" /\ q \in owner.todo /\ loop[q] = "none"
  /\ Mishap
  /\ owner' = [pc |-> "idle", todo |-> {}]
  /\ UNCHANGED <<used, runVars, loopVars, caller>>

Started ==
  /\ owner.pc = "starting" /\ owner.todo = {}
  /\ owner' = [owner EXCEPT !.pc = "idle"]
  /\ UNCHANGED <<used, runVars, loopVars, caller, mishaps>>

\* Slip: stop cuts a loop short wherever it is.
CutWorkShort(cancel) == [l \in Loops |-> IF loop[l] \in Going THEN "returned" ELSE loop[l]]

\* What stop and cancel make of the loops: an idle poll is cut short; a loop at
\* work or asleep goes on until it looks again, unless it is cancelled.
CutShort(cancel) ==
  [l \in Loops |-> IF loop[l] = "poll" THEN "returned"
                   ELSE IF cancel /\ loop[l] \in Going THEN "cancelled" ELSE loop[l]]

\* close, with cancel after an error.
Close(cancel) ==
  /\ owner.pc = "idle"
  /\ owner' = [owner EXCEPT !.pc = "closing"]
  /\ loop' = CutShort(cancel)
  /\ UNCHANGED <<used, runVars, crash, caller, mishaps>>

\* gather: every loop has come to an end.
Closed ==
  /\ owner.pc = "closing"
  /\ \A l \in Loops : loop[l] \notin Going
  /\ owner' = [owner EXCEPT !.pc = "closed"]
  /\ UNCHANGED <<used, runVars, loopVars, caller, mishaps>>

-----------------------------------------------------------------------------
(* A caller of run.                                                         *)

CallerGoes(x, pc) == caller' = [caller EXCEPT ![x] = pc]

StartRun(x) ==
  /\ caller[x] = "idle" /\ ~ Stopping
  /\ QueueOf(x) \in used
  /\ run' = [run EXCEPT ![x] = "new"]
  /\ news' = TRUE
  /\ CallerGoes(x, "wait")
  /\ UNCHANGED <<used, loopVars, owner, mishaps>>

\* wait begins a round: a crash is raised, else the run is asked for.  On one event
\* loop and a store in memory nothing comes between the two.
Look(x) ==
  /\ caller[x] = "wait"
  /\ CallerGoes(x, IF crash THEN "raised" ELSE IF run[x] = "over" THEN "returned" ELSE "listen")
  /\ UNCHANGED <<used, runVars, loopVars, owner, mishaps>>

\* News, a crash, or the end of the poll, which comes if they do not.
Wakes(x) ==
  /\ caller[x] = "listen"
  /\ CallerGoes(x, "wait")
  /\ UNCHANGED <<used, runVars, loopVars, owner, mishaps>>

TimesOut(x) ==
  /\ caller[x] \in {"wait", "listen"}
  /\ Mishap
  /\ CallerGoes(x, "late")
  /\ UNCHANGED <<used, runVars, loopVars, owner>>

\* run cancels what it gave up on; that it ended by itself is no error.
GiveUp(x) ==
  /\ caller[x] = "late"
  /\ CallerGoes(x, "timed_out")
  /\ run' = [run EXCEPT ![x] = "over"]
  /\ news' = (news \/ run[x] # "over")
  /\ UNCHANGED <<used, loopVars, owner, mishaps>>

-----------------------------------------------------------------------------
SchedulerStep ==
  EventsCome \/ (\E x \in Callers : Moves(x)) \/ PageDone \/ GoesOn("scheduler")
WorkerStep(q) ==
  (\E x \in Callers : Receive(q, x) \/ Report(q, x)) \/ Drop(q) \/ GoesOn(q)
StartStep == Started \/ \E q \in Queues : StartWorker(q)
CallerStep(x) == Look(x) \/ Wakes(x) \/ GiveUp(x)

Next ==
  \/ SchedulerStep
  \/ \E q \in Queues : WorkerStep(q)
  \/ \E l \in Loops : Stumbles(l) \/ Crashes(l)
  \/ \E q \in Queues : Deserts(q) \/ StartFails(q)
  \/ Upload \/ Start \/ StartStep
  \/ (\E cancel \in BOOLEAN : Close(cancel)) \/ Closed
  \/ \E x \in Callers : StartRun(x) \/ CallerStep(x) \/ TimesOut(x)

\* The event loop comes round to every task, and handlers come to an end.  The
\* owner need not start or close anything, but ends what it began.
Fairness ==
  /\ WF_vars(SchedulerStep)
  /\ \A q \in Queues : WF_vars(WorkerStep(q))
  /\ WF_vars(StartStep) /\ WF_vars(Closed)
  /\ \A x \in Callers : WF_vars(CallerStep(x))

Spec == Init /\ [][Next]_vars
FairSpec == Spec /\ Fairness

-----------------------------------------------------------------------------
(* Properties.                                                              *)

\* Nobody is left to move the run of x: the cluster is closed or was never
\* started for its queue, or a handler has taken its worker with it.
Deserted(x) ==
  \/ Stopping
  \/ loop[QueueOf(x)] \in {"none", "cancelled"}

\* "If the scheduler or a worker crashed, raises what it crashed with rather
\* than waiting for a run that can no longer move" (LocalCluster.wait): a wait
\* without a timeout ends, whatever crashed and whenever.
WaitEnds ==
  \A x \in Callers : caller[x] = "wait" ~>
    caller[x] \in {"returned", "raised", "timed_out"} \/ Deserted(x)

\* Closing ends, with every loop, also those of a start that failed half-way, and
\* nothing comes back to life after it.  "Leaving it stops the scheduler and the
\* workers, letting a task in hand finish": a task that is taken and not reported
\* then is one whose worker crashed or was cancelled.
CloseEnds ==
  owner.pc = "closing" ~>
    [](/\ owner.pc = "closed"
       /\ \A l \in Loops : loop[l] \notin Going
       /\ \A x \in Callers :
            run[x] = "taken" => loop[QueueOf(x)] \in {"crashed", "cancelled"})
=============================================================================
