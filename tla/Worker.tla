------------------------------- MODULE Worker -------------------------------
(***************************************************************************)
(* Worker programs as neorc worker start runs them, on one queue with one  *)
(* task, in time: polls, the claim, the handler beside the heartbeats that *)
(* keep its lease, the report; a manager that cannot be reached or answers *)
(* too late, a token that is revoked, a stop signal.                       *)
(*                                                                         *)
(* Time passes in ticks.  What the event loop has to do is done before the *)
(* next tick, and so is a call that is answered.  A call that fails may    *)
(* hang for FailTime ticks before the client gives it up; the manager      *)
(* carried it out when it was made, or never did.                          *)
(*                                                                         *)
(* Definitions marked as slips are there for the runs, as in Store.        *)
(***************************************************************************)
EXTENDS Naturals

CONSTANTS
  Workers,
  LeaseTime,   \* lease_seconds: 60 s
  BeatEvery,   \* HEARTBEAT_FRACTION of it: 20 s
  FailTime,    \* when the client gives up: 10 s to connect, 35 s for an answer
  MaxMishaps   \* bound: failed calls, killed workers, handlers cancelled

ASSUME WorkerAssumption ==
  /\ {LeaseTime, BeatEvery} \subseteq Nat \ {0}
  /\ {FailTime, MaxMishaps} \subseteq Nat

VARIABLES
  task,      \* [status, lease]: its row, the lease as the time that is left
  active,    \* its run is active
  accepted,  \* by worker: its token is accepted
  program,   \* by worker: [pc, left], left being the time a failing call hangs
  stopping,  \* by worker: it was told to stop
  handler,   \* by worker: its handler is at the task
  beat,      \* by worker: the heartbeat [pc, left]
  missed,    \* by worker: beats in a row that failed; at two it stays
  mishaps

vars == <<task, active, accepted, program, stopping, handler, beat, missed, mishaps>>
own == <<stopping, handler, beat, missed>>

At(pc) == [pc |-> pc, left |-> 0]
NoBeat == At("none")
Ended == {"returned", "exited"}

Init ==
  /\ task = [status |-> "pending", lease |-> 0]
  /\ active = TRUE
  /\ accepted = [w \in Workers |-> TRUE]
  /\ program = [w \in Workers |-> At("prepare")]
  /\ stopping = [w \in Workers |-> FALSE]
  /\ handler = [w \in Workers |-> FALSE]
  /\ beat = [w \in Workers |-> NoBeat]
  /\ missed = [w \in Workers |-> 0]
  /\ mishaps = 0

Mishap == mishaps < MaxMishaps /\ mishaps' = mishaps + 1

IsAt(w, pc) == program[w].pc = pc
Goes(w, place) == program' = [program EXCEPT ![w] = place]

\* Slip: run does not look whether it was told to stop.
NextRoundAlways(w) == At("poll")

\* Once more round the loop of run.
NextRound(w) == At(IF stopping[w] THEN "returned" ELSE "poll")

\* A call that fails hangs for a while.
Hanging(pc) == {[pc |-> pc, left |-> n] : n \in 0 .. FailTime}

-----------------------------------------------------------------------------
(* The task, as the store keeps it.                                         *)

IsReceivable ==
  \/ task.status = "pending"
  \/ task.status \in {"received", "running"} /\ task.lease = 0

Received == [status |-> "received", lease |-> LeaseTime]
Running == [task EXCEPT !.status = "running"]
Finished == [status |-> "finished", lease |-> 0]
IsLeased == task.status \in {"received", "running"}
Extended == IF IsLeased THEN [task EXCEPT !.lease = LeaseTime] ELSE task

\* The rows a call leaves behind that may have been carried out or not.
EitherWay(row) == task' \in {task, row}

-----------------------------------------------------------------------------
(* Getting ready: _prepared and Worker.prepare.                             *)

\* The handlers fit the tasks of the queue; a stop meanwhile is seen by run.
Prepared(w) ==
  /\ IsAt(w, "prepare") /\ accepted[w]
  /\ Goes(w, NextRound(w))
  /\ UNCHANGED <<task, active, accepted, own, mishaps>>

\* HandlerError, or a refusal that would come again: the program ends.
CannotStart(w) ==
  /\ IsAt(w, "prepare") /\ accepted[w]
  /\ Mishap
  /\ Goes(w, At("exited"))
  /\ UNCHANGED <<task, active, accepted, own>>

PrepareFails(w) ==
  /\ IsAt(w, "prepare")
  /\ Mishap
  /\ program' \in {[program EXCEPT ![w] = h] : h \in Hanging("unprepared")}
  /\ UNCHANGED <<task, active, accepted, own>>

\* It is tried again after a pause, which a stop cuts short.
AwaitRetry(w) ==
  /\ IsAt(w, "unprepared") /\ program[w].left = 0
  /\ Goes(w, At(IF stopping[w] THEN "returned" ELSE "retry"))
  /\ UNCHANGED <<task, active, accepted, own, mishaps>>

Retry(w) ==
  /\ IsAt(w, "retry")
  /\ Goes(w, At("prepare"))
  /\ UNCHANGED <<task, active, accepted, own, mishaps>>

-----------------------------------------------------------------------------
(* run_once and execute, up to the handler.                                 *)

Receive(w) ==
  /\ IsAt(w, "poll") /\ IsReceivable
  /\ task' = Received
  /\ Goes(w, At("claim"))
  /\ UNCHANGED <<active, accepted, own, mishaps>>

\* The manager cannot be reached, or the delivery is lost on the way.
PollFails(w) ==
  /\ IsAt(w, "poll")
  /\ Mishap
  /\ EitherWay(IF IsReceivable THEN Received ELSE task)
  /\ program' \in {[program EXCEPT ![w] = h] : h \in Hanging("failed")}
  /\ UNCHANGED <<active, accepted, own>>

\* run sleeps for a second, once the call has failed or was refused.
Sleep(w) ==
  /\ IsAt(w, "failed") /\ program[w].left = 0
  /\ Goes(w, NextRound(w))
  /\ UNCHANGED <<task, active, accepted, own, mishaps>>

\* Claiming is repeatable: a task that runs may be claimed.
Claim(w) ==
  /\ IsAt(w, "claim") /\ accepted[w]
  /\ IsLeased /\ active
  /\ task' = Running
  /\ Goes(w, At("work"))
  /\ handler' = [handler EXCEPT ![w] = TRUE]
  /\ beat' = [beat EXCEPT ![w] = [pc |-> "asleep", left |-> BeatEvery]]
  /\ missed' = [missed EXCEPT ![w] = 0]
  /\ UNCHANGED <<active, accepted, stopping, mishaps>>

\* RunStateError: the store fails the task and the worker drops it.
Drop(w) ==
  /\ IsAt(w, "claim") /\ accepted[w]
  /\ IsLeased /\ ~ active
  /\ task' = Finished
  /\ Goes(w, NextRound(w))
  /\ UNCHANGED <<active, accepted, own, mishaps>>

\* TaskStateError: the task is over.
ClaimRefused(w) ==
  /\ IsAt(w, "claim") /\ accepted[w]
  /\ ~ IsLeased
  /\ Goes(w, At("failed"))
  /\ UNCHANGED <<task, active, accepted, own, mishaps>>

ClaimFails(w) ==
  /\ IsAt(w, "claim")
  /\ Mishap
  /\ EitherWay(IF ~ IsLeased THEN task ELSE IF active THEN Running ELSE Finished)
  /\ program' \in {[program EXCEPT ![w] = h] : h \in Hanging("failed")}
  /\ UNCHANGED <<active, accepted, own>>

-----------------------------------------------------------------------------
(* The handler and the heartbeat beside it.                                 *)

\* The program leaves the handler and the heartbeat behind, on its way to place.
Leaves(w, place) ==
  /\ Goes(w, place)
  /\ handler' = [handler EXCEPT ![w] = FALSE]
  /\ beat' = [beat EXCEPT ![w] = NoBeat]

\* The handler returns or raises; a heartbeat in flight is cancelled.
HandlerEnds(w) ==
  /\ IsAt(w, "work")
  /\ Leaves(w, At("report"))
  /\ UNCHANGED <<task, active, accepted, stopping, missed, mishaps>>

\* The handler raises CancelledError, which goes through _call and run.
HandlerCancels(w) ==
  /\ IsAt(w, "work")
  /\ Mishap
  /\ Leaves(w, At("exited"))
  /\ UNCHANGED <<task, active, accepted, stopping, missed>>

BeatIs(w, pc) == IsAt(w, "work") /\ beat[w].pc = pc /\ beat[w].left = 0
BeatGoes(w, place) == beat' = [beat EXCEPT ![w] = place]

Beat(w) ==
  /\ BeatIs(w, "asleep")
  /\ BeatGoes(w, At("call"))
  /\ UNCHANGED <<task, active, accepted, program, stopping, handler, missed, mishaps>>

\* Slip: the next beat is two thirds of the lease away.
PauseLonger == [pc |-> "asleep", left |-> LeaseTime - BeatEvery]

Pause == [pc |-> "asleep", left |-> BeatEvery]

\* The lease is extended, or refused since the task is over.
BeatAnswered(w) ==
  /\ BeatIs(w, "call") /\ accepted[w]
  /\ task' = Extended
  /\ missed' = [missed EXCEPT ![w] = IF @ = 2 THEN 2 ELSE 0]
  /\ BeatGoes(w, Pause)
  /\ UNCHANGED <<active, accepted, program, stopping, handler, mishaps>>

BeatFails(w) ==
  /\ BeatIs(w, "call")
  /\ Mishap
  /\ EitherWay(Extended)
  /\ missed' = [missed EXCEPT ![w] = IF @ = 2 THEN 2 ELSE @ + 1]
  /\ beat' \in {[beat EXCEPT ![w] = h] : h \in Hanging("failed")}
  /\ UNCHANGED <<active, accepted, program, stopping, handler>>

BeatGivesUp(w) ==
  /\ BeatIs(w, "failed")
  /\ BeatGoes(w, Pause)
  /\ UNCHANGED <<task, active, accepted, program, stopping, handler, missed, mishaps>>

\* Slip: the program returns and leaves the thread of the handler running.
BeatDeniedReturns(w) ==
  /\ BeatIs(w, "call") /\ ~ accepted[w]
  /\ Goes(w, At("exited"))
  /\ BeatGoes(w, NoBeat)
  /\ UNCHANGED <<task, active, accepted, stopping, handler, missed, mishaps>>

\* A heartbeat ends only by a refused token.  The handler is cancelled; one in a
\* thread ends with the process, which _serve_queue ends at once.
BeatDenied(w) ==
  /\ BeatIs(w, "call") /\ ~ accepted[w]
  /\ Leaves(w, At("exited"))
  /\ UNCHANGED <<task, active, accepted, stopping, missed, mishaps>>

Report(w) ==
  /\ IsAt(w, "report") /\ accepted[w]
  /\ IF IsLeased
     THEN task' = Finished /\ Goes(w, NextRound(w))
     ELSE UNCHANGED task /\ Goes(w, At("failed"))
  /\ UNCHANGED <<active, accepted, own, mishaps>>

ReportFails(w) ==
  /\ IsAt(w, "report")
  /\ Mishap
  /\ EitherWay(IF IsLeased THEN Finished ELSE task)
  /\ program' \in {[program EXCEPT ![w] = h] : h \in Hanging("failed")}
  /\ UNCHANGED <<active, accepted, own>>

\* AccessError of any other call ends the program.
Denied(w) ==
  /\ program[w].pc \in {"prepare", "poll", "claim", "report"} /\ ~ accepted[w]
  /\ Goes(w, At("exited"))
  /\ UNCHANGED <<task, active, accepted, own, mishaps>>

-----------------------------------------------------------------------------
(* From outside.                                                            *)

\* The signal: an idle poll and the pause before a retry are cut short.  A poll
\* may have been answered just then, with a task that nobody will work on.
Stop(w) ==
  /\ ~ stopping[w] /\ program[w].pc \notin Ended
  /\ stopping' = [stopping EXCEPT ![w] = TRUE]
  /\ IF IsAt(w, "poll")
     THEN /\ Goes(w, At("returned"))
          /\ EitherWay(IF IsReceivable THEN Received ELSE task)
     ELSE /\ Goes(w, IF IsAt(w, "retry") THEN At("returned") ELSE program[w])
          /\ UNCHANGED task
  /\ UNCHANGED <<active, accepted, handler, beat, missed, mishaps>>

Kill(w) ==
  /\ program[w].pc \notin Ended
  /\ Mishap
  /\ Leaves(w, At("exited"))
  /\ UNCHANGED <<task, active, accepted, stopping, missed>>

Revoke(w) ==
  /\ accepted[w]
  /\ accepted' = [accepted EXCEPT ![w] = FALSE]
  /\ UNCHANGED <<task, active, program, own, mishaps>>

EndRun ==
  /\ active
  /\ active' = FALSE
  /\ UNCHANGED <<task, accepted, program, own, mishaps>>

\* What has to happen before time goes on.
Due(w) ==
  \/ program[w].pc \in {"prepare", "claim", "report"}
  \/ program[w].pc \in {"unprepared", "failed"} /\ program[w].left = 0
  \/ \E pc \in {"asleep", "call", "failed"} : BeatIs(w, pc)

Less(n) == IF n = 0 THEN 0 ELSE n - 1

Tick ==
  /\ \A w \in Workers : ~ Due(w)
  /\ task' = [task EXCEPT !.lease = Less(@)]
  /\ program' = [w \in Workers |-> [program[w] EXCEPT !.left = Less(@)]]
  /\ beat' = [w \in Workers |-> [beat[w] EXCEPT !.left = Less(@)]]
  /\ UNCHANGED <<active, accepted, stopping, handler, missed, mishaps>>

-----------------------------------------------------------------------------
Work(w) ==
  \/ Prepared(w) \/ AwaitRetry(w) \/ Retry(w)
  \/ Receive(w) \/ Sleep(w) \/ Claim(w) \/ Drop(w) \/ ClaimRefused(w)
  \/ HandlerEnds(w) \/ Report(w) \/ Denied(w)

Heartbeat(w) == Beat(w) \/ BeatAnswered(w) \/ BeatGivesUp(w) \/ BeatDenied(w)

Fails(w) ==
  \/ CannotStart(w) \/ PrepareFails(w) \/ PollFails(w) \/ ClaimFails(w)
  \/ BeatFails(w) \/ ReportFails(w) \/ HandlerCancels(w) \/ Kill(w)

Next ==
  \/ \E w \in Workers :
       Work(w) \/ Heartbeat(w) \/ Fails(w) \/ Stop(w) \/ Revoke(w)
  \/ EndRun
  \/ Tick

\* The event loop of each program goes on, handlers come to an end, and time
\* passes.
Fairness ==
  /\ \A w \in Workers : WF_vars(Work(w)) /\ WF_vars(Heartbeat(w))
  /\ WF_vars(Tick)

Spec == Init /\ [][Next]_vars
FairSpec == Spec /\ Fairness

-----------------------------------------------------------------------------
(* Properties.                                                              *)

\* "Heartbeat this far into the lease, so one missed beat does not lose the
\* task" (_worker.py, HEARTBEAT_FRACTION): while a worker works on the task,
\* its lease runs out only after two beats in a row failed.
OneMissedBeatKeepsTask ==
  \A w \in Workers : IsAt(w, "work") /\ IsLeased /\ task.lease = 0 => missed[w] = 2

\* Two workers never run the task's handler at the same time, whatever becomes
\* of their calls, tokens and processes, unless one of them missed two beats.
HandlersApart ==
  \A v, w \in Workers : v # w /\ handler[v] /\ handler[w] => 2 \in {missed[v], missed[w]}

\* A worker that is told to stop comes to an end, from wherever it is.
StopReturns == \A w \in Workers : stopping[w] ~> program[w].pc \in Ended
=============================================================================
