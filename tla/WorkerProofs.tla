---------------------------- MODULE WorkerProofs ----------------------------
(* Proofs about the workers on a queue, for any number of them and any times *)
(* of the lease, the heartbeat and the client.                               *)
EXTENDS Worker, TLAPS

\* What the times have to satisfy: a beat, a call that fails and the next beat
\* fit into the lease, with a tick to spare.
TwoBeatsFit == 2 * BeatEvery + FailTime < LeaseTime

ProgramPlace ==
  [pc : {"prepare", "unprepared", "retry", "poll", "claim", "work", "report", "failed",
         "returned", "exited"},
   left : Nat]

TypeOK ==
  /\ task \in [status : {"pending", "received", "running", "finished"},
               lease : 0 .. LeaseTime]
  /\ program \in [Workers -> ProgramPlace]
  /\ handler \in [Workers -> BOOLEAN]
  /\ beat \in [Workers -> [pc : {"none", "asleep", "call", "failed"}, left : Nat]]
  /\ missed \in [Workers -> 0 .. 2]

\* How far from its last extension the lease of the task can be, by where the
\* heartbeat of a worker at the task is and how many beats it missed.
BeatsInTime(w) ==
  /\ beat[w].pc = "asleep" => beat[w].left <= BeatEvery
  /\ beat[w].pc = "call" => beat[w].left = 0
  /\ beat[w].pc = "failed" => beat[w].left <= FailTime /\ missed[w] # 0
  /\ beat[w].pc # "none"
  /\ IsLeased =>
       /\ missed[w] = 0 => task.lease + BeatEvery >= LeaseTime + beat[w].left
       /\ missed[w] = 1 =>
            task.lease + BeatEvery + FailTime
              + (IF beat[w].pc = "failed" THEN 0 ELSE BeatEvery) >= LeaseTime + beat[w].left

BeatsKeepLease == \A w \in Workers : IsAt(w, "work") => BeatsInTime(w)

\* Who is on the way to the handler, or at it.
HandlerAtWork == \A w \in Workers : handler[w] => IsAt(w, "work")
NobodyBefore ==
  task.status = "pending" => \A w \in Workers : ~ IsAt(w, "claim") /\ ~ IsAt(w, "work")
ClaimsInTime == \A w \in Workers : IsAt(w, "claim") /\ IsLeased => task.lease = LeaseTime
ClaimsApart ==
  \A v, w \in Workers : v # w /\ IsAt(v, "claim") /\ IsLeased =>
    ~ IsAt(w, "claim") /\ (IsAt(w, "work") => missed[w] = 2)
WorkApart ==
  \A v, w \in Workers : v # w /\ IsAt(v, "work") /\ IsAt(w, "work")
    => 2 \in {missed[v], missed[w]}

LeaseInv ==
  /\ TypeOK /\ BeatsKeepLease /\ HandlerAtWork /\ NobodyBefore /\ ClaimsInTime
  /\ ClaimsApart /\ WorkApart
-----------------------------------------------------------------------------
(* The types.                                                                *)

LEMMA RowTypes ==
  ASSUME TypeOK
  PROVE  /\ Received \in [status : {"received"}, lease : 0 .. LeaseTime]
         /\ Running \in [status : {"running"}, lease : 0 .. LeaseTime]
         /\ Finished \in [status : {"finished"}, lease : 0 .. LeaseTime]
         /\ Extended \in [status : {task.status}, lease : 0 .. LeaseTime]
         /\ Running.lease = task.lease
         /\ Extended.lease = IF IsLeased THEN LeaseTime ELSE task.lease
BY WorkerAssumption DEF TypeOK, Received, Running, Finished, Extended, IsLeased

LEMMA PlaceTypes ==
  /\ \A pc \in {"prepare", "unprepared", "retry", "poll", "claim", "work", "report", "failed",
                "returned", "exited"} : At(pc) \in ProgramPlace
  /\ \A w : NextRound(w) \in ProgramPlace /\ NextRound(w).pc \in {"returned", "poll"}
  /\ Hanging("failed") \subseteq ProgramPlace /\ Hanging("unprepared") \subseteq ProgramPlace
  /\ \A pc : At(pc).pc = pc /\ At(pc).left = 0
  /\ \A pc : \A h \in Hanging(pc) : h.pc = pc /\ h.left \in 0 .. FailTime
BY WorkerAssumption DEF At, ProgramPlace, NextRound, Hanging

\* What a step leaves alone of the workers other than w.
OthersStay(w) ==
  \A v \in Workers \ {w} :
    /\ program'[v] = program[v] /\ handler'[v] = handler[v]
    /\ beat'[v] = beat[v] /\ missed'[v] = missed[v]

\* w is neither on the way to the handler nor at it after the step.
NotAtTask(w) ==
  /\ OthersStay(w)
  /\ program'[w].pc \notin {"claim", "work"}
  /\ handler'[w] = FALSE
  /\ missed'[w] = missed[w]
  /\ \/ task' = task
     \/ IsReceivable /\ task' = Received
     \/ IsLeased /\ task' = Running
     \/ task' = Finished

LEMMA LeasedWithoutLease ==
  ASSUME TwoBeatsFit, LeaseInv, IsLeased, task.lease = 0, NEW w \in Workers
  PROVE  ~ IsAt(w, "claim") /\ (IsAt(w, "work") => missed[w] = 2)
<1>1. ~ IsAt(w, "claim")
  BY WorkerAssumption DEF LeaseInv, ClaimsInTime
<1>2. ASSUME IsAt(w, "work"), missed[w] # 2 PROVE FALSE
  <2>1. BeatsInTime(w) /\ missed[w] \in {0, 1} /\ beat[w].left \in Nat
    BY <1>2 DEF LeaseInv, BeatsKeepLease, TypeOK
  <2> QED
    BY <2>1, WorkerAssumption DEF BeatsInTime, TwoBeatsFit
<1> QED
  BY <1>1, <1>2

LEMMA NotAtTaskKeeps ==
  ASSUME TwoBeatsFit, LeaseInv, TypeOK', NEW w \in Workers, NotAtTask(w)
  PROVE  LeaseInv'
<1>1. \A v \in Workers : IsAt(v, "claim")' \/ IsAt(v, "work")' =>
        /\ v # w /\ program'[v] = program[v] /\ beat'[v] = beat[v] /\ missed'[v] = missed[v]
        /\ handler'[v] = handler[v]
  BY DEF NotAtTask, OthersStay, IsAt
<1>2. HandlerAtWork'
  BY DEF LeaseInv, HandlerAtWork, NotAtTask, OthersStay, IsAt
<1>3. WorkApart'
  BY <1>1 DEF LeaseInv, WorkApart, IsAt
<1>4. CASE task' = task
  BY <1>1, <1>2, <1>3, <1>4 DEF LeaseInv, BeatsKeepLease, BeatsInTime, NobodyBefore, ClaimsInTime,
    ClaimsApart, IsAt, IsLeased
<1>5. CASE IsReceivable /\ task' = Received
  <2>1. \A v \in Workers : ~ IsAt(v, "claim") /\ (IsAt(v, "work") => missed[v] = 2)
    BY <1>5, LeasedWithoutLease DEF LeaseInv, NobodyBefore, IsReceivable, IsLeased
  <2>2. task'.status = "received"
    BY <1>5 DEF Received
  <2> QED
    BY <1>1, <1>2, <1>3, <2>1, <2>2 DEF LeaseInv, BeatsKeepLease, BeatsInTime, NobodyBefore, ClaimsInTime,
      ClaimsApart, IsAt
<1>6. CASE IsLeased /\ task' = Running
  <2>1. task'.status = "running" /\ task'.lease = task.lease
    BY <1>6, RowTypes DEF LeaseInv
  <2> QED
    BY <1>1, <1>2, <1>3, <1>6, <2>1 DEF LeaseInv, BeatsKeepLease, BeatsInTime, NobodyBefore,
      ClaimsInTime, ClaimsApart, IsAt, IsLeased
<1>7. CASE task' = Finished
  <2>1. task'.status = "finished"
    BY <1>7 DEF Finished
  <2> QED
    BY <1>1, <1>2, <1>3, <2>1 DEF LeaseInv, BeatsKeepLease, BeatsInTime, NobodyBefore, ClaimsInTime,
      ClaimsApart, IsAt, IsLeased
<1> QED
  BY <1>4, <1>5, <1>6, <1>7 DEF NotAtTask

\* Which steps take a worker away from the task, or leave it there.
LEMMA AwaySteps ==
  ASSUME LeaseInv, NEW w \in Workers,
         \/ Prepared(w) \/ CannotStart(w) \/ PrepareFails(w) \/ AwaitRetry(w) \/ Retry(w)
         \/ PollFails(w) \/ Sleep(w) \/ Drop(w) \/ ClaimRefused(w) \/ ClaimFails(w)
         \/ HandlerEnds(w) \/ HandlerCancels(w) \/ BeatDenied(w) \/ Report(w)
         \/ ReportFails(w) \/ Denied(w) \/ Kill(w)
  PROVE  TypeOK' /\ NotAtTask(w)
<1>0. TypeOK /\ (handler[w] => IsAt(w, "work")) /\ "exited" # "work"
  BY DEF LeaseInv, HandlerAtWork
<1>1. CASE Prepared(w) \/ AwaitRetry(w) \/ Retry(w) \/ Sleep(w) \/ ClaimRefused(w)
           \/ CannotStart(w) \/ Denied(w)
  BY <1>0, <1>1, PlaceTypes DEF Prepared, AwaitRetry, Retry, Sleep, ClaimRefused, CannotStart,
    Denied, Goes, IsAt, own, TypeOK, NotAtTask, OthersStay
<1>2. CASE PrepareFails(w)
  BY <1>0, <1>2, PlaceTypes DEF PrepareFails, IsAt, own, TypeOK, NotAtTask, OthersStay
<1>3. CASE PollFails(w)
  BY <1>0, <1>3, PlaceTypes, RowTypes DEF PollFails, EitherWay, IsAt, own, TypeOK, NotAtTask, OthersStay
<1>4. CASE ClaimFails(w)
  <2>1. \/ task' = task
        \/ IsLeased /\ task' = Running
        \/ task' = Finished
    BY <1>4 DEF ClaimFails, EitherWay
  <2>2. task' \in [status : {"pending", "received", "running", "finished"}, lease : 0 .. LeaseTime]
    BY <1>0, <2>1, RowTypes DEF TypeOK
  <2>3. PICK h \in Hanging("failed") : program' = [program EXCEPT ![w] = h]
    BY <1>4 DEF ClaimFails
  <2>4. h \in ProgramPlace /\ h.pc = "failed"
    BY PlaceTypes
  <2> QED
    BY <1>0, <1>4, <2>1, <2>2, <2>3, <2>4 DEF ClaimFails, IsAt, own, TypeOK, NotAtTask, OthersStay
<1>5. CASE ReportFails(w)
  BY <1>0, <1>5, PlaceTypes, RowTypes DEF ReportFails, EitherWay, IsAt, own, TypeOK, NotAtTask, OthersStay
<1>6. CASE Drop(w)
  BY <1>0, <1>6, PlaceTypes, RowTypes DEF Drop, Goes, IsAt, own, TypeOK, NotAtTask, OthersStay
<1>7. CASE Report(w)
  <2>1. /\ task' \in {task, Finished}
        /\ program' \in {[program EXCEPT ![w] = NextRound(w)], [program EXCEPT ![w] = At("failed")]}
        /\ UNCHANGED own /\ IsAt(w, "report")
    BY <1>7 DEF Report, Goes
  <2>2. task' \in [status : {"pending", "received", "running", "finished"}, lease : 0 .. LeaseTime]
    BY <1>0, <2>1, RowTypes DEF TypeOK
  <2> QED
    BY <1>0, <2>1, <2>2, PlaceTypes DEF IsAt, own, TypeOK, NotAtTask, OthersStay
<1>8. CASE HandlerEnds(w) \/ HandlerCancels(w) \/ BeatDenied(w) \/ Kill(w)
  <2>1. /\ program' \in {[program EXCEPT ![w] = At("report")], [program EXCEPT ![w] = At("exited")]}
        /\ handler' = [handler EXCEPT ![w] = FALSE]
        /\ beat' = [beat EXCEPT ![w] = NoBeat]
        /\ missed' = missed /\ task' = task
    BY <1>8 DEF HandlerEnds, HandlerCancels, BeatDenied, Kill, Leaves, Goes
  <2>2. NoBeat \in [pc : {"none", "asleep", "call", "failed"}, left : Nat]
    BY DEF NoBeat, At
  <2> QED
    BY <1>0, <2>1, <2>2, PlaceTypes DEF TypeOK, NotAtTask, OthersStay
<1> QED
  BY <1>1, <1>2, <1>3, <1>4, <1>5, <1>6, <1>7, <1>8

LEMMA ReceiveKeeps ==
  ASSUME TwoBeatsFit, LeaseInv, NEW w \in Workers, Receive(w)
  PROVE  LeaseInv'
<1>1. TypeOK /\ (handler[w] => IsAt(w, "work"))
  BY DEF LeaseInv, HandlerAtWork
<1>2. /\ program'[w].pc = "claim" /\ OthersStay(w)
      /\ handler'[w] = FALSE /\ beat' = beat /\ missed' = missed
      /\ task'.status = "received" /\ task'.lease = LeaseTime
      /\ TypeOK'
  BY <1>1, PlaceTypes, RowTypes
  DEF Receive, Received, Goes, IsAt, own, TypeOK, OthersStay
<1>3. \A v \in Workers : ~ IsAt(v, "claim") /\ (IsAt(v, "work") => missed[v] = 2)
  BY LeasedWithoutLease DEF Receive, LeaseInv, NobodyBefore, IsReceivable, IsLeased
<1> QED
  BY <1>2, <1>3 DEF LeaseInv, BeatsKeepLease, BeatsInTime, HandlerAtWork, NobodyBefore,
    ClaimsInTime, ClaimsApart, WorkApart, IsAt, OthersStay

LEMMA ClaimKeeps ==
  ASSUME LeaseInv, NEW w \in Workers, Claim(w)
  PROVE  LeaseInv'
<1>1. TypeOK /\ task.lease = LeaseTime /\ IsLeased /\ IsAt(w, "claim")
  BY DEF LeaseInv, ClaimsInTime, Claim
<1>2. /\ program'[w].pc = "work" /\ OthersStay(w)
      /\ beat'[w] = [pc |-> "asleep", left |-> BeatEvery] /\ missed'[w] = 0
      /\ task'.status = "running" /\ task'.lease = LeaseTime
      /\ TypeOK'
  BY <1>1, PlaceTypes, RowTypes, WorkerAssumption
  DEF Claim, Goes, TypeOK, OthersStay
<1>3. \A v \in Workers \ {w} : ~ IsAt(v, "claim") /\ (IsAt(v, "work") => missed[v] = 2)
  BY <1>1 DEF LeaseInv, ClaimsApart
<1>4. BeatsKeepLease'
  <2> SUFFICES ASSUME NEW v \in Workers, IsAt(v, "work")' PROVE BeatsInTime(v)'
    BY DEF BeatsKeepLease
  <2>1. CASE v = w
    BY <1>2, <2>1, WorkerAssumption DEF BeatsInTime, TypeOK
  <2>2. CASE v # w
    <3>1. beat'[v] = beat[v] /\ missed'[v] = 2 /\ BeatsInTime(v)
      BY <1>2, <1>3, <2>2 DEF OthersStay, IsAt, LeaseInv, BeatsKeepLease
    <3> QED
      BY <3>1 DEF BeatsInTime
  <2> QED
    BY <2>1, <2>2
<1> QED
  BY <1>2, <1>3, <1>4 DEF LeaseInv, HandlerAtWork, NobodyBefore, ClaimsInTime, ClaimsApart, WorkApart,
    IsAt, OthersStay

\* The heartbeat of a worker at the task goes on; the task keeps its status.
LEMMA BeatKeeps ==
  ASSUME LeaseInv, TypeOK', NEW w \in Workers, OthersStay(w), IsAt(w, "work"),
         program' = program, handler' = handler,
         task'.status = task.status,
         \/ task'.lease = task.lease
         \/ IsLeased /\ task'.lease = LeaseTime,
         missed[w] = 2 => missed'[w] = 2,
         BeatsInTime(w)'
  PROVE  LeaseInv'
<1>1. IsLeased' <=> IsLeased
  BY DEF IsLeased
<1>2. task.lease \in 0 .. LeaseTime /\ task'.lease \in 0 .. LeaseTime /\ task'.lease >= task.lease
  BY DEF LeaseInv, TypeOK
<1>3. BeatsKeepLease'
  <2> SUFFICES ASSUME NEW v \in Workers, v # w, IsAt(v, "work") PROVE BeatsInTime(v)'
    BY DEF BeatsKeepLease, IsAt
  <2>1. /\ beat'[v] = beat[v] /\ missed'[v] = missed[v] /\ BeatsInTime(v)
        /\ beat[v].left \in Nat
    BY DEF OthersStay, LeaseInv, BeatsKeepLease, TypeOK
  <2> QED
    BY <1>1, <1>2, <2>1, WorkerAssumption DEF BeatsInTime
<1>4. HandlerAtWork' /\ NobodyBefore' /\ ClaimsInTime'
  BY <1>1 DEF LeaseInv, HandlerAtWork, NobodyBefore, ClaimsInTime, IsAt
<1>5. \A v \in Workers : missed[v] = 2 => missed'[v] = 2
  BY DEF OthersStay
<1>6. ClaimsApart' /\ WorkApart'
  BY <1>1, <1>5 DEF LeaseInv, ClaimsApart, WorkApart, IsAt
<1> QED
  BY <1>3, <1>4, <1>6 DEF LeaseInv

LEMMA BeatSteps ==
  ASSUME LeaseInv, NEW w \in Workers,
         Beat(w) \/ BeatAnswered(w) \/ BeatGivesUp(w) \/ BeatFails(w)
  PROVE  LeaseInv'
<1>1. /\ TypeOK /\ IsAt(w, "work") /\ BeatsInTime(w)
      /\ missed[w] \in 0 .. 2 /\ beat[w].left = 0
      /\ task.lease \in 0 .. LeaseTime /\ task.lease \in Nat
      /\ LeaseTime \in Nat /\ BeatEvery \in Nat /\ FailTime \in Nat
  BY WorkerAssumption
  DEF LeaseInv, BeatsKeepLease, TypeOK, Beat, BeatAnswered, BeatGivesUp, BeatFails, BeatIs
<1>2. CASE Beat(w)
  <2>1. /\ TypeOK' /\ OthersStay(w) /\ task' = task /\ missed' = missed
        /\ beat[w].pc = "asleep" /\ beat'[w].pc = "call" /\ beat'[w].left = 0
        /\ program' = program /\ handler' = handler
    BY <1>1, <1>2 DEF Beat, BeatIs, BeatGoes, At, TypeOK, OthersStay
  <2>2. BeatsInTime(w)'
    BY <1>1, <2>1 DEF BeatsInTime, IsLeased
  <2> QED
    BY <1>1, <2>1, <2>2, BeatKeeps
<1>3. CASE BeatAnswered(w)
  <2>1. /\ TypeOK' /\ OthersStay(w) /\ task' = Extended
        /\ missed'[w] = IF missed[w] = 2 THEN 2 ELSE 0
        /\ beat'[w].pc = "asleep" /\ beat'[w].left = BeatEvery
        /\ program' = program /\ handler' = handler
    BY <1>1, <1>3, RowTypes DEF BeatAnswered, BeatIs, BeatGoes, Pause, TypeOK, OthersStay
  <2>2. /\ task'.status = task.status
        /\ IF IsLeased THEN task'.lease = LeaseTime ELSE task'.lease = task.lease
    BY <1>1, <2>1, RowTypes
  <2>3. BeatsInTime(w)'
    BY <1>1, <2>1, <2>2 DEF BeatsInTime, IsLeased
  <2> QED
    BY <1>1, <2>1, <2>2, <2>3, BeatKeeps
<1>4. CASE BeatGivesUp(w)
  <2>1. /\ TypeOK' /\ OthersStay(w) /\ task' = task /\ missed' = missed
        /\ beat[w].pc = "failed" /\ beat'[w].pc = "asleep" /\ beat'[w].left = BeatEvery
        /\ program' = program /\ handler' = handler
    BY <1>1, <1>4 DEF BeatGivesUp, BeatIs, BeatGoes, Pause, TypeOK, OthersStay
  <2>2. BeatsInTime(w)'
    BY <1>1, <2>1 DEF BeatsInTime, IsLeased
  <2> QED
    BY <1>1, <2>1, <2>2, BeatKeeps
<1>5. CASE BeatFails(w)
  <2>1. PICK h \in Hanging("failed") : beat' = [beat EXCEPT ![w] = h]
    BY <1>5 DEF BeatFails
  <2>2. h.pc = "failed" /\ h.left \in 0 .. FailTime /\ h \in [pc : {"failed"}, left : Nat]
    BY <1>1, <2>1 DEF Hanging
  <2>3. /\ TypeOK' /\ OthersStay(w) /\ task' \in {task, Extended}
        /\ missed'[w] = IF missed[w] = 2 THEN 2 ELSE missed[w] + 1
        /\ beat[w].pc = "call" /\ beat'[w] = h
        /\ program' = program /\ handler' = handler
    BY <1>1, <1>5, <2>1, <2>2, RowTypes DEF BeatFails, BeatIs, EitherWay, TypeOK, OthersStay
  <2>4. /\ task'.status = task.status
        /\ \/ task'.lease = task.lease
           \/ IsLeased /\ task'.lease = LeaseTime
    BY <1>1, <2>3, RowTypes
  <2>5. BeatsInTime(w)'
    BY <1>1, <2>2, <2>3, <2>4 DEF BeatsInTime, IsLeased
  <2> QED
    BY <1>1, <2>3, <2>4, <2>5, BeatKeeps
<1> QED
  BY <1>2, <1>3, <1>4, <1>5

\* The stop signal takes an idle program away, or leaves everything as it is.
LEMMA StopKeeps ==
  ASSUME TwoBeatsFit, LeaseInv, NEW w \in Workers, Stop(w)
  PROVE  LeaseInv'
<1>1. TypeOK /\ (handler[w] => IsAt(w, "work"))
  BY DEF LeaseInv, HandlerAtWork
<1>2. CASE IsAt(w, "poll")
  <2>1. /\ program' = [program EXCEPT ![w] = At("returned")]
        /\ task' = task \/ (IsReceivable /\ task' = Received)
        /\ UNCHANGED <<handler, beat, missed>>
    BY <1>2 DEF Stop, Goes, EitherWay
  <2>2. TypeOK' /\ NotAtTask(w)
    BY <1>1, <1>2, <2>1, PlaceTypes, RowTypes DEF TypeOK, NotAtTask, OthersStay, IsAt
  <2> QED
    BY <2>2, NotAtTaskKeeps
<1>3. CASE IsAt(w, "retry")
  <2>1. /\ program' = [program EXCEPT ![w] = At("returned")]
        /\ UNCHANGED <<task, handler, beat, missed>>
    BY <1>3 DEF Stop, Goes, IsAt
  <2>2. TypeOK' /\ NotAtTask(w)
    BY <1>1, <1>3, <2>1, PlaceTypes DEF TypeOK, NotAtTask, OthersStay, IsAt
  <2> QED
    BY <2>2, NotAtTaskKeeps
<1>4. CASE ~ IsAt(w, "poll") /\ ~ IsAt(w, "retry")
  <2>1. UNCHANGED <<task, program, handler, beat, missed>>
    BY <1>1, <1>4 DEF Stop, Goes, TypeOK
  <2> QED
    BY <2>1 DEF LeaseInv, TypeOK, BeatsKeepLease, BeatsInTime, HandlerAtWork, NobodyBefore,
      ClaimsInTime, ClaimsApart, WorkApart, IsAt, IsLeased
<1> QED
  BY <1>2, <1>3, <1>4

\* Time goes on only when nothing is due, so no claim is under way then and
\* every heartbeat has time left.
LEMMA TickKeeps ==
  ASSUME LeaseInv, Tick
  PROVE  LeaseInv'
<1>1. TypeOK
  BY DEF LeaseInv
<1> DEFINE row == [task EXCEPT !.lease = Less(@)]
           place(w) == [program[w] EXCEPT !.left = Less(@)]
           pulse(w) == [beat[w] EXCEPT !.left = Less(@)]
<1>0. \A n \in Nat : Less(n) \in Nat /\ Less(n) <= n
  BY DEF Less
<1>2. /\ task'.status = task.status /\ task'.lease = Less(task.lease)
      /\ task' \in [status : {"pending", "received", "running", "finished"}, lease : 0 .. LeaseTime]
  <2>1. Less(task.lease) \in 0 .. LeaseTime
    BY <1>0, <1>1, WorkerAssumption DEF TypeOK
  <2>2. /\ row.status = task.status /\ row.lease = Less(task.lease)
        /\ row \in [status : {"pending", "received", "running", "finished"}, lease : 0 .. LeaseTime]
    BY <1>1, <2>1 DEF TypeOK
  <2> QED
    BY <2>2 DEF Tick
<1>3. /\ program' \in [Workers -> ProgramPlace]
      /\ \A w \in Workers : program'[w].pc = program[w].pc
  <2>1. ASSUME NEW w \in Workers
        PROVE  place(w) \in ProgramPlace /\ place(w).pc = program[w].pc
    <3>1. program[w] \in ProgramPlace /\ Less(program[w].left) \in Nat
      BY <1>0, <1>1 DEF TypeOK, ProgramPlace
    <3> QED
      BY <3>1 DEF ProgramPlace
  <2>2. program' = [w \in Workers |-> place(w)]
    BY DEF Tick
  <2> HIDE DEF place
  <2> QED
    BY <2>1, <2>2
<1>4. /\ beat' \in [Workers -> [pc : {"none", "asleep", "call", "failed"}, left : Nat]]
      /\ \A w \in Workers : beat'[w].pc = beat[w].pc /\ beat'[w].left = Less(beat[w].left)
  <2>1. ASSUME NEW w \in Workers
        PROVE  /\ pulse(w) \in [pc : {"none", "asleep", "call", "failed"}, left : Nat]
               /\ pulse(w).pc = beat[w].pc /\ pulse(w).left = Less(beat[w].left)
    <3>1. /\ beat[w] \in [pc : {"none", "asleep", "call", "failed"}, left : Nat]
          /\ Less(beat[w].left) \in Nat
      BY <1>0, <1>1 DEF TypeOK
    <3> QED
      BY <3>1
  <2>2. beat' = [w \in Workers |-> pulse(w)]
    BY DEF Tick
  <2> HIDE DEF pulse
  <2> QED
    BY <2>1, <2>2
<1> HIDE DEF row, place, pulse
<1>5. handler' = handler /\ missed' = missed
  BY DEF Tick
<1>6. TypeOK'
  BY <1>1, <1>2, <1>3, <1>4, <1>5 DEF TypeOK
<1>7. \A w \in Workers : ~ IsAt(w, "claim")
  BY DEF Tick, Due, IsAt
<1>8. \A w \in Workers : IsAt(w, "work") =>
        beat[w].left # 0 \/ beat[w].pc = "none"
  BY <1>1 DEF Tick, Due, BeatIs, TypeOK
<1>9. BeatsKeepLease'
  <2> SUFFICES ASSUME NEW w \in Workers, IsAt(w, "work") PROVE BeatsInTime(w)'
    BY <1>3 DEF BeatsKeepLease, IsAt
  <2>1. /\ BeatsInTime(w) /\ beat[w].left # 0 /\ beat[w].left \in Nat /\ task.lease \in Nat
        /\ beat[w].pc \in {"asleep", "call", "failed"}
    BY <1>1, <1>8 DEF LeaseInv, BeatsKeepLease, BeatsInTime, TypeOK
  <2>2. beat'[w].left = beat[w].left - 1 /\ task'.lease >= task.lease - 1 /\ task'.lease \in Nat
    BY <1>2, <1>4, <2>1 DEF Less
  <2> QED
    BY <1>2, <1>4, <1>5, <2>1, <2>2, WorkerAssumption DEF BeatsInTime, IsLeased
<1> QED
  BY <1>2, <1>3, <1>5, <1>6, <1>7, <1>9
  DEF LeaseInv, HandlerAtWork, NobodyBefore, ClaimsInTime, ClaimsApart, WorkApart, IsAt

LEMMA LeaseInvNext == TwoBeatsFit /\ LeaseInv /\ [Next]_vars => LeaseInv'
<1> SUFFICES ASSUME TwoBeatsFit, LeaseInv, [Next]_vars PROVE LeaseInv'
  OBVIOUS
<1>1. CASE \/ UNCHANGED vars \/ EndRun
           \/ \E w \in Workers : Revoke(w)
  <2>1. UNCHANGED <<task, program, handler, beat, missed>>
    BY <1>1 DEF vars, EndRun, Revoke, own
  <2> QED
    BY <2>1 DEF LeaseInv, TypeOK, BeatsKeepLease, BeatsInTime, HandlerAtWork, NobodyBefore,
      ClaimsInTime, ClaimsApart, WorkApart, IsAt, IsLeased
<1>2. CASE Tick
  BY <1>2, TickKeeps
<1>3. CASE \E w \in Workers : Work(w) \/ Heartbeat(w) \/ Fails(w) \/ Stop(w)
  <2>1. PICK w \in Workers : Work(w) \/ Heartbeat(w) \/ Fails(w) \/ Stop(w)
    BY <1>3
  <2>2. CASE \/ Prepared(w) \/ CannotStart(w) \/ PrepareFails(w) \/ AwaitRetry(w) \/ Retry(w)
             \/ PollFails(w) \/ Sleep(w) \/ Drop(w) \/ ClaimRefused(w) \/ ClaimFails(w)
             \/ HandlerEnds(w) \/ HandlerCancels(w) \/ BeatDenied(w) \/ Report(w)
             \/ ReportFails(w) \/ Denied(w) \/ Kill(w)
    BY <2>2, AwaySteps, NotAtTaskKeeps
  <2>3. CASE Beat(w) \/ BeatAnswered(w) \/ BeatGivesUp(w) \/ BeatFails(w)
    BY <2>3, BeatSteps
  <2>4. CASE Receive(w)
    BY <2>4, ReceiveKeeps
  <2>5. CASE Claim(w)
    BY <2>5, ClaimKeeps
  <2>6. CASE Stop(w)
    BY <2>6, StopKeeps
  <2> QED
    BY <2>1, <2>2, <2>3, <2>4, <2>5, <2>6 DEF Work, Heartbeat, Fails
<1> QED
  BY <1>1, <1>2, <1>3 DEF Next

LEMMA LeaseInvInit == Init => LeaseInv
BY WorkerAssumption, PlaceTypes
DEF Init, LeaseInv, TypeOK, BeatsKeepLease, HandlerAtWork, NobodyBefore, ClaimsInTime, ClaimsApart,
    WorkApart, IsAt, IsLeased, NoBeat, At

\* One missed beat does not lose the task, for whatever lease, beat and limits of
\* the client for which two beats with a failing call in between fit the lease:
\* a client that gives up after 10 seconds, not one that waits 35 for an answer.
THEOREM MissedBeatKeepsTask == TwoBeatsFit => (Spec => []OneMissedBeatKeepsTask)
<1> SUFFICES ASSUME TwoBeatsFit PROVE Spec => []OneMissedBeatKeepsTask
  OBVIOUS
<1>1. LeaseInv => OneMissedBeatKeepsTask
  BY LeasedWithoutLease DEF OneMissedBeatKeepsTask
<1>2. LeaseInv /\ [Next]_vars => LeaseInv'
  BY LeaseInvNext
<1> QED
  BY <1>1, <1>2, LeaseInvInit, PTL DEF Spec

\* Under the same condition no two workers run the handler of a task at a time.
THEOREM HandlersStayApart == TwoBeatsFit => (Spec => []HandlersApart)
<1> SUFFICES ASSUME TwoBeatsFit PROVE Spec => []HandlersApart
  OBVIOUS
<1>1. LeaseInv => HandlersApart
  BY DEF LeaseInv, HandlersApart, HandlerAtWork, WorkApart
<1>2. LeaseInv /\ [Next]_vars => LeaseInv'
  BY LeaseInvNext
<1> QED
  BY <1>1, <1>2, LeaseInvInit, PTL DEF Spec
=============================================================================
