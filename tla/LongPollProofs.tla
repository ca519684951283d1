--------------------------- MODULE LongPollProofs ---------------------------
(* Proofs about long polls and the news that wake them, for any number of    *)
(* manager processes, polls and items.                                       *)
EXTENDS LongPoll, TLAPS

\* A poll that waits has time left to wait.
PollPlace ==
  {place \in [pc : {"none", "read", "wait", "expiring"}, woken : BOOLEAN, left : Nat] :
     place.pc \in {"wait", "expiring"} => place.left > 0}

TypeOK ==
  /\ ready \in Nat
  /\ unmarked \in [Managers -> Nat]
  /\ pending \in [Managers -> BOOLEAN]
  /\ sending \in [Managers -> 0 .. 2]
  /\ inbox \in [Managers -> BOOLEAN]
  /\ listening \in [Managers -> BOOLEAN]
  /\ poll \in [Polls -> PollPlace]
  /\ lost \in BOOLEAN

PollInv == TypeOK /\ NeverSleepsThrough

\* A poll that starts to wait finds nothing, one that is woken or whose timer
\* fires no longer waits: only news keeps it from sleeping through an item.
Waits(x) == poll[x].pc = "wait" /\ ~ poll[x].woken

LEMMA PollInvInit == Init => PollInv
<1>1. NoPoll \in PollPlace /\ NoPoll.pc = "none"
  BY DEF PollPlace, NoPoll
<1>2. ASSUME Init PROVE TypeOK
  <2>1. listening \in [Managers -> BOOLEAN] /\ pending \in [Managers -> BOOLEAN]
        /\ inbox \in [Managers -> BOOLEAN] /\ lost \in BOOLEAN
    BY <1>2, Zenon DEF Init
  <2> QED
    BY <1>1, <1>2, <2>1 DEF Init, TypeOK
<1>3. ASSUME Init PROVE NeverSleepsThrough
  BY <1>3 DEF Init, NeverSleepsThrough, SleepsThrough
<1> QED
  BY <1>2, <1>3 DEF PollInv

\* A step that lets no poll fall asleep, adds no item and keeps the news coming.
LEMMA NewsKept ==
  ASSUME PollInv, TypeOK',
         ready' <= ready, lost => lost',
         \A x \in Polls \ Sliced : Waits(x)' => Waits(x),
         \A x \in Polls \ Sliced :
           Waits(x)' /\ OnTheWay(ManagerOf(x)) => lost' \/ OnTheWay(ManagerOf(x))'
  PROVE  PollInv'
<1> SUFFICES ASSUME NEW x \in Polls \ Sliced, Waits(x)', ready' > 0
             PROVE  lost' \/ OnTheWay(ManagerOf(x))'
  BY DEF PollInv, NeverSleepsThrough, SleepsThrough, Waits
<1>1. Waits(x) /\ ready > 0
  BY DEF PollInv, TypeOK
<1>2. lost \/ OnTheWay(ManagerOf(x))
  BY <1>1 DEF PollInv, NeverSleepsThrough, SleepsThrough, Waits
<1> QED
  BY <1>2

LEMMA PublisherSteps ==
  ASSUME PollInv, NEW m \in Managers,
         \/ Publish(m) \/ Notify(m) \/ Announce(m) \/ Send(m) \/ SendFails(m)
  PROVE  PollInv'
<1>0. TypeOK
  BY DEF PollInv
<1>1. poll' = poll
  BY DEF Publish, Notify, Announce, Send, SendFails, notifierVars
<1>2. CASE Publish(m)
  <2>1. TypeOK' /\ unmarked'[m] > 0
    BY <1>0, <1>2 DEF Publish, notifierVars, TypeOK
  <2> QED
    BY <2>1 DEF PollInv, NeverSleepsThrough, SleepsThrough, OnTheWay
<1>3. CASE Notify(m)
  <2>1. TypeOK' /\ pending'[m]
    BY <1>0, <1>3 DEF Notify, TypeOK
  <2> QED
    BY <2>1 DEF PollInv, NeverSleepsThrough, SleepsThrough, OnTheWay
<1>4. CASE Announce(m)
  <2>1. TypeOK' /\ sending'[m] > 0
    BY <1>0, <1>4 DEF Announce, TypeOK
  <2> QED
    BY <2>1 DEF PollInv, NeverSleepsThrough, SleepsThrough, OnTheWay
<1>5. CASE Send(m)
  <2>1. TypeOK' /\ \A n \in Managers : inbox'[n] \/ ~ listening'[n]
    BY <1>0, <1>5 DEF Send, TypeOK
  <2> QED
    BY <2>1, LongPollAssumption DEF PollInv, NeverSleepsThrough, SleepsThrough, OnTheWay
<1>6. CASE SendFails(m)
  <2>1. sending' \in [Managers -> 0 .. 2] /\ (sending'[m] > 0 \/ sending[m] = 2)
    BY <1>0, <1>6 DEF SendFails, TypeOK
  <2>2. lost' \in BOOLEAN /\ (sending[m] = 2 => lost')
    BY <1>6, Zenon DEF SendFails
  <2>3. TypeOK'
    BY <1>0, <1>6, <2>1, <2>2 DEF SendFails, TypeOK
  <2> QED
    BY <2>1, <2>2, <2>3 DEF PollInv, NeverSleepsThrough, SleepsThrough, OnTheWay
<1> QED
  BY <1>2, <1>3, <1>4, <1>5, <1>6

\* Waking all the polls of a process leaves none of them waiting.
LEMMA AllWoken ==
  ASSUME TypeOK, NEW m \in Managers, WakeAll(m)
  PROVE  /\ poll' \in [Polls -> PollPlace]
         /\ \A x \in Polls : Waits(x)' => Waits(x) /\ ManagerOf(x) # m
BY DEF WakeAll, TypeOK, PollPlace, Waits

LEMMA ListenerSteps ==
  ASSUME PollInv, NEW m \in Managers,
         Dispatch(m) \/ ListenerBreaks(m) \/ ListenAgain(m)
  PROVE  PollInv'
<1>0. TypeOK
  BY DEF PollInv
<1>1. CASE Dispatch(m)
  <2>1. \A x \in Polls : Waits(x)' => Waits(x) /\ ManagerOf(x) # m
    BY <1>0, <1>1, AllWoken DEF Dispatch
  <2>2. TypeOK'
    BY <1>0, <1>1, AllWoken DEF Dispatch, TypeOK
  <2>3. \A n \in Managers \ {m} : inbox'[n] = inbox[n]
    BY <1>0, <1>1 DEF Dispatch, TypeOK
  <2> QED
    BY <1>0, <1>1, <2>1, <2>2, <2>3, NewsKept, LongPollAssumption DEF Dispatch, OnTheWay, TypeOK
<1>2. CASE ListenerBreaks(m)
  <2>1. TypeOK' /\ poll' = poll
    BY <1>0, <1>2 DEF ListenerBreaks, TypeOK
  <2>2. \A n \in Managers : IF n = m THEN ~ listening'[n]
                            ELSE inbox'[n] = inbox[n] /\ listening'[n] = listening[n]
    BY <1>0, <1>2 DEF ListenerBreaks, TypeOK
  <2> QED
    BY <1>0, <1>2, <2>1, <2>2, NewsKept, LongPollAssumption DEF ListenerBreaks, OnTheWay, TypeOK, Waits
<1>3. CASE ListenAgain(m)
  <2>1. \A x \in Polls : Waits(x)' => Waits(x) /\ ManagerOf(x) # m
    BY <1>0, <1>3, AllWoken DEF ListenAgain
  <2>2. TypeOK'
    BY <1>0, <1>3, AllWoken DEF ListenAgain, TypeOK
  <2>3. \A n \in Managers \ {m} : listening'[n] = listening[n]
    BY <1>0, <1>3 DEF ListenAgain, TypeOK
  <2> QED
    BY <1>0, <1>3, <2>1, <2>2, <2>3, NewsKept, LongPollAssumption DEF ListenAgain, OnTheWay, TypeOK
<1> QED
  BY <1>1, <1>2, <1>3

\* What a poll does itself: it starts to wait only when the store has nothing.
LEMMA PollSteps ==
  ASSUME PollInv, NEW x \in Polls, PollStep(x) \/ Abandon(x)
  PROVE  PollInv'
<1>0. /\ TypeOK /\ poll[x] \in PollPlace
      /\ MaxSlices \in Nat /\ NoPoll \in PollPlace
  BY LongPollAssumption DEF PollInv, TypeOK, PollPlace, NoPoll
<1>1. PICK place \in PollPlace :
        /\ poll' = [poll EXCEPT ![x] = place]
        /\ x \notin Sliced /\ place.pc = "wait" /\ ~ place.woken => Waits(x) \/ ready' = 0
  <2> DEFINE Goes(place) ==
        /\ place \in PollPlace
        /\ poll' = [poll EXCEPT ![x] = place]
        /\ x \notin Sliced /\ place.pc = "wait" /\ ~ place.woken => Waits(x) \/ ready' = 0
  <2>1. CASE Begin(x)
    <3>1. Goes([pc |-> "read", woken |-> FALSE, left |-> MaxSlices])
      BY <1>0, <2>1 DEF Begin, PollPlace
    <3> QED
      BY <3>1
  <2>2. CASE Read(x)
    <3>1. CASE ready > 0 \/ poll[x].left = 0
      <4>1. Goes(NoPoll)
        BY <1>0, <2>2, <3>1 DEF Read, NoPoll, TypeOK
      <4> QED
        BY <4>1
    <3>2. CASE ~ (ready > 0 \/ poll[x].left = 0)
      <4>1. Goes([poll[x] EXCEPT !.pc = "wait"])
        BY <1>0, <2>2, <3>2 DEF Read, PollPlace, TypeOK
      <4> QED
        BY <4>1
    <3> QED
      BY <3>1, <3>2
  <2>3. CASE Wake(x)
    <3>1. Goes([poll[x] EXCEPT !.pc = "read", !.woken = FALSE])
      BY <1>0, <2>3 DEF Wake, PollPlace
    <3> QED
      BY <3>1
  <2>4. CASE TimerFires(x)
    <3>1. Goes([poll[x] EXCEPT !.pc = "expiring"])
      BY <1>0, <2>4 DEF TimerFires, PollPlace
    <3> QED
      BY <3>1
  <2>5. CASE Expire(x)
    <3> DEFINE place == IF x \notin Sliced
                        THEN [pc |-> "read", woken |-> FALSE, left |-> 0]
                        ELSE IF poll[x].left = 1 THEN NoPoll
                        ELSE [pc |-> "wait", woken |-> FALSE, left |-> poll[x].left - 1]
    <3>1. Goes(place)
      BY <1>0, <2>5 DEF Expire, PollPlace, NoPoll
    <3> QED
      BY <3>1
  <2>6. CASE Abandon(x)
    <3>1. Goes(NoPoll)
      BY <1>0, <2>6 DEF Abandon, NoPoll
    <3> QED
      BY <3>1
  <2> QED
    BY <2>1, <2>2, <2>3, <2>4, <2>5, <2>6 DEF PollStep
<1>2. /\ UNCHANGED <<unmarked, pending, sending, inbox, listening, lost>>
      /\ ready' \in Nat /\ ready' <= ready
  BY <1>0 DEF PollStep, Begin, Read, Wake, TimerFires, Expire, Abandon, notifierVars, TypeOK
<1>3. TypeOK' /\ \A y \in Polls \ {x} : poll'[y] = poll[y]
  BY <1>0, <1>1, <1>2 DEF TypeOK
<1>4. poll'[x] = place
  BY <1>0, <1>1 DEF TypeOK
<1> QED
  BY <1>0, <1>1, <1>2, <1>3, <1>4
  DEF PollInv, NeverSleepsThrough, SleepsThrough, OnTheWay, Waits, TypeOK

LEMMA PollInvNext == PollInv /\ [Next]_vars => PollInv'
<1> SUFFICES ASSUME PollInv, [Next]_vars PROVE PollInv'
  OBVIOUS
<1>1. CASE UNCHANGED vars
  BY <1>1 DEF vars, PollInv, TypeOK, NeverSleepsThrough, SleepsThrough, OnTheWay
<1>2. CASE \E m \in Managers : \/ Publish(m) \/ Notify(m) \/ Announce(m) \/ Send(m)
                               \/ SendFails(m)
  BY <1>2, PublisherSteps
<1>3. CASE \E m \in Managers : Dispatch(m) \/ ListenerBreaks(m) \/ ListenAgain(m)
  BY <1>3, ListenerSteps
<1>4. CASE \E x \in Polls : PollStep(x) \/ Abandon(x)
  BY <1>4, PollSteps
<1> QED
  BY <1>1, <1>2, <1>3, <1>4 DEF Next, NotifierStep

\* A poll that waits for all its time at once is woken for whatever comes in,
\* across any number of processes: an item in the store is on the way to it as
\* news unless an announcement was lost for good.
THEOREM PollsDoNotSleepThrough == Spec => []NeverSleepsThrough
<1>1. PollInv => NeverSleepsThrough
  BY DEF PollInv
<1> QED
  BY <1>1, PollInvInit, PollInvNext, PTL DEF Spec
=============================================================================
