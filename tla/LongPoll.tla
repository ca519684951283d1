------------------------------ MODULE LongPoll ------------------------------
(***************************************************************************)
(* How a long poll is woken: a worker's receive, or the scheduler's wait   *)
(* for events, waits in a manager process on an in-process event, and what *)
(* another process publishes reaches it over LISTEN/NOTIFY.                *)
(*                                                                         *)
(* What is waited for is a number of items in the store, each taken once.  *)
(* Time is in slices: a poll may wait MaxSlices of them.  A poll over HTTP *)
(* waits slice by slice, to ask whether its client is still there; any     *)
(* other waits for all that remains at once.                               *)
(*                                                                         *)
(* Definitions marked as slips are there for the runs, as in Store.        *)
(***************************************************************************)
EXTENDS Naturals, FiniteSets

CONSTANTS
  Managers,     \* manager processes
  Polls,        \* who polls, one call after the other
  ManagerOf(_), \* the process that serves a poll
  Sliced,       \* the polls that are told when their client has gone
  MaxSlices,
  MaxItems,     \* bound: items published
  MaxMishaps    \* bound: broken links, failed sends and clients gone

ASSUME LongPollAssumption ==
  /\ MaxSlices \in Nat \ {0} /\ MaxItems \in Nat /\ MaxMishaps \in Nat
  /\ Sliced \subseteq Polls
  /\ \A x \in Polls : ManagerOf(x) \in Managers

VARIABLES
  ready,      \* items in the store nobody has taken
  published,  \* items published so far
  unmarked,   \* by process: publishes that are stored and not yet notified
  pending,    \* by process: the event set by notify
  sending,    \* by process: the attempt at announcing, 0 when none is made
  inbox,      \* by process: a notification has come in on its listener
  listening,  \* by process: the listening link is up
  poll,       \* by poll: [pc, woken, left]
  lost,       \* an announcement was lost for good
  mishaps

vars == <<ready, published, unmarked, pending, sending, inbox, listening, poll,
          lost, mishaps>>
notifierVars == <<pending, sending, inbox, listening, lost>>

NoPoll == [pc |-> "none", woken |-> FALSE, left |-> 0]

Init ==
  /\ ready = 0 /\ published = 0
  /\ unmarked = [m \in Managers |-> 0]
  /\ pending = [m \in Managers |-> FALSE]
  /\ sending = [m \in Managers |-> 0]
  /\ inbox = [m \in Managers |-> FALSE]
  /\ listening = [m \in Managers |-> TRUE]
  /\ poll = [x \in Polls |-> NoPoll]
  /\ lost = FALSE
  /\ mishaps = 0

Mishap == mishaps < MaxMishaps /\ mishaps' = mishaps + 1

-----------------------------------------------------------------------------
(* Publishing: the store's transaction, then the mark.                      *)

Publish(m) ==
  /\ published < MaxItems
  /\ published' = published + 1
  /\ ready' = ready + 1
  /\ unmarked' = [unmarked EXCEPT ![m] = @ + 1]
  /\ UNCHANGED <<notifierVars, poll, mishaps>>

Notify(m) ==
  /\ unmarked[m] > 0
  /\ unmarked' = [unmarked EXCEPT ![m] = @ - 1]
  /\ pending' = [pending EXCEPT ![m] = TRUE]
  /\ UNCHANGED <<ready, published, sending, inbox, listening, poll, lost, mishaps>>

-----------------------------------------------------------------------------
(* The announcer and the listener of a process.                             *)

\* _announce: one announcement for all the marks made so far.
Announce(m) ==
  /\ sending[m] = 0 /\ pending[m]
  /\ pending' = [pending EXCEPT ![m] = FALSE]
  /\ sending' = [sending EXCEPT ![m] = 1]
  /\ UNCHANGED <<ready, published, unmarked, inbox, listening, poll, lost, mishaps>>

Send(m) ==
  /\ sending[m] > 0
  /\ sending' = [sending EXCEPT ![m] = 0]
  /\ inbox' = [n \in Managers |-> inbox[n] \/ listening[n]]
  /\ UNCHANGED <<ready, published, unmarked, pending, listening, poll, lost, mishaps>>

\* The link breaks or cannot be opened: once it is tried again, on a new one.
SendFails(m) ==
  /\ sending[m] > 0
  /\ Mishap
  /\ sending' = [sending EXCEPT ![m] = IF @ = 1 THEN 2 ELSE 0]
  /\ lost' = (lost \/ sending[m] = 2)
  /\ UNCHANGED <<ready, published, unmarked, pending, inbox, listening, poll>>

\* wake_all: every poll under way in the process.
WakeAll(m) ==
  poll' = [x \in Polls |->
             IF ManagerOf(x) = m /\ poll[x].pc # "none"
             THEN [poll[x] EXCEPT !.woken = TRUE] ELSE poll[x]]

Dispatch(m) ==
  /\ listening[m] /\ inbox[m]
  /\ inbox' = [inbox EXCEPT ![m] = FALSE]
  /\ WakeAll(m)
  /\ UNCHANGED <<ready, published, unmarked, pending, sending, listening, lost, mishaps>>

ListenerBreaks(m) ==
  /\ listening[m]
  /\ Mishap
  /\ listening' = [listening EXCEPT ![m] = FALSE]
  /\ inbox' = [inbox EXCEPT ![m] = FALSE]
  /\ UNCHANGED <<ready, published, unmarked, pending, sending, poll, lost>>

\* Slip: nobody is woken when the link is back.
ListenAgainQuietly(m) ==
  /\ ~ listening[m]
  /\ listening' = [listening EXCEPT ![m] = TRUE]
  /\ UNCHANGED <<ready, published, unmarked, pending, sending, inbox, poll, lost, mishaps>>

\* What was announced meanwhile was missed: all are woken.
ListenAgain(m) ==
  /\ ~ listening[m]
  /\ listening' = [listening EXCEPT ![m] = TRUE]
  /\ WakeAll(m)
  /\ UNCHANGED <<ready, published, unmarked, pending, sending, inbox, lost, mishaps>>

-----------------------------------------------------------------------------
(* A poll: receive_task and wait_for_events.                                *)

\* The call comes in and subscribes.
Begin(x) ==
  /\ poll[x].pc = "none"
  /\ poll' = [poll EXCEPT ![x] = [pc |-> "read", woken |-> FALSE, left |-> MaxSlices]]
  /\ UNCHANGED <<ready, published, unmarked, notifierVars, mishaps>>

\* The store is read: the poll ends with an item, ends since its time is over,
\* or waits.
Read(x) ==
  /\ poll[x].pc = "read"
  /\ IF ready > 0
     THEN ready' = ready - 1 /\ poll' = [poll EXCEPT ![x] = NoPoll]
     ELSE /\ poll' = [poll EXCEPT ![x] = IF poll[x].left = 0 THEN NoPoll
                                         ELSE [poll[x] EXCEPT !.pc = "wait"]]
          /\ UNCHANGED ready
  /\ UNCHANGED <<published, unmarked, notifierVars, mishaps>>

\* wait returns true and forgets the wakeup.
Wake(x) ==
  /\ poll[x].pc = "wait" /\ poll[x].woken
  /\ poll' = [poll EXCEPT ![x] = [@ EXCEPT !.pc = "read", !.woken = FALSE]]
  /\ UNCHANGED <<ready, published, unmarked, notifierVars, mishaps>>

\* The timer of wait_for fires, before the event is set or (from Python 3.12 on) after
\* it, as long as the wait has not gone on: it is cancelled, and goes on only when the
\* event loop comes back to it.
TimerFires(x) ==
  /\ poll[x].pc = "wait"
  /\ poll' = [poll EXCEPT ![x] = [@ EXCEPT !.pc = "expiring"]]
  /\ UNCHANGED <<ready, published, unmarked, notifierVars, mishaps>>

\* Slip: the deadline of the poll is not kept.
ExpireNever(x) ==
  /\ poll[x].pc = "expiring"
  /\ poll' = [poll EXCEPT ![x] = [@ EXCEPT !.pc = "wait", !.woken = FALSE]]
  /\ UNCHANGED <<ready, published, unmarked, notifierVars, mishaps>>

\* wait returns false, and clears the event whatever became of it meanwhile.  A
\* sliced poll waits on unless its time is over; any other reads once more.
Expire(x) ==
  /\ poll[x].pc = "expiring"
  /\ poll' = [poll EXCEPT ![x] =
                IF x \notin Sliced
                THEN [pc |-> "read", woken |-> FALSE, left |-> 0]
                ELSE IF poll[x].left = 1 THEN NoPoll
                ELSE [pc |-> "wait", woken |-> FALSE, left |-> poll[x].left - 1]]
  /\ UNCHANGED <<ready, published, unmarked, notifierVars, mishaps>>

\* A sliced poll learns, before it reads or between two slices, that its client
\* has gone.
Abandon(x) ==
  /\ x \in Sliced
  /\ poll[x].pc \in {"read", "expiring"}
  /\ Mishap
  /\ poll' = [poll EXCEPT ![x] = NoPoll]
  /\ UNCHANGED <<ready, published, unmarked, notifierVars>>

-----------------------------------------------------------------------------
PollStep(x) == Begin(x) \/ Read(x) \/ Wake(x) \/ TimerFires(x) \/ Expire(x)
NotifierStep(m) ==
  Notify(m) \/ Announce(m) \/ Send(m) \/ Dispatch(m) \/ ListenAgain(m)

Next ==
  \/ \E m \in Managers :
       Publish(m) \/ NotifierStep(m) \/ SendFails(m) \/ ListenerBreaks(m)
  \/ \E x \in Polls : PollStep(x) \/ Abandon(x)

\* Polls go on, their timers included, and so does the event loop of a process.
Fairness ==
  /\ \A x \in Polls : WF_vars(PollStep(x))
  /\ \A m \in Managers : WF_vars(NotifierStep(m))

Spec == Init /\ [][Next]_vars
FairSpec == Spec /\ Fairness

-----------------------------------------------------------------------------
(* Properties.                                                              *)

\* News that will still wake the polls of process m.
OnTheWay(m) ==
  \/ \E n \in Managers : unmarked[n] > 0 \/ pending[n] \/ sending[n] > 0
  \/ inbox[m] \/ ~ listening[m]

\* It is blocked, the store has an item and no news of it is on the way to its
\* process.  Only an announcement that failed twice excuses that.
SleepsThrough(x) ==
  /\ poll[x].pc = "wait" /\ ~ poll[x].woken
  /\ ready > 0
  /\ ~ lost /\ ~ OnTheWay(ManagerOf(x))

\* A poll that waits for all its time at once never sleeps through something it
\* could take, through marks that are merged, listeners that break and sends
\* that are repeated.
NeverSleepsThrough == \A x \in Polls \ Sliced : ~ SleepsThrough(x)

\* "A caller that tries to receive a task, finds nothing and then waits never
\* sleeps through a task published in that gap" (ports/_task_notifier.py), in
\* slices too.
NobodySleepsThrough == \A x \in Polls : ~ SleepsThrough(x)

\* What is published is taken in the end, even if every wakeup for it is lost:
\* a poll ends at its deadline and the next one reads first.
AllTaken == ready > 0 ~> ready = 0
=============================================================================
