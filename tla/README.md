# neorc in TLA+

neorc runs *flows*: YAML definitions of tasks, sub-flows, loops and fan-outs. A manager keeps all
state in a store, a scheduler moves every run forward by asking a pure planner what comes next, and
workers receive tasks under a lease, run a handler and report. This directory models that system in
TLA+, checks it with TLC on small instances, and proves with TLAPS, for every size, most of the safety
properties of the store, the scheduler with its workers, the worker's lease, the long polls, the
credentials and the HTTP API.

Paths below are relative to `src/python/neorc-core/src/neorc_core` (`core`) and
`src/python/neorc/src/neorc` (`neorc`).

## The system

| Component | Code | State | Operations | Talks to |
|---|---|---|---|---|
| Store | `core/local/_memory_store.py`, `core/_runs.py`, `core/_task.py`; `neorc/postgres/_store.py` | flows by version, runs, tasks, event log | uploads, start/succeed/fail/cancel runs, publish/receive/claim/extend/finish tasks, reads | called by the manager only |
| Planner | `core/_planner.py`, `core/flows/_references.py`, `_run_state.py`, `_definition.py` | none (pure) | `plan(definition, state)`, `resolve` | called by scheduler and manager |
| Scheduler | `core/_scheduler.py` | last event handled, definitions read | poll, advance runs, fail a run whose request was refused | manager, over a client |
| Manager | `core/_manager.py` | none; reads and writes the store in several steps | requests of users, scheduler, workers; long polls | store, notifiers |
| Worker | `core/_worker.py`, `core/_handlers.py` | the task in its hands | receive, claim, heartbeat, call, report | manager, over a client |
| Notifier | `core/_subscriptions.py`, `core/local/_notifier.py`, `neorc/postgres/_notifier.py` | marks, links, who waits | notify, announce, dispatch, wait | manager, Postgres |
| Loading and validation | `core/flows/_loader.py`, `_validation.py` | none | check one flow, check a set of flows | manager, store |
| Access, credentials, OIDC | `core/_access.py`, `core/local/_memory_credentials.py`, `neorc/auth`, `neorc/postgres/_credentials.py` | tokens, sessions, pending logins | create, revoke, authenticate, log in | HTTP layer |
| HTTP API and clients | `neorc/manager`, `neorc/http`, `neorc/_errors.py` | none | one route per manager operation; guard, status, body | manager, access |
| LocalCluster | `core/local/_cluster.py` | its background tasks, the first crash | upload, start, run, wait, close | everything, in one process |
| Programs | `neorc/_cli.py` | whether a stop signal came | worker start, scheduler start, flows upload | clients |
| UI, schema, values | `src/ts`, `neorc/postgres/_schema.py`, `core/_values.py` | - | - | - |

What is hard in it:

* *Everyone is stale.* The scheduler plans from a snapshot and applies the plan call by call, while
  workers report, users cancel and uploads stop whole trees.
* *At least once.* The scheduler puts events behind it only when a page of them is done and a new one
  starts from the first event. A call it gave up on may be carried out much later.
* *Leases.* A task's worker may be gone, slow or just unlucky; two may have the same task in hand.
* *Trees.* A run and its sub-flow runs fail and are cancelled together, and a new version of a flow
  cancels every tree that runs it. `start_run` looks at the parent and not at the tree.
* *Wakeups.* Long polls sleep on an in-process event that is set over a link that may break.
* *Whose answer is it.* What a client hears may come from the manager, a proxy or nobody; a program ends,
  fails a run or drops a task on what it hears.
* *Ending.* A stop signal, a crash or a refused token meets loops that poll, work, sleep or are not yet
  there, with a handler in a thread beside them.

`PROJECT.json` lists the hazards with the line where each bites and the properties about it.

## Modules

| Module | Models | State and actions, against the code |
|---|---|---|
| `Store` | the store's rules | `flows`, `runs`, `tasks`, `published`, `events` are the five collections of `MemoryStore`. One action per writing method; each is atomic, as the method is under the lock of `MemoryStore`, and as `PostgresStore` shows for the transactions of `neorc/postgres/_store.py`. A refusal is a disabled action. `DropTask` is the branch of `claim_task` that fails a task of an ended run and raises. `LeaseLapses` is the passing of `lease_expires_at`. |
| `StoreProofs` | - | theorems about `Store` |
| `PostgresStore` | the transactions of the Postgres store, as an implementation of `Store` | per transaction in `txn`: the call (`req`), the statement to come (`at`), which follows `Path` of the operation and then `LogPath`, the root runs still to lock (`roots`), the locks it holds, the events to tell (`told`) and the rows written (`writes`). `Begin`, then `Lock`, `Read*`, `Write*`, `InsertEvents`, `NumberRun` one statement at a time, and `Commit` makes the writes visible. `Abort` is a lost connection, a caller that gave up or a crash before the commit; a refusal closes the transaction where the code raises. |
| `PostgresStoreProofs` | - | theorems about `PostgresStore`: it implements `Store`, and what was proved of `Store` holds of its committed rows |
| `Planner` | `plan` and `resolve`, whole | operators named after the methods of `_Planner` and `_Collector`; what Python raises is a value (`Error`, `"error"`, a `fail` action) |
| `RunProgress` | one run, planned and applied | `MakePlan` takes the snapshot and plans; `Apply` is one turn of the loop in `Scheduler.advance`; `LoseCall`/`LateCall` a call that is given up and carried out later; a step finishes with any value of `Returns` |
| `Orchestration` | scheduler, manager, workers, users on one `Store` (which it extends) | `sched` is the scheduler's `_after`, the page in hand and the calls it has yet to make. `Apply` is a step of the manager's handler of the first of them: `start` takes one to read the latest version and one to write, and may go round `StartAttempts` times. `late` holds requests nobody waits for. `worker` has the task in hand. |
| `OrchestrationProofs` | - | theorems about `Orchestration`: each of its steps as a step of `Store`, and what holds of both |
| `FailureProofs` | - | the theorem about `Orchestration` that says why trees fail; extends `OrchestrationProofs` |
| `Validation` | `check_flow`, `check_flow_set` | an operator per check, over the planner's definitions |
| `LongPoll` | `wait_for_events`, `receive_task`, subscriptions, `PostgresTaskNotifier` | per process: `unmarked` (stored, `notify` not yet called), `pending` (the event), `sending` (the attempt), `inbox` and `listening` (the link); per poll: where it is, its event, the slices left |
| `LongPollProofs` | - | theorems about `LongPoll` |
| `Credentials` | `core/_access.py`, the `/auth` routes, the Postgres credential store | `tokens`, `sessions`, `logins` are the three tables; `loginCookie` and `sessionCookie` what a browser keeps; `request` how far a `/auth` request is (`at`), from the browser until its answer arrives; `sweptAt` the sweep mark of a process. A login is `BeginLogin`, `DeleteExpired` if a sweep is due, `CountLogins`, `StoreLogin`, `Arrives`; a callback `Callback`, `TakeLogin`, `OpenSession` or a refusal, `Arrives`. `DeleteFails` is a deletion that raises, and the sign-in with it; a request keeps as `begun` when it came to its manager. `links`, `spent`, `opened`, `failedSweeps` are history for the properties. |
| `CredentialsProofs` | - | theorems about `Credentials` |
| `Worker` | the program `neorc worker start` in time: `_serve_queue`, `_prepared`, `Worker` | `program` is where `run`, `run_once` and `execute` are, and how long a failing call still hangs; `handler` the handler (and its thread), `beat` the heartbeat task beside it; `task` the row with the time its lease has left. `Tick` lets time pass once the event loops have done what is due. `missed` is history: failed beats in a row, two once there were two. |
| `WorkerProofs` | - | theorems about `Worker` |
| `LocalCluster` | `LocalCluster` and the loops in it | `loop` is where each of `_running` is, `crash` is `_crash` with `_crashed`, `owner` the call of `start` or `close` under way, `caller` a caller of `run` in `wait`. The scheduler and the workers are reduced to what moves a run of one task. |
| `FlowParser` | `parse_flow`, duplicate keys and storable text | JSON structures of any shape as records; an operator per method of `_Parser`, in two parts: whether it finds no problem, and what it makes of the value (`StepOf`, `DefinitionIn`). It hands its definition to `Validation`'s `CheckFlow`. |
| `HttpApi` | guard and permissions, routes, `STATUS_OF` and `error_from`, clients, and the programs that call | `call` is the request a program has under way: sent, let in, answered. `Enter` is `guard` and `permit`, `Serve` the route with the manager's decision and its change of `run`, `task` and `stored`, `reached` history of who got at the task of which queue, `Hear` the client and what the program makes of it (`at`). `Outage` loses a message or puts another answer in its place. |
| `FlowUploads` | `HttpApi` with the parser an upload is handed to | `ParserAssumption` gives `HttpApi`'s parameters `KeysAreUnique` and `Parses` the meaning of `FlowParser`; `StoredFlowsAreWhole` is stated here |
| `HttpApiProofs` | - | theorems about `HttpApi` |
| `MC*` | - | instances for TLC |

`Orchestration` takes the planner as a constant operator; `MCOrchestration` gives it `Planner`'s
`Plan` on an outer flow (a sub-flow step and a task) and an inner flow (a task). So nothing that is
proved about reaches a recursive operator. What the proofs need of the planner is `PlannerAssumption`, over
the states a run of each flow can be in: a plan starts only steps that were not started, and succeeds a run
by a single action while nothing is under way; carried out late, it starts nothing in a run that could
succeed, leaves the run nothing to do that it had not to do before, and finds its inputs as it would have
in time (`PlanStaysAvailable`). TLC evaluates it with the real planner on the flows of `MCOrchestration`;
`StalePlansSafe` of `run_progress` checks the same between the states of one run, on flows with loops and
fan-outs. `FlowSetAssumption` is what `check_flow_set` refuses a deploy for: a flow of a valid set calls only
flows of the set. In the same way `HttpApi` takes the parser as a parameter, and `FlowUploads` gives it.

Each module also holds *slips*: variants of a definition with a mistake that code could hold, such as a
dropped check. No specification uses one; put in place of the definition, each makes the property
named in `PROJECT.json` fail. That shows that the property depends on the code.

### What is abstracted

* Inputs, params, handler names, reasons, times and ids: no rule of the store reads them. A sub-flow
  run's id is any injective function of its parent and address (`uuid5`).
* A value is true, false, a list, or anything else: the planner tells no more apart.
* `validate_flow_set` is the parameter `ValidFlowSet` of the store, and `CheckFlowSet` in `store_trees`;
  `check_inputs` is `Fits`. A deploy checks the
  names of a call's inputs and not their types, so `Fits` may fail at run time.
* The order in which a tree's runs are finished: any.
* In `PostgresStore` a lock goes to any transaction that may have it, of which Postgres' queue is one case.
  Row locks that one statement takes and that no step waits for are part of that statement. That two
  writers never meet at a row or a unique key is what `WritersApart` says. `receive_task` hands out
  any ready task there, since `SKIP LOCKED` passes over the oldest while another transaction holds
  its row (`core/ports/_store.py:179` says "oldest ready task").
* `Validation` starts from a definition as the parser builds it; `StoredFlowsAreWhole` says what it may rely
  on. A name given both as a param and a fixed param is not modelled.
* In `Credentials` a secret is a number and its hash the same number; a provider's code is that of the
  sign-in it was asked for, so nonce and PKCE are left out. Roles and permissions are in `HttpApi`. The Postgres
  store is modelled; the memory store is the case in which no two calls overlap. A request that fails
  with an error is one that never goes on.
* A worker of `Orchestration` whose lease lapsed goes on and reports, as `Worker` does.
* The two reads of `Scheduler.advance` are one step, and so are those of the manager's `_context`: a
  run that ended in between refuses what follows, and a state only grows.
* In `Worker` a call that is answered takes no time and one that fails takes up to `FailTime`; the manager
  carried it out when it was made or never. A poll does not run out: nothing would change.
* In `LocalCluster` nothing comes between looking for a crash, the run and the events: the store is in memory
  and the event loop is one. A run has one task.
* `FlowParser` tells words by what they may name (a name, a queue only, a number, a text no store holds).
  Limits of size and depth and the form of a datetime are left out, and so is reading YAML, which ends in
  the same structures.
* In `HttpApi` there is one run and a task per queue; which refusal the manager gives is up to that state or,
  where it would take a definition or a payload to tell, free. Requests whose caller is gone are in
  `Orchestration`. The checks of a write's origin and media type are left out: the programs and the pages
  pass them. An upload is stored if the parser takes it: the rule on versions and the check of the flows as a set,
  which are in `Store`, would refuse some of these. Every answer is 200, 201 and 204 being all the same to the clients.

## Runs

| Run | Instance | Shows |
|---|---|---|
| `store_trees` | a chain of 3 runs, 2 flows, 2 versions, contents that do or do not call, deploys of up to 2 flows | `TreeShape`, `TreeEndsTogether`, `EventsTellRuns`, `LatestFlowsValid`, `ActiveOnLatest` |
| `store_tasks` | 2 runs with a task each, 2 deliveries of each | `NoTaskStranded`, `FinalStaysFinal`, `NoWorkForEndedRuns`, `LeaseExcludes` |
| `run_progress` | 3 flows with 1 lost call each; the 196 of 980 small flows that `check_flow` accepts; up to 2 iterations and branches | `NeverStuck`, `StalePlansSafe`, `InputsSettled`, `SucceededIsComplete`, `FailsForCause`, `RunEnds` |
| `orchestration` | 1 tree of 2 runs, 1 worker, uploads of the called flow, 2 mishaps, under fairness | `NoLostWakeup`, `ChildWithinParent`, `FailedForCause`, `EverythingEnds` |
| `long_poll` | 2 processes, 2 polls of which 1 in slices, 2 items, 2 mishaps, under fairness | `NeverSleepsThrough`, `AllTaken` |
| `postgres_store` | 2 transactions at a time, 2 roots, a sub-flow run, a task, 2 versions | `NoWaitCycle`, `WritersApart`, `ImplementsStore`, `RunsCommitInOrder` |
| `credentials` | 2 browsers, 2 requests, 1 pending sign-in at most, 3 secrets, 1 token life, 2 restarts or failed sweeps | `OneSessionPerSignIn`, `SessionForSignIn`, `NoSignInLost`, `PendingBounded`, `SweptMeansSwept`, `RefusedStaysRefused` |
| `worker` | 2 workers, 1 task, a lease of 12 ticks of 5 s, a beat every 4, calls that fail within 2, 2 mishaps, under fairness | `OneMissedBeatKeepsTask`, `HandlersApart`, `StopReturns` |
| `local_cluster` | 2 queues, 2 callers, 2 mishaps, under fairness | `WaitEnds`, `CloseEnds` |
| `http_api` | 6 casts of up to 2 of: scheduler, workers on the right and the wrong queue, a script with a worker's token, a page, a trigger, CI with 2179 documents; with and without access; 2 mishaps | `EndsOnlyForItsToken`, `WorkersKeepToQueue`, `StoredFlowsAreWhole`, `OutagesDecideNothing` |
| `long_poll_sliced` | polls in slices, no mishaps | violates `NobodySleepsThrough`, see below |
| `worker_heartbeat` | `worker` with calls that fail within 7 ticks | violates `OneMissedBeatKeepsTask`, see below |

`ImplementsStore` is the refinement: `PostgresStore` has `S == INSTANCE Store WITH ...`, which maps what is
committed to the collections of `Store`, and the property is that every step of a transaction is a step
of `Store` or a stutter.

*Bounds.* A tree of three runs has a run that is root, one in the middle and a leaf; nothing in the store
looks further than a run, its parent and its root. Two versions are enough for one to be replaced. Two
deliveries are enough for a late worker and the one after it. The larger flows of `run_progress` put a
fan-out over a list inside a loop, so that an iteration is wider than the one before,
and loops inside a fan-out, so that branches advance on their own. The small ones are every way for two or
three tasks to refer to each other, to metadata or to an input, beside, in and across two containers, of
each kind and each exit task or list; whether one runs is up to `CheckFlow`. Two transactions
are enough for a pair to wait for each other, or to write from what the other is about to change; the
two roots are there for uploads that lock several trees at once. A request to a transaction names ids that the
store may hold. A tick of `worker` is 5 s of the default
times; 2 mishaps are a missed beat and whatever else. Two callers and two queues in `local_cluster` are one to
crash and one to go on. The documents of `http_api` differ in one place from one of three flows: a chain of
tasks, a fan-out in a loop, a fan-out over a task before a sub-flow. A value is replaced by one of twenty, a
key by one of nine, a field is left out or added, at any depth. 228 of
them are accepted, 97 more pass the parser and are refused by `check_flow`. `Page` is 2, so that what one call
causes falls into a later page. `StartAttempts` is 3, as in the code; with one upload at most one
attempt is in vain. In `credentials` one sign-in at most may be
pending, so that two requests are at the limit; a sweep is due after one tick, as long as a row lives, so that a sign-in
comes within the interval of a sweep that failed, and after it (`SweptMeansSwept` is proved for any number of
processes and any interval). Everything that expires does so after one tick, so
that `now` covers before, at and after. With one provider the check that a callback comes to the
provider its sign-in began at is not exercised. Uploads of the called flow between the two reads of each of
`StartAttempts` tries fail a healthy run, as the code intends; `FailedForCause` names that cause, more stored
versions than tries, and the instance is too small to reach it. With
`StartAttempts` 1 it reaches it, and the property holds only because it names it.

*Mishaps* (`MaxMishaps`, `MaxLost`) are a scheduler crash or lost call, a worker gone, a lease that lapses
in a worker's hands, a cancel, a broken link, a failed call, a lost or foreign answer, a loop that crashes, a
handler that is cancelled, a wait that times out, a manager that is started again, a sweep that fails. They are bounded, so the liveness runs say: once they
stop, everything gets done.

*Deadlock* is checked in the runs of `RunProgress`, whose end is an action of its own (`Over`), of
`LongPoll` and of `PostgresStore`, where a transaction that could not go on would be a fault. `Store` and
`Orchestration` may stop: a store whose ids are used up, a deployment with nothing left to do. So may
`Credentials`, in which a request ends for lack of secrets, `Worker` and `LocalCluster`, whose programs end,
and `HttpApi`.

## Fairness

The code has loops that never give up: `Scheduler.run` and `Worker.run` log an error and go round again.
So weak fairness is put on the scheduler's steps together, on each worker's steps, and on a
lease that nobody extends (time passes). There is none on users, late requests or mishaps. In
`RunProgress` the three conditions are weak fairness with `ENABLED` written out, since TLC evaluates the
planner slowly under `ENABLED`. In `LongPoll` the loops of a process and the timers of its polls are
weakly fair. In `Worker` the steps of a program, those of its heartbeat and time are weakly fair: an event
loop goes on, handlers return, and a call has a timeout. In `LocalCluster` so are the loops, each caller, and
an owner that has begun to start or close; nothing makes the owner close, or a caller time out.

One scheduler runs in a deployment (`docs/working-notes/decisions-from-past-plans.md`), so two at once
are not modelled; what a lost one left in flight is.

## Proofs

A theorem is a property of a run, for every value of the constants. Each has an inductive invariant, which TLC
checked on the run's instance before it was proved; each invariant is kept action by action, a lemma for those
that disturb it and one for the rest.

`StoreProofs`, for any number of runs, flows, versions and tasks, from `StoreAssumption` (the set of run
ids is finite; the id of a sub-flow run is injective and never that of a root; `None` is no other value):

* `Typing`, `TreesAreTrees`, `TreesEndTogether`, `ActiveRunsOnLatest` from `TreeInv`. It joins
  four parts because none is inductive alone: that a sub-flow run started now lands in a live tree needs
  `TreeShape` (its root is its parent's root) and `TreeEndsTogether` (an active parent means that no run
  of the tree failed). That finishing a tree leaves no active run behind needs the root that `TreeShape`
  gives each run.
* `TasksNotStranded` from `TaskInv`, the typing and `NoTaskStranded`.
* `EndedStaysEnded` and `WorkOnlyInActiveRuns`, action properties, from the typing.
* `LogTellsRuns`. That each start and end is told once is `LogInv`: what a step appends is exactly the starts and ends of the runs it changes, each
  once; a finished tree appends an order of its runs, of which only the set matters. Order is `OrderInv`, which
  joins `TreeInv` and `LogInv`: an order that is in the log outlives all that does not append its first event again
  (`OrderGrows`). Only a start could; it comes once, of a run that has neither an end nor, by `TreeShape`, runs below
  it in the log, and whose parent, being active, has no end there. The events of finished tasks are not counted.
* `LatestFlowsStayValid` from `FlowsInv`: the latest version of a flow after a deploy is the one the deploy was
  checked with, since versions are only added.
* `DeliveredOnce` from `LeaseInv`, `TaskInv` with `NeverDelivered`: a task not yet published has no attempts. It is
  about deliveries; a worker that claims a running task again is let do so, by the code and by the model.

`PostgresStoreProofs`, for any number of transactions at once and any set of calls the manager makes, from
`PostgresAssumption` (`StoreAssumption`, the calls are of the forms of `Request`, and `Before` is a strict
total order of the run ids). All of them rest on `TxnInv`, which joins:

* `RowsInv`: the committed rows keep `TreeInv` and `TaskInv` of `StoreProofs`, tasks are of runs that exist, a run
  not there has no position.
* `Placed`: each transaction is at a statement of its call, holds the locks its writes need by then, and none
  that comes later in the lock order; of root runs it holds only some before all that are left to lock.
* `Apart`: no two transactions hold locks that conflict.
* `AllTrue`: what a transaction has read, and what it has written, is still what it would read and write now
  (`IsTrue`). This is what makes a transaction one step at its commit. A commit changes only rows that
  its locks speak for, or rows that are new; so the lemma `TruthStays` goes through what another transaction
  relies on and finds a lock of its own in the way of every change. The least obvious: `store_flows` finds
  the trees to cancel before it locks them, and writes after; the exclusive upload lock keeps any run from
  starting meanwhile, so the trees it finds again are among those it locked.
* `StartsFresh`: two calls never draw the same id.

From it:

* `StoreImplemented`, the refinement: a commit is the operation of `Store` of that call, any other step leaves the
  collections of `Store` alone.
* `NobodyWaitsInACycle`. Of any set of transactions take one that asks for no lock, or else one whose wanted
  lock is as late in the order as any: the events, a task, the root that is last in `Before`, the uploads. It
  waits for none of the others. There is a last root since run ids are finite in number.
* `WritersStayApart`: rows written are those the locks held speak for, and these are apart.
* `CommitInOrder`: a position is drawn under the event lock, so it is still the highest at the commit.
* `CommittedRowsAreRight`: the typing, `TreeShape`, `TreeEndsTogether`, `ActiveOnLatest` and `NoTaskStranded` of
  `Store` hold of what is committed. The steps come from `StoreProofs` by instantiation.
* `CommittedLogIsRight` and `CommittedStepsAreRight`: so do `EventsTellRuns` and `LatestFlowsValid`, and the action
  properties `FinalStaysFinal`, `NoWorkForEndedRuns` and `LeaseExcludes`. With them every property that the runs
  check of `Store` is proved of the rows. The refinement allows a step that `Store` does not have, handing out a
  ready task that is not the oldest (`SKIP LOCKED`); what each property asks of it is proved on its own (`ReadyKeeps`).

`OrchestrationProofs`, for any number of runs, workers and flows and any planner that `PlannerAssumption` is
true of:

* `SystemRunsOnStore`: every step of the system is a step of `Store` or leaves the store alone, so that all
  that is proved of `Store` holds in it. It needs to know that what is in flight names runs, steps and
  attempts that exist (`SysBasics`).
* `ChildrenWithinParents` from `TreesInv`. A sub-flow run is started under its active parent, so the danger is
  a parent that succeeds while a run below it is active; `succeed_run` does not look. A request to succeed is
  made by a plan that found every step finished, and stays in flight for any time: the invariant has to say
  that the run is still complete then (`SuccessesSettled`). That is so because a step of a run only comes
  to be by a plan, late or not, and no plan of a complete run starts one.
* `WakeupsAreKept` from `WakeInv`. A run that could go on has an event the scheduler has not put behind
  it. The page in hand is between: its runs wait to be looked at, are rejected or to be failed, or had all
  that was planned requested (`AllTakenUp`), and `_after` moves over the page only when all of it is done
  (`PageKept`). That a request which was made and lost leaves an event is this: `_after` stays where it is.

`FailureProofs`, under the same assumptions and `FlowSetAssumption`:

* `FailuresHaveCauses` from `CauseInv`. A failed tree shows its cause in the store: a failed task; a state one of
  its runs grew from, in which the planner gave that run up; a called flow with a version the call does not
  fit, or with more versions than a start is tried. The property says nothing of requests, and a
  request to fail a run may arrive at any time after it was made; so the invariant gives each of them, and each
  refusal the scheduler has yet to act on, its cause already (`FailuresCaused`, `RefusalsCaused`), and causes
  stay (`CauseStays`). That a refusal has one is the heart (`RefusedForCause`). `publish_task` and `succeed_run`
  are refused only to a run that is over, since what was planned stays available while the run goes on. A start is
  refused also when the called flow does not fit, or on the last try, and each try in vain saw
  a version that was stored since (`AttemptsCounted`). That the called flow is there at all needs `LatestFlowsValid`.

`LongPollProofs`, for any number of processes, polls and items: `PollsDoNotSleepThrough` from `PollInv`. The
invariant is the property with the types; what it takes is that each step that could leave a poll asleep beside
an item leaves news under way to it: not marked yet, marked, being sent, in an inbox, or due when a broken link is
made again. Only an announcement that failed twice is excused, as the code does.

`WorkerProofs`, for any number of workers and any times, under `TwoBeatsFit`: two beats and a failing call fit
into the lease with a tick to spare. That is true of the default times for calls that fail within 10 s
(`worker`), and false for answers of 35 s, where `worker_heartbeat` shows the property violated.

* `MissedBeatKeepsTask` and `HandlersStayApart` from `LeaseInv`, which bounds the lease that is left by where
  the heartbeat is and whether a beat was missed; a second worker can come to the task only when the
  lease lapsed, so only when the first missed two.

`CredentialsProofs`, for any number of processes, browsers, providers, people and requests at once, from
`CredentialsAssumption` (lifetimes are positive, `None` is no secret, who is allowed has an account, the
requests are finite in number):

* `CredentialsTyping`. The work is in the requests: `RequestShapes` says what a request is at each stage.
* `OneSession` from `SignInInv`. That two sessions of one sign-in are the same is not inductive: a step
  that opens one must know that no other was opened for its sign-in. So the invariant follows a sign-in
  from hand to hand: stored, it was never taken; once taken it is in the hands of one request and has
  opened no session; what opened one was taken.
* `SessionForItsSignIn` from `OwnInv`, which follows a state from the redirect to the session: an answer
  that sets a login cookie brings the redirect of its sign-in; the cookie is of a sign-in the browser was
  redirected for; a callback, which carries the cookie's state, is for that sign-in; and the stored
  sign-in, on which the provider is checked, and the redirect agree on the provider.
* `RefusedForGood`, an action property, from the typing: ids are drawn anew and times only pass.
* `MarkedIsSwept` from `SweepInv`. The mark is set before the rows go, so the invariant follows each mark: the rows
  that had expired by then are gone, or the sweep that set it is under way in one of the requests, or it has
  failed. A mark is not of the future, and a request that did not sweep came within an interval of the mark its process
  had then (`SweepInvBegun`). A failed sweep excuses what is left only until the interval is over.
* `SignInsAreKept` from `KeptInv`, which speaks of the redirects on their way to a browser too.
* `PendingIsBounded` from `PendingInv`: what is stored above the limit was counted below it, by a request that is
  among those still storing until then.

`HttpApiProofs`, for any cast of programs, any queues, tokens, documents and mishaps, and any parser, from
`HttpApiAssumption` (a worker works on a queue, a worker's or script's token is for one, other credentials for none):

* `EndsForTokenOnly` and `TokensKeepToQueue` from `ApiInv`. What a program is told depends on who it is and what
  it asked some steps before, so the invariant follows a request (`InOrder`): it is one its kind of program
  makes, all of which its role is let do; past the guard it is about the queue of its token;
  what it gets at by a task's id, be it a heartbeat or a report that is refused, was ensured to be on that queue; an access error is
  decided only for a token that is not accepted or is for another queue (`TokenRefused`); a reply is the manager's, with
  that decision, or comes from elsewhere (`IsReplyTo`).
* `DecisionsDecide`, an action property, from the same: a reply from elsewhere crosses the client as a success or as
  the manager not being there, whatever its status (`Crossing`), and on neither does a program end, fail or drop.

Only model-checked:

* All liveness, which TLAPS does not do under fairness.
* All of `RunProgress`, and `StoredFlowsAreWhole`: they are about what the recursive planner and parser compute,
  which is out of the prover's reach, and so is a module that reaches them. What the proofs need of the two
  is assumed, and TLC checks it.
* `LocalCluster`, whose properties are liveness.

The typing of `Store` and of `Credentials` is only proved.

## Disagreements with the documentation

* *A wakeup may be lost* (`long_poll_sliced`). `wait` clears its event also when it times out. An
  announcement that arrives after the timer fired and before the waiter goes on is cleared, and
  `receive_task`, which waits in slices for a client over HTTP, waits on without reading the store. The
  task is received at the next announcement or the next poll (`AllTaken`). A few lines of asyncio, with
  both timers due in one turn of the loop, show it with Python 3.11. From 3.12 on, whose `wait_for` cancels the waiter
  itself, an announcement just before the timer goes the same way, so `TimerFires` does not ask whether the event is
  set. `wait_for_events` and polls in the
  same process read the store after every wait and are not affected (`long_poll`).
* *One missed beat may lose the task* (`worker_heartbeat`). `HEARTBEAT_FRACTION` says that it does not. The
  heartbeat waits for the answer of `extend_lease` as long as for a poll's, 35 s with the defaults, and
  sleeps for 20 s after it: the next beat comes 75 s into a lease of 60 s. With calls that fail while
  connecting, within 10 s, the comment holds (`worker`).

Seen while modelling, and left without a run since the code's own comments or its callers settle them:

* *More sign-ins than the limit.* `core/ports/_credentials.py:83-85` says of `add_login` that "counting and storing
  are one step". The Postgres store counts and inserts in one statement, but two such statements at once
  each count without the other's row, as the comment beside the statement says. `PendingBounded` is what
  holds: the limit is passed by no more sign-ins than were being stored at once.
* *A repeated start may be refused.* `Manager.start_sub_run` says that "starting the same address again returns
  the run already started". It reads and checks the latest version of the called flow first. After the
  sub-flow run succeeded and a version with other input types was uploaded, a late repetition is refused.
  Nobody waits for that answer, so it does no harm with one scheduler.

No disagreement, but to be seen in the models or beside them:

* A task inside a fan-out, inside a loop, that refers to another task of its branch gathers that
  branch over all iterations so far. Where the fan-out is over a task of the same loop, each iteration is
  wider than the last, and the run fails in the second one, whose last branch is new (`BranchIsNew`).
  `check_flow` accepts such a flow; the planner's tests expect the failure.
* Sign-ins in two tabs share the login cookie. The answer to one that failed clears it, and the other is
  then refused as not the browser's own, and has to be begun again.
* A handler that raises `CancelledError` ends its worker's loop in a `LocalCluster` as cancelled, which
  `_finished` does not take for a crash: the queue is left without a worker and a wait without a timeout
  goes on. `WaitEnds` excludes these queues (`Deserted`).
* Two calls of `start_workers` at once would both start a worker for a queue, of which `close` stops one. The
  cluster of the model has one owner that makes one call after the other.
* A success that does not come from the manager is taken as such by the calls that do not read its body
  (`publish_task`, `claim_task`, `report_finished` among them). `OutagesDecideNothing` is about refusals.

## Not modelled

* The encoding of values and of rows, limits of size and depth, and YAML as text: pure functions, for tests on
  inputs. A deployment's configuration (`neorc/auth/_config.py`) and the arguments of the programs are of
  that kind too.
* The provider's protocol and its tokens (`neorc/auth/_oidc.py`): it takes another party's cryptography.
* Listings and their pages, the UI and the schema's migrations: they change no state of the system, or are run
  before it.
* Two schedulers at once, which a deployment does not have.

## What would come next

`StalePlansSafe` and `NeverStuck` of `RunProgress` for every flow, by hand or in a prover with induction over data:
they are what `PlannerAssumption` takes from the planner.
