# A verification project for dealbot

Dealbot measures Filecoin storage providers. A *controller* keeps a table of tasks (storage and
retrieval deals to make) in PostgreSQL; any number of *daemons* (dealbots) pop tasks from it over
HTTP, carry the deals out against a Lotus node and report what became of them. This directory holds
TLA+ models of the parts of that system whose correctness is a matter of order: concurrent requests
on the task table, retried transactions, crashes, a pool of goroutines around a loop with a timer, the
firings of a cron table, the chain of published records, and deals that follow a node's updates.
TLC checks them on small instances, TLAPS proves the central invariants for every instance.

## Inventory

| part | state it keeps | operations | interacts with | what is hard about it |
|---|---|---|---|---|
| task table `controller/state/statedb.go` | `tasks` (worked_by, data, created, tag, parent), `task_status_ledger`, `drained_workers`, `finalizedData`, `record_updates` | NewStorageTask/NewRetrievalTask (saveTask), AssignTask (popTask), Update, ResetWorkerTasks, Delete, DrainWorker, UndrainWorker, queries | HTTP handlers, one goroutine per request; the scheduler; metrics | transactions that are run again with what their closure captured; calls of several transactions; three copies of a task's status and two of its owner |
| scheduler `controller/state/taskscheduler.go` | cron entries in memory, `worked_by = dealbot_scheduler` | scheduleTask, unassignScheduledTask, recoverScheduledTasks, job.Run/runTask/createRunableTask | saveTask and AssignTask schedule; a firing saves a child task | entries are lost in a crash; firings overlap; check and creation are separate |
| record chain `PublishRecordsFrom`, `GetHead` | LATEST, PREVIOUS, UNATTACHED and ATTACHED rows of `record_updates` | completeHandler attaches a worker's finished records to a new head | publisher | published after the commit, out of order or not at all |
| publishers `controller/publisher` | started flag, head | Start, Publish, Shutdown | record chain | a failed Start leaves a publisher behind |
| controller and HTTP API `controller/controller.go`, `tasks.go` | listeners, publisher | one handler per call | all of the above | order of Shutdown |
| engine `engine/engine.go` | channels ready, released, shutdown, stopped; popTimer; count of active tasks; a goroutine per task | taskLoop, tryPopTask, runTask, run, Close, new (ResetWorker) | controller (PopTask, GetTask, UpdateTask, ResetWorker), Lotus node | lost wakeups, slots counted in one goroutine and freed in others, timer races, shutdown under running deals |
| deals `tasks/storage_deal.go`, `retrieval_deal.go` | stage and its details, stage timer, the node's updates | MakeStorageDeal, MakeRetrievalDeal | engine (updateStage, releaseWorker), node | timeouts against late updates, early release |
| task model `tasks/model.go` | serialized task | New, Reset, Assign, MakeRunable, UpdateTask, Finalize, parseFinalLogs | task table | what is archived or dropped on a transition |
| stage timeouts `tasks/stage_timeouts.go` | none | ParseStageTimeouts | deals | case of stage names |
| drain client `commands/drain.go` | none | drain, poll isActive, complete | HTTP API | a poll that fails counts as idle |
| spawners `controller/spawn` | local: processes by region and id | Spawn, List, Get, Shutdown | daemons handlers | overwritten ids |
| daemon `daemon`, `commands/daemon.go`, `context.go` | process context | interrupt, Shutdown | engine.Close | cancelled before it is closed |
| GraphQL, web application, metrics, Lotus set-up, generated IPLD code | - | queries, encoding, I/O | - | not modelled: no state of their own |

What makes each correct:

- task table: one owner per task and the same in column and data; ledger and data agree; a request is
  given a task that is its worker's; a drain takes effect; only idle tasks are deleted.
- scheduler: exactly one cron entry per live schedule, at most one unfinished child per schedule, no
  firing that hangs, no task taken from a worker, entries that go with their tasks. The code keeps to some of
  this only while firings of a job do not overlap: the models say which, and how far.
- record chain: one chain with one head, every finished record in it, and a published part that is
  complete, grows, and heals after failures.
- engine: slots are counted right, no more tasks than workers (it may be one more), a free worker leads to a
  pop, giving a slot back blocks nobody for good, Close returns and nothing runs on a closed node.
- deals: every deal ends; its outcome is that of its own deal among all the node tells of; its stages are
  archived in order, the ids in them are not lost; what it put on the disk and into the node's store is removed.

The full list of hazards, each at its line, is in `PROJECT.json`.

## Modules

| module | what it is |
|---|---|
| `TaskBoard` | abstract specification: a board of tasks, each open, kept by the scheduler, or held by one worker |
| `StateDB` | the task table, its handlers step by step, the cron table, crash and restart; implements `TaskBoard` |
| `StateDB_proofs` | proofs about `StateDB` |
| `MCStateDB` | instances of `StateDB` for TLC |
| `WorkerPool` | abstract specification: a pool of slots, which starts at most one more task after it has been told to close |
| `Engine` | taskLoop, the goroutines of runTask, popTimer, run, Close; implements `WorkerPool` |
| `Engine_proofs` | proofs about `Engine` |
| `MCEngine` | instances of `Engine` for TLC |
| `Scheduler`, `Scheduler_proofs` | jobs, cron entries, firings and the children they make; its proofs |
| `RecordLog` | abstract specification: a log of records, of which a growing part is shown |
| `RecordChain`, `RecordChain_proofs` | completeHandler, PublishRecordsFrom and the Pando publisher; implements `RecordLog`; its proofs |
| `StageLog` | operators: a task's stage, the archive of stage details, what Finalize reads from it |
| `StorageDeal`, `StorageDeal_proofs` | one storage deal against a node with other deals; its proofs |
| `RetrievalDeal`, `RetrievalDeal_proofs` | retrieval deals of one daemon on the same payload; its proofs |
| `Channels` | lemmas on sequences as Go channels, used by the proofs about deals |

### StateDB

`row`, `workedBy`, `data`, `ledger`, `drained` and `records` are the tables; `jobs` is cronSched, the one
thing a crash loses; `req` says for each of the concurrent HTTP handlers how far its call has come. A
task is a number, by the order of the `created` column. Of the serialized task only the status and the
owner are kept, since nothing else is decided on; whether it has a schedule never changes and is a
constant.

Transactions are SERIALIZABLE, so one that captures nothing is a single action (`Update`,
`ResetWorkerTasks`, `DrainWorker`, ...). popTask's closure writes to variables declared outside it, so it
is modelled attempt by attempt: `PopOldest` or `PopNone` runs the closure, `PopCommit` commits, `PopRetry`
is transact's second attempt, with `task` and `scheduled` as they were left. A commit whose
acknowledgement is lost (`AckLost`) takes effect and is retried or fails. Calls of several transactions
are several steps: AssignTask (drain check, pop, scheduling, loop), Delete (check, delete), saveTask
(commit, schedule), Update (commit, downstream retrieval). `Abandon` is an error or a cancelled request
between any two of them; `Crash` and `Restart` come at any time. Requests are arbitrary: any worker may
update any task with any status the engine reports, so lost, repeated and reordered calls are included.

### Engine

`loop` is the position of taskLoop and then run; each case of its second select is an action. `timer`
distinguishes armed, expired and about to send, and a tick in the channel: Go's runtime takes a timer off
its heap before it sends, and Stop may fall in between (timer channels are asynchronous for a module that
declares `go 1.17`). Then Stop returns false, the drain finds nothing, and the tick comes later. So the pool
of slots that `Engine` implements has one slot more than there are workers. `runner` holds the goroutines of
runTask; one that returns without `releaseWorker()` becomes "lost", and keeps its slot counted. The
controller, the node and the deals answer arbitrarily. A nil dereference ends the process (`panicked`).
`WaitedFor` is the empty set because run hands its `sync.WaitGroup` to taskLoop by value.

### Scheduler

`row`, `owner`, `sched` and `open` are what the tables say of tasks with a schedule, `job` the objects behind
cron's entries, `firing` the goroutines cron starts, `pending` the calls of scheduleTask that have been
decided on and not made. job.Run and runTask are modelled call by call: a firing reads idChan (`Receive`),
loads the task (`Load`), reschedules it with what it has loaded (`Reschedule`), or checks the expiry, counts
the unfinished children and creates the next. Everything else goes on in between: the task is edited,
popped, deleted, its children end and are taken back by a late update (`ReopenChild`), the process crashes.
Schedules are version numbers, since the code only compares them; those in `Invalid` are the ones cron or
time.ParseDuration refuses; a limit may pass at any moment. The slots `Jobs` and `Firings` stand for what Go
allocates. `open` and `finished` count a task's children.

Nothing keeps a job from firing while a firing of it runs, and scheduleTask, the deletion of an expired task
and the count of its children may fail with no more than a line in the log. All of that is in the model.
`trouble` is a history variable: for each task, whether since the start of the process a job of it fired while
another firing of that job was under way ("overlap"), or scheduling, unassigning or deleting it failed
("forgot"); and whether since a child was last created a count failed ("count"), or a child was reopened
between the count and the creation ("reopen"). No guard
looks at it; the properties do, to say under which of these each of them still holds.

### RecordChain

`row` holds the finished records of record_updates, `update` the blocks of the chain, `status` which of them
is LATEST; `meta`, `latest` and `root` are the publisher's blocks, its datastore's reference and what it
serves. PublishRecordsFrom is a serializable transaction: `Complete` takes its snapshot, `CommitUpdate`
commits unless the head has moved, `RetryUpdate` runs it again, and a commit may be acknowledged or not.
Publish is three steps under the mutex (`StoreMetadata`, `SetLatest`, `Announce`), each of which may fail.
`Shutdown` closes the publisher while requests are still served, as the controller does. Updates and
metadata are numbered instead of hashed; `Back`, `Linked` and `Reach` say what a block leads to.

### StorageDeal and RetrievalDeal

Both follow the executor's goroutine from its first stage to runTask's last update. `row` is the task at the
controller, which every updateStage rewrites by the operators of `StageLog`; a report that fails may or may
not have reached it. The node is external and does what the code prepares for: it publishes each change of
each deal to every subscriber, any update with or without stages, and may report a state again (`Repeats`).
In `StorageDeal` there is one deal of the daemon (`Own`) among other proposals, its generated file and
import, and the slot it gives back on the way (`lastState`, `released`). In `RetrievalDeal` the deals all
ask one miner for one payload, the case in which they interfere: identical retrievals are cancelled, imports
and the exported file shared. The timer of a stage is "armed" or "fired" with its tick in the channel;
`Shutdown` cancels the context, upon which calls fail. Time is measured in the bytes the deal has been told
of, all that `FirstByteIsFirst` needs.

## Runs

| run | instance | what it shows |
|---|---|---|
| `statedb_requests` | 3 tasks (plain with a downstream retrieval, tagged, scheduled), 2 workers (one with a tag), 2 handlers, 2 attempts, lost acknowledgements, 1 final record per task | `LedgerAgrees`, `OwnerAgrees`, `CommittedReplies` and the refinement `ImplementsBoard` hold over all interleavings (about a million states) |
| `statedb_schedules` | 4 tasks (plain, scheduled, scheduled without an owner, malformed), 1 worker, 2 handlers, 1 attempt | `TypeOK`, `OneJobPerSchedule` over crashes, and the liveness property `DrainTakesEffect` |
| `statedb_stale` | 1 task, 2 workers, 2 attempts | *violation* of `RepliesWithAssigned`: two workers' requests are answered with the same task |
| `statedb_delete` | 1 attempt | *violation* of `DeletesOnlyIdle` |
| `engine_slots` | 2 workers, 3 goroutines, deals that release early or not at all, under fairness | `TypeOK`, `SlotsAccounted`, `AtMostOneMore`, `NoLostWakeup`, the refinement `ImplementsPool`, and the liveness properties `PopsAgain`, `ReleasesGoOn` and `CloseReturns` (600,000 states) |
| `engine_close` | 2 workers, 3 goroutines | *violation* of `NodeOutlivesDeals` |
| `engine_fetch` | the same | *violation* of `EngineSurvives` |
| `scheduler` | 1 task, 3 schedules of which one has a limit and one is invalid, 2 jobs, 2 firings, every call failing, 2 children, crashes, under fairness | `TypeOK`, `AtMostOneEntry`, `NeverForgotten`, `NeverFromWorker`, `NewChildAlone`, and the liveness properties `FiringsEnd` and `SchedulesEnd` (170,000 states) |
| `record_chain` | 2 rows, 2 records of which one is excluded, 2 workers, 2 handlers, 3 updates, 1 fault | `TypeOK`, `NoFork`, `NothingLost`, `Traversable`, `SelfHealing`, `NeverWithdrawn`, the refinement `ImplementsLog`, and that `RequestsEnd` |
| `storage_deal` | 1 other deal, 6 updates with or without stages, 2 faults, a repeated Sealing | `TypeOK`, `OutcomeIsOwn`, `FileServesImport`, `IdsDropOnlyOnRepeat`, and that `DealEnds` |
| `retrieval_deal` | 2 deals, 1 progress event each, 1 fault | `TypeOK`, `OutcomeIsOwn`, `StagesArchived`, `NothingLeft`, and that `DealsEnd` (nearly a million states) |
| `first_byte` | 1 deal, 2 progress events, a retrieval left over | *violation* of `FirstByteIsFirst` |

Why the bounds are enough. Two handlers are what every race in the task table takes: one between two of
its steps, one that interferes. Two attempts let a failed attempt leave something behind for another to
find; the third could leave nothing new, as each overwrites the same two variables. `MaxRecords` only caps
a counter, of which nothing depends on more than zero or one. In the engine two workers distinguish "one
free" from "none free" and "all free", and are the fewest with which the limit is exceeded; of three
goroutines the third is the task above the limit, or the one started while a deal goes on after its early
release. Slots in `released` are counted as well, so that `AtMostOneMore` could be broken with three; that
`ImplementsPool` has a bound on its slots comes into its own with more, for which the theorem speaks. A
"retrieval" deal does in the engine what a "storage" deal does that gives its slot back at the end, so that
one kind stands for both. `Runners` bounds goroutines that the code leaves unbounded.

The tasks of the scheduler do not meet, so that one is enough; two firings overlap with each other, and two
jobs are the entry they fire from and the one that is made next to it. Three schedules let a task change
twice. `MaxChildren` bounds the children of a task, unfinished and finished: with two there is one that is
unfinished, or taken back, when the next is made. Beyond the bound a creation fails, as it may anyway.

In the record chain two handlers race for the head and for the mutex; three updates put one between two
others; one fault hits any step, and its effects are repaired or not by what follows. Six updates take a
storage deal through all its states with Sealing twice, or back to the transfer once before it fails; two
faults are one in the deal and one in its clean-up. Two retrievals are what it takes to cancel, overhear and
remove another's. The proofs do away with these bounds for all but the properties listed as only model-
checked.

Deadlock is checked in every run. `StateDB` and `Scheduler` do not stop; `Engine` may, when the process has
died or Close has returned and no deal is left but one that waits in a release nobody receives any more, a
deal when it has ended (`Ended`), and `RecordChain` when the bounds are used up (`Finished`): any other
deadlock is an error TLC reports.

Limits of the passing runs, all of them consequences of what the violation runs show or of the hazards
listed:

- `OwnerAgrees` and the refinement need that retries and ownerless scheduled tasks do not meet: with both,
  the stale `scheduled` of a failed attempt makes AssignTask unassign a task its worker holds in data. So
  `statedb_requests` has no imported tasks and `statedb_schedules` no retries. `DrainTakesEffect` needs the
  same.
- `OneJobPerSchedule` needs that no acknowledgement is lost, else saveTask gives up between row and entry.
- `CommittedReplies` says how far `RepliesWithAssigned`, which `statedb_stale` violates, holds with retries;
  and `DrainTakesEffect` what a drained worker can rely on though a request past the check is still served.
  Its run has no retries, for the reason given first.
- `AtMostOneMore`, `ImplementsPool` (with `Workers + 1` slots) and `ReleasesGoOn` say how far
  `AtMostWorkers` holds when a timer sends its tick after it was stopped. The task above the limit may stay:
  every release leads to a pop whatever the count.
- `AtMostOneEntry` and `NeverFromWorker` are about tasks of which no firings have overlapped since the
  process started; `NewChildAlone` besides about creations whose count succeeded, and under which no child
  was reopened. Overlap takes a firing that lasts as long as the schedule's period, a minute at least; cron
  does not see to it. Where they overlap, two entries, two children, and a worker's task taken away are
  possible.
- `NeverForgotten` holds whatever overlaps, but not for a task that scheduleTask failed for (invalid
  schedule or limit, or unassignScheduledTask) or whose deletion failed: it stays without an entry until the
  next restart.
- `FiringsEnd` leaves out a firing that waits on idChan for what an overlapping one has received.
- `SchedulesEnd` is up to restarts, each of which grants a schedule its whole limit again, and to tasks that
  scheduling, unassigning or deleting has failed for: their rows stay the scheduler's.
- `IdsDropOnlyOnRepeat` has the one exception the code has: the deal's id is logged once, and an update for
  the stage the row shows already replaces the details that have it. That a finished record has its ids is
  claimed by no property: a deal that gets active in an update without stages never logs its id
  (storage_deal.go:387).
- `FileServesImport` says which file may stay: that of an import that could not be removed, and
  it does stay. An import whose answer is lost is unknown to the executor and stays in the node's
  store.
- `NothingLeft` is about deals none of whose calls failed.
- The liveness properties of `Engine` are stated up to a panic.

### Fairness

`StateDB!FairSpec`: a handler that has begun a call gets on with it (weak fairness of `Continue`), as a
goroutine of the HTTP server does on calls that all have a deadline or an end; nobody is assumed to send
requests, to crash or to recover. `Engine!FairSpec`: taskLoop gets on (its calls have timeouts of two and
three seconds), the timer expires and sends, the caller of Close is scheduled once `stopped` is closed, and
a select that finds released ready again and again receives from it in the end (strong fairness of
`TakeReleased`): it chooses at random among the cases that are ready. Of deals, of the node and of the
controller nothing is assumed: `PopsAgain` does not need a deal to end. `Scheduler!FairSpec`: goroutines get
on, cron fires an entry again and again (strong fairness of `Fire` for each job: a slot for the firing is
free only now and then), the clock passes a limit; the load of a task does not fail for ever (strong
fairness), as the database comes back. `RecordChain!FairSpec`: a request gets on, and a mutex that is free
again and again is had in the end (strong fairness of `StoreMetadata`), which Go's sync.Mutex sees to;
nobody is assumed to complete workers or to restart. `StorageDeal!FairSpec` and `RetrievalDeal!FairSpec`:
the executor gets on and a timer that is armed fires. Calls are not assumed to fail, save under a cancelled
context, where each does; the miner and the node owe nothing, so that the deals end by their timers if by
nothing else.

## Findings

Defects of the code, each shown by a run of its own:

1. `statedb_stale`: popTask keeps the task of a failed attempt (statedb.go:431).
2. `statedb_delete`: Delete acts on a check from an earlier transaction (statedb.go:1081, 1091).
3. `engine_close`: the wait group is copied, Close does not wait for deals (engine.go:159).
4. `engine_fetch`: a failing GetTask ends the daemon by a nil dereference (engine.go:331, 341).
5. `first_byte`: lastBytesReceived is never assigned, so that the time to the first byte is that to the last
   event with bytes (retrieval_deal.go:195, 263).

What the code does otherwise than its comments or documents suggest, in interleavings that are rare or where
the words may be meant loosely. Each is stated as a definition that the model violates, beside the
property that says what does hold; to see the trace, put the definition in the place of the properties of
the configuration named.

| definition | configuration | what happens | what holds |
|---|---|---|---|
| `DrainedGetsNothing` | `StateDB_schedules.cfg` | a worker on the "list of workers to not give work to" (statedb.go:1002) is given a task by a request that was past the check (statedb.go:354) | `DrainTakesEffect` |
| `AtMostWorkers` | `Engine_slots.cfg` | a tick that is sent after Stop leads to one task above "how many tasks to accept at a time" (engine.go:194, README.md:68); it takes two workers, and a tick held up for the time of a pop | `AtMostOneMore` |
| `EveryChildAlone` | `Scheduler.cfg` | two overlapping firings both find no "previous generated task that is not yet finished" (taskscheduler.go:119, 121) and both make a child; so does one whose count fails | `NewChildAlone` |
| `UnassignsOnlyScheduler` | `Scheduler.cfg` | of two overlapping firings of a task that lost its schedule the first unassigns it, a worker pops it, and the second takes it from the worker (taskscheduler.go:47-48) | `NeverFromWorker` |
| `FiringsReturn` | `Scheduler.cfg` | of two overlapping first firings one waits for ever on idChan (taskscheduler.go:36) | `FiringsEnd` |
| `FileReclaimed` | `StorageDeal.cfg` | when the import cannot be removed the file stays (storage_deal.go:419), though it is to be deleted "no matter what ended up happening with the deal" (storage_deal.go:425) | `FileServesImport` |

## Proofs

All theorems hold for every number of tasks, workers, handlers, goroutines and deals, from the assumptions
on constants that the modules name (`ConstantsAssumption`, `EngineAssumption`, `StorageAssumption`,
`NullAssumption`, `RetrievalAssumption`).

`StateDB_proofs`

- `TypeCorrect`: `Spec => []TypeOK`. `TypeOK` is inductive by itself; one lemma per group of actions.
- `LedgerCorrect`: `Spec => []LedgerAgrees`, inductive given `TypeOK`: every step writes both or neither.
- `OwnerCorrect`: `Spec => []OwnerAgrees`, assuming `NothingLeftBehind` (one attempt, or no imported tasks).
  `OwnerAgrees` is not inductive: it needs that a handler that will call scheduleTask does it for a task
  with a schedule (`FlagsSound`), else scheduleTask would unassign a worker's task. `OwnerInv` conjoins
  them.
- `BoardImplemented`: `Spec => ImplementsBoard`, same assumption; step by step, each action maps to a step
  of the board or to a stutter, `OwnerInv` being needed for updates and resets.
- `RepliesCommitted`: `Spec => CommittedReplies`, with any number of attempts and lost acknowledgements.
  Needs that a closure run for the first time has no task from before (`AttemptsSound`), so that what it
  returns without a retry is what it has just committed.
- `JobsCorrect`: `Spec => []OneJobPerSchedule`, assuming `NothingLeftBehind` and `~AckLost`. The invariant
  (`EntryInv`) adds what a task has that is not the scheduler's, no entry and nobody about to make one, and
  that a controller that is down has no handlers; of deleted tasks nothing is said, as Delete leaves their
  entries in cron. Without `~AckLost` it does not hold: a saveTask whose commit is not acknowledged fails
  before scheduleTask, and the task has no entry until the next start (the hazard at statedb.go:808).

`Engine_proofs`

- `SlotsCorrect`, `EngineTypeCorrect`: together inductive (`Counted`), with the fact that a goroutine that
  has not started holds no slot; the lemmas on cardinalities say what taking and giving back a slot do.
- `OneMoreAtMost`: `Limited` counts what asks for a pop: ready, an armed timer, an expired one, a tick in
  its channel. Stop and drain leave at most the tick about to be sent, so that besides what is active there
  is at most one asked for (`OneAsk`) once the limit is reached, and none once it is exceeded.
- `ReleaseFindsRoom`: while more than one task holds a slot, released has room: by `SlotsAccounted` and
  `AtMostOneMore`. That the last one gets on is `ReleasesGoOn`, left to TLC.
- `WakeupsKept`: `NoLostWakeup` is inductive given the types; no assumption on the timer.
- `PoolImplemented`: every step of `Engine` is one of `WorkerPool`, with one slot more than workers, or a
  stutter. `busy` is who holds a slot; the door is open until Close, then closing while taskLoop is past its
  check for shutdown (`loop` is "select" or "pop") and shut otherwise. The step that matters is `PopTask`:
  `Counted` and `Limited` leave a slot for it, and it ends in "offer" or "check", behind the door. All other
  steps leave both alone, give one slot back or move the door on.
- `OffersFindRoom`: ready is empty in "pop" as well, which makes it inductive; so the send at engine.go:209,
  to a channel only its sender empties, does not block.

`Scheduler_proofs`, none with an assumption beyond the types of the constants: whatever fails or overlaps

- `InvHolds`: the invariant has two parts. `Ground` holds of every task always: types, that a firing has a
  job and the job a task whose row was inserted, and so have entries and pending calls, and that a
  controller that is down has none of these. `AloneInv` is about calm tasks, of which no firings have
  overlapped: they have at most one firing and at most one entry; a firing that reschedules or deletes has
  removed the entry; either excludes a pending call; and the scheduler owns the row of a task that has any
  of them. A step may end a task's calm, and by the history variable it is over until the process restarts,
  so each action is shown to keep `Alone` for the tasks that stay calm.
- `TypeCorrect`, `OneEntryPerTask`: parts of it.
- `NoTaskForgotten`: from `Ground` alone: every step that takes away an entry of a task the scheduler owns
  leaves another reason for it to be remembered, or a note that a call has failed.
- `ChildrenAlone`: a firing about to create has counted none, no other firing of a calm task can be there,
  and a child reopened in the meantime is noted (`ChildInv`).
- `IdsArrive`: while a firing of a calm task waits for the id of its entry, the id is in idChan or on its
  way: the receive that stores an id is another firing's only if it is of another job, and a job is made in
  a slot no firing works for. It is the safety half of `FiringsEnd`; that the id is then sent and received
  is left to TLC.
- `WorkersKeepTasks`: for a calm task unassignScheduledTask is called while no worker can have been given
  it.

`RecordChain_proofs`

- `InvHolds`: updates and metadata link backwards, the update before each is the one stored before it,
  LATEST is the last; what is attached is listed; what has been published is covered by /latest, which the
  holder of the mutex extends.
- `ChainNeverForks`, `RecordsReachable`, `RootsTraversable`, `PublicationHeals`: from it. What is reachable
  from a block is defined by closed sets; that it is all blocks up to it is shown by the well-foundedness of
  the naturals, for a fixed set of counterexamples.
- `ReachOnlyGrows`: every new metadata block links to the latest one.
- `ChainImplementsLog`: commits map to `TakeUp`, moves of /latest to `Show`, and all else to stutters; this
  takes in addition that a snapshot that still may commit is the present state of the table (`SnapshotInv`).

`StorageDeal_proofs`, `RetrievalDeal_proofs`, with the lemmas of `Channels` on receiving from and sending to a
channel

- `TypeCorrect`: with the timers, of which a stopped one would be the end of liveness.
- `OutcomesAreOwn`: the invariant says that the last change of the own deal is in the channel while the executor
  has not read it, from the moment of the subscription on, and that an executor that goes on without an
  error has read its own final state.
- `FileFollowsImport`: what the file and the import are at each place of the executor.
- `IdsStay`: a report either leaves the row's stage and replaces its details, or archives these and begins new
  ones. The reports of the early stages come in order and bring their id with the last of each; in the loop
  only "DealID" is among the details of a state, since the first update that has stages archives the others.
- `NothingIsLeft`: as long as no call has failed, whatever is left has a deal that has yet to clean up.
- `StagesAreArchived`: an archive in order with the present stage after it (`Ordered`), and where the row is for
  each place of the deal (`InPlace`). That an event does not take a deal back to DealAccepted needs that a
  retrieval is accepted before anything else is told of it, so that of the events a deal has still to read only
  the first of its own can be an acceptance, and none once the row has left ProposeDeal (`EventInv`).

Every safety property the passing runs check is also proved. Only model-checked are the liveness properties
(`DrainTakesEffect`, `PopsAgain`, `ReleasesGoOn`, `CloseReturns`, `FiringsEnd`, `SchedulesEnd`,
`RequestsEnd`, `DealEnds`, `DealsEnd`), which are outside what the proof system's backends can do here, and
the violations.

## Not modelled

- Generated code: the IPLD types (two thirds of the repository's lines), the GraphQL schema. The user
  interface, metrics, encoding and routing, connection set-up and Kubernetes: I/O, or state outside of the
  repository.
- The start of the engine and of the daemon: sequences of calls before anything is concurrent.
- ParseStageTimeouts and the parsing of numbers in log entries: pure functions. Two remarks from reading:
  MakeStorageDeal and MakeRetrievalDeal look the timeouts of the early stages up by their names as they are
  (retrieval_deal.go:56) in a map whose keys are in lower case, and the steps of these stages use the
  executor's context rather than the stage's; parseFinalLogs reads sizes with a bit size of 10
  (model.go:505).
- The command that drains and completes a worker: its server side is in `StateDB` and `RecordChain`.
- LocalSpawner: a map of processes under a lock.
- Controller and daemons as one system. `StateDB` allows any request of any worker at any time, and `Engine`
  and the deals any answer, failure or loss: what each promises holds in every composition. What only the
  whole could promise, that a task in progress is being run by somebody, the code leaves to ResetWorkerTasks
  at the daemon's next start.
- In the deals: several miners and payloads at once (deals that share neither do not meet, except for the
  channel), the sizes, prices and addresses that decide whether a stage fails, CAR files, and a closed
  channel of retrieval events, which makes the loop spin until its timer ends it (retrieval_deal.go:226).
