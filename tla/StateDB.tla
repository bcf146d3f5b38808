------------------------------ MODULE StateDB ------------------------------
(***************************************************************************)
(* The controller's task table (controller/state/statedb.go): the rows of  *)
(* `tasks`, the latest entry of `task_status_ledger`, `drained_workers`,   *)
(* the unattached rows of `record_updates`, the cron jobs in memory, and   *)
(* the HTTP handlers that work on them concurrently.                       *)
(*                                                                         *)
(* Every transaction is SERIALIZABLE, so one whose closure keeps nothing   *)
(* outside itself is one step.  popTask is not such a closure: transact    *)
(* runs it again after a serialization failure and `assigned` and          *)
(* `scheduled`, declared outside it, keep what the failed attempt wrote.   *)
(* It is modelled attempt by attempt.  Calls made of several transactions  *)
(* (AssignTask, Delete, saveTask, Update) are a step for each.             *)
(*                                                                         *)
(* Clients are unconstrained: any worker may ask for anything at any time, *)
(* except that an update reports a status the engine reports.              *)
(***************************************************************************)
EXTENDS Naturals, FiniteSets

CONSTANTS
  TaskIds,        \* task uuids, numbered in the order of the `created` column
  Workers,        \* dealbot host ids
  Handlers,       \* the controller's concurrent HTTP handlers
  Tags,           \* task tags
  TagOf,          \* [TaskIds -> Tags \union {NULL}], NULL: untagged
  WorkerTags,     \* [Workers -> SUBSET Tags], {}: the request names no tags
  Scheduled,      \* the tasks that carry a schedule
  Imported,       \* those of them inserted outside of the ingestion process
  BadSchedule,    \* those of them whose schedule or limit does not parse
  WithRetrieval,  \* storage tasks that carry a retrieval schedule
  MaxAttempts,    \* times transact runs popTask's closure within maxRetryTime
  AckLost,        \* a commit may take effect and its acknowledgement be lost
  MaxRecords,     \* bound: final updates accepted of one task
  NULL,           \* SQL NULL, and the empty string of data.WorkedBy
  SchedulerOwner  \* "dealbot_scheduler" in the worked_by column

ASSUME ConstantsAssumption ==
  /\ TaskIds \subseteq Nat
  /\ TagOf \in [TaskIds -> Tags \union {NULL}]
  /\ WorkerTags \in [Workers -> SUBSET Tags]
  /\ Scheduled \subseteq TaskIds /\ Imported \subseteq Scheduled
  /\ BadSchedule \subseteq Scheduled
  /\ WithRetrieval \subseteq TaskIds \ Scheduled
  /\ MaxAttempts \in Nat \ {0} /\ MaxRecords \in Nat
  /\ AckLost \in BOOLEAN
  /\ NULL \notin Workers \union TaskIds \union Tags
  /\ SchedulerOwner \notin Workers \union {NULL}

VARIABLES
  row,       \* [TaskIds -> "unused" | "present" | "deleted"]
  workedBy,  \* the worked_by column
  data,      \* the fields of the serialized task the code decides on
  ledger,    \* the latest status of the task in task_status_ledger
  drained,   \* drained_workers
  records,   \* finished records of each task added with UNATTACHED_RECORD
  jobs,      \* cron entries of each task in cronSched, lost with the process
  req,       \* what each handler is doing
  up         \* the controller process runs

vars == <<row, workedBy, data, ledger, drained, records, jobs, req, up>>
tables == <<row, workedBy, data, ledger, records>>

Statuses == {"Available", "InProgress", "Successful", "Failed"}
Final    == {"Successful", "Failed"}
Owners   == Workers \union {SchedulerOwner, NULL}

Fresh == [status |-> "Available", workedBy |-> NULL]

(* pc: "pop"       popTask, its closure about to run (again)               *)
(*     "commit"    its closure has run, the transaction is not committed   *)
(*     "schedule"  AssignTask got a scheduled task and will schedule it    *)
(*     "reply"     AssignTask returns task to worker                       *)
(*     "save"      saveTask has committed and will schedule task           *)
(*     "retrieve"  Update has committed, NewRetrievalTask is to be called  *)
(*     "delete"    Delete has checked the task and will delete its row     *)
Idle == [pc |-> "idle", worker |-> NULL, task |-> NULL,
         scheduled |-> FALSE, attempts |-> 0]
At(pc, w, t) == [pc |-> pc, worker |-> w, task |-> t,
                 scheduled |-> FALSE, attempts |-> 0]

Present(t) == row[t] = "present"

Init ==
  /\ row      = [t \in TaskIds |-> "unused"]
  /\ workedBy = [t \in TaskIds |-> NULL]
  /\ data     = [t \in TaskIds |-> Fresh]
  /\ ledger   = [t \in TaskIds |-> "Available"]
  /\ drained  = {}
  /\ records  = [t \in TaskIds |-> 0]
  /\ jobs     = [t \in TaskIds |-> 0]
  /\ req      = [h \in Handlers |-> Idle]
  /\ up       = TRUE

-----------------------------------------------------------------------------
(* Ingestion and scheduling.                                               *)

(* createTaskSQL and setTaskStatusSQL of saveTask's transaction.           *)
InsertRow(t, owner) ==
  /\ row[t] = "unused"
  /\ row'      = [row EXCEPT ![t] = "present"]
  /\ workedBy' = [workedBy EXCEPT ![t] = owner]
  /\ data'     = [data EXCEPT ![t] = Fresh]
  /\ ledger'   = [ledger EXCEPT ![t] = "Available"]
  /\ UNCHANGED records

(* saveTask's transaction.  A task with a schedule is the scheduler's from *)
(* the start, and is scheduled after the commit: unless the commit seems   *)
(* to have failed (a second attempt then finds the key taken).             *)
SaveRow(h, t) ==
  /\ t \notin Imported
  /\ InsertRow(t, IF t \in Scheduled THEN SchedulerOwner ELSE NULL)
  /\ \/ /\ t \in Scheduled
        /\ req' = [req EXCEPT ![h] = At("save", NULL, t)]
     \/ /\ t \notin Scheduled \/ AckLost
        /\ req' = [req EXCEPT ![h] = Idle]
  /\ UNCHANGED <<drained, jobs, up>>

SaveTask(h, t) ==
  /\ up /\ req[h] = Idle
  /\ SaveRow(h, t)

(* A row written by something other than the controller, with a schedule   *)
(* and no owner: what popTask's comment expects.                           *)
ImportTask(t) ==
  /\ t \in Imported
  /\ InsertRow(t, NULL)
  /\ UNCHANGED <<drained, jobs, req, up>>

(* scheduleTask: a task without a schedule is unassigned from the          *)
(* scheduler, one with a schedule gets a cron entry if the schedule and    *)
(* its limit parse.                                                        *)
ScheduleTask(t) ==
  /\ workedBy' = IF t \notin Scheduled /\ Present(t)
                 THEN [workedBy EXCEPT ![t] = NULL] ELSE workedBy
  /\ jobs' = IF t \in Scheduled \ BadSchedule
             THEN [jobs EXCEPT ![t] = @ + 1] ELSE jobs
  /\ UNCHANGED <<row, data, ledger, records>>

FinishSave(h) ==
  /\ req[h].pc = "save"
  /\ ScheduleTask(req[h].task)
  /\ req' = [req EXCEPT ![h] = Idle]
  /\ UNCHANGED <<drained, up>>

-----------------------------------------------------------------------------
(* AssignTask.                                                             *)

DrainingWorker(w) == w \in drained

(* The check for a drained worker is a transaction of its own; such a      *)
(* worker's request ends here with no task.                                *)
AssignTask(h, w) ==
  /\ up /\ req[h] = Idle
  /\ ~DrainingWorker(w)
  /\ req' = [req EXCEPT ![h] = At("pop", w, NULL)]
  /\ UNCHANGED <<tables, drained, jobs, up>>

(* WHERE worked_by IS NULL AND (tag is NULL OR tag = ANY($1)); without the *)
(* second conjunct for a request with no tags.                             *)
Candidates(w) ==
  {t \in TaskIds : /\ Present(t) /\ workedBy[t] = NULL
                   /\ \/ WorkerTags[w] = {}
                      \/ TagOf[t] \in WorkerTags[w] \union {NULL}}

(* What AssignTask's loop does with what popTask returned.                 *)
AfterPop(r) ==
  IF r.task = NULL THEN Idle
  ELSE [r EXCEPT !.pc = IF r.scheduled THEN "schedule" ELSE "reply"]

(* popTask's closure finds no row.  It returns nil and the empty           *)
(* transaction commits: popTask returns what the closure's variables hold. *)
PopNone(h) ==
  /\ req[h].pc = "pop"
  /\ Candidates(req[h].worker) = {}
  /\ req' = [req EXCEPT ![h] = AfterPop(req[h])]
  /\ UNCHANGED <<tables, drained, jobs, up>>

(* popTask's closure takes the oldest candidate; its writes wait for the   *)
(* commit.  `scheduled` is set for a task with a schedule and never reset. *)
PopOldest(h) ==
  /\ req[h].pc = "pop"
  /\ \E t \in Candidates(req[h].worker) :
       /\ \A u \in Candidates(req[h].worker) : t <= u
       /\ req' = [req EXCEPT ![h].pc = "commit", ![h].task = t,
                             ![h].scheduled = @ \/ t \in Scheduled]
  /\ UNCHANGED <<tables, drained, jobs, up>>

(* Mutant: maxRetryTime is not looked at.                                  *)
RetryForever(h) == req' = [req EXCEPT ![h].pc = "pop"]

(* Mutant: the error ends transact's loop, as if nothing were wrong.       *)
RetrySwallowed(h) == req' = [req EXCEPT ![h] = AfterPop(@)]

(* A retryable error (serialization failure, deadlock, reset connection):  *)
(* transact runs the closure again.                                        *)
Retry(h) ==
  /\ req[h].attempts < MaxAttempts - 1
  /\ req' = [req EXCEPT ![h].pc = "pop", ![h].attempts = @ + 1]

(* Mutant: the scheduler is made the owner in the task's data too.         *)
WriteAssignmentInData(t, w) ==
  LET owner == IF t \in Scheduled THEN SchedulerOwner ELSE w
  IN  /\ workedBy' = [workedBy EXCEPT ![t] = owner]
      /\ data' = [data EXCEPT ![t] = [status |-> "InProgress", workedBy |-> owner]]
      /\ ledger' = [ledger EXCEPT ![t] = "InProgress"]

(* A task with a schedule becomes the scheduler's in the column only;      *)
(* another becomes the worker's, with an entry in the ledger.              *)
WriteAssignment(t, w) ==
  IF t \in Scheduled
  THEN /\ workedBy' = [workedBy EXCEPT ![t] = SchedulerOwner]
       /\ UNCHANGED <<data, ledger>>
  ELSE /\ workedBy' = [workedBy EXCEPT ![t] = w]
       /\ data' = [data EXCEPT ![t] = [status |-> "InProgress", workedBy |-> w]]
       /\ ledger' = [ledger EXCEPT ![t] = "InProgress"]

(* The commit, possible only if the row is still as the closure read it.   *)
(* Without its acknowledgement the call is retried, or fails.              *)
PopCommit(h) ==
  /\ req[h].pc = "commit"
  /\ Present(req[h].task) /\ workedBy[req[h].task] = NULL
  /\ WriteAssignment(req[h].task, req[h].worker)
  /\ \/ req' = [req EXCEPT ![h] = AfterPop(req[h])]
     \/ AckLost /\ Retry(h)
     \/ AckLost /\ req' = [req EXCEPT ![h] = Idle]
  /\ UNCHANGED <<row, records, drained, jobs, up>>

PopRetry(h) ==
  /\ req[h].pc = "commit"
  /\ Retry(h)
  /\ UNCHANGED <<tables, drained, jobs, up>>

(* The loop schedules the task, logs an error of that, and pops again.     *)
PopSchedule(h) ==
  /\ req[h].pc = "schedule"
  /\ ScheduleTask(req[h].task)
  /\ req' = [req EXCEPT ![h] = At("pop", req[h].worker, NULL)]
  /\ UNCHANGED <<drained, up>>

(* The task, or the error of ObserveTask, goes to whoever still listens.   *)
Reply(h) ==
  /\ req[h].pc = "reply"
  /\ req' = [req EXCEPT ![h] = Idle]
  /\ UNCHANGED <<tables, drained, jobs, up>>

-----------------------------------------------------------------------------
(* Updates, resets, deletion.                                              *)

(* Mutant: an entry on a change of stage only.                             *)
AppendOnStage(t, status) == UNCHANGED ledger

(* An entry is added when the update names another status than the task    *)
(* has, or another stage (stages are not kept: the same status comes with  *)
(* an entry or without).  The engine counts its runs from one, so that the *)
(* error for a run count below that is not met.                            *)
AppendStatus(t, status) ==
  \/ ledger' = [ledger EXCEPT ![t] = status]
  \/ status = data[t].status /\ UNCHANGED ledger

(* Update's transaction: ErrNotAssigned and ErrWrongWorker are decided on  *)
(* the serialized task, not on the worked_by column.  A final status adds  *)
(* a finished record; a success with a retrieval schedule leaves           *)
(* NewRetrievalTask to be called.                                          *)
Update(h, w, t, status) ==
  /\ up /\ req[h] = Idle
  /\ Present(t)
  /\ data[t].workedBy = w
  /\ data' = [data EXCEPT ![t].status = status]
  /\ AppendStatus(t, status)
  /\ status \in Final => records[t] < MaxRecords
  /\ records' = IF status \in Final
                THEN [records EXCEPT ![t] = @ + 1] ELSE records
  /\ req' = IF status = "Successful" /\ t \in WithRetrieval
            THEN [req EXCEPT ![h] = At("retrieve", w, t)] ELSE req
  /\ UNCHANGED <<row, workedBy, drained, jobs, up>>

(* NewRetrievalTask, after Update's commit: saveTask of a new task with a  *)
(* schedule.                                                               *)
NewRetrievalTask(h, r) ==
  /\ req[h].pc = "retrieve"
  /\ r \in Scheduled
  /\ SaveRow(h, r)

(* Mutant: every task of the worker, finished or not.                      *)
AllOf(w) == {t \in TaskIds : Present(t) /\ workedBy[t] = w}

(* workerTasksByStatusSQL: by the column and the latest ledger entry.      *)
InProgressOf(w) ==
  {t \in TaskIds : Present(t) /\ workedBy[t] = w /\ ledger[t] = "InProgress"}

KeepData(reset) == UNCHANGED data    \* mutant

(* Task.Reset.                                                             *)
ResetData(reset) ==
  data' = [t \in TaskIds |-> IF t \in reset THEN Fresh ELSE data[t]]

ResetWorkerTasks(w) ==
  LET reset == InProgressOf(w)
  IN
  /\ up
  /\ ResetData(reset)
  /\ workedBy' = [t \in TaskIds |-> IF t \in reset THEN NULL ELSE workedBy[t]]
  /\ ledger' = [t \in TaskIds |-> IF t \in reset THEN "Available" ELSE ledger[t]]
  /\ UNCHANGED <<row, records, drained, jobs, req, up>>

(* Delete reads the task in one transaction ...                            *)
DeleteCheck(h, t) ==
  /\ up /\ req[h] = Idle
  /\ Present(t)
  /\ t \in Scheduled \/ data[t].status = "Available"
  /\ req' = [req EXCEPT ![h] = At("delete", NULL, t)]
  /\ UNCHANGED <<tables, drained, jobs, up>>

(* ... and deletes the row, whatever it has become, in the next.           *)
DeleteCommit(h) ==
  /\ req[h].pc = "delete"
  /\ row' = [row EXCEPT ![req[h].task] = IF Present(req[h].task) THEN "deleted" ELSE @]
  /\ req' = [req EXCEPT ![h] = Idle]
  /\ UNCHANGED <<workedBy, data, ledger, records, drained, jobs, up>>

-----------------------------------------------------------------------------
(* Drain list, lost requests, crash and restart.                           *)

DrainWorker(w) ==
  /\ up /\ drained' = drained \union {w}
  /\ UNCHANGED <<tables, jobs, req, up>>

UndrainWorker(w) ==
  /\ up /\ drained' = drained \ {w}
  /\ UNCHANGED <<tables, jobs, req, up>>

(* An error that is not retryable, or the request's context is cancelled:  *)
(* the next transaction of the call fails and the call ends.               *)
Abandon(h) ==
  /\ req[h].pc \in {"pop", "commit", "retrieve", "delete"}
  /\ req' = [req EXCEPT ![h] = Idle]
  /\ UNCHANGED <<tables, drained, jobs, up>>

Crash ==
  /\ up
  /\ up' = FALSE
  /\ req' = [h \in Handlers |-> Idle]
  /\ jobs' = [t \in TaskIds |-> 0]
  /\ UNCHANGED <<tables, drained>>

NoneRecovered == {}    \* mutant

(* recoverScheduledTasks: the tasks it finds and manages to schedule.      *)
Recovered ==
  {t \in Scheduled \ BadSchedule : Present(t) /\ workedBy[t] = SchedulerOwner}

(* newStateDB, before the server takes requests.                           *)
Restart ==
  /\ ~up
  /\ up' = TRUE
  /\ jobs' = [t \in TaskIds |-> IF t \in Recovered THEN 1 ELSE 0]
  /\ UNCHANGED <<tables, drained, req>>

-----------------------------------------------------------------------------
(* The rest of a call that a handler has begun.                            *)
Continue(h) ==
  \/ FinishSave(h)
  \/ PopNone(h) \/ PopOldest(h) \/ PopCommit(h) \/ PopRetry(h)
  \/ PopSchedule(h) \/ Reply(h)
  \/ \E r \in TaskIds : NewRetrievalTask(h, r)
  \/ DeleteCommit(h)
  \/ Abandon(h)

Receive(h) ==
  \/ \E t \in TaskIds : SaveTask(h, t) \/ DeleteCheck(h, t)
  \/ \E w \in Workers : AssignTask(h, w)
  \/ \E w \in Workers, t \in TaskIds, s \in Statuses \ {"Available"} :
       Update(h, w, t, s)    \* the engine never reports "Available"

Next ==
  \/ \E h \in Handlers : Receive(h) \/ Continue(h)
  \/ \E w \in Workers : ResetWorkerTasks(w) \/ DrainWorker(w) \/ UndrainWorker(w)
  \/ \E t \in TaskIds : ImportTask(t)
  \/ Crash \/ Restart

Spec == Init /\ [][Next]_vars

(* A handler that has begun a call gets on with it.                        *)
FairSpec == Spec /\ \A h \in Handlers : WF_vars(Continue(h))

-----------------------------------------------------------------------------
(* Properties.                                                             *)

Assigning == {"pop", "commit", "schedule", "reply"}
Requests ==
  {r \in [pc : Assigning \union {"idle", "save", "retrieve", "delete"},
          worker : Workers \union {NULL}, task : TaskIds \union {NULL},
          scheduled : BOOLEAN, attempts : Nat] :
     /\ r.pc \in Assigning => r.worker \in Workers
     /\ r.pc \notin {"idle", "pop"} => r.task \in TaskIds}

(* The tables hold what their columns may hold, and a call in progress     *)
(* names the worker and the task it is about.                              *)
TypeOK ==
  /\ row \in [TaskIds -> {"unused", "present", "deleted"}]
  /\ workedBy \in [TaskIds -> Owners]
  /\ data \in [TaskIds -> [status : Statuses, workedBy : Workers \union {NULL}]]
  /\ ledger \in [TaskIds -> Statuses]
  /\ drained \subseteq Workers
  /\ records \in [TaskIds -> Nat]
  /\ jobs \in [TaskIds -> Nat]
  /\ req \in [Handlers -> Requests]
  /\ up \in BOOLEAN

(* The latest ledger entry of a row says what its serialized task says:    *)
(* ResetWorkerTasks selects by the one and rewrites the other, across      *)
(* assignments, updates, resets and crashes in any order.                  *)
LedgerAgrees == \A t \in TaskIds : Present(t) => ledger[t] = data[t].status

(* The worked_by column, by which tasks are popped and reset, and the      *)
(* serialized owner, by which Update admits a worker, name the same worker *)
(* for every row, and a row nobody works on looks as if never started.     *)
OwnerAgrees ==
  \A t \in TaskIds : Present(t) =>
    IF workedBy[t] \in Workers
    THEN data[t].workedBy = workedBy[t] /\ data[t].status # "Available"
    ELSE data[t] = Fresh

(* saveTask, popTask, scheduleTask and recoverScheduledTasks between them  *)
(* give every scheduled task the scheduler owns exactly one cron entry, or *)
(* one handler that is about to make it: none is forgotten over a crash    *)
(* and none runs twice per period.                                         *)
Scheduling(t) == {h \in Handlers : req[h].pc \in {"schedule", "save"} /\ req[h].task = t}
OneJobPerSchedule ==
  up => \A t \in Scheduled \ BadSchedule :
          Present(t) /\ workedBy[t] = SchedulerOwner
            => jobs[t] + Cardinality(Scheduling(t)) = 1

PastCheck(w) ==
  {h \in Handlers : req[h].worker = w /\ req[h].pc \in {"pop", "commit", "schedule"}}

(* A worker that stays drained has, from some moment on, no request left   *)
(* in AssignTask that could be assigned a task: the requests that were     *)
(* past the check when it was drained end, whatever the loop over          *)
(* scheduled tasks makes them pop.                                         *)
DrainTakesEffect ==
  \A w \in Workers : <>[](w \in drained) => <>[](PastCheck(w) = {})

(* drained_workers is the "list of workers to not give work to": no        *)
(* transaction makes a worker on it the owner of a task.                   *)
DrainedGetsNothing ==
  [][\A w \in drained, t \in TaskIds : workedBy'[t] = w => workedBy[t] = w]_vars

(* AssignTask "assigns it to req.WorkedBy.  If there are no available      *)
(* tasks, the task returned is nil": a task that exists and that a request *)
(* is about to be answered with is its worker's and nobody else's.         *)
Answered(h) == req[h].pc # "reply" /\ req'[h].pc = "reply"
RepliesWithAssigned ==
  [][\A h \in Handlers :
       Answered(h) /\ row'[req'[h].task] = "present" =>
         workedBy'[req'[h].task] = req'[h].worker]_vars

(* How far the above goes wrong and no further, with retries and lost      *)
(* acknowledgements: a request is answered with a task that is its         *)
(* worker's in the tables, unless the closure was run again and found no   *)
(* task open; what it then returns is the task of an attempt that failed.  *)
CommittedReplies ==
  [][\A h \in Handlers :
       Answered(h) =>
         \/ workedBy'[req'[h].task] = req'[h].worker
         \/ req[h].attempts > 0 /\ Candidates(req[h].worker) = {}]_vars

(* ErrNoDeleteInProgressTasks: "can only delete tasks that are not-started *)
(* or tasks that are scheduled".                                           *)
DeletesOnlyIdle ==
  [][\A t \in TaskIds \ Scheduled :
       Present(t) /\ ~Present(t)' => data[t].status = "Available"]_vars

-----------------------------------------------------------------------------
(* The abstract board of tasks that the tables implement.                  *)

Card(t) ==
  IF row[t] = "unused" THEN [kind |-> "absent"]
  ELSE IF row[t] = "deleted" THEN [kind |-> "gone"]
  ELSE IF workedBy[t] = NULL THEN [kind |-> "open"]
  ELSE IF workedBy[t] = SchedulerOwner THEN [kind |-> "kept"]
  ELSE [kind |-> "held", by |-> workedBy[t], status |-> data[t].status]

Board == INSTANCE TaskBoard WITH board <- [t \in TaskIds |-> Card(t)]

(* Rows, columns and transactions implement the abstract task board: by no *)
(* interleaving of calls does a task pass from a worker to another unless  *)
(* it was released in progress, or leave its holder with a final status as *)
(* the holder's last word on it.                                           *)
ImplementsBoard == Board!Spec
=============================================================================
