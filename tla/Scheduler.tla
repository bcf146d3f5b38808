----------------------------- MODULE Scheduler -----------------------------
(***************************************************************************)
(* The controller's scheduler (controller/state/taskscheduler.go): cron    *)
(* entries, the jobs behind them, and the firings of a job, each of which  *)
(* cron runs in a goroutine of its own and which works on the task table   *)
(* in several transactions.  What StateDB leaves out of it: firings, the   *)
(* children they make, changed, invalid and expired schedules.             *)
(*                                                                         *)
(* A schedule is a version number: the code compares schedules and limits  *)
(* for equality only.  Time is abstract: the limit of a job may run out at *)
(* any moment after the job was made.  runCount, a number in the children, *)
(* is left out.                                                            *)
(*                                                                         *)
(* Nothing keeps a job from firing while a firing of it runs, an error of  *)
(* scheduleTask is logged or returned and no more, and a finished child    *)
(* may be taken back.  trouble keeps what of this has befallen a task, so  *)
(* that the properties can tell what follows from it and what does not.    *)
(***************************************************************************)
EXTENDS Naturals, FiniteSets

CONSTANTS
  Tasks,        \* ids of tasks that begin with a schedule
  Versions,     \* the schedules a task may have, with their limits
  Limited,      \* those of them that have a limit
  Invalid,      \* those whose limit or specification does not parse
  NoSchedule,   \* the schedule "" of a task that lost it
  Jobs,         \* slots for jobs
  Firings,      \* slots for the goroutines of firings
  DbErrors,     \* the operations that may fail in the database
  MaxChildren,  \* bound: children of one task, unfinished and finished
  NULL

ASSUME ConstantsAssumption ==
  /\ Versions \subseteq Nat /\ Limited \subseteq Versions /\ Invalid \subseteq Versions
  /\ NoSchedule \notin Versions
  /\ DbErrors \subseteq {"load", "count", "delete", "save", "unassign"}
  /\ MaxChildren \in Nat
  /\ NULL \notin Jobs \union Tasks \union Versions \union {NoSchedule}

VARIABLES
  row,       \* [Tasks -> "unused" | "present" | "deleted"]
  owner,     \* worked_by: "null", "scheduler" or "worker"
  sched,     \* the schedule in the serialized task
  open,      \* children of the task whose latest status is below Successful
  finished,  \* those that have come to an end
  pending,   \* the schedule with which scheduleTask is about to be called for
             \* the task by saveTask, AssignTask or recoverScheduledTasks, or NULL
  job,       \* the jobs: their task, schedule, entry id and entry
  firing,    \* what each firing is doing
  process,   \* the controller: "down", "recovering" or "serving"
  trouble    \* history: what has befallen the task

vars == <<row, owner, sched, open, finished, pending, job, firing, process, trouble>>
children == <<open, finished>>
tables == <<row, owner, sched, open, finished>>

(* Since the process started:                                              *)
(* "overlap"  a job of it fired while a firing of that job was under way   *)
(* "forgot"   scheduling it, unassigning it or deleting it failed          *)
(* Since a child was last created:                                         *)
(* "count"    the number of its unfinished children could not be read      *)
(* "reopen"   a finished child was taken back below Successful just when   *)
(*            a firing had counted and was about to create one             *)
Troubles == {"overlap", "count", "reopen", "forgot"}

(* id: "unsent"  AddJob has returned and `idChan <-` is still to come      *)
(*     "sent"    the id is in idChan                                       *)
(*     "known"   a firing has stored it in entryID                         *)
(* live: cron has the entry.  expired: expireAt has passed.                *)
NoJob == [task |-> NULL, sched |-> NULL, id |-> "known", live |-> FALSE,
          expired |-> FALSE]
NewJob(t, s) == [task |-> t, sched |-> s, id |-> "unsent", live |-> TRUE,
                 expired |-> FALSE]

(* pc: "receive"     waits for the id on idChan                            *)
(*     "load"        getWithTag                                            *)
(*     "reschedule"  scheduleTask, with the schedule it has loaded         *)
(*     "expiry"      compares the clock with expireAt                      *)
(*     "delete"      deletes the expired task                              *)
(*     "count"       counts the unfinished children                        *)
(*     "create"      createRunableTask                                     *)
Idle == [pc |-> "idle", job |-> NULL, seen |-> NULL]

Present(t) == row[t] = "present"
Owned(t)   == Present(t) /\ owner[t] = "scheduler"

Init ==
  /\ row     = [t \in Tasks |-> "unused"]
  /\ owner   = [t \in Tasks |-> "null"]
  /\ sched   = [t \in Tasks |-> NoSchedule]
  /\ open     = [t \in Tasks |-> 0]
  /\ finished = [t \in Tasks |-> 0]
  /\ pending = [t \in Tasks |-> NULL]
  /\ job     = [j \in Jobs |-> NoJob]
  /\ firing  = [f \in Firings |-> Idle]
  /\ process = "serving"
  /\ trouble = [t \in Tasks |-> {}]

Note(t, what) == trouble' = [trouble EXCEPT ![t] = @ \union what]

FiringsOf(j) == {f \in Firings : firing[f].job = j}
At(f, pc, t) == firing[f].pc = pc /\ job[firing[f].job].task = t

-----------------------------------------------------------------------------
(* The table as others change it.                                          *)

(* saveTask's transaction for a task with a schedule; scheduleTask is next. *)
SaveTask(t, s) ==
  /\ process = "serving" /\ row[t] = "unused"
  /\ row'     = [row EXCEPT ![t] = "present"]
  /\ owner'   = [owner EXCEPT ![t] = "scheduler"]
  /\ sched'   = [sched EXCEPT ![t] = s]
  /\ pending' = [pending EXCEPT ![t] = s]
  /\ UNCHANGED <<children, job, firing, process, trouble>>

(* A row inserted with a schedule but not through saveTask.                *)
ImportTask(t, s) ==
  /\ row[t] = "unused"
  /\ row'   = [row EXCEPT ![t] = "present"]
  /\ owner' = [owner EXCEPT ![t] = "null"]
  /\ sched' = [sched EXCEPT ![t] = s]
  /\ UNCHANGED <<children, pending, job, firing, process, trouble>>

(* The serialized task is rewritten by something other than the controller *)
(* with another schedule, or without one.                                  *)
EditTask(t) ==
  /\ Present(t) /\ sched[t] \in Versions
  /\ \E s \in {v \in Versions : v > sched[t]} \union {NoSchedule} :
       sched' = [sched EXCEPT ![t] = s]
  /\ UNCHANGED <<row, owner, children, pending, job, firing, process, trouble>>

(* AssignTask pops a task nobody owns: it keeps one with a schedule for    *)
(* the scheduler and schedules it, and gives away one without.  Bound: one *)
(* such call for a task at a time.                                         *)
PopTask(t) ==
  /\ process = "serving" /\ Present(t) /\ owner[t] = "null"
  /\ pending[t] = NULL
  /\ IF sched[t] = NoSchedule
     THEN owner' = [owner EXCEPT ![t] = "worker"] /\ UNCHANGED pending
     ELSE /\ owner'   = [owner EXCEPT ![t] = "scheduler"]
          /\ pending' = [pending EXCEPT ![t] = sched[t]]
  /\ UNCHANGED <<row, sched, children, job, firing, process, trouble>>

(* Delete of a task through the API; its children stay.                    *)
DeleteTask(t) ==
  /\ process = "serving" /\ Present(t)
  /\ row' = [row EXCEPT ![t] = "deleted"]
  /\ UNCHANGED <<owner, sched, children, pending, job, firing, process, trouble>>

(* A worker reports the end of a child, or a child is deleted before it    *)
(* was started.                                                            *)
FinishChild(t) ==
  /\ process = "serving" /\ open[t] > 0
  /\ open'     = [open EXCEPT ![t] = @ - 1]
  /\ finished' = [finished EXCEPT ![t] = @ + 1] \/ UNCHANGED finished
  /\ UNCHANGED <<row, owner, sched, pending, job, firing, process, trouble>>

(* Update does not look at the status it replaces.                         *)
ReopenChild(t) ==
  /\ process = "serving" /\ finished[t] > 0
  /\ open'     = [open EXCEPT ![t] = @ + 1]
  /\ finished' = [finished EXCEPT ![t] = @ - 1]
  /\ Note(t, IF \E f \in Firings : At(f, "create", t) THEN {"reopen"} ELSE {})
  /\ UNCHANGED <<row, owner, sched, pending, job, firing, process>>

-----------------------------------------------------------------------------
(* scheduleTask.                                                           *)

FreeJob(j) ==
  /\ ~job[j].live
  /\ \A f \in Firings : firing[f].job # j

AddJob(t, s) ==
  \E j \in Jobs : FreeJob(j) /\ job' = [job EXCEPT ![j] = NewJob(t, s)]

(* A task without a schedule goes back to the table for whoever asks, any  *)
(* other gets a job.  The id of its entry is sent to the job afterwards.   *)
Unassign(t) ==
  /\ owner' = IF Present(t) THEN [owner EXCEPT ![t] = "null"] ELSE owner
  /\ UNCHANGED <<job, trouble>>

(* The error of unassignScheduledTask is dropped; an invalid limit or      *)
(* schedule is an error to the caller, who logs it, drops it (runTask) or  *)
(* returns it with the task saved (saveTask).                              *)
ScheduleFails(t, s) ==
  /\ s \in Invalid \/ (s = NoSchedule /\ "unassign" \in DbErrors)
  /\ Note(t, {"forgot"})
  /\ UNCHANGED <<owner, job>>

ScheduleTask(t, s) ==
  \/ s = NoSchedule /\ Unassign(t)
  \/ s \in Versions \ Invalid /\ AddJob(t, s) /\ UNCHANGED <<owner, trouble>>
  \/ ScheduleFails(t, s)

SchedulePending(t) ==
  /\ pending[t] # NULL
  /\ ScheduleTask(t, pending[t])
  /\ pending' = [pending EXCEPT ![t] = NULL]
  /\ UNCHANGED <<row, sched, children, firing, process>>

SendId(j) ==
  /\ job[j].id = "unsent"
  /\ job' = [job EXCEPT ![j].id = "sent"]
  /\ UNCHANGED <<tables, pending, firing, process, trouble>>

(* The clock passes expireAt.                                              *)
LimitPasses(j) ==
  /\ job[j].sched \in Limited /\ ~job[j].expired
  /\ job[j].live \/ FiringsOf(j) # {}
  /\ job' = [job EXCEPT ![j].expired = TRUE]
  /\ UNCHANGED <<tables, pending, firing, process, trouble>>

-----------------------------------------------------------------------------
(* job.Run and runTask.                                                    *)

GoTo(f, pc) == firing' = [firing EXCEPT ![f].pc = pc]
Return(f)   == firing' = [firing EXCEPT ![f] = Idle]

Fire(f, j) ==
  /\ process # "down" /\ firing[f] = Idle
  /\ job[j].live
  /\ firing' = [firing EXCEPT ![f] =
                  [pc |-> IF job[j].id = "known" THEN "load" ELSE "receive",
                   job |-> j, seen |-> NULL]]
  /\ Note(job[j].task, IF FiringsOf(j) # {} THEN {"overlap"} ELSE {})
  /\ UNCHANGED <<tables, pending, job, process>>

(* Mutant: the id is used but not stored.                                  *)
ReceiveOnly(f) ==
  /\ firing[f].pc = "receive" /\ job[firing[f].job].id = "sent"
  /\ job' = [job EXCEPT ![firing[f].job].id = "empty"]
  /\ GoTo(f, "load")
  /\ UNCHANGED <<tables, pending, process, trouble>>

Receive(f) ==
  /\ firing[f].pc = "receive" /\ job[firing[f].job].id = "sent"
  /\ job' = [job EXCEPT ![firing[f].job].id = "known"]
  /\ GoTo(f, "load")
  /\ UNCHANGED <<tables, pending, process, trouble>>

Remove(j) == job' = [job EXCEPT ![j].live = FALSE]

(* Mutant: the entry of a removed task is left in cron.                    *)
LoadAndKeep(f) ==
  LET j == firing[f].job
      t == job[j].task
  IN
  /\ firing[f].pc = "load"
  /\ \/ ~Present(t) /\ Return(f) /\ UNCHANGED job
     \/ /\ Present(t) /\ sched[t] # job[j].sched
        /\ Remove(j)
        /\ firing' = [firing EXCEPT ![f].pc = "reschedule", ![f].seen = sched[t]]
     \/ /\ Present(t) /\ sched[t] = job[j].sched
        /\ GoTo(f, "expiry") /\ UNCHANGED job
  /\ UNCHANGED <<tables, pending, process, trouble>>

(* Mutant: the entry of a changed schedule is left in cron.                *)
RescheduleKeeps(f) ==
  LET j == firing[f].job
      t == job[j].task
  IN
  /\ firing[f].pc = "load"
  /\ \/ ~Present(t) /\ Remove(j) /\ Return(f)
     \/ /\ Present(t) /\ sched[t] # job[j].sched
        /\ firing' = [firing EXCEPT ![f].pc = "reschedule", ![f].seen = sched[t]]
        /\ UNCHANGED job
     \/ /\ Present(t) /\ sched[t] = job[j].sched
        /\ GoTo(f, "expiry") /\ UNCHANGED job
  /\ UNCHANGED <<tables, pending, process, trouble>>

(* The entry of a task that is gone, or whose schedule has changed, is     *)
(* removed.                                                                *)
Load(f) ==
  LET j == firing[f].job
      t == job[j].task
  IN
  /\ firing[f].pc = "load"
  /\ \/ ~Present(t) /\ Remove(j) /\ Return(f)
     \/ /\ Present(t) /\ sched[t] # job[j].sched
        /\ Remove(j)
        /\ firing' = [firing EXCEPT ![f].pc = "reschedule", ![f].seen = sched[t]]
     \/ /\ Present(t) /\ sched[t] = job[j].sched
        /\ GoTo(f, "expiry") /\ UNCHANGED job
  /\ UNCHANGED <<tables, pending, process, trouble>>

LoadFails(f) ==
  /\ firing[f].pc = "load" /\ "load" \in DbErrors
  /\ Return(f)
  /\ UNCHANGED <<tables, pending, job, process, trouble>>

Reschedule(f) ==
  /\ firing[f].pc = "reschedule"
  /\ ScheduleTask(job[firing[f].job].task, firing[f].seen)
  /\ Return(f)
  /\ UNCHANGED <<row, sched, children, pending, process>>

CheckExpiry(f) ==
  LET j == firing[f].job IN
  /\ firing[f].pc = "expiry"
  /\ IF job[j].expired THEN Remove(j) /\ GoTo(f, "delete")
                       ELSE GoTo(f, "count") /\ UNCHANGED job
  /\ UNCHANGED <<tables, pending, process, trouble>>

(* An error is logged: the entry is gone either way.                       *)
DeleteExpired(f) ==
  LET t == job[firing[f].job].task IN
  /\ firing[f].pc = "delete"
  /\ \/ /\ row' = [row EXCEPT ![t] = IF Present(t) THEN "deleted" ELSE @]
        /\ UNCHANGED trouble
     \/ "delete" \in DbErrors /\ Note(t, {"forgot"}) /\ UNCHANGED row
  /\ Return(f)
  /\ UNCHANGED <<owner, sched, children, pending, job, process>>

(* Mutant: the count is not compared.                                      *)
IgnoreChildren(f) ==
  /\ firing[f].pc = "count" /\ GoTo(f, "create")
  /\ UNCHANGED <<tables, pending, job, process, trouble>>

(* A count that fails is logged and taken for 0.                           *)
CountChildren(f) ==
  LET t == job[firing[f].job].task IN
  /\ firing[f].pc = "count"
  /\ \/ open[t] = 0 /\ GoTo(f, "create") /\ UNCHANGED trouble
     \/ open[t] # 0 /\ Return(f) /\ UNCHANGED trouble
     \/ "count" \in DbErrors /\ GoTo(f, "create") /\ Note(t, {"count"})
  /\ UNCHANGED <<tables, pending, job, process>>

(* saveTask of a copy without the schedule, whose parent need not exist    *)
(* any more.  Beyond the bound it fails.                                   *)
CreateChild(f) ==
  LET t == job[firing[f].job].task IN
  /\ firing[f].pc = "create"
  /\ \/ open[t] + finished[t] < MaxChildren /\ open' = [open EXCEPT ![t] = @ + 1]
     \/ /\ "save" \in DbErrors \/ open[t] + finished[t] >= MaxChildren
        /\ UNCHANGED open
  /\ Return(f)
  /\ trouble' = [trouble EXCEPT ![t] = @ \ {"count", "reopen"}]
  /\ UNCHANGED <<row, owner, sched, finished, pending, job, process>>

-----------------------------------------------------------------------------
Crash ==
  /\ process # "down"
  /\ process' = "down"
  /\ pending' = [t \in Tasks |-> NULL]
  /\ job'     = [j \in Jobs |-> NoJob]
  /\ firing'  = [f \in Firings |-> Idle]
  /\ trouble' = [t \in Tasks |-> {}]
  /\ UNCHANGED tables

(* Mutant: the tasks of the scheduler are not recovered.                   *)
RestartOnly ==
  /\ process = "down"
  /\ process' = "recovering"
  /\ UNCHANGED <<tables, pending, job, firing, trouble>>

(* newStateDB: cron runs, and recoverScheduledTasks has read the tasks of  *)
(* the scheduler and calls scheduleTask for each.                          *)
Restart ==
  /\ process = "down"
  /\ process' = "recovering"
  /\ pending' = [t \in Tasks |-> IF Owned(t) THEN sched[t] ELSE NULL]
  /\ UNCHANGED <<tables, job, firing, trouble>>

Serve ==
  /\ process = "recovering" /\ \A t \in Tasks : pending[t] = NULL
  /\ process' = "serving"
  /\ UNCHANGED <<tables, pending, job, firing, trouble>>

Step(f) ==
  \/ Receive(f) \/ Load(f) \/ LoadFails(f) \/ Reschedule(f) \/ CheckExpiry(f)
  \/ DeleteExpired(f) \/ CountChildren(f) \/ CreateChild(f)

Next ==
  \/ \E t \in Tasks, s \in Versions : SaveTask(t, s) \/ ImportTask(t, s)
  \/ \E t \in Tasks :
       \/ EditTask(t) \/ PopTask(t) \/ DeleteTask(t) \/ SchedulePending(t)
       \/ FinishChild(t) \/ ReopenChild(t)
  \/ \E j \in Jobs : SendId(j) \/ LimitPasses(j)
  \/ \E f \in Firings, j \in Jobs : Fire(f, j)
  \/ \E f \in Firings : Step(f)
  \/ Crash \/ Restart \/ Serve

Spec == Init /\ [][Next]_vars

(* Goroutines run, cron fires a live entry again and again, whatever other *)
(* firings there are, the clock gets to expireAt, and the database does    *)
(* not refuse a job's reads for ever.                                      *)
FairSpec ==
  /\ Spec
  /\ \A t \in Tasks : WF_vars(SchedulePending(t))
  /\ \A j \in Jobs : /\ WF_vars(SendId(j)) /\ WF_vars(LimitPasses(j))
                     /\ SF_vars(\E f \in Firings : Fire(f, j))
                     /\ SF_vars(\E f \in FiringsOf(j) : Load(f))
  /\ \A f \in Firings : WF_vars(Step(f))
  /\ WF_vars(Serve)

-----------------------------------------------------------------------------
(* Properties.                                                             *)

JobRecords ==
  [task : Tasks \union {NULL}, sched : Versions \union {NULL},
   id : {"unsent", "sent", "known"}, live : BOOLEAN, expired : BOOLEAN]
FiringRecords ==
  [pc : {"idle", "receive", "load", "reschedule", "expiry", "delete", "count",
         "create"},
   job : Jobs \union {NULL}, seen : Versions \union {NoSchedule, NULL}]

(* Rows, jobs and firings hold what their fields may hold.                 *)
TypeOK ==
  /\ row \in [Tasks -> {"unused", "present", "deleted"}]
  /\ owner \in [Tasks -> {"null", "scheduler", "worker"}]
  /\ sched \in [Tasks -> Versions \union {NoSchedule}]
  /\ open \in [Tasks -> Nat] /\ finished \in [Tasks -> Nat]
  /\ pending \in [Tasks -> Versions \union {NoSchedule, NULL}]
  /\ job \in [Jobs -> JobRecords]
  /\ firing \in [Firings -> FiringRecords]
  /\ process \in {"down", "recovering", "serving"}
  /\ trouble \in [Tasks -> SUBSET Troubles]

(* Who has an entry for the task, or is about to make one.                 *)
EntriesOf(t) == {j \in Jobs : job[j].live /\ job[j].task = t}
ReschedulersOf(t) == {f \in Firings : At(f, "reschedule", t)}

(* While no firing of its jobs has overlapped with another, a task has at  *)
(* most one cron entry, call of scheduleTask about to be made, or firing   *)
(* that reschedules: over changes of schedule, expiry, failures, removal,  *)
(* crash and recovery it is not scheduled twice.                           *)
AtMostOneEntry ==
  \A t \in Tasks : "overlap" \notin trouble[t] =>
    /\ \A j, k \in EntriesOf(t) : j = k
    /\ \A f, g \in ReschedulersOf(t) : f = g
    /\ EntriesOf(t) = {} \/ ReschedulersOf(t) = {}
    /\ pending[t] # NULL => EntriesOf(t) = {} /\ ReschedulersOf(t) = {}

(* A task the scheduler owns is never forgotten while the process runs: it *)
(* has an entry, is about to get one, or is being deleted as expired;      *)
(* unless scheduleTask, or the deletion, has failed.  Overlapping firings  *)
(* do not lose it.                                                         *)
NeverForgotten ==
  process # "down" => \A t \in Tasks : Owned(t) =>
    \/ EntriesOf(t) # {} \/ ReschedulersOf(t) # {} \/ pending[t] # NULL
    \/ \E f \in Firings : At(f, "delete", t)
    \/ "forgot" \in trouble[t]

(* A step that makes a new child, and takes back no finished one.          *)
Creates(t) == open'[t] > open[t] /\ finished'[t] = finished[t]

(* "Check for a previous generated task that is not yet finished": a       *)
(* firing makes a child only when all before it have finished.             *)
EveryChildAlone == [][\A t \in Tasks : Creates(t) => open[t] = 0]_vars

(* It does, over crashes, rescheduling and failing calls, as long as no    *)
(* firings of the task have overlapped, for every creation whose count was *)
(* read and was not overtaken by a child that is reopened.                 *)
NewChildAlone ==
  [][\A t \in Tasks :
       Creates(t) /\ trouble[t] \cap {"overlap", "count", "reopen"} = {} => open[t] = 0]_vars

(* "task became unscheduled, unassigning from scheduler":                  *)
(* unassignScheduledTask clears the owner whatever it is; it takes no task *)
(* from a worker.                                                          *)
UnassignsOnlyScheduler ==
  [][\A t \in Tasks : owner[t] = "worker" => owner'[t] = "worker"]_vars

(* It takes none whose firings have not overlapped.                        *)
NeverFromWorker ==
  [][\A t \in Tasks :
       owner[t] = "worker" /\ "overlap" \notin trouble[t] => owner'[t] = "worker"]_vars

(* "Run creates a copy of the task": a firing comes to its end.            *)
FiringsReturn == \A f \in Firings : firing[f] # Idle ~> firing[f] = Idle

(* A firing waits for an id that another, overlapping firing has received. *)
Stranded(f) ==
  /\ firing[f].pc = "receive" /\ job[firing[f].job].id = "known"
  /\ "overlap" \in trouble[job[firing[f].job].task]

(* No firing waits for ever, on idChan in particular, but one that another *)
(* firing of its job has overlapped with and left stranded.                *)
FiringsEnd == \A f \in Firings : firing[f] # Idle ~> firing[f] = Idle \/ Stranded(f)

(* What is over stops firing: the entries of a task that was removed from  *)
(* the table go, for good, and a schedule with a limit comes to an end,    *)
(* unless a failure has left the task without an entry, or the process     *)
(* keeps being restarted: each restart grants it the whole limit again.    *)
SchedulesEnd ==
  \A t \in Tasks :
    /\ <>(row[t] = "deleted") => <>[](EntriesOf(t) = {})
    /\ []<>\/ process = "down" \/ "forgot" \in trouble[t]
           \/ ~(Owned(t) /\ sched[t] \in Limited)
=============================================================================
