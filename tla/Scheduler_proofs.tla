-------------------------- MODULE Scheduler_proofs --------------------------
(***************************************************************************)
(* The scheduler for every number of tasks, schedules, jobs and firings,   *)
(* with firings that overlap and calls that fail.                          *)
(*                                                                         *)
(* Ground holds of all tasks at all times: it is about what exists.  Alone *)
(* holds of a task whose firings have not overlapped: it has one holder at *)
(* a time, be it an entry with the firing that acts for it, a firing that  *)
(* has removed the entry and will reschedule or delete, or a call of       *)
(* scheduleTask to come; and while it is held, its row names the           *)
(* scheduler, so neither saveTask nor AssignTask can add a second holder.  *)
(***************************************************************************)
EXTENDS Scheduler, TLAPS

(* Where a firing has left the entry of its job in cron.                   *)
Acting == {"receive", "load", "expiry", "count", "create"}

Mine(t) == {f \in Firings : firing[f].pc # "idle" /\ job[firing[f].job].task = t}
Busy(t) == EntriesOf(t) # {} \/ Mine(t) # {} \/ pending[t] # NULL
Calm(t) == "overlap" \notin trouble[t]

(* A firing works for a job, whose task has, or had, a row.                *)
FiringInv == \A f \in Firings :
  \/ firing[f] = Idle
  \/ /\ firing[f].pc # "idle" /\ firing[f].job \in Jobs
     /\ job[firing[f].job].task \in Tasks /\ row[job[firing[f].job].task] # "unused"
     /\ firing[f].pc = "reschedule" => firing[f].seen \in Versions \union {NoSchedule}

(* So does the task of an entry, and one that is about to be scheduled.    *)
JobInv == \A j \in Jobs :
  job[j].live => job[j].task \in Tasks /\ row[job[j].task] # "unused"

RowInv == \A t \in Tasks :
  /\ pending[t] # NULL => row[t] # "unused"
  /\ row[t] = "unused" => owner[t] = "null"

(* Nothing survives the process but the tables.                            *)
DownInv ==
  process = "down" =>
    /\ \A t \in Tasks : pending[t] = NULL
    /\ \A j \in Jobs : job[j] = NoJob
    /\ \A f \in Firings : firing[f] = Idle

Ground == TypeOK /\ FiringInv /\ JobInv /\ RowInv /\ DownInv

(* The task has one holder, for whom the row is kept.                      *)
Alone(t) ==
  /\ \A f, g \in Mine(t) : f = g
  /\ \A j, k \in EntriesOf(t) : j = k
  /\ \A f \in Mine(t) :
       IF firing[f].pc \in Acting THEN firing[f].job \in EntriesOf(t) ELSE EntriesOf(t) = {}
  /\ pending[t] # NULL => EntriesOf(t) = {} /\ Mine(t) = {}
  /\ Busy(t) => owner[t] = "scheduler"

AloneInv == \A t \in Tasks : Calm(t) => Alone(t)

-----------------------------------------------------------------------------
LEMMA GroundInit == Init => Ground
<1>. SUFFICES ASSUME Init PROVE Ground
  OBVIOUS
<1>1. TypeOK
  BY DEF Init, TypeOK, NoJob, Idle, JobRecords, FiringRecords
<1>2. FiringInv /\ JobInv /\ RowInv /\ DownInv
  BY DEF Init, FiringInv, JobInv, RowInv, DownInv, NoJob
<1>. QED
  BY <1>1, <1>2 DEF Ground

(* A firing that is under way has a job with a task, in a running process. *)
LEMMA FiringOfTask ==
  ASSUME Ground, NEW f \in Firings, firing[f].pc # "idle"
  PROVE  /\ firing[f].job \in Jobs /\ job[firing[f].job].task \in Tasks
         /\ row[job[firing[f].job].task] # "unused" /\ process # "down"
BY DEF Ground, FiringInv, DownInv, Idle

LEMMA StepUnderWay ==
  ASSUME NEW f \in Firings, Step(f) PROVE firing[f].pc # "idle"
BY DEF Step, Receive, Load, LoadFails, Reschedule, CheckExpiry, DeleteExpired,
       CountChildren, CreateChild

(* A step of a firing leaves the others alone.                             *)
LEMMA StepAlone ==
  ASSUME TypeOK, NEW g \in Firings, Step(g)
  PROVE  \A f \in Firings \ {g} : firing'[f] = firing[f]
<1>1. \/ Return(g)
      \/ \E pc : GoTo(g, pc)
      \/ firing' = [firing EXCEPT ![g].pc = "reschedule",
                                 ![g].seen = sched[job[firing[g].job].task]]
  BY DEF Step, Receive, Load, LoadFails, Reschedule, CheckExpiry, DeleteExpired,
         CountChildren, CreateChild
<1>. QED
  BY <1>1 DEF Return, GoTo, TypeOK

-----------------------------------------------------------------------------
(* What scheduleTask does.                                                 *)

LEMMA NewJobType ==
  ASSUME NEW t \in Tasks, NEW s \in Versions
  PROVE  NewJob(t, s) \in JobRecords
BY DEF NewJob, JobRecords

LEMMA ScheduleTypes ==
  ASSUME TypeOK, NEW t \in Tasks, NEW s, ScheduleTask(t, s)
  PROVE  /\ job' \in [Jobs -> JobRecords]
         /\ owner' \in [Tasks -> {"null", "scheduler", "worker"}]
         /\ trouble' \in [Tasks -> SUBSET Troubles]
<1>1. CASE Unassign(t)
  BY <1>1 DEF Unassign, TypeOK
<1>2. CASE s \in Versions \ Invalid /\ AddJob(t, s) /\ UNCHANGED <<owner, trouble>>
  BY <1>2, NewJobType DEF AddJob, TypeOK
<1>3. CASE ScheduleFails(t, s)
  BY <1>3 DEF ScheduleFails, Note, Troubles, TypeOK
<1>. QED
  BY <1>1, <1>2, <1>3 DEF ScheduleTask

(* It adds at most one entry, for its task, and takes no job that is in    *)
(* use; it changes the owner of no other task, and notes no overlap.       *)
LEMMA ScheduleEffect ==
  ASSUME Ground, NEW t \in Tasks, NEW s, ScheduleTask(t, s)
  PROVE  /\ \A j \in Jobs : job[j].live \/ FiringsOf(j) # {} => job'[j] = job[j]
         /\ \A u \in Tasks \ {t} : EntriesOf(u)' = EntriesOf(u) /\ owner'[u] = owner[u]
         /\ EntriesOf(t) \subseteq EntriesOf(t)'
         /\ \/ EntriesOf(t)' = EntriesOf(t)
            \/ owner' = owner /\ \E j \in Jobs : EntriesOf(t)' = EntriesOf(t) \union {j}
         /\ row[t] # "unused" =>
              \A j \in Jobs : job'[j].live => job'[j].task \in Tasks /\ row[job'[j].task] # "unused"
         /\ \A u \in Tasks : Calm(u)' <=> Calm(u)
<1>1. CASE Unassign(t)
  <2>1. UNCHANGED <<job, trouble>> /\ \A u \in Tasks \ {t} : owner'[u] = owner[u]
    BY <1>1 DEF Unassign, Ground, TypeOK
  <2>. QED
    BY <2>1 DEF EntriesOf, Calm, Ground, JobInv
<1>2. CASE AddJob(t, s) /\ UNCHANGED <<owner, trouble>>
  <2>1. PICK j \in Jobs : FreeJob(j) /\ job' = [job EXCEPT ![j] = NewJob(t, s)]
    BY <1>2 DEF AddJob
  <2>2. /\ job'[j].live /\ job'[j].task = t /\ ~job[j].live
        /\ \A k \in Jobs \ {j} : job'[k] = job[k]
        /\ FiringsOf(j) = {}
    BY <2>1 DEF NewJob, FreeJob, FiringsOf, Ground, TypeOK
  <2>3. /\ EntriesOf(t)' = EntriesOf(t) \union {j}
        /\ \A u \in Tasks \ {t} : EntriesOf(u)' = EntriesOf(u)
    BY <2>2 DEF EntriesOf
  <2>. QED
    BY <1>2, <2>2, <2>3 DEF Calm, Ground, JobInv
<1>3. CASE ScheduleFails(t, s)
  <2>1. UNCHANGED <<job, owner>> /\ \A u \in Tasks : Calm(u)' <=> Calm(u)
    BY <1>3 DEF ScheduleFails, Note, Calm, Ground, TypeOK
  <2>. QED
    BY <2>1 DEF EntriesOf, Ground, JobInv
<1>. QED
  BY <1>1, <1>2, <1>3 DEF ScheduleTask

-----------------------------------------------------------------------------
(* What a step of a firing does to the jobs and to itself: it leaves the   *)
(* entries alone, or it removes its own, or it reschedules.                *)
Keeps(f) ==
  /\ \A j \in Jobs : job'[j].live = job[j].live /\ job'[j].task = job[j].task
  /\ \/ firing'[f] = Idle /\ firing[f].pc # "reschedule"
     \/ /\ firing[f].pc \in Acting /\ firing'[f].pc \in Acting \ {"receive"}
        /\ firing'[f].job = firing[f].job
  /\ UNCHANGED owner

Removes(f) ==
  /\ firing[f].pc \in Acting /\ UNCHANGED <<row, owner>>
  /\ \A j \in Jobs \ {firing[f].job} : job'[j] = job[j]
  /\ ~job'[firing[f].job].live
  /\ job'[firing[f].job].task = job[firing[f].job].task
  /\ \/ firing'[f] = Idle /\ ~Present(job[firing[f].job].task)
     \/ /\ firing'[f].job = firing[f].job
        /\ firing'[f].pc \in {"reschedule", "delete"}
        /\ firing'[f].pc = "reschedule" => firing'[f].seen \in Versions \union {NoSchedule}

LEMMA RemoveEffect ==
  ASSUME TypeOK, NEW j \in Jobs, Remove(j)
  PROVE  /\ \A k \in Jobs \ {j} : job'[k] = job[k]
         /\ ~job'[j].live /\ job'[j].task = job[j].task
<1>. job \in [Jobs -> JobRecords] /\ job[j] \in JobRecords
  BY DEF TypeOK
<1>. QED
  BY DEF Remove, JobRecords

LEMMA StepForms ==
  ASSUME Ground, NEW f \in Firings, Step(f)
  PROVE  /\ UNCHANGED <<pending, process>>
         /\ \A t \in Tasks : Calm(t)' <=> Calm(t)
         /\ Keeps(f) \/ Removes(f) \/ Reschedule(f)
<1>1. firing[f].job \in Jobs /\ job[firing[f].job].task \in Tasks
  BY StepUnderWay, FiringOfTask
<1>. firing \in [Firings -> FiringRecords] /\ firing[f] \in FiringRecords
  BY DEF Ground, TypeOK
<1>. job \in [Jobs -> JobRecords] /\ \A j \in Jobs : job[j] \in JobRecords
  BY DEF Ground, TypeOK
<1>2. /\ Return(f) => firing'[f] = Idle
      /\ \A pc : GoTo(f, pc) => firing'[f].pc = pc /\ firing'[f].job = firing[f].job
  BY DEF Return, GoTo, FiringRecords
<1>3. CASE Receive(f)
  <2>1. \A j \in Jobs : job'[j].live = job[j].live /\ job'[j].task = job[j].task
    BY <1>1, <1>3 DEF Receive, JobRecords
  <2>. QED
    BY <1>2, <1>3, <2>1 DEF Receive, Keeps, Acting, Calm, tables
<1>4. CASE Load(f)
  <2>. DEFINE t == job[firing[f].job].task
  <2>1. UNCHANGED <<tables, pending, process, trouble>> /\ firing[f].pc \in Acting
    BY <1>4 DEF Load, Acting
  <2>2. CASE ~Present(t) /\ Remove(firing[f].job) /\ Return(f)
    BY <1>1, <1>2, <2>1, <2>2, RemoveEffect DEF Removes, Ground, Calm, tables
  <2>3. CASE /\ Remove(firing[f].job)
             /\ firing' = [firing EXCEPT ![f].pc = "reschedule", ![f].seen = sched[t]]
    <3>1. /\ firing'[f].job = firing[f].job /\ firing'[f].pc = "reschedule"
          /\ firing'[f].seen \in Versions \union {NoSchedule}
      BY <1>1, <2>3 DEF Ground, TypeOK, FiringRecords
    <3>. QED
      BY <1>1, <2>1, <2>3, <3>1, RemoveEffect DEF Removes, Ground, Calm, tables
  <2>4. CASE GoTo(f, "expiry") /\ UNCHANGED job
    BY <1>2, <2>1, <2>4 DEF Keeps, Acting, Calm, tables
  <2>. QED
    BY <1>4, <2>2, <2>3, <2>4 DEF Load
<1>5. CASE LoadFails(f)
  BY <1>2, <1>5 DEF LoadFails, Keeps, Calm, tables
<1>6. CASE Reschedule(f)
  BY <1>1, <1>6, ScheduleEffect DEF Reschedule
<1>7. CASE CheckExpiry(f)
  <2>1. /\ UNCHANGED <<tables, pending, process, trouble>>
        /\ firing[f].pc \in Acting \ {"reschedule"}
    BY <1>7 DEF CheckExpiry, Acting
  <2>2. CASE Remove(firing[f].job) /\ GoTo(f, "delete")
    BY <1>1, <1>2, <2>1, <2>2, RemoveEffect DEF Removes, Ground, Calm, tables
  <2>3. CASE GoTo(f, "count") /\ UNCHANGED job
    BY <1>2, <2>1, <2>3 DEF Keeps, Acting, Calm, tables
  <2>. QED
    BY <1>7, <2>2, <2>3 DEF CheckExpiry
<1>8. CASE DeleteExpired(f)
  <2>1. \A t \in Tasks : Calm(t)' <=> Calm(t)
    BY <1>1, <1>8 DEF DeleteExpired, Note, Calm, Ground, TypeOK
  <2>. QED
    BY <1>2, <1>8, <2>1 DEF DeleteExpired, Keeps
<1>9. CASE CountChildren(f)
  <2>1. \A t \in Tasks : Calm(t)' <=> Calm(t)
    BY <1>1, <1>9 DEF CountChildren, Note, Calm, Ground, TypeOK
  <2>2. UNCHANGED <<tables, pending, job, process>> /\ firing[f].pc = "count"
    BY <1>9 DEF CountChildren
  <2>3. Return(f) \/ GoTo(f, "create")
    BY <1>9 DEF CountChildren
  <2>. QED
    BY <1>2, <2>1, <2>2, <2>3 DEF Keeps, Acting, tables
<1>10. CASE CreateChild(f)
  <2>0. /\ trouble \in [Tasks -> SUBSET Troubles] /\ firing[f].pc = "create"
        /\ trouble' = [trouble EXCEPT ![job[firing[f].job].task] = @ \ {"count", "reopen"}]
    BY <1>10 DEF CreateChild, Ground, TypeOK
  <2>1. Return(f) /\ UNCHANGED <<row, owner, sched, pending, job, process>>
    BY <1>10 DEF CreateChild
  <2>2. ASSUME NEW u \in Tasks PROVE Calm(u)' <=> Calm(u)
    BY <2>0, Zenon DEF Calm
  <2>3. firing[f].pc # "reschedule" /\ firing'[f] = Idle
    BY <1>2, <2>0, <2>1
  <2>. QED
    BY <2>1, <2>2, <2>3 DEF Keeps
<1>. QED
  BY <1>3, <1>4, <1>5, <1>6, <1>7, <1>8, <1>9, <1>10 DEF Step

-----------------------------------------------------------------------------
(* Every step stays within the types.                                      *)

LEMMA JobTypes ==
  ASSUME TypeOK, NEW j \in Jobs,
         \/ job' = [job EXCEPT ![j].live = FALSE]
         \/ job' = [job EXCEPT ![j].expired = TRUE]
         \/ job' = [job EXCEPT ![j].id = "sent"]
         \/ job' = [job EXCEPT ![j].id = "known"]
  PROVE  job' \in [Jobs -> JobRecords]
<1>0. job \in [Jobs -> JobRecords]
  BY DEF TypeOK
<1>1. CASE job' = [job EXCEPT ![j].live = FALSE]
  BY <1>0, <1>1 DEF JobRecords
<1>2. CASE job' = [job EXCEPT ![j].expired = TRUE]
  BY <1>0, <1>2 DEF JobRecords
<1>3. CASE job' = [job EXCEPT ![j].id = "sent"]
  BY <1>0, <1>3 DEF JobRecords
<1>4. CASE job' = [job EXCEPT ![j].id = "known"]
  BY <1>0, <1>4 DEF JobRecords
<1>. QED
  BY <1>1, <1>2, <1>3, <1>4

LEMMA NoteType ==
  ASSUME TypeOK, NEW t \in Tasks, NEW what \in SUBSET Troubles, Note(t, what)
  PROVE  trouble' \in [Tasks -> SUBSET Troubles]
BY DEF Note, TypeOK

LEMMA TypeStep == Ground /\ [Next]_vars => TypeOK'
<1>. SUFFICES ASSUME Ground, [Next]_vars PROVE TypeOK'
  OBVIOUS
<1>. USE DEF Ground
<1>1. ASSUME NEW t \in Tasks, NEW s \in Versions, SaveTask(t, s) \/ ImportTask(t, s)
      PROVE  TypeOK'
  BY <1>1 DEF SaveTask, ImportTask, TypeOK, children
<1>2. ASSUME NEW t \in Tasks, EditTask(t) PROVE TypeOK'
  BY <1>2 DEF EditTask, TypeOK, children
<1>3. ASSUME NEW t \in Tasks, PopTask(t) PROVE TypeOK'
  BY <1>3 DEF PopTask, TypeOK, children
<1>4. ASSUME NEW t \in Tasks, DeleteTask(t) PROVE TypeOK'
  BY <1>4 DEF DeleteTask, TypeOK, children
<1>5. ASSUME NEW t \in Tasks, FinishChild(t) \/ ReopenChild(t) PROVE TypeOK'
  <2>1. CASE FinishChild(t)
    BY <2>1, ConstantsAssumption DEF FinishChild, TypeOK
  <2>2. CASE ReopenChild(t)
    BY <2>2, NoteType DEF ReopenChild, TypeOK, Troubles
  <2>. QED
    BY <1>5, <2>1, <2>2
<1>6. ASSUME NEW t \in Tasks, SchedulePending(t) PROVE TypeOK'
  BY <1>6, ScheduleTypes DEF SchedulePending, TypeOK, children
<1>7. ASSUME NEW j \in Jobs, SendId(j) \/ LimitPasses(j) PROVE TypeOK'
  <2>1. job' \in [Jobs -> JobRecords]
    BY <1>7, JobTypes DEF SendId, LimitPasses
  <2>. QED
    BY <1>7, <2>1 DEF SendId, LimitPasses, TypeOK, tables
<1>8. ASSUME NEW f \in Firings, NEW j \in Jobs, Fire(f, j) PROVE TypeOK'
  <2>1. job[j].task \in Tasks
    BY <1>8 DEF Fire, JobInv
  <2>. QED
    BY <1>8, <2>1, NoteType DEF Fire, TypeOK, FiringRecords, Troubles, tables
<1>9. ASSUME NEW f \in Firings, Step(f) PROVE TypeOK'
  <2>1. firing[f].pc # "idle" /\ firing[f].job \in Jobs /\ job[firing[f].job].task \in Tasks
    BY <1>9, StepUnderWay, FiringOfTask
  <2>2. CASE Receive(f)
    <3>1. job' \in [Jobs -> JobRecords]
      BY <2>1, <2>2, JobTypes DEF Receive
    <3>2. firing' \in [Firings -> FiringRecords]
      BY <2>1, <2>2 DEF Receive, GoTo, TypeOK, FiringRecords
    <3>. QED
      BY <2>2, <3>1, <3>2 DEF Receive, TypeOK, tables
  <2>3. CASE Load(f)
    <3>1. job' \in [Jobs -> JobRecords]
      BY <2>1, <2>3, JobTypes DEF Load, Remove, TypeOK
    <3>2. firing' \in [Firings -> FiringRecords]
      BY <2>1, <2>3 DEF Load, GoTo, Return, Idle, TypeOK, FiringRecords
    <3>. QED
      BY <2>3, <3>1, <3>2 DEF Load, TypeOK, tables
  <2>4. CASE LoadFails(f)
    BY <2>1, <2>4 DEF LoadFails, Return, Idle, TypeOK, FiringRecords, tables
  <2>5. CASE Reschedule(f)
    <3>1. firing' \in [Firings -> FiringRecords]
      BY <2>5 DEF Reschedule, Return, Idle, TypeOK, FiringRecords
    <3>. QED
      BY <2>1, <2>5, <3>1, ScheduleTypes DEF Reschedule, TypeOK, children
  <2>6. CASE CheckExpiry(f)
    <3>1. job' \in [Jobs -> JobRecords]
      BY <2>1, <2>6, JobTypes DEF CheckExpiry, Remove, TypeOK
    <3>2. firing' \in [Firings -> FiringRecords]
      BY <2>1, <2>6 DEF CheckExpiry, GoTo, TypeOK, FiringRecords
    <3>. QED
      BY <2>6, <3>1, <3>2 DEF CheckExpiry, TypeOK, tables
  <2>7. CASE DeleteExpired(f)
    <3>1. firing' \in [Firings -> FiringRecords]
      BY <2>7 DEF DeleteExpired, Return, Idle, TypeOK, FiringRecords
    <3>2. trouble' \in [Tasks -> SUBSET Troubles]
      BY <2>1, <2>7, NoteType DEF DeleteExpired, TypeOK, Troubles
    <3>. QED
      BY <2>7, <3>1, <3>2 DEF DeleteExpired, TypeOK, children
  <2>8. CASE CountChildren(f)
    <3>1. firing' \in [Firings -> FiringRecords]
      <4>1. Return(f) \/ GoTo(f, "create")
        BY <2>8 DEF CountChildren
      <4>. QED
        BY <4>1 DEF GoTo, Return, Idle, TypeOK, FiringRecords
    <3>2. UNCHANGED trouble \/ Note(job[firing[f].job].task, {"count"})
      BY <2>8 DEF CountChildren
    <3>3. trouble' \in [Tasks -> SUBSET Troubles]
      <4>1. {"count"} \in SUBSET Troubles
        BY DEF Troubles
      <4>. QED
        BY <2>1, <3>2, <4>1, NoteType DEF TypeOK
    <3>. QED
      BY <2>8, <3>1, <3>3 DEF CountChildren, TypeOK, tables
  <2>9. CASE CreateChild(f)
    <3>1. firing' \in [Firings -> FiringRecords]
      BY <2>9 DEF CreateChild, Return, Idle, TypeOK, FiringRecords
    <3>2. open' \in [Tasks -> Nat]
      <4>1. open \in [Tasks -> Nat]
        BY DEF TypeOK
      <4>2. \/ UNCHANGED open
            \/ open' = [open EXCEPT ![job[firing[f].job].task] = @ + 1]
        BY <2>9 DEF CreateChild
      <4>. QED
        BY <2>1, <4>1, <4>2
    <3>3. trouble' \in [Tasks -> SUBSET Troubles]
      <4>1. trouble \in [Tasks -> SUBSET Troubles]
        BY DEF TypeOK
      <4>2. trouble' = [trouble EXCEPT ![job[firing[f].job].task] = @ \ {"count", "reopen"}]
        BY <2>9 DEF CreateChild
      <4>. QED
        BY <2>1, <4>1, <4>2
    <3>. QED
      BY <2>9, <3>1, <3>2, <3>3 DEF CreateChild, TypeOK
  <2>. QED
    BY <1>9, <2>2, <2>3, <2>4, <2>5, <2>6, <2>7, <2>8, <2>9 DEF Step
<1>10. CASE Crash
  BY <1>10 DEF Crash, NoJob, Idle, TypeOK, JobRecords, FiringRecords, tables
<1>11. CASE Restart
  BY <1>11 DEF Restart, TypeOK, tables
<1>12. CASE Serve
  BY <1>12 DEF Serve, TypeOK, tables
<1>13. CASE UNCHANGED vars
  BY <1>13 DEF vars, TypeOK
<1>. QED
  BY <1>1, <1>2, <1>3, <1>4, <1>5, <1>6, <1>7, <1>8, <1>9, <1>10, <1>11, <1>12, <1>13 DEF Next

-----------------------------------------------------------------------------
(* Every step leaves jobs and firings alone, passes on the id or the time  *)
(* of a job, schedules, fires, is a firing's, or ends the process.         *)
Quiet == UNCHANGED <<job, firing>> /\ (process' = "down" => process = "down")

Ticks ==
  /\ UNCHANGED <<tables, pending, firing, process, trouble>> /\ process # "down"
  /\ \A j \in Jobs : job'[j].live = job[j].live /\ job'[j].task = job[j].task

LEMMA TicksForm ==
  ASSUME Ground, NEW j \in Jobs, SendId(j) \/ LimitPasses(j)
  PROVE  Ticks
<1>1. process # "down"
  BY ConstantsAssumption DEF SendId, LimitPasses, Ground, DownInv, NoJob
<1>2. \A k \in Jobs : job'[k].live = job[k].live /\ job'[k].task = job[k].task
  BY DEF SendId, LimitPasses, Ground, TypeOK, JobRecords
<1>. QED
  BY <1>1, <1>2 DEF SendId, LimitPasses, Ticks

LEMMA NextForms ==
  ASSUME Ground, [Next]_vars
  PROVE  \/ Quiet \/ Ticks \/ Crash
         \/ \E t \in Tasks : SchedulePending(t)
         \/ \E f \in Firings, j \in Jobs : Fire(f, j)
         \/ \E f \in Firings : Step(f)
<1>1. ASSUME NEW t \in Tasks, NEW s \in Versions, SaveTask(t, s) \/ ImportTask(t, s) PROVE Quiet
  BY <1>1 DEF SaveTask, ImportTask, Quiet
<1>2. ASSUME NEW t \in Tasks,
             \/ EditTask(t) \/ PopTask(t) \/ DeleteTask(t) \/ FinishChild(t) \/ ReopenChild(t)
      PROVE  Quiet
  BY <1>2 DEF EditTask, PopTask, DeleteTask, FinishChild, ReopenChild, Quiet
<1>3. ASSUME NEW j \in Jobs, SendId(j) \/ LimitPasses(j) PROVE Ticks
  BY <1>3, TicksForm
<1>4. CASE Restart \/ Serve \/ UNCHANGED vars
  BY <1>4 DEF Restart, Serve, vars, Quiet
<1>. QED
  BY <1>1, <1>2, <1>3, <1>4 DEF Next

(* A job keeps its task while it has an entry or a firing.                 *)
LEMMA TaskKept ==
  ASSUME Ground, [Next]_vars, ~Crash, NEW j \in Jobs, job[j].live \/ FiringsOf(j) # {}
  PROVE  job'[j].task = job[j].task
<1>1. ASSUME NEW t \in Tasks, SchedulePending(t) PROVE job'[j].task = job[j].task
  BY <1>1, ScheduleEffect DEF SchedulePending
<1>2. ASSUME NEW f \in Firings, Step(f) PROVE job'[j].task = job[j].task
  <2>1. CASE Keeps(f)
    BY <2>1 DEF Keeps
  <2>2. CASE Removes(f)
    BY <2>2 DEF Removes
  <2>3. CASE Reschedule(f)
    <3>1. job[firing[f].job].task \in Tasks
      BY <2>3, FiringOfTask DEF Reschedule
    <3>. QED
      BY <2>3, <3>1, ScheduleEffect DEF Reschedule
  <2>. QED
    BY <1>2, <2>1, <2>2, <2>3, StepForms
<1>3. ASSUME NEW f \in Firings, NEW k \in Jobs, Fire(f, k) PROVE job'[j].task = job[j].task
  BY <1>3 DEF Fire
<1>. QED
  BY <1>1, <1>2, <1>3, NextForms DEF Quiet, Ticks

(* A firing keeps its job, and its job the task, for as long as it lasts.  *)
LEMMA FiringKept ==
  ASSUME Ground, [Next]_vars, NEW f \in Firings, firing[f].pc # "idle", firing'[f].pc # "idle"
  PROVE  firing'[f].job = firing[f].job /\ job'[firing[f].job].task = job[firing[f].job].task
<1>1. ~Crash
  BY DEF Crash, Idle
<1>2. firing[f].job \in Jobs /\ f \in FiringsOf(firing[f].job)
  BY FiringOfTask DEF FiringsOf
<1>3. job'[firing[f].job].task = job[firing[f].job].task
  BY <1>1, <1>2, TaskKept
<1>4. ASSUME NEW g \in Firings, Step(g) PROVE firing'[f].job = firing[f].job
  <2>1. CASE g # f
    BY <1>4, <2>1, StepAlone DEF Ground
  <2>2. CASE g = f
    <3>1. ~Reschedule(f)
      BY DEF Reschedule, Return, Idle, Ground, TypeOK
    <3>. QED
      BY <1>4, <2>2, <3>1, StepForms DEF Keeps, Removes, Idle
  <2>. QED
    BY <2>1, <2>2
<1>5. ASSUME NEW g \in Firings, NEW j \in Jobs, Fire(g, j) PROVE firing'[f] = firing[f]
  BY <1>5 DEF Fire, Ground, TypeOK, Idle
<1>. QED
  BY <1>1, <1>3, <1>4, <1>5, NextForms DEF Quiet, Ticks, SchedulePending

(* A row, once there, is never again as if it had not been.                *)
LEMMA RowsStay ==
  ASSUME Ground, [Next]_vars, NEW t \in Tasks, row[t] # "unused"
  PROVE  row'[t] # "unused"
<1>1. ASSUME NEW f \in Firings, Step(f) PROVE row'[t] # "unused"
  BY <1>1 DEF Step, Receive, Load, LoadFails, Reschedule, CheckExpiry, DeleteExpired,
       CountChildren, CreateChild, tables, Ground, TypeOK
<1>2. ASSUME NEW u \in Tasks, NEW s \in Versions, SaveTask(u, s) \/ ImportTask(u, s)
      PROVE  row'[t] # "unused"
  BY <1>2 DEF SaveTask, ImportTask, Ground, TypeOK
<1>3. ASSUME NEW u \in Tasks, DeleteTask(u) PROVE row'[t] # "unused"
  BY <1>3 DEF DeleteTask, Ground, TypeOK
<1>. QED
  BY <1>1, <1>2, <1>3 DEF Next, vars, tables, EditTask, PopTask, FinishChild, ReopenChild,
       SchedulePending, SendId, LimitPasses, Fire, Crash, Restart, Serve

-----------------------------------------------------------------------------
(* Ground is inductive.                                                    *)

LEMMA FiringNext ==
  ASSUME Ground, [Next]_vars, NEW f \in Firings
  PROVE  \/ firing'[f] = firing[f] \/ firing'[f] = Idle
         \/ /\ firing[f].pc # "idle" /\ firing'[f].pc # "idle"
            /\ firing'[f].pc = "reschedule" => firing'[f].seen \in Versions \union {NoSchedule}
         \/ firing[f] = Idle /\ \E j \in Jobs : Fire(f, j)
<1>1. ASSUME NEW g \in Firings, Step(g), g # f PROVE firing'[f] = firing[f]
  BY <1>1, StepAlone DEF Ground
<1>2. CASE Step(f)
  <2>1. firing[f].pc # "idle"
    BY <1>2, StepUnderWay
  <2>2. Reschedule(f) => firing'[f] = Idle
    BY DEF Reschedule, Return, Ground, TypeOK
  <2>. QED
    BY <1>2, <2>1, <2>2, StepForms DEF Keeps, Removes, Acting
<1>3. ASSUME NEW g \in Firings, NEW j \in Jobs, Fire(g, j), g # f PROVE firing'[f] = firing[f]
  BY <1>3 DEF Fire, Ground, TypeOK
<1>4. ASSUME NEW j \in Jobs, Fire(f, j) PROVE firing[f] = Idle
  BY <1>4 DEF Fire
<1>5. Crash => firing'[f] = Idle
  BY DEF Crash
<1>. QED
  BY <1>1, <1>2, <1>3, <1>4, <1>5, NextForms DEF Quiet, Ticks, SchedulePending

LEMMA FiringInvStep == Ground /\ [Next]_vars => FiringInv'
<1>. SUFFICES ASSUME Ground, [Next]_vars, NEW f \in Firings, firing'[f] # Idle
              PROVE  /\ firing'[f].pc # "idle" /\ firing'[f].job \in Jobs
                     /\ job'[firing'[f].job].task \in Tasks
                     /\ row'[job'[firing'[f].job].task] # "unused"
                     /\ firing'[f].pc = "reschedule" =>
                          firing'[f].seen \in Versions \union {NoSchedule}
  BY DEF FiringInv
<1>1. CASE firing[f].pc # "idle"
  <2>1. firing'[f].pc # "idle"
    BY <1>1, FiringNext DEF Fire, Idle
  <2>2. firing'[f].job = firing[f].job /\ job'[firing[f].job].task = job[firing[f].job].task
    BY <1>1, <2>1, FiringKept
  <2>3. /\ firing[f].job \in Jobs /\ job[firing[f].job].task \in Tasks
        /\ row[job[firing[f].job].task] # "unused"
    BY <1>1, FiringOfTask
  <2>4. row'[job[firing[f].job].task] # "unused"
    BY <2>3, RowsStay
  <2>5. firing[f].pc = "reschedule" => firing[f].seen \in Versions \union {NoSchedule}
    BY <1>1 DEF Ground, FiringInv, Idle
  <2>6. firing'[f].pc = "reschedule" => firing'[f].seen \in Versions \union {NoSchedule}
    BY <1>1, <2>5, FiringNext DEF Idle
  <2>. QED
    BY <2>1, <2>2, <2>3, <2>4, <2>6
<1>2. CASE firing[f].pc = "idle"
  <2>1. firing[f] = Idle
    BY <1>2 DEF Ground, FiringInv
  <2>2. PICK j \in Jobs : Fire(f, j)
    BY <1>2, <2>1, FiringNext
  <2>3. job[j].task \in Tasks /\ row[job[j].task] # "unused" /\ UNCHANGED <<row, job>>
    BY <2>2 DEF Fire, Ground, JobInv, tables
  <2>4. firing'[f].job = j /\ firing'[f].pc \in {"load", "receive"}
    BY <2>2 DEF Fire, Ground, TypeOK
  <2>. QED
    BY <2>3, <2>4
<1>. QED
  BY <1>1, <1>2

LEMMA JobInvStep == Ground /\ [Next]_vars => JobInv'
<1>. SUFFICES ASSUME Ground, [Next]_vars, NEW j \in Jobs, job'[j].live
              PROVE  job'[j].task \in Tasks /\ row'[job'[j].task] # "unused"
  BY DEF JobInv
<1>1. CASE job[j].live
  <2>1. ~Crash
    BY DEF Crash, NoJob
  <2>2. job'[j].task = job[j].task
    BY <1>1, <2>1, TaskKept
  <2>. QED
    BY <1>1, <2>2, RowsStay DEF Ground, JobInv
<1>2. CASE ~job[j].live
  <2>1. ASSUME NEW t \in Tasks, NEW s, ScheduleTask(t, s), row[t] # "unused"
        PROVE  job'[j].task \in Tasks /\ row[job'[j].task] # "unused"
    BY <2>1, ScheduleEffect
  <2>2. ASSUME NEW t \in Tasks, SchedulePending(t)
        PROVE  job'[j].task \in Tasks /\ row[job'[j].task] # "unused"
    BY <2>1, <2>2 DEF SchedulePending, Ground, RowInv
  <2>3. ASSUME NEW f \in Firings, Step(f)
        PROVE  job'[j].task \in Tasks /\ row[job'[j].task] # "unused"
    <3>1. job[firing[f].job].task \in Tasks /\ row[job[firing[f].job].task] # "unused"
      BY <2>3, StepUnderWay, FiringOfTask
    <3>2. CASE Reschedule(f)
      BY <2>1, <3>1, <3>2 DEF Reschedule
    <3>3. CASE Keeps(f) \/ Removes(f)
      BY <1>2, <3>3 DEF Keeps, Removes
    <3>. QED
      BY <2>3, <3>2, <3>3, StepForms
  <2>4. job'[j].task \in Tasks /\ row[job'[j].task] # "unused"
    BY <1>2, <2>2, <2>3, NextForms DEF Quiet, Ticks, Crash, NoJob, Fire
  <2>. QED
    BY <2>4, RowsStay
<1>. QED
  BY <1>1, <1>2

LEMMA RowInvStep == Ground /\ [Next]_vars => RowInv'
<1>. SUFFICES ASSUME Ground, [Next]_vars, NEW t \in Tasks
              PROVE  /\ pending'[t] # NULL => row'[t] # "unused"
                     /\ row'[t] = "unused" => owner'[t] = "null"
  BY DEF RowInv
<1>1. CASE row[t] # "unused"
  BY <1>1, RowsStay
<1>2. CASE row[t] = "unused"
  <2>0. pending[t] = NULL /\ owner[t] = "null"
    BY <1>2 DEF Ground, RowInv
  <2>1. ASSUME NEW u \in Tasks, NEW s \in Versions, SaveTask(u, s) \/ ImportTask(u, s)
        PROVE  (pending'[t] = NULL /\ owner'[t] = "null") \/ row'[t] # "unused"
    BY <2>0, <2>1 DEF SaveTask, ImportTask, Ground, TypeOK
  <2>2. ASSUME NEW u \in Tasks, PopTask(u) PROVE pending'[t] = NULL /\ owner'[t] = "null"
    BY <1>2, <2>0, <2>2 DEF PopTask, Present, Ground, TypeOK
  <2>3. ASSUME NEW u \in Tasks, NEW s, ScheduleTask(u, s), row[u] # "unused"
        PROVE  owner'[t] = "null"
    BY <1>2, <2>0, <2>3, ScheduleEffect
  <2>4. ASSUME NEW u \in Tasks, SchedulePending(u) PROVE pending'[t] = NULL /\ owner'[t] = "null"
    BY <2>0, <2>3, <2>4 DEF SchedulePending, Ground, RowInv, TypeOK
  <2>5. ASSUME NEW f \in Firings, Step(f) PROVE pending'[t] = NULL /\ owner'[t] = "null"
    <3>1. job[firing[f].job].task \in Tasks /\ row[job[firing[f].job].task] # "unused"
      BY <2>5, StepUnderWay, FiringOfTask
    <3>2. Reschedule(f) => owner'[t] = "null"
      BY <2>3, <3>1 DEF Reschedule
    <3>. QED
      BY <2>0, <2>5, <3>2, StepForms DEF Keeps, Removes
  <2>6. CASE Restart
    BY <1>2, <2>0, <2>6 DEF Restart, Owned, Present, tables
  <2>. QED
    BY <2>0, <2>1, <2>2, <2>4, <2>5, <2>6
       DEF Next, vars, tables, EditTask, DeleteTask, FinishChild, ReopenChild, SendId,
           LimitPasses, Fire, Crash, Serve
<1>. QED
  BY <1>1, <1>2

LEMMA GroundStep == Ground /\ [Next]_vars => Ground'
<1>. SUFFICES ASSUME Ground, [Next]_vars PROVE Ground'
  OBVIOUS
<1>1. DownInv'
  <2>1. CASE Crash
    BY <2>1 DEF Crash, DownInv
  <2>2. CASE process' = "down" /\ ~Crash
    <3>1. process = "down"
      BY <2>2 DEF Next, vars, SaveTask, ImportTask, EditTask, PopTask, DeleteTask, FinishChild,
           ReopenChild, SchedulePending, SendId, LimitPasses, Fire, Step, Receive, Load,
           LoadFails, Reschedule, CheckExpiry, DeleteExpired, CountChildren, CreateChild,
           Restart, Serve
    <3>2. \A f \in Firings : ~Step(f)
      BY <3>1, StepUnderWay, FiringOfTask
    <3>3. UNCHANGED <<pending, job, firing>>
      BY <2>2, <3>1, <3>2, NextForms DEF Next, vars, ImportTask, EditTask, SaveTask, PopTask,
         DeleteTask, FinishChild, ReopenChild, SchedulePending, SendId, LimitPasses, Fire,
         Restart, Serve, Ticks, Quiet, Ground, DownInv, NoJob
    <3>. QED
      BY <3>1, <3>3 DEF Ground, DownInv
  <2>. QED
    BY <2>1, <2>2 DEF DownInv
<1>. QED
  BY <1>1, TypeStep, FiringInvStep, JobInvStep, RowInvStep DEF Ground

-----------------------------------------------------------------------------
(* A task whose firings do not overlap keeps to one holder.                *)

LEMMA CalmBefore ==
  ASSUME Ground, [Next]_vars, NEW t \in Tasks, Calm(t)', ~Crash
  PROVE  Calm(t)
<1>1. ASSUME NEW u \in Tasks, NEW what \in SUBSET Troubles, Note(u, what) PROVE Calm(t)
  BY <1>1 DEF Note, Calm, Ground, TypeOK
<1>2. ASSUME NEW f \in Firings, Step(f) PROVE Calm(t)
  BY <1>2, StepForms
<1>3. ASSUME NEW u \in Tasks, SchedulePending(u) PROVE Calm(t)
  BY <1>3, ScheduleEffect DEF SchedulePending
<1>4. ASSUME NEW f \in Firings, NEW j \in Jobs, Fire(f, j) PROVE Calm(t)
  <2>1. job[j].task \in Tasks
    BY <1>4 DEF Fire, Ground, JobInv
  <2>. QED
    BY <1>1, <1>4, <2>1 DEF Fire, Troubles
<1>5. ASSUME NEW u \in Tasks, ReopenChild(u) PROVE Calm(t)
  BY <1>1, <1>5 DEF ReopenChild, Troubles
<1>6. trouble' = trouble => Calm(t)
  BY DEF Calm
<1>. QED
  BY <1>2, <1>3, <1>4, <1>5, <1>6 DEF Next, vars, SaveTask, ImportTask, EditTask, PopTask,
     DeleteTask, FinishChild, SendId, LimitPasses, Restart, Serve

(* A step that makes no firing, entry or call for the task, and leaves     *)
(* each firing of it acting or not as it was.                              *)
LEMMA Undisturbed ==
  ASSUME NEW t \in Tasks, Alone(t),
         EntriesOf(t)' = EntriesOf(t), Mine(t)' \subseteq Mine(t),
         \A f \in Mine(t)' : /\ firing'[f].job = firing[f].job
                             /\ firing'[f].pc \in Acting <=> firing[f].pc \in Acting,
         pending'[t] \in {NULL, pending[t]}, Busy(t)' => owner'[t] = owner[t]
  PROVE  Alone(t)'
BY DEF Alone, Busy

(* What a step of a firing leaves of those of a task.                      *)
LEMMA MineAfterStep ==
  ASSUME Ground, [Next]_vars, NEW t \in Tasks, NEW f \in Firings, Step(f)
  PROVE  /\ Mine(t)' \subseteq Mine(t) /\ Mine(t) \ {f} \subseteq Mine(t)'
         /\ \A g \in Mine(t) \ {f} : firing'[g] = firing[g]
<1>1. \A g \in Firings \ {f} : firing'[g] = firing[g]
  BY StepAlone DEF Ground
<1>2. firing[f].pc # "idle"
  BY StepUnderWay
<1>3. \A g \in Firings : firing[g].pc # "idle" /\ firing'[g].pc # "idle" =>
         job'[firing'[g].job].task = job[firing[g].job].task
  BY FiringKept
<1>4. \A g \in Firings : firing'[g].pc # "idle" => firing[g].pc # "idle"
  BY <1>1, <1>2
<1>5. Mine(t)' \subseteq Mine(t)
  BY <1>3, <1>4 DEF Mine
<1>6. Mine(t) \ {f} \subseteq Mine(t)'
  BY <1>1, <1>3 DEF Mine
<1>. QED
  BY <1>1, <1>5, <1>6 DEF Mine

LEMMA AloneStepOfFiring ==
  ASSUME Ground, [Next]_vars, NEW t \in Tasks, Alone(t), NEW f \in Firings, Step(f)
  PROVE  Alone(t)'
<1>1. /\ Mine(t)' \subseteq Mine(t) /\ Mine(t) \ {f} \subseteq Mine(t)'
      /\ \A g \in Mine(t) \ {f} : firing'[g] = firing[g]
  BY MineAfterStep
<1>2. pending' = pending
  BY StepForms
<1>3. firing[f].pc # "idle" /\ firing[f].job \in Jobs /\ job[firing[f].job].task \in Tasks
  BY StepUnderWay, FiringOfTask
<1>4. f \in Mine(t) <=> job[firing[f].job].task = t
  BY <1>3 DEF Mine
<1>5. CASE Keeps(f)
  <2>1. EntriesOf(t)' = EntriesOf(t) /\ owner' = owner
    BY <1>5 DEF Keeps, EntriesOf
  <2>2. f \in Mine(t)' => /\ firing'[f].job = firing[f].job
                          /\ firing'[f].pc \in Acting <=> firing[f].pc \in Acting
    BY <1>5 DEF Keeps, Mine, Idle
  <2>. QED
    BY <1>1, <1>2, <2>1, <2>2, Undisturbed
<1>6. CASE Removes(f)
  <2>1. CASE f \in Mine(t)
    <3>1. EntriesOf(t) = {firing[f].job} /\ Mine(t) = {f} /\ pending[t] = NULL
      BY <1>6, <2>1 DEF Alone, Removes
    <3>2. EntriesOf(t)' = {}
      BY <1>6, <3>1 DEF Removes, EntriesOf
    <3>3. f \in Mine(t)' => firing'[f].pc \notin Acting
      BY <1>6 DEF Removes, Mine, Idle, Acting
    <3>4. owner[t] = "scheduler" /\ owner' = owner
      BY <1>6, <2>1 DEF Alone, Busy, Removes
    <3>. QED
      BY <1>1, <1>2, <3>1, <3>2, <3>3, <3>4 DEF Alone, Busy
  <2>2. CASE f \notin Mine(t)
    <3>1. \A j \in Jobs : (job'[j].live /\ job'[j].task = t) <=> (job[j].live /\ job[j].task = t)
      BY <1>4, <1>6, <2>2 DEF Removes
    <3>2. EntriesOf(t)' = EntriesOf(t) /\ owner' = owner
      BY <1>6, <3>1 DEF Removes, EntriesOf
    <3>. QED
      BY <1>1, <1>2, <2>2, <3>2, Undisturbed
  <2>. QED
    BY <2>1, <2>2
<1>7. CASE Reschedule(f)
  <2>1. PICK u \in Tasks : u = job[firing[f].job].task
    BY <1>3
  <2>2. ScheduleTask(u, firing[f].seen) /\ f \notin Mine(t)' /\ firing[f].pc = "reschedule"
    BY <1>7, <2>1 DEF Reschedule, Return, Mine, Idle, Ground, TypeOK
  <2>3. CASE u = t
    <3>1. EntriesOf(t) = {} /\ Mine(t) = {f} /\ pending[t] = NULL /\ owner[t] = "scheduler"
      BY <1>4, <2>1, <2>2, <2>3 DEF Alone, Busy, Acting
    <3>2. Mine(t)' = {} /\ pending'[t] = NULL
      BY <1>1, <1>2, <2>2, <3>1
    <3>3. \/ EntriesOf(t)' = {}
          \/ owner' = owner /\ \E j \in Jobs : EntriesOf(t)' = {j}
      BY <2>2, <2>3, <3>1, ScheduleEffect
    <3>. QED
      BY <3>1, <3>2, <3>3 DEF Alone, Busy
  <2>4. CASE u # t
    <3>1. EntriesOf(t)' = EntriesOf(t) /\ owner'[t] = owner[t]
      BY <2>2, <2>4, ScheduleEffect
    <3>. QED
      BY <1>1, <1>2, <2>2, <3>1, Undisturbed
  <2>. QED
    BY <2>3, <2>4
<1>. QED
  BY <1>5, <1>6, <1>7, StepForms

LEMMA AlonePending ==
  ASSUME Ground, NEW t \in Tasks, Alone(t), NEW u \in Tasks, SchedulePending(u)
  PROVE  Alone(t)'
<1>1. /\ ScheduleTask(u, pending[u]) /\ UNCHANGED firing
      /\ pending'[u] = NULL /\ \A v \in Tasks \ {u} : pending'[v] = pending[v]
      /\ pending[u] # NULL
  BY DEF SchedulePending, Ground, TypeOK
<1>2. \A f \in Firings : firing[f].pc # "idle" => job'[firing[f].job] = job[firing[f].job]
  <2>. SUFFICES ASSUME NEW f \in Firings, firing[f].pc # "idle"
                PROVE  job'[firing[f].job] = job[firing[f].job]
    OBVIOUS
  <2>1. firing[f].job \in Jobs /\ f \in FiringsOf(firing[f].job)
    BY FiringOfTask DEF FiringsOf
  <2>. QED
    BY <1>1, <2>1, ScheduleEffect
<1>3. Mine(t)' = Mine(t)
  BY <1>1, <1>2 DEF Mine
<1>4. CASE u = t
  <2>1. EntriesOf(t) = {} /\ Mine(t) = {} /\ owner[t] = "scheduler"
    BY <1>1, <1>4 DEF Alone, Busy
  <2>2. \/ EntriesOf(t)' = {}
        \/ owner' = owner /\ \E j \in Jobs : EntriesOf(t)' = {j}
    BY <1>1, <1>4, <2>1, ScheduleEffect
  <2>. QED
    BY <1>1, <1>3, <1>4, <2>1, <2>2 DEF Alone, Busy
<1>5. CASE u # t
  <2>1. EntriesOf(t)' = EntriesOf(t) /\ owner'[t] = owner[t]
    BY <1>1, <1>5, ScheduleEffect
  <2>. QED
    BY <1>1, <1>3, <1>5, <2>1, Undisturbed
<1>. QED
  BY <1>4, <1>5

(* A firing that finds the task calm after it is the only one.             *)
LEMMA AloneFire ==
  ASSUME Ground, NEW t \in Tasks, Alone(t), Calm(t)',
         NEW f \in Firings, NEW j \in Jobs, Fire(f, j)
  PROVE  Alone(t)'
<1>1. /\ job[j].live /\ job[j].task \in Tasks /\ firing[f] = Idle
      /\ UNCHANGED <<tables, pending, job>>
      /\ firing'[f].job = j /\ firing'[f].pc \in Acting
      /\ \A g \in Firings \ {f} : firing'[g] = firing[g]
  BY DEF Fire, Ground, JobInv, TypeOK, Acting
<1>2. EntriesOf(t)' = EntriesOf(t) /\ owner' = owner
  BY <1>1 DEF EntriesOf, tables
<1>3. CASE job[j].task = t
  <2>1. FiringsOf(j) = {}
    BY <1>1, <1>3 DEF Fire, Note, Calm, Ground, TypeOK
  <2>2. j \in EntriesOf(t)
    BY <1>1, <1>3 DEF EntriesOf
  <2>3. Mine(t) = {}
    BY <2>1, <2>2 DEF Alone, FiringsOf, Mine
  <2>4. Mine(t)' = {f}
    BY <1>1, <1>3, <2>3 DEF Mine, Acting
  <2>. QED
    BY <1>1, <1>2, <2>2, <2>4 DEF Alone, Busy
<1>4. CASE job[j].task # t
  <2>1. Mine(t)' = Mine(t) /\ f \notin Mine(t)
    BY <1>1, <1>4 DEF Mine, Idle
  <2>2. \A g \in Mine(t)' : firing'[g] = firing[g]
    BY <1>1, <2>1 DEF Mine
  <2>. QED
    BY <1>1, <1>2, <2>1, <2>2, Undisturbed
<1>. QED
  BY <1>3, <1>4

(* A step on the table, which makes a task wait for scheduleTask only when *)
(* nobody owns it.                                                         *)
LEMMA AloneTable ==
  ASSUME Ground, NEW t \in Tasks, Alone(t), UNCHANGED <<job, firing>>,
         \/ pending'[t] = pending[t] /\ (Busy(t) => owner'[t] = owner[t])
         \/ owner[t] = "null" /\ owner'[t] = "scheduler"
  PROVE  Alone(t)'
<1>1. EntriesOf(t)' = EntriesOf(t) /\ Mine(t)' = Mine(t)
  BY DEF EntriesOf, Mine
<1>. QED
  BY <1>1 DEF Alone, Busy

LEMMA AloneStep == Ground /\ AloneInv /\ [Next]_vars => AloneInv'
<1>. SUFFICES ASSUME Ground, AloneInv, [Next]_vars, NEW t \in Tasks, Calm(t)'
              PROVE  Alone(t)'
  BY DEF AloneInv
<1>1. CASE Crash
  BY <1>1 DEF Crash, Alone, Busy, EntriesOf, Mine, NoJob, Idle
<1>2. CASE ~Crash
  <2>0. Calm(t) /\ Alone(t)
    BY <1>2, CalmBefore DEF AloneInv
  <2>1. ASSUME NEW u \in Tasks, NEW s \in Versions, SaveTask(u, s) PROVE Alone(t)'
    <3>1. u = t => owner[t] = "null"
      BY <2>1 DEF SaveTask, Ground, RowInv
    <3>. QED
      BY <2>0, <2>1, <3>1, AloneTable DEF SaveTask, Ground, TypeOK
  <2>2. ASSUME NEW u \in Tasks, NEW s \in Versions, ImportTask(u, s) PROVE Alone(t)'
    <3>1. u = t => owner[t] = "null"
      BY <2>2 DEF ImportTask, Ground, RowInv
    <3>. QED
      BY <2>0, <2>2, <3>1, AloneTable DEF ImportTask, Ground, TypeOK
  <2>3. ASSUME NEW u \in Tasks, PopTask(u) PROVE Alone(t)'
    <3>1. CASE u # t
      BY <2>0, <2>3, <3>1, AloneTable DEF PopTask, Ground, TypeOK
    <3>2. CASE u = t
      <4>1. owner[t] = "null" /\ ~Busy(t)
        BY <2>0, <2>3, <3>2 DEF PopTask, Alone
      <4>. QED
        BY <2>0, <2>3, <3>2, <4>1, AloneTable DEF PopTask, Ground, TypeOK
    <3>. QED
      BY <3>1, <3>2
  <2>4. ASSUME NEW u \in Tasks,
               EditTask(u) \/ DeleteTask(u) \/ FinishChild(u) \/ ReopenChild(u)
        PROVE  Alone(t)'
    BY <2>0, <2>4, AloneTable DEF EditTask, DeleteTask, FinishChild, ReopenChild
  <2>5. CASE Ticks
    <3>1. EntriesOf(t)' = EntriesOf(t) /\ UNCHANGED <<firing, pending, owner>>
      BY <2>5 DEF Ticks, EntriesOf, tables
    <3>2. \A f \in Firings : firing[f].pc # "idle" =>
             job'[firing[f].job].task = job[firing[f].job].task
      BY <2>5, FiringOfTask DEF Ticks
    <3>3. Mine(t)' = Mine(t)
      BY <3>1, <3>2 DEF Mine
    <3>. QED
      BY <2>0, <3>1, <3>3, Undisturbed
  <2>6. CASE Restart
    BY <2>6 DEF Restart, Ground, DownInv, Alone, Busy, EntriesOf, Mine, NoJob, Idle, Owned, tables
  <2>7. CASE Serve \/ UNCHANGED vars
    BY <2>0, <2>7, AloneTable DEF Serve, vars, tables
  <2>8. ASSUME NEW u \in Tasks, SchedulePending(u) PROVE Alone(t)'
    BY <2>0, <2>8, AlonePending
  <2>9. ASSUME NEW f \in Firings, NEW j \in Jobs, Fire(f, j) PROVE Alone(t)'
    BY <2>0, <2>9, AloneFire
  <2>10. ASSUME NEW f \in Firings, Step(f) PROVE Alone(t)'
    BY <2>0, <2>10, AloneStepOfFiring
  <2>11. ASSUME NEW j \in Jobs, SendId(j) \/ LimitPasses(j) PROVE Ticks
    BY <2>11, TicksForm
  <2>. QED
    BY <1>2, <2>1, <2>2, <2>3, <2>4, <2>5, <2>6, <2>7, <2>8, <2>9, <2>10, <2>11 DEF Next
<1>. QED
  BY <1>1, <1>2

-----------------------------------------------------------------------------
(* What is noted stays noted for as long as the process runs; only what    *)
(* concerns the count is forgotten, by who creates a child.                *)
LEMMA NotesStay ==
  ASSUME Ground, [Next]_vars, ~Crash, NEW t \in Tasks
  PROVE  \/ trouble[t] \subseteq trouble'[t]
         \/ \E f \in Firings :
              /\ CreateChild(f) /\ At(f, "create", t)
              /\ trouble'[t] = trouble[t] \ {"count", "reopen"}
<1>1. ASSUME NEW u, NEW what, Note(u, what) PROVE trouble[t] \subseteq trouble'[t]
  BY <1>1 DEF Note, Ground, TypeOK
<1>2. ASSUME NEW f \in Firings, Step(f), ~CreateChild(f) PROVE trouble[t] \subseteq trouble'[t]
  <2>1. CASE Reschedule(f)
    BY <1>1, <2>1 DEF Reschedule, ScheduleTask, Unassign, ScheduleFails
  <2>. QED
    BY <1>1, <1>2, <2>1 DEF Step, Receive, Load, LoadFails, CheckExpiry, DeleteExpired,
       CountChildren
<1>3. ASSUME NEW u \in Tasks, SchedulePending(u) PROVE trouble[t] \subseteq trouble'[t]
  BY <1>1, <1>3 DEF SchedulePending, ScheduleTask, Unassign, ScheduleFails
<1>4. ASSUME NEW u \in Tasks, ReopenChild(u) PROVE trouble[t] \subseteq trouble'[t]
  BY <1>1, <1>4 DEF ReopenChild
<1>5. ASSUME NEW f \in Firings, NEW j \in Jobs, Fire(f, j) PROVE trouble[t] \subseteq trouble'[t]
  BY <1>1, <1>5 DEF Fire
<1>6. ASSUME NEW f \in Firings, CreateChild(f)
      PROVE  \/ trouble[t] \subseteq trouble'[t]
             \/ At(f, "create", t) /\ trouble'[t] = trouble[t] \ {"count", "reopen"}
  BY <1>6 DEF CreateChild, At, Ground, TypeOK
<1>. QED
  BY <1>2, <1>3, <1>4, <1>5, <1>6 DEF Next, vars, SaveTask, ImportTask, EditTask, PopTask,
     DeleteTask, FinishChild, SendId, LimitPasses, Restart, Serve

LEMMA ForgottenStays ==
  ASSUME Ground, [Next]_vars, ~Crash, NEW t \in Tasks, "forgot" \in trouble[t]
  PROVE  "forgot" \in trouble'[t]
BY NotesStay

(* Who sees to a task that the scheduler owns.                             *)
Covered(t) ==
  \/ EntriesOf(t) # {} \/ pending[t] # NULL \/ "forgot" \in trouble[t]
  \/ \E f \in Firings : At(f, "reschedule", t) \/ At(f, "delete", t)

(* scheduleTask leaves its task with an entry, without the scheduler as    *)
(* its owner, or forgotten.                                                *)
LEMMA ScheduleCovers ==
  ASSUME Ground, NEW t \in Tasks, NEW s, ScheduleTask(t, s), row' = row, Owned(t)'
  PROVE  EntriesOf(t)' # {} \/ "forgot" \in trouble'[t]
<1>1. ~Unassign(t)
  BY DEF Unassign, Owned, Present, Ground, TypeOK
<1>2. CASE AddJob(t, s)
  BY <1>2 DEF AddJob, NewJob, EntriesOf, Ground, TypeOK
<1>3. CASE ScheduleFails(t, s)
  BY <1>3 DEF ScheduleFails, Note, Ground, TypeOK
<1>. QED
  BY <1>1, <1>2, <1>3 DEF ScheduleTask

LEMMA CoverStepOfFiring ==
  ASSUME Ground, [Next]_vars, NEW t \in Tasks, NEW f \in Firings, Step(f),
         Owned(t)', Owned(t) => Covered(t)
  PROVE  Covered(t)'
<1>0. /\ firing[f].pc # "idle" /\ firing[f].job \in Jobs /\ job[firing[f].job].task \in Tasks
      /\ process # "down" /\ pending' = pending /\ ~Crash
      /\ "forgot" \in trouble[t] => "forgot" \in trouble'[t]
  <2>1. firing[f].pc # "idle" /\ process # "down"
    BY StepUnderWay, FiringOfTask
  <2>2. pending' = pending /\ process' = process
    BY StepForms
  <2>3. ~Crash
    BY <2>1, <2>2 DEF Crash
  <2>. QED
    BY <2>1, <2>2, <2>3, FiringOfTask, ForgottenStays
<1>1. ASSUME NEW g \in Firings \ {f}, At(g, "reschedule", t) \/ At(g, "delete", t)
      PROVE  At(g, "reschedule", t)' \/ At(g, "delete", t)'
  <2>1. firing'[g] = firing[g] /\ firing[g].pc # "idle"
    BY <1>1, StepAlone DEF Ground, At
  <2>. QED
    BY <1>1, <2>1, FiringKept DEF At
<1>2. CASE Keeps(f) /\ firing[f].pc # "delete"
  <2>1. EntriesOf(t)' = EntriesOf(t) /\ owner' = owner
    BY <1>2 DEF Keeps, EntriesOf
  <2>2. Owned(t)
    BY <1>2, <2>1 DEF Step, Receive, Load, LoadFails, Reschedule, CheckExpiry, DeleteExpired,
         CountChildren, CreateChild, Keeps, Owned, Present, tables
  <2>3. ~At(f, "reschedule", t) /\ ~At(f, "delete", t)
    BY <1>2 DEF Keeps, Acting, At
  <2>. QED
    BY <1>0, <1>1, <2>1, <2>2, <2>3 DEF Covered
<1>3. CASE firing[f].pc = "delete"
  <2>1. DeleteExpired(f)
    BY <1>3 DEF Step, Receive, Load, LoadFails, Reschedule, CheckExpiry, CountChildren, CreateChild
  <2>2. PICK u \in Tasks : u = job[firing[f].job].task
    BY <1>0
  <2>3. CASE u = t
    BY <1>0, <2>1, <2>2, <2>3 DEF DeleteExpired, Note, Owned, Present, Covered, Ground, TypeOK
  <2>4. CASE u # t
    <3>1. Owned(t) /\ EntriesOf(t)' = EntriesOf(t)
      BY <2>1, <2>2, <2>4 DEF DeleteExpired, Owned, Present, EntriesOf, Ground, TypeOK
    <3>2. ~At(f, "reschedule", t) /\ ~At(f, "delete", t)
      BY <2>2, <2>4 DEF At
    <3>. QED
      BY <1>0, <1>1, <3>1, <3>2 DEF Covered
  <2>. QED
    BY <2>3, <2>4
<1>4. CASE Removes(f)
  <2>1. Owned(t) /\ Present(t)
    BY <1>4 DEF Removes, Owned, Present
  <2>2. CASE job[firing[f].job].task = t
    BY <1>0, <1>4, <2>1, <2>2 DEF Removes, Covered, At
  <2>3. CASE job[firing[f].job].task # t
    <3>1. \A j \in Jobs : (job'[j].live /\ job'[j].task = t) <=> (job[j].live /\ job[j].task = t)
      BY <1>4, <2>3 DEF Removes
    <3>2. EntriesOf(t)' = EntriesOf(t)
      BY <3>1 DEF EntriesOf
    <3>3. ~At(f, "reschedule", t) /\ ~At(f, "delete", t)
      BY <2>3 DEF At
    <3>. QED
      BY <1>0, <1>1, <2>1, <3>2, <3>3 DEF Covered
  <2>. QED
    BY <2>2, <2>3
<1>5. CASE Reschedule(f)
  <2>1. PICK u \in Tasks : u = job[firing[f].job].task
    BY <1>0
  <2>2. ScheduleTask(u, firing[f].seen) /\ row' = row
    BY <1>5, <2>1 DEF Reschedule
  <2>3. CASE u = t
    BY <2>2, <2>3, ScheduleCovers DEF Covered
  <2>4. CASE u # t
    <3>1. EntriesOf(t)' = EntriesOf(t) /\ owner'[t] = owner[t]
      BY <2>2, <2>4, ScheduleEffect
    <3>2. ~At(f, "reschedule", t) /\ ~At(f, "delete", t)
      BY <2>1, <2>4 DEF At
    <3>. QED
      BY <1>0, <1>1, <2>2, <3>1, <3>2 DEF Covered, Owned, Present
  <2>. QED
    BY <2>3, <2>4
<1>. QED
  BY <1>2, <1>3, <1>4, <1>5, StepForms

LEMMA CoverStep ==
  ASSUME Ground, [Next]_vars, NEW t \in Tasks, Owned(t)', process' # "down",
         process # "down" /\ Owned(t) => Covered(t)
  PROVE  Covered(t)'
<1>0. ~Crash /\ ("forgot" \in trouble[t] => "forgot" \in trouble'[t])
  BY ForgottenStays DEF Crash
<1>1. ASSUME UNCHANGED <<job, firing, pending>>, Owned(t), process # "down" PROVE Covered(t)'
  BY <1>0, <1>1 DEF Covered, At, EntriesOf
<1>2. ASSUME UNCHANGED <<job, firing>>, Owned(t), process # "down", NEW u \in Tasks \ {t}, NEW p,
             pending' = [pending EXCEPT ![u] = p]
      PROVE  Covered(t)'
  BY <1>0, <1>2 DEF Covered, At, EntriesOf, Ground, TypeOK
<1>3. ASSUME NEW u \in Tasks, NEW s \in Versions, SaveTask(u, s) PROVE Covered(t)'
  <2>1. CASE u = t
    BY <1>3, <2>1, ConstantsAssumption DEF SaveTask, Covered, Ground, TypeOK
  <2>2. CASE u # t
    BY <1>2, <1>3, <2>2 DEF SaveTask, Owned, Present, Ground, TypeOK
  <2>. QED
    BY <2>1, <2>2
<1>4. ASSUME NEW u \in Tasks, NEW s \in Versions, ImportTask(u, s) PROVE Covered(t)'
  <2>1. Owned(t) /\ process # "down"
    BY <1>4 DEF ImportTask, Owned, Present, Ground, TypeOK
  <2>. QED
    BY <1>1, <1>4, <2>1 DEF ImportTask
<1>5. ASSUME NEW u \in Tasks, PopTask(u) PROVE Covered(t)'
  <2>1. CASE u = t
    <3>1. pending'[t] = sched[t] /\ sched[t] # NULL
      BY <1>5, <2>1, ConstantsAssumption DEF PopTask, Owned, Ground, TypeOK
    <3>. QED
      BY <3>1 DEF Covered
  <2>2. CASE u # t
    <3>1. Owned(t) /\ process # "down" /\ UNCHANGED <<job, firing>>
      BY <1>5, <2>2 DEF PopTask, Owned, Present, Ground, TypeOK
    <3>. QED
      BY <1>1, <1>2, <1>5, <2>2, <3>1 DEF PopTask
  <2>. QED
    BY <2>1, <2>2
<1>6. ASSUME NEW u \in Tasks, EditTask(u) \/ DeleteTask(u) \/ FinishChild(u) \/ ReopenChild(u)
      PROVE  Covered(t)'
  <2>1. Owned(t) /\ process # "down" /\ UNCHANGED <<job, firing, pending>>
    BY <1>6 DEF EditTask, DeleteTask, FinishChild, ReopenChild, Owned, Present, Ground, TypeOK
  <2>. QED
    BY <1>1, <2>1
<1>7. ASSUME NEW u \in Tasks, SchedulePending(u) PROVE Covered(t)'
  <2>1. /\ ScheduleTask(u, pending[u]) /\ UNCHANGED <<row, firing, process>>
        /\ \A v \in Tasks \ {u} : pending'[v] = pending[v]
    BY <1>7 DEF SchedulePending, Ground, TypeOK
  <2>2. CASE u = t
    BY <2>1, <2>2, ScheduleCovers DEF Covered
  <2>3. CASE u # t
    <3>1. EntriesOf(t)' = EntriesOf(t) /\ owner'[t] = owner[t]
      BY <2>1, <2>3, ScheduleEffect
    <3>2. \A f \in Firings : \A pc : pc # "idle" /\ At(f, pc, t) => At(f, pc, t)'
      BY <2>1, FiringKept DEF At
    <3>. QED
      BY <1>0, <2>1, <2>3, <3>1, <3>2 DEF Covered, Owned, Present
  <2>. QED
    BY <2>2, <2>3
<1>8. CASE Ticks
  <2>1. EntriesOf(t)' = EntriesOf(t) /\ Owned(t) /\ process # "down"
    BY <1>8 DEF Ticks, EntriesOf, Owned, Present, tables
  <2>2. \A f \in Firings : \A pc : pc # "idle" /\ At(f, pc, t) => At(f, pc, t)'
    BY <1>8, FiringKept DEF At, Ticks
  <2>. QED
    BY <1>0, <1>8, <2>1, <2>2 DEF Covered, Ticks
<1>9. ASSUME NEW f \in Firings, NEW j \in Jobs, Fire(f, j) PROVE Covered(t)'
  <2>1. /\ UNCHANGED <<tables, pending, job>> /\ firing[f] = Idle /\ process # "down"
        /\ \A g \in Firings \ {f} : firing'[g] = firing[g]
    BY <1>9 DEF Fire, Ground, TypeOK
  <2>2. \A g \in Firings : \A pc : pc # "idle" /\ At(g, pc, t) => At(g, pc, t)'
    BY <2>1 DEF At, Idle
  <2>3. EntriesOf(t)' = EntriesOf(t) /\ Owned(t)
    BY <2>1 DEF EntriesOf, Owned, Present, tables
  <2>. QED
    BY <1>0, <2>1, <2>2, <2>3 DEF Covered
<1>10. ASSUME NEW f \in Firings, Step(f) PROVE Covered(t)'
  BY <1>10, StepUnderWay, FiringOfTask, CoverStepOfFiring
<1>11. CASE Restart
  BY <1>11, ConstantsAssumption DEF Restart, Covered, Owned, Present, tables, Ground, TypeOK
<1>12. CASE Serve \/ UNCHANGED vars
  BY <1>1, <1>12 DEF Serve, vars, tables, Owned, Present
<1>13. ASSUME NEW j \in Jobs, SendId(j) \/ LimitPasses(j) PROVE Ticks
  BY <1>13, TicksForm
<1>. QED
  BY <1>0, <1>3, <1>4, <1>5, <1>6, <1>7, <1>8, <1>9, <1>10, <1>11, <1>12, <1>13 DEF Next

-----------------------------------------------------------------------------
(* Where nothing has spoilt the count, a firing that is about to create a  *)
(* child has found none unfinished, and nobody else makes one.             *)
Sure(t) == trouble[t] \cap {"overlap", "count", "reopen"} = {}

ChildInv ==
  \A f \in Firings, t \in Tasks : At(f, "create", t) /\ Sure(t) => open[t] = 0

(* Who changes the number of unfinished children.                          *)
LEMMA OpenChanges ==
  ASSUME Ground, [Next]_vars, NEW t \in Tasks, open'[t] # open[t]
  PROVE  \/ FinishChild(t) \/ ReopenChild(t)
         \/ \E f \in Firings : CreateChild(f) /\ At(f, "create", t)
<1>1. ASSUME NEW u \in Tasks, FinishChild(u) \/ ReopenChild(u) PROVE u = t
  BY <1>1 DEF FinishChild, ReopenChild, Ground, TypeOK
<1>2. ASSUME NEW f \in Firings, CreateChild(f) PROVE At(f, "create", t)
  <2>1. job[firing[f].job].task \in Tasks
    BY <1>2, FiringOfTask DEF CreateChild
  <2>. QED
    BY <1>2, <2>1 DEF CreateChild, At, Ground, TypeOK
<1>3. \/ \E u \in Tasks : FinishChild(u) \/ ReopenChild(u)
      \/ \E f \in Firings : CreateChild(f)
  BY DEF Next, vars, tables, children, SaveTask, ImportTask, EditTask, PopTask, DeleteTask,
     SchedulePending, SendId, LimitPasses, Fire, Step, Receive, Load, LoadFails, Reschedule,
     CheckExpiry, DeleteExpired, CountChildren, Crash, Restart, Serve
<1>. QED
  BY <1>1, <1>2, <1>3

LEMMA ChildStep == Ground /\ AloneInv /\ ChildInv /\ [Next]_vars => ChildInv'
<1>. SUFFICES ASSUME Ground, AloneInv, ChildInv, [Next]_vars,
                     NEW f \in Firings, NEW t \in Tasks, At(f, "create", t)', Sure(t)'
              PROVE  open'[t] = 0
  BY DEF ChildInv
<1>0. ~Crash
  BY DEF Crash, At, Idle
<1>1. Sure(t) /\ Calm(t) /\ Alone(t)
  <2>1. Calm(t)' /\ Calm(t) /\ Alone(t)
    BY <1>0, CalmBefore DEF Sure, Calm, AloneInv
  <2>2. ASSUME NEW g \in Firings, CreateChild(g), At(g, "create", t) PROVE FALSE
    <3>1. f # g
      BY <2>2 DEF CreateChild, Return, Idle, At, Ground, TypeOK
    <3>2. firing'[f] = firing[f]
      BY <2>2, <3>1, StepAlone DEF Ground, Step
    <3>3. f \in Mine(t) /\ g \in Mine(t)
      BY <2>2, <3>2 DEF CreateChild, At, Mine
    <3>. QED
      BY <2>1, <3>1, <3>3 DEF Alone
  <2>3. Sure(t)
    BY <1>0, <2>2, NotesStay DEF Sure
  <2>. QED
    BY <2>1, <2>3
<1>2. CASE firing[f].pc = "create"
  <2>1. At(f, "create", t) /\ f \in Mine(t) /\ open[t] = 0
    BY <1>1, <1>2, FiringKept DEF At, Mine, ChildInv
  <2>2. ~FinishChild(t)
    BY <2>1 DEF FinishChild
  <2>3. ~ReopenChild(t)
    BY <2>1 DEF ReopenChild, Note, Sure, Ground, TypeOK
  <2>4. ASSUME NEW g \in Firings, CreateChild(g), At(g, "create", t) PROVE FALSE
    <3>1. g = f
      BY <1>1, <2>1, <2>4 DEF Alone, Mine, At
    <3>. QED
      BY <2>4, <3>1 DEF CreateChild, Return, Idle, At, Ground, TypeOK
  <2>. QED
    BY <2>1, <2>2, <2>3, <2>4, OpenChanges
<1>3. CASE firing[f].pc # "create"
  <2>1. CountChildren(f)
    <3>1. firing'[f] # firing[f] /\ firing'[f].pc = "create"
      BY <1>3 DEF At
    <3>2. ASSUME NEW g \in Firings, NEW j \in Jobs, Fire(g, j) PROVE FALSE
      BY <3>1, <3>2 DEF Fire, Ground, TypeOK
    <3>3. PICK g \in Firings : Step(g)
      BY <1>0, <3>1, <3>2, NextForms DEF Quiet, Ticks, SchedulePending
    <3>4. g = f
      BY <3>1, <3>3, StepAlone DEF Ground
    <3>. firing \in [Firings -> FiringRecords] /\ firing[f] \in FiringRecords
      BY DEF Ground, TypeOK
    <3>5. ~Return(f) /\ \A pc : GoTo(f, pc) => pc = "create"
      BY <3>1 DEF Return, GoTo, Idle, FiringRecords
    <3>6. ~Load(f)
      BY <3>1, <3>5 DEF Load, FiringRecords
    <3>. QED
      BY <3>3, <3>4, <3>5, <3>6 DEF Step, Receive, LoadFails, Reschedule, CheckExpiry,
         DeleteExpired, CreateChild
  <2>2. At(f, "count", t)
    BY <2>1, FiringKept DEF At, CountChildren
  <2>3. ~Return(f)
    BY DEF Return, Idle, At, Ground, TypeOK
  <2>4. ~Note(t, {"count"})
    BY DEF Note, Sure, Ground, TypeOK
  <2>. QED
    BY <2>1, <2>2, <2>3, <2>4 DEF CountChildren, At, tables
<1>. QED
  BY <1>2, <1>3

-----------------------------------------------------------------------------
(* The id of an entry is sent once, and a firing that no other overlaps    *)
(* with gets it: it is in idChan or on its way.                            *)
IdArrives ==
  \A f \in Firings :
    firing[f].pc = "receive" /\ Calm(job[firing[f].job].task) =>
      job[firing[f].job].id \in {"unsent", "sent"}

(* Only receiving it makes the id known.                                   *)
LEMMA IdBecomesKnown ==
  ASSUME Ground, [Next]_vars, ~Crash, NEW j \in Jobs, FiringsOf(j) # {},
         job[j].id # "known", job'[j].id = "known"
  PROVE  \E g \in Firings : Receive(g) /\ firing[g].job = j
<1>0. job \in [Jobs -> JobRecords] /\ job[j] \in JobRecords
  BY DEF Ground, TypeOK
<1>1. ASSUME NEW t \in Tasks, NEW s, ScheduleTask(t, s) PROVE FALSE
  BY <1>1, ScheduleEffect
<1>2. ASSUME NEW k \in Jobs, SendId(k) \/ LimitPasses(k) PROVE FALSE
  BY <1>0, <1>2 DEF SendId, LimitPasses, JobRecords
<1>3. ASSUME NEW t \in Tasks, SchedulePending(t) PROVE FALSE
  BY <1>1, <1>3 DEF SchedulePending
<1>4. ASSUME NEW g \in Firings, Step(g) PROVE Receive(g) /\ firing[g].job = j
  <2>0. job[firing[g].job].task \in Tasks
    BY <1>4, StepUnderWay, FiringOfTask
  <2>1. ~Reschedule(g)
    BY <1>1, <2>0 DEF Reschedule
  <2>2. \A k : ~Remove(k)
    BY <1>0 DEF Remove, JobRecords
  <2>3. job' # job
    OBVIOUS
  <2>4. Receive(g)
    BY <1>4, <2>1, <2>2, <2>3 DEF Step, Load, LoadFails, CheckExpiry, DeleteExpired,
       CountChildren, CreateChild
  <2>. QED
    BY <1>0, <2>4 DEF Receive
<1>5. job' # job
  OBVIOUS
<1>. QED
  BY <1>2, <1>3, <1>4, <1>5 DEF Next, vars, SaveTask, ImportTask, EditTask, PopTask,
     DeleteTask, FinishChild, ReopenChild, Fire, Restart, Serve

LEMMA IdStep == Ground /\ AloneInv /\ IdArrives /\ [Next]_vars => IdArrives'
<1>. SUFFICES ASSUME Ground, AloneInv, IdArrives, [Next]_vars, NEW f \in Firings,
                     firing'[f].pc = "receive", Calm(job[firing[f].job].task)'
              PROVE  job'[firing'[f].job].id \in {"unsent", "sent"}
  BY DEF IdArrives
<1>0. ~Crash
  BY DEF Crash, Idle
<1>1. CASE firing[f].pc = "receive"
  <2>1. PICK j \in Jobs, t \in Tasks : j = firing[f].job /\ t = job[j].task
    BY <1>1, FiringOfTask
  <2>2. firing'[f].job = j /\ job'[j].task = t
    BY <1>1, <2>1, FiringKept
  <2>3. Calm(t)'
    BY <2>2
  <2>4. Calm(t)
    BY <1>0, <2>3, CalmBefore
  <2>5. Alone(t) /\ f \in Mine(t) /\ f \in FiringsOf(j) /\ job[j].id # "known"
    BY <1>1, <2>1, <2>4 DEF AloneInv, Mine, FiringsOf, IdArrives
  <2>6. ASSUME NEW g \in Firings, Receive(g), firing[g].job = j PROVE FALSE
    <3>1. g = f
      BY <2>1, <2>5, <2>6 DEF Alone, Mine, Receive
    <3>. QED
      BY <2>6, <3>1 DEF Receive, GoTo, Ground, TypeOK, FiringRecords
  <2>7. job'[j].id # "known"
    BY <1>0, <2>5, <2>6, IdBecomesKnown
  <2>8. job'[j].id \in {"unsent", "sent", "known"}
    <3>1. TypeOK'
      BY TypeStep
    <3>. QED
      BY <3>1 DEF TypeOK, JobRecords
  <2>. QED
    BY <2>2, <2>7, <2>8
<1>2. CASE firing[f].pc # "receive"
  <2>1. PICK j \in Jobs : Fire(f, j)
    <3>1. firing'[f] # firing[f]
      BY <1>2
    <3>2. ASSUME NEW g \in Firings, Step(g) PROVE FALSE
      <4>1. g = f
        BY <3>1, <3>2, StepAlone DEF Ground
      <4>2. ~Reschedule(f)
        BY DEF Reschedule, Return, Idle, Ground, TypeOK
      <4>. QED
        BY <3>2, <4>1, <4>2, StepForms DEF Keeps, Removes, Idle
    <3>3. ASSUME NEW g \in Firings, NEW j \in Jobs, Fire(g, j) PROVE g = f
      BY <3>1, <3>3 DEF Fire, Ground, TypeOK
    <3>. QED
      BY <1>0, <3>1, <3>2, <3>3, NextForms DEF Quiet, Ticks, SchedulePending
  <2>2. job[j].id # "known" /\ job' = job /\ firing'[f].job = j
    BY <2>1 DEF Fire, Ground, TypeOK
  <2>. QED
    BY <2>2 DEF Ground, TypeOK, JobRecords
<1>. QED
  BY <1>1, <1>2

-----------------------------------------------------------------------------
(* Only scheduleTask takes a task from its owner, and it is never called   *)
(* for a calm task that the scheduler does not own.                        *)
LEMMA WorkerStep ==
  ASSUME Ground, AloneInv, [Next]_vars, NEW t \in Tasks, owner[t] = "worker", Calm(t)
  PROVE  owner'[t] = "worker"
<1>1. ~Busy(t) /\ row[t] # "unused"
  BY DEF AloneInv, Alone, Ground, RowInv
<1>2. ASSUME NEW u \in Tasks \ {t}, NEW s, ScheduleTask(u, s) PROVE owner'[t] = owner[t]
  BY <1>2, ScheduleEffect
<1>3. ASSUME NEW u \in Tasks, SchedulePending(u) PROVE owner'[t] = owner[t]
  BY <1>1, <1>2, <1>3 DEF SchedulePending, Busy
<1>4. ASSUME NEW f \in Firings, Step(f) PROVE owner'[t] = owner[t]
  <2>1. job[firing[f].job].task \in Tasks /\ firing[f].pc # "idle"
    BY <1>4, StepUnderWay, FiringOfTask
  <2>2. job[firing[f].job].task # t
    BY <1>1, <2>1 DEF Busy, Mine
  <2>. QED
    BY <1>2, <1>4, <2>1, <2>2, StepForms DEF Keeps, Removes, Reschedule
<1>5. ASSUME NEW u \in Tasks, NEW s \in Versions, SaveTask(u, s) \/ ImportTask(u, s)
      PROVE  owner'[t] = owner[t]
  BY <1>1, <1>5 DEF SaveTask, ImportTask, Ground, TypeOK
<1>6. ASSUME NEW u \in Tasks, PopTask(u) PROVE owner'[t] = owner[t]
  BY <1>6 DEF PopTask, Ground, TypeOK
<1>. QED
  BY <1>3, <1>4, <1>5, <1>6 DEF Next, vars, tables, EditTask, DeleteTask, FinishChild,
     ReopenChild, SendId, LimitPasses, Fire, Crash, Restart, Serve

-----------------------------------------------------------------------------
(* What the tables, jobs and firings are for newStateDB, scheduleTask and  *)
(* cron's goroutines: whoever acts for a task acts for one that exists or  *)
(* existed, and a task whose firings do not overlap has one holder.        *)
THEOREM InvHolds == Spec => [](Ground /\ AloneInv)
<1>1. Init => AloneInv
  BY DEF Init, AloneInv, Alone, Busy, EntriesOf, Mine, NoJob, Idle
<1>. QED
  BY <1>1, GroundInit, GroundStep, AloneStep, PTL DEF Spec

(* The steps of job.Run, runTask and scheduleTask, and of those who call   *)
(* them, keep tables, jobs and firings within their types.                 *)
THEOREM TypeCorrect == Spec => []TypeOK
<1>1. Ground => TypeOK
  BY DEF Ground
<1>. QED
  BY <1>1, InvHolds, PTL

(* scheduleTask, runTask and recoverScheduledTasks leave a task whose      *)
(* firings have not overlapped at most one cron entry.                     *)
THEOREM OneEntryPerTask == Spec => []AtMostOneEntry
<1>1. AloneInv => AtMostOneEntry
  <2>. SUFFICES ASSUME NEW t \in Tasks, Alone(t)
                PROVE  /\ \A j, k \in EntriesOf(t) : j = k
                       /\ \A f, g \in ReschedulersOf(t) : f = g
                       /\ EntriesOf(t) = {} \/ ReschedulersOf(t) = {}
                       /\ pending[t] # NULL => EntriesOf(t) = {} /\ ReschedulersOf(t) = {}
    BY DEF AloneInv, Calm, AtMostOneEntry
  <2>1. ReschedulersOf(t) \subseteq Mine(t)
    BY DEF ReschedulersOf, At, Mine
  <2>2. \A f \in ReschedulersOf(t) : firing[f].pc \notin Acting
    BY DEF ReschedulersOf, At, Acting
  <2>. QED
    BY <2>1, <2>2 DEF Alone
<1>. QED
  BY <1>1, InvHolds, PTL

(* No task of the scheduler is forgotten while the process runs, however   *)
(* its firings overlap, unless a call of scheduleTask, or the deletion of  *)
(* the expired task, has failed.                                           *)
THEOREM NoTaskForgotten == Spec => []NeverForgotten
<1>. DEFINE I == process # "down" => \A t \in Tasks : Owned(t) => Covered(t)
<1>1. Init => I
  BY DEF Init, Owned, Present
<1>2. Ground /\ I /\ [Next]_vars => I'
  <2>. SUFFICES ASSUME Ground, I, [Next]_vars, process' # "down", NEW t \in Tasks, Owned(t)'
                PROVE  Covered(t)'
    OBVIOUS
  <2>1. process # "down" /\ Owned(t) => Covered(t)
    OBVIOUS
  <2>. HIDE DEF I
  <2>. QED
    BY <2>1, CoverStep
<1>3. I => NeverForgotten
  BY DEF NeverForgotten, Covered, ReschedulersOf
<1>. HIDE DEF I
<1>. QED
  BY <1>1, <1>2, <1>3, InvHolds, PTL DEF Spec

(* runTask's check for an unfinished child is enough, if the count could   *)
(* be read and neither another firing nor a reopened child has overtaken   *)
(* it.                                                                     *)
THEOREM ChildrenAlone == Spec => NewChildAlone
<1>1. Init => ChildInv
  BY DEF Init, ChildInv, At, Idle
<1>2. Ground /\ ChildInv /\ [Next]_vars =>
        [\A t \in Tasks : Creates(t) /\ Sure(t) => open[t] = 0]_vars
  <2>. SUFFICES ASSUME Ground, ChildInv, [Next]_vars, NEW t \in Tasks, Creates(t), Sure(t)
                PROVE  open[t] = 0
    OBVIOUS
  <2>1. ~FinishChild(t) /\ ~ReopenChild(t)
    BY DEF Creates, FinishChild, ReopenChild, Ground, TypeOK
  <2>2. open'[t] # open[t]
    BY DEF Creates, Ground, TypeOK
  <2>. QED
    BY <2>1, <2>2, OpenChanges DEF ChildInv
<1>. QED
  BY <1>1, <1>2, ChildStep, InvHolds, PTL DEF Spec, NewChildAlone, Sure

(* job.Run's receive from idChan is not in vain unless another firing has  *)
(* overlapped: the one element there is has not been taken.                *)
THEOREM IdsArrive == Spec => []IdArrives
<1>1. Init => IdArrives
  BY DEF Init, IdArrives, Idle
<1>. QED
  BY <1>1, IdStep, InvHolds, PTL DEF Spec

(* unassignScheduledTask takes no task from a worker whose firings have    *)
(* not overlapped.                                                         *)
THEOREM WorkersKeepTasks == Spec => NeverFromWorker
<1>1. Ground /\ AloneInv /\ [Next]_vars =>
        [\A t \in Tasks :
           owner[t] = "worker" /\ "overlap" \notin trouble[t] => owner'[t] = "worker"]_vars
  BY WorkerStep DEF Calm
<1>. QED
  BY <1>1, InvHolds, PTL DEF Spec, NeverFromWorker

=============================================================================
