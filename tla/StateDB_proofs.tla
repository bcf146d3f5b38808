--------------------------- MODULE StateDB_proofs ---------------------------
(***************************************************************************)
(* Theorems about StateDB, for every set of tasks, workers and handlers.   *)
(***************************************************************************)
EXTENDS StateDB, FiniteSetTheorems, TLAPS

-----------------------------------------------------------------------------
(* Type correctness.                                                       *)

(* What a handler does with its request, as the types it relies on.        *)
LEMMA RequestTypes ==
  /\ Idle \in Requests
  /\ \A pc \in {"save", "delete"}, t \in TaskIds : At(pc, NULL, t) \in Requests
  /\ \A w \in Workers : At("pop", w, NULL) \in Requests
  /\ \A w \in Workers, t \in TaskIds : At("retrieve", w, t) \in Requests
  /\ \A r \in Requests : r.pc \in {"pop", "commit"} => AfterPop(r) \in Requests
BY ConstantsAssumption DEF Idle, At, Requests, Assigning, AfterPop

LEMMA InsertRowTypes ==
  ASSUME TypeOK, NEW t \in TaskIds, NEW owner \in Owners, InsertRow(t, owner)
  PROVE  /\ row' \in [TaskIds -> {"unused", "present", "deleted"}]
         /\ workedBy' \in [TaskIds -> Owners]
         /\ data' \in [TaskIds -> [status : Statuses, workedBy : Workers \union {NULL}]]
         /\ ledger' \in [TaskIds -> Statuses]
         /\ records' \in [TaskIds -> Nat]
BY DEF TypeOK, InsertRow, Fresh, Statuses

LEMMA ScheduleTaskTypes ==
  ASSUME TypeOK, NEW t \in TaskIds, ScheduleTask(t)
  PROVE  /\ row' \in [TaskIds -> {"unused", "present", "deleted"}]
         /\ workedBy' \in [TaskIds -> Owners]
         /\ data' \in [TaskIds -> [status : Statuses, workedBy : Workers \union {NULL}]]
         /\ ledger' \in [TaskIds -> Statuses]
         /\ records' \in [TaskIds -> Nat]
         /\ jobs' \in [TaskIds -> Nat]
BY DEF TypeOK, ScheduleTask, Owners

LEMMA SaveRowTypes ==
  ASSUME TypeOK, NEW h \in Handlers, NEW t \in TaskIds, SaveRow(h, t)
  PROVE  TypeOK'
<1>1. (IF t \in Scheduled THEN SchedulerOwner ELSE NULL) \in Owners
  BY DEF Owners
<1>2. req' \in [Handlers -> Requests]
  BY RequestTypes DEF TypeOK, SaveRow
<1>. QED
  BY <1>1, <1>2, InsertRowTypes DEF TypeOK, SaveRow

(* The steps of a call in progress keep the types.                         *)
LEMMA ContinueTypes ==
  ASSUME TypeOK, NEW h \in Handlers, Continue(h)
  PROVE  TypeOK'
<1>. req[h] \in Requests
  BY DEF TypeOK
<1>1. CASE FinishSave(h)
  <2>1. req[h].task \in TaskIds
    BY <1>1 DEF FinishSave, Requests
  <2>. QED
    BY <1>1, <2>1, ScheduleTaskTypes, RequestTypes DEF FinishSave, TypeOK
<1>2. CASE PopNone(h)
  <2>1. AfterPop(req[h]) \in Requests
    BY <1>2, RequestTypes DEF PopNone
  <2>. QED
    BY <1>2, <2>1 DEF PopNone, TypeOK, tables
<1>3. CASE PopOldest(h)
  <2>1. PICK t \in Candidates(req[h].worker) :
          req' = [req EXCEPT ![h].pc = "commit", ![h].task = t,
                             ![h].scheduled = @ \/ t \in Scheduled]
    BY <1>3 DEF PopOldest
  <2>2. t \in TaskIds
    BY DEF Candidates
  <2>3. req[h].pc = "pop"
    BY <1>3 DEF PopOldest
  <2>4. req'[h] \in Requests
    BY <2>1, <2>2, <2>3 DEF Requests, Assigning, TypeOK
  <2>5. req' \in [Handlers -> Requests]
    BY <2>1, <2>4 DEF TypeOK
  <2>. QED
    BY <1>3, <2>5 DEF PopOldest, TypeOK, tables
<1>4. CASE PopCommit(h)
  <2>. req[h].pc = "commit" /\ req[h].task \in TaskIds /\ req[h].worker \in Workers
    BY <1>4 DEF PopCommit, Requests, Assigning
  <2>1. AfterPop(req[h]) \in Requests
    BY RequestTypes
  <2>2. ASSUME Retry(h) PROVE req' \in [Handlers -> Requests]
    BY <2>2 DEF Retry, TypeOK, Requests, Assigning
  <2>3. req' \in [Handlers -> Requests]
    BY <1>4, <2>1, <2>2, RequestTypes DEF PopCommit, TypeOK
  <2>4. /\ workedBy' \in [TaskIds -> Owners]
        /\ data' \in [TaskIds -> [status : Statuses, workedBy : Workers \union {NULL}]]
        /\ ledger' \in [TaskIds -> Statuses]
    <3>1. CASE req[h].task \in Scheduled
      <4>1. /\ workedBy' = [workedBy EXCEPT ![req[h].task] = SchedulerOwner]
            /\ data' = data /\ ledger' = ledger
        BY <1>4, <3>1 DEF PopCommit, WriteAssignment
      <4>. QED
        BY <4>1 DEF TypeOK, Owners
    <3>2. CASE req[h].task \notin Scheduled
      <4>1. /\ workedBy' = [workedBy EXCEPT ![req[h].task] = req[h].worker]
            /\ data' = [data EXCEPT ![req[h].task] =
                          [status |-> "InProgress", workedBy |-> req[h].worker]]
            /\ ledger' = [ledger EXCEPT ![req[h].task] = "InProgress"]
        BY <1>4, <3>2 DEF PopCommit, WriteAssignment
      <4>. QED
        BY <4>1 DEF TypeOK, Owners, Statuses
    <3>. QED
      BY <3>1, <3>2
  <2>. QED
    BY <1>4, <2>3, <2>4 DEF PopCommit, TypeOK
<1>5. CASE PopRetry(h)
  <2>1. req' \in [Handlers -> Requests]
    BY <1>5 DEF PopRetry, Retry, TypeOK, Requests, Assigning
  <2>. QED
    BY <1>5, <2>1 DEF PopRetry, TypeOK, tables
<1>6. CASE PopSchedule(h)
  <2>1. req[h].task \in TaskIds /\ req[h].worker \in Workers
    BY <1>6 DEF PopSchedule, Requests, Assigning
  <2>2. At("pop", req[h].worker, NULL) \in Requests
    BY <2>1, RequestTypes
  <2>. QED
    BY <1>6, <2>1, <2>2, ScheduleTaskTypes DEF PopSchedule, TypeOK
<1>7. CASE Reply(h)
  BY <1>7, RequestTypes DEF Reply, TypeOK, tables
<1>8. CASE \E r \in TaskIds : NewRetrievalTask(h, r)
  BY <1>8, SaveRowTypes DEF NewRetrievalTask
<1>9. CASE DeleteCommit(h)
  BY <1>9, RequestTypes DEF DeleteCommit, TypeOK
<1>10. CASE Abandon(h)
  BY <1>10, RequestTypes DEF Abandon, TypeOK, tables
<1>. QED
  BY <1>1, <1>2, <1>3, <1>4, <1>5, <1>6, <1>7, <1>8, <1>9, <1>10 DEF Continue

(* So do the calls that begin.                                             *)
LEMMA ReceiveTypes ==
  ASSUME TypeOK, NEW h \in Handlers, Receive(h)
  PROVE  TypeOK'
<1>1. ASSUME NEW t \in TaskIds, SaveTask(h, t) PROVE TypeOK'
  BY <1>1, SaveRowTypes DEF SaveTask
<1>2. ASSUME NEW t \in TaskIds, DeleteCheck(h, t) PROVE TypeOK'
  BY <1>2, RequestTypes DEF DeleteCheck, TypeOK, tables
<1>3. ASSUME NEW w \in Workers, AssignTask(h, w) PROVE TypeOK'
  BY <1>3, RequestTypes DEF AssignTask, TypeOK, tables
<1>4. ASSUME NEW w \in Workers, NEW t \in TaskIds, NEW s \in Statuses,
             Update(h, w, t, s)
      PROVE TypeOK'
  <2>1. req' \in [Handlers -> Requests]
    BY <1>4, RequestTypes DEF Update, TypeOK
  <2>2. data' \in [TaskIds -> [status : Statuses, workedBy : Workers \union {NULL}]]
    BY <1>4 DEF Update, TypeOK
  <2>3. records' \in [TaskIds -> Nat] /\ ledger' \in [TaskIds -> Statuses]
    BY <1>4 DEF Update, AppendStatus, TypeOK
  <2>. QED
    BY <1>4, <2>1, <2>2, <2>3 DEF Update, TypeOK
<1>. QED
  BY <1>1, <1>2, <1>3, <1>4 DEF Receive

LEMMA TypeInit == Init => TypeOK
BY RequestTypes DEF Init, TypeOK, Fresh, Statuses, Owners

LEMMA TypeInductive ==
  ASSUME TypeOK, [Next]_vars
  PROVE  TypeOK'
<1>1. ASSUME NEW w \in Workers, ResetWorkerTasks(w) PROVE TypeOK'
  BY <1>1 DEF ResetWorkerTasks, ResetData, TypeOK, Fresh, Statuses, Owners
<1>2. ASSUME NEW w \in Workers, DrainWorker(w) \/ UndrainWorker(w) PROVE TypeOK'
  BY <1>2 DEF DrainWorker, UndrainWorker, TypeOK, tables
<1>3. ASSUME NEW t \in TaskIds, ImportTask(t) PROVE TypeOK'
  <2>1. NULL \in Owners
    BY DEF Owners
  <2>. QED
    BY <1>3, <2>1, InsertRowTypes DEF ImportTask, TypeOK
<1>4. CASE Crash
  BY <1>4, RequestTypes DEF Crash, TypeOK, tables
<1>5. CASE Restart
  BY <1>5 DEF Restart, TypeOK, tables
<1>6. CASE UNCHANGED vars
  BY <1>6 DEF vars, TypeOK
<1>. QED
  BY <1>1, <1>2, <1>3, <1>4, <1>5, <1>6, ReceiveTypes, ContinueTypes DEF Next

(* Whatever clients ask for, whichever transactions are retried or lost    *)
(* and whenever the controller stops, the tables hold what their columns   *)
(* may hold and every call knows its worker and task.                      *)
THEOREM TypeCorrect == Spec => []TypeOK
<1>1. TypeOK /\ [Next]_vars => TypeOK'
  BY TypeInductive
<1>. QED
  BY <1>1, TypeInit, PTL DEF Spec

-----------------------------------------------------------------------------
(* The ledger and the serialized task.                                     *)

(* The latest ledger entry of every row has the status of its serialized   *)
(* task, so that ResetWorkerTasks, which selects by the ledger, resets     *)
(* exactly the tasks that Update and popTask left in progress.             *)
THEOREM LedgerCorrect == Spec => []LedgerAgrees
<1>1. Init => LedgerAgrees
  BY DEF Init, LedgerAgrees, Fresh
<1>2. TypeOK /\ LedgerAgrees /\ [Next]_vars => LedgerAgrees'
  <2>. SUFFICES ASSUME TypeOK, LedgerAgrees, [Next]_vars PROVE LedgerAgrees'
    OBVIOUS
  <2>. USE DEF LedgerAgrees, Present
  <2>1. ASSUME NEW t \in TaskIds, NEW owner, InsertRow(t, owner)
        PROVE  LedgerAgrees'
    BY <2>1 DEF InsertRow, TypeOK, Fresh
  <2>2. ASSUME NEW h \in Handlers, Continue(h) PROVE LedgerAgrees'
    <3>. req[h] \in Requests
      BY DEF TypeOK
    <3>1. CASE FinishSave(h)
      BY <3>1 DEF FinishSave, ScheduleTask
    <3>2. CASE PopCommit(h)
      BY <3>2 DEF PopCommit, WriteAssignment, TypeOK
    <3>3. CASE PopSchedule(h)
      BY <3>3 DEF PopSchedule, ScheduleTask
    <3>4. CASE \E r \in TaskIds : NewRetrievalTask(h, r)
      BY <3>4, <2>1 DEF NewRetrievalTask, SaveRow
    <3>5. CASE DeleteCommit(h)
      BY <3>5 DEF DeleteCommit, TypeOK, Requests
    <3>6. CASE PopNone(h) \/ PopOldest(h) \/ PopRetry(h) \/ Reply(h) \/ Abandon(h)
      BY <3>6 DEF PopNone, PopOldest, PopRetry, Reply, Abandon, tables
    <3>. QED
      BY <2>2, <3>1, <3>2, <3>3, <3>4, <3>5, <3>6 DEF Continue
  <2>3. ASSUME NEW h \in Handlers, Receive(h) PROVE LedgerAgrees'
    <3>1. ASSUME NEW t \in TaskIds, SaveTask(h, t) PROVE LedgerAgrees'
      BY <3>1, <2>1 DEF SaveTask, SaveRow
    <3>2. ASSUME NEW w \in Workers, NEW t \in TaskIds, NEW s \in Statuses,
                 Update(h, w, t, s)
          PROVE  LedgerAgrees'
      <4>1. /\ row' = row
            /\ data' = [data EXCEPT ![t].status = s]
            /\ \/ ledger' = [ledger EXCEPT ![t] = s]
               \/ s = data[t].status /\ ledger' = ledger
        BY <3>2 DEF Update, AppendStatus
      <4>2. data'[t].status = s /\ \A u \in TaskIds \ {t} : data'[u] = data[u]
        BY <4>1 DEF TypeOK
      <4>. QED
        BY <4>1, <4>2 DEF TypeOK
    <3>3. ASSUME NEW t \in TaskIds, DeleteCheck(h, t) PROVE LedgerAgrees'
      BY <3>3 DEF DeleteCheck, tables
    <3>4. ASSUME NEW w \in Workers, AssignTask(h, w) PROVE LedgerAgrees'
      BY <3>4 DEF AssignTask, tables
    <3>. QED
      BY <2>3, <3>1, <3>2, <3>3, <3>4 DEF Receive
  <2>4. ASSUME NEW w \in Workers, ResetWorkerTasks(w) PROVE LedgerAgrees'
    BY <2>4 DEF ResetWorkerTasks, ResetData, Fresh
  <2>5. ASSUME NEW w \in Workers, DrainWorker(w) \/ UndrainWorker(w)
        PROVE  LedgerAgrees'
    BY <2>5 DEF DrainWorker, UndrainWorker, tables
  <2>6. ASSUME NEW t \in TaskIds, ImportTask(t) PROVE LedgerAgrees'
    BY <2>6, <2>1 DEF ImportTask
  <2>7. CASE Crash \/ Restart \/ UNCHANGED vars
    BY <2>7 DEF Crash, Restart, vars, tables
  <2>. QED
    BY <2>2, <2>3, <2>4, <2>5, <2>6, <2>7 DEF Next
<1>. QED
  BY <1>1, <1>2, TypeCorrect, PTL DEF Spec

-----------------------------------------------------------------------------
(* The column, the serialized owner and what a retry leaves behind.        *)

(* What keeps a failed attempt of popTask from being taken for a later     *)
(* one's result: either nothing is retried, or no task with a schedule is  *)
(* without an owner for popTask to find.                                   *)
NothingLeftBehind == MaxAttempts = 1 \/ Imported = {}

(* `scheduled` is what the task popped last says.                          *)
FlagsSound ==
  \A h \in Handlers :
    /\ req[h].pc = "pop" => ~req[h].scheduled
    /\ req[h].pc = "commit" => (req[h].scheduled <=> req[h].task \in Scheduled)
    /\ req[h].pc \in {"schedule", "save"} => req[h].task \in Scheduled
    /\ req[h].pc = "commit" /\ Imported = {} => req[h].task \notin Scheduled

SchedulerKeeps ==
  Imported = {} =>
    \A t \in Scheduled : Present(t) => workedBy[t] = SchedulerOwner

OwnerInv == TypeOK /\ OwnerAgrees /\ FlagsSound /\ SchedulerKeeps

(* One lemma for each part of the invariant and each group of steps.       *)
LEMMA OwnerContinue ==
  ASSUME NothingLeftBehind, OwnerInv, NEW h \in Handlers, Continue(h)
  PROVE  OwnerInv'
<1>. USE DEF OwnerInv
<1>1. TypeOK'
  BY ContinueTypes
<1>. req[h] \in Requests
  BY DEF TypeOK
<1>. NULL # SchedulerOwner /\ NULL \notin Workers /\ SchedulerOwner \notin Workers
  BY ConstantsAssumption
<1>. DEFINE Tables == OwnerAgrees /\ SchedulerKeeps
<1>a. ASSUME UNCHANGED tables PROVE Tables'
  BY <1>a DEF tables, OwnerAgrees, SchedulerKeeps, Present
<1>b. ASSUME NEW r, r.pc \notin {"pop", "commit", "schedule", "save"},
             req' = [req EXCEPT ![h] = r]
      PROVE  FlagsSound'
  BY <1>b DEF FlagsSound, TypeOK
<1>2. CASE FinishSave(h)
  <2>1. req[h].task \in Scheduled
    BY <1>2 DEF FinishSave, FlagsSound
  <2>2. Tables'
    BY <1>2, <2>1 DEF FinishSave, ScheduleTask, OwnerAgrees, SchedulerKeeps, Present
  <2>. QED
    BY <1>1, <1>2, <1>b, <2>2 DEF FinishSave, Idle
<1>3. CASE PopNone(h)
  <2>1. ~req[h].scheduled
    BY <1>3 DEF PopNone, FlagsSound
  <2>2. AfterPop(req[h]).pc \in {"idle", "reply"}
    BY <2>1 DEF AfterPop, Idle, Requests
  <2>. QED
    BY <1>1, <1>3, <1>a, <1>b, <2>2 DEF PopNone
<1>4. CASE PopOldest(h)
  <2>1. PICK t \in Candidates(req[h].worker) :
          req' = [req EXCEPT ![h].pc = "commit", ![h].task = t,
                             ![h].scheduled = @ \/ t \in Scheduled]
    BY <1>4 DEF PopOldest
  <2>2. ~req[h].scheduled
    BY <1>4 DEF PopOldest, FlagsSound
  <2>3. Imported = {} => t \notin Scheduled
    BY DEF Candidates, SchedulerKeeps
  <2>4. /\ req'[h].pc = "commit" /\ req'[h].task = t
        /\ req'[h].scheduled <=> t \in Scheduled
    BY <2>1, <2>2 DEF TypeOK, Requests
  <2>5. FlagsSound'
    BY <2>1, <2>3, <2>4 DEF FlagsSound, TypeOK
  <2>. QED
    BY <1>1, <1>4, <1>a, <2>5 DEF PopOldest
<1>5. ASSUME req[h].pc = "commit", Retry(h) PROVE FlagsSound'
  <2>1. Imported = {}
    BY <1>5 DEF Retry, NothingLeftBehind, Requests
  <2>2. ~req[h].scheduled
    BY <1>5, <2>1 DEF FlagsSound
  <2>3. req'[h].pc = "pop" /\ ~req'[h].scheduled
    BY <1>5, <2>2 DEF Retry, TypeOK, Requests
  <2>. QED
    BY <1>5, <2>3 DEF Retry, FlagsSound, TypeOK
<1>6. CASE PopCommit(h)
  <2>. /\ req[h].pc = "commit" /\ req[h].task \in TaskIds
       /\ req[h].worker \in Workers /\ workedBy[req[h].task] = NULL
       /\ Present(req[h].task)
    BY <1>6 DEF PopCommit, Requests, Assigning
  <2>1. ASSUME req' = [req EXCEPT ![h] = AfterPop(req[h])] PROVE FlagsSound'
    <3>1. req'[h] = AfterPop(req[h])
      BY <2>1 DEF TypeOK
    <3>2. /\ req'[h].pc = (IF req[h].scheduled THEN "schedule" ELSE "reply")
          /\ req'[h].task = req[h].task
      BY <3>1, ConstantsAssumption DEF AfterPop, Requests
    <3>. QED
      BY <2>1, <3>2 DEF FlagsSound, TypeOK
  <2>2. FlagsSound'
    BY <1>6, <1>5, <1>b, <2>1 DEF PopCommit, Idle
  <2>3. OwnerAgrees'
    <3>1. data[req[h].task] = Fresh
      BY DEF OwnerAgrees
    <3>2. CASE req[h].task \in Scheduled
      BY <1>6, <3>1, <3>2 DEF PopCommit, WriteAssignment, OwnerAgrees, Present, TypeOK
    <3>3. CASE req[h].task \notin Scheduled
      <4>1. /\ workedBy' = [workedBy EXCEPT ![req[h].task] = req[h].worker]
            /\ data' = [data EXCEPT ![req[h].task] =
                          [status |-> "InProgress", workedBy |-> req[h].worker]]
            /\ row' = row
        BY <1>6, <3>3 DEF PopCommit, WriteAssignment
      <4>2. data'[req[h].task].workedBy = req[h].worker
            /\ data'[req[h].task].status = "InProgress"
        BY <4>1 DEF TypeOK
      <4>. QED
        BY <4>1, <4>2 DEF OwnerAgrees, Present, TypeOK
    <3>. QED
      BY <3>2, <3>3
  <2>4. SchedulerKeeps'
    <3>1. Imported = {} => req[h].task \notin Scheduled
      BY DEF FlagsSound
    <3>2. \A t \in TaskIds \ {req[h].task} : workedBy'[t] = workedBy[t]
      BY <1>6 DEF PopCommit, WriteAssignment, TypeOK
    <3>3. row' = row
      BY <1>6 DEF PopCommit
    <3>. QED
      BY <3>1, <3>2, <3>3, ConstantsAssumption DEF SchedulerKeeps, Present
  <2>. QED
    BY <1>1, <2>2, <2>3, <2>4
<1>7. CASE PopRetry(h)
  BY <1>1, <1>5, <1>7, <1>a DEF PopRetry
<1>8. CASE PopSchedule(h)
  <2>1. req[h].task \in Scheduled
    BY <1>8 DEF PopSchedule, FlagsSound
  <2>2. Tables'
    BY <1>8, <2>1 DEF PopSchedule, ScheduleTask, OwnerAgrees, SchedulerKeeps, Present
  <2>3. FlagsSound'
    BY <1>8 DEF PopSchedule, At, FlagsSound, TypeOK
  <2>. QED
    BY <1>1, <2>2, <2>3
<1>9. CASE \E r \in TaskIds : NewRetrievalTask(h, r)
  <2>1. PICK r \in TaskIds : NewRetrievalTask(h, r)
    BY <1>9
  <2>2. Tables'
    BY <2>1 DEF NewRetrievalTask, SaveRow, InsertRow, OwnerAgrees, SchedulerKeeps,
                Present, TypeOK
  <2>3. FlagsSound'
    BY <2>1 DEF NewRetrievalTask, SaveRow, At, Idle, FlagsSound, TypeOK
  <2>. QED
    BY <1>1, <2>2, <2>3
<1>10. CASE DeleteCommit(h)
  <2>1. Tables'
    BY <1>10 DEF DeleteCommit, OwnerAgrees, SchedulerKeeps, Present, TypeOK
  <2>. QED
    BY <1>1, <1>10, <1>b, <2>1 DEF DeleteCommit, Idle
<1>11. CASE Reply(h) \/ Abandon(h)
  BY <1>1, <1>11, <1>a, <1>b DEF Reply, Abandon, Idle
<1>. QED
  BY <1>2, <1>3, <1>4, <1>6, <1>7, <1>8, <1>9, <1>10, <1>11 DEF Continue

LEMMA OwnerReceive ==
  ASSUME OwnerInv, NEW h \in Handlers, Receive(h)
  PROVE  OwnerInv'
<1>. USE DEF OwnerInv
<1>1. TypeOK'
  BY ReceiveTypes
<1>. NULL # SchedulerOwner /\ NULL \notin Workers /\ SchedulerOwner \notin Workers
  BY ConstantsAssumption
<1>2. ASSUME NEW t \in TaskIds, SaveTask(h, t) PROVE OwnerInv'
  <2>1. OwnerAgrees'
    BY <1>2 DEF SaveTask, SaveRow, InsertRow, OwnerAgrees, Present, TypeOK
  <2>2. SchedulerKeeps'
    BY <1>2 DEF SaveTask, SaveRow, InsertRow, SchedulerKeeps, Present, TypeOK
  <2>3. FlagsSound'
    BY <1>2 DEF SaveTask, SaveRow, At, Idle, FlagsSound, TypeOK
  <2>. QED
    BY <1>1, <2>1, <2>2, <2>3
<1>3. ASSUME NEW t \in TaskIds, DeleteCheck(h, t) PROVE OwnerInv'
  BY <1>1, <1>3 DEF DeleteCheck, tables, OwnerAgrees, SchedulerKeeps, Present,
                    FlagsSound, At, TypeOK
<1>4. ASSUME NEW w \in Workers, AssignTask(h, w) PROVE OwnerInv'
  BY <1>1, <1>4 DEF AssignTask, tables, OwnerAgrees, SchedulerKeeps, Present,
                    FlagsSound, At, TypeOK
<1>5. ASSUME NEW w \in Workers, NEW t \in TaskIds, NEW s \in Statuses \ {"Available"},
             Update(h, w, t, s)
      PROVE  OwnerInv'
  <2>1. workedBy[t] = w
    BY <1>5 DEF Update, OwnerAgrees, Fresh
  <2>2. OwnerAgrees'
    BY <1>5, <2>1 DEF Update, OwnerAgrees, Present, TypeOK
  <2>3. SchedulerKeeps'
    BY <1>5 DEF Update, SchedulerKeeps, Present
  <2>4. FlagsSound'
    BY <1>5 DEF Update, At, FlagsSound, TypeOK
  <2>. QED
    BY <1>1, <2>2, <2>3, <2>4
<1>. QED
  BY <1>2, <1>3, <1>4, <1>5, Receive(h) DEF Receive

LEMMA OwnerInductive ==
  ASSUME NothingLeftBehind, OwnerInv, [Next]_vars
  PROVE  OwnerInv'
<1>. USE DEF OwnerInv
<1>. NULL # SchedulerOwner /\ NULL \notin Workers /\ SchedulerOwner \notin Workers
  BY ConstantsAssumption
<1>1. TypeOK'
  BY TypeInductive
<1>2. ASSUME NEW w \in Workers, ResetWorkerTasks(w) PROVE OwnerInv'
  <2>. DEFINE reset == InProgressOf(w)
  <2>1. /\ row' = row /\ req' = req
        /\ data' = [t \in TaskIds |-> IF t \in reset THEN Fresh ELSE data[t]]
        /\ workedBy' = [t \in TaskIds |-> IF t \in reset THEN NULL ELSE workedBy[t]]
    BY <1>2 DEF ResetWorkerTasks, ResetData
  <2>2. \A t \in reset : workedBy[t] = w
    BY DEF InProgressOf
  <2>. HIDE DEF reset
  <2>3. OwnerAgrees'
    BY <2>1 DEF OwnerAgrees, Present
  <2>4. SchedulerKeeps'
    BY <2>1, <2>2, ConstantsAssumption DEF SchedulerKeeps, Present
  <2>5. FlagsSound'
    BY <2>1 DEF FlagsSound
  <2>. QED
    BY <1>1, <2>3, <2>4, <2>5
<1>3. ASSUME NEW w \in Workers, DrainWorker(w) \/ UndrainWorker(w) PROVE OwnerInv'
  BY <1>1, <1>3 DEF DrainWorker, UndrainWorker, tables, OwnerAgrees,
                    SchedulerKeeps, FlagsSound, Present
<1>4. ASSUME NEW t \in TaskIds, ImportTask(t) PROVE OwnerInv'
  BY <1>1, <1>4 DEF ImportTask, InsertRow, OwnerAgrees, SchedulerKeeps, FlagsSound,
                    Present, TypeOK
<1>5. CASE Crash
  BY <1>1, <1>5 DEF Crash, tables, OwnerAgrees, SchedulerKeeps, FlagsSound, Present, Idle
<1>6. CASE Restart
  BY <1>1, <1>6 DEF Restart, tables, OwnerAgrees, SchedulerKeeps, FlagsSound, Present
<1>7. CASE UNCHANGED vars
  BY <1>1, <1>7 DEF vars, OwnerAgrees, SchedulerKeeps, FlagsSound, Present
<1>. QED
  BY <1>2, <1>3, <1>4, <1>5, <1>6, <1>7, OwnerContinue, OwnerReceive DEF Next

LEMMA OwnerInit == Init => OwnerInv
BY ConstantsAssumption, TypeInit
   DEF Init, OwnerInv, OwnerAgrees, FlagsSound, SchedulerKeeps, Present, Idle, Fresh

(* The worked_by column and the serialized WorkedBy never disagree on who  *)
(* works on a row, for any number of concurrent calls and with retried and *)
(* unacknowledged transactions, as long as no retry of popTask can carry   *)
(* `scheduled` over from an attempt that failed.                           *)
THEOREM OwnerCorrect ==
  ASSUME NothingLeftBehind
  PROVE  Spec => []OwnerAgrees
<1>1. OwnerInv /\ [Next]_vars => OwnerInv'
  BY OwnerInductive
<1>2. OwnerInv => OwnerAgrees
  BY DEF OwnerInv
<1>. QED
  BY <1>1, <1>2, OwnerInit, PTL DEF Spec

-----------------------------------------------------------------------------
(* The tables implement the task board.                                    *)

cards == [t \in TaskIds |-> Card(t)]

LEMMA BoardStutters ==
  ASSUME row' = row, workedBy' = workedBy, data' = data
  PROVE  cards' = cards
BY DEF cards, Card

LEMMA BoardPost ==
  ASSUME TypeOK, NEW t \in TaskIds, NEW owner \in {NULL, SchedulerOwner},
         owner = SchedulerOwner => t \in Scheduled, InsertRow(t, owner)
  PROVE  Board!Post(t)
<1>. SchedulerOwner # NULL
  BY ConstantsAssumption
<1>1. cards' = [cards EXCEPT ![t] = IF owner = NULL THEN [kind |-> "open"]
                                                   ELSE [kind |-> "kept"]]
  BY DEF InsertRow, cards, Card, TypeOK
<1>2. cards[t] = [kind |-> "absent"]
  BY DEF InsertRow, cards, Card
<1>. QED
  BY <1>1, <1>2 DEF Board!Post, Board!Absent, Board!Open, Board!Kept, cards

LEMMA BoardClaim ==
  ASSUME OwnerInv, NEW h \in Handlers, PopCommit(h)
  PROVE  \E t \in TaskIds : Board!Adopt(t) \/ \E w \in Workers : Board!Claim(t, w)
<1>. DEFINE t == req[h].task
            w == req[h].worker
<1>. SchedulerOwner \notin Workers \union {NULL} /\ NULL \notin Workers
  BY ConstantsAssumption
<1>1. /\ t \in TaskIds /\ w \in Workers
      /\ row[t] = "present" /\ workedBy[t] = NULL /\ row' = row
  BY DEF OwnerInv, TypeOK, PopCommit, Requests, Assigning, Present
<1>2. cards[t] = [kind |-> "open"]
  BY <1>1 DEF cards, Card
<1>3. CASE t \in Scheduled
  <2>1. workedBy' = [workedBy EXCEPT ![t] = SchedulerOwner] /\ data' = data
    BY <1>3 DEF PopCommit, WriteAssignment
  <2>2. cards' = [cards EXCEPT ![t] = [kind |-> "kept"]]
    BY <1>1, <2>1 DEF cards, Card, OwnerInv, TypeOK
  <2>. QED
    BY <1>1, <1>2, <1>3, <2>2 DEF Board!Adopt, Board!Open, Board!Kept, cards
<1>4. CASE t \notin Scheduled
  <2>1. /\ workedBy' = [workedBy EXCEPT ![t] = w]
        /\ data' = [data EXCEPT ![t] = [status |-> "InProgress", workedBy |-> w]]
    BY <1>4 DEF PopCommit, WriteAssignment
  <2>2. cards' = [cards EXCEPT ![t] = [kind |-> "held", by |-> w, status |-> "InProgress"]]
    BY <1>1, <2>1 DEF cards, Card, OwnerInv, TypeOK
  <2>3. Board!Claim(t, w)
    BY <1>2, <1>4, <2>2 DEF Board!Claim, Board!Open, Board!Held, cards
  <2>. QED
    BY <1>1, <2>3
<1>. QED
  BY <1>3, <1>4

LEMMA BoardReport ==
  ASSUME OwnerInv, NEW h \in Handlers, NEW w \in Workers, NEW t \in TaskIds,
         NEW s \in Statuses \ {"Available"}, Update(h, w, t, s)
  PROVE  Board!Report(t, w, s)
<1>. SchedulerOwner \notin Workers \union {NULL} /\ NULL \notin Workers
  BY ConstantsAssumption
<1>1. /\ row[t] = "present" /\ row' = row /\ workedBy' = workedBy
      /\ data' = [data EXCEPT ![t].status = s]
      /\ data[t].workedBy = w
  BY DEF Update, Present
<1>2. workedBy[t] = w /\ data[t].status \in Board!Reports
  BY <1>1 DEF OwnerInv, OwnerAgrees, Present, Fresh, TypeOK, Statuses, Board!Reports
<1>3. cards[t] = [kind |-> "held", by |-> w, status |-> data[t].status]
  BY <1>1, <1>2 DEF cards, Card
<1>4. cards' = [cards EXCEPT ![t] = [kind |-> "held", by |-> w, status |-> s]]
  BY <1>1, <1>2 DEF cards, Card, OwnerInv, TypeOK
<1>. QED
  BY <1>2, <1>3, <1>4 DEF Board!Report, Board!Held, cards

LEMMA BoardRelease ==
  ASSUME OwnerInv, LedgerAgrees, NEW w \in Workers, ResetWorkerTasks(w)
  PROVE  Board!Release(w)
<1>. SchedulerOwner \notin Workers \union {NULL} /\ NULL \notin Workers
  BY ConstantsAssumption
<1>. DEFINE reset == InProgressOf(w)
<1>1. /\ row' = row
      /\ data' = [t \in TaskIds |-> IF t \in reset THEN Fresh ELSE data[t]]
      /\ workedBy' = [t \in TaskIds |-> IF t \in reset THEN NULL ELSE workedBy[t]]
  BY DEF ResetWorkerTasks, ResetData
<1>2. \A t \in TaskIds :
        t \in reset <=> cards[t] = [kind |-> "held", by |-> w, status |-> "InProgress"]
  BY DEF InProgressOf, cards, Card, LedgerAgrees, Present, OwnerInv, TypeOK
<1>3. \A t \in reset : row[t] = "present"
  BY DEF InProgressOf, Present
<1>. HIDE DEF reset
<1>4. \A t \in TaskIds : Card(t)' = IF t \in reset THEN [kind |-> "open"] ELSE Card(t)
  BY <1>1, <1>3 DEF Card
<1>. QED
  BY <1>2, <1>4 DEF Board!Release, Board!Held, Board!Open, cards

LEMMA BoardRemove ==
  ASSUME OwnerInv, NEW h \in Handlers, DeleteCommit(h)
  PROVE  cards' = cards \/ \E t \in TaskIds : Board!Remove(t)
<1>. DEFINE t == req[h].task
<1>1. /\ t \in TaskIds
      /\ row' = [row EXCEPT ![t] = IF row[t] = "present" THEN "deleted" ELSE @]
      /\ workedBy' = workedBy /\ data' = data
  BY DEF OwnerInv, TypeOK, DeleteCommit, Requests, Present
<1>2. CASE row[t] = "present"
  <2>1. cards' = [cards EXCEPT ![t] = [kind |-> "gone"]]
    BY <1>1, <1>2 DEF cards, Card, OwnerInv, TypeOK
  <2>2. cards[t] # [kind |-> "absent"]
    BY <1>1, <1>2 DEF cards, Card
  <2>. QED
    BY <1>1, <2>1, <2>2 DEF Board!Remove, Board!Absent, Board!Gone, cards
<1>3. CASE row[t] # "present"
  BY <1>1, <1>3, BoardStutters DEF OwnerInv, TypeOK
<1>. QED
  BY <1>2, <1>3

(* Every step of the tables is a step of the board or changes none of it.  *)
LEMMA BoardStep ==
  ASSUME NothingLeftBehind, OwnerInv, LedgerAgrees, [Next]_vars
  PROVE  Board!Next \/ cards' = cards
<1>. USE DEF OwnerInv
<1>. SchedulerOwner \notin Workers \union {NULL}
  BY ConstantsAssumption
<1>1. ASSUME UNCHANGED tables PROVE cards' = cards
  BY <1>1, BoardStutters DEF tables
<1>2. ASSUME NEW h \in Handlers, NEW t \in TaskIds, SaveRow(h, t)
      PROVE  Board!Post(t)
  BY <1>2, BoardPost DEF SaveRow
<1>3. ASSUME NEW h \in Handlers, Continue(h) PROVE Board!Next \/ cards' = cards
  <2>1. CASE FinishSave(h) \/ PopSchedule(h)
    <3>1. req[h].task \in Scheduled
      BY <2>1 DEF FinishSave, PopSchedule, FlagsSound
    <3>2. ScheduleTask(req[h].task)
      BY <2>1 DEF FinishSave, PopSchedule
    <3>. QED
      BY <3>1, <3>2, BoardStutters DEF ScheduleTask
  <2>2. CASE PopCommit(h)
    BY <2>2, BoardClaim DEF Board!Next
  <2>3. CASE \E r \in TaskIds : NewRetrievalTask(h, r)
    BY <2>3, <1>2 DEF NewRetrievalTask, Board!Next
  <2>4. CASE DeleteCommit(h)
    BY <2>4, BoardRemove DEF Board!Next
  <2>5. CASE PopNone(h) \/ PopOldest(h) \/ PopRetry(h) \/ Reply(h) \/ Abandon(h)
    BY <2>5, <1>1 DEF PopNone, PopOldest, PopRetry, Reply, Abandon
  <2>. QED
    BY <1>3, <2>1, <2>2, <2>3, <2>4, <2>5 DEF Continue
<1>4. ASSUME NEW h \in Handlers, Receive(h) PROVE Board!Next \/ cards' = cards
  <2>1. ASSUME NEW t \in TaskIds, SaveTask(h, t) PROVE Board!Next
    BY <2>1, <1>2 DEF SaveTask, Board!Next
  <2>2. ASSUME NEW w \in Workers, NEW t \in TaskIds, NEW s \in Statuses \ {"Available"},
               Update(h, w, t, s)
        PROVE  Board!Next
    <3>1. s \in Board!Reports
      BY DEF Statuses, Board!Reports
    <3>. QED
      BY <2>2, <3>1, BoardReport DEF Board!Next
  <2>3. ASSUME NEW t \in TaskIds, DeleteCheck(h, t) PROVE cards' = cards
    BY <2>3, <1>1 DEF DeleteCheck
  <2>4. ASSUME NEW w \in Workers, AssignTask(h, w) PROVE cards' = cards
    BY <2>4, <1>1 DEF AssignTask
  <2>. QED
    BY <1>4, <2>1, <2>2, <2>3, <2>4 DEF Receive
<1>5. ASSUME NEW w \in Workers, ResetWorkerTasks(w) PROVE Board!Next
  BY <1>5, BoardRelease DEF Board!Next
<1>6. ASSUME NEW w \in Workers, DrainWorker(w) \/ UndrainWorker(w)
      PROVE  cards' = cards
  BY <1>6, <1>1 DEF DrainWorker, UndrainWorker
<1>7. ASSUME NEW t \in TaskIds, ImportTask(t) PROVE Board!Next
  BY <1>7, BoardPost DEF ImportTask, Board!Next
<1>8. CASE Crash \/ Restart \/ UNCHANGED vars
  BY <1>8, <1>1 DEF Crash, Restart, vars, tables
<1>. QED
  BY <1>3, <1>4, <1>5, <1>6, <1>7, <1>8 DEF Next

(* The task table does what TaskBoard promises: only the holder reports on *)
(* a task, a held task changes hands only by a release while in progress,  *)
(* a finished one is never handed out again.                               *)
THEOREM BoardImplemented ==
  ASSUME NothingLeftBehind
  PROVE  Spec => ImplementsBoard
<1>1. Init => Board!Init
  BY DEF Init, Board!Init, Board!Absent, Card
<1>2. OwnerInv /\ LedgerAgrees /\ [Next]_vars => [Board!Next]_cards
  BY BoardStep
<1>3. Spec => []OwnerInv
  <2>1. OwnerInv /\ [Next]_vars => OwnerInv'
    BY OwnerInductive
  <2>. QED
    BY <2>1, OwnerInit, PTL DEF Spec
<1>. QED
  BY <1>1, <1>2, <1>3, LedgerCorrect, PTL DEF Spec, ImplementsBoard, Board!Spec, cards

-----------------------------------------------------------------------------
(* What the steps of the handlers may never do.                            *)

(* A step of a handler touches its own request only.                       *)
LEMMA OthersUnchanged ==
  ASSUME TypeOK, NEW h \in Handlers, Receive(h) \/ Continue(h)
  PROVE  \A g \in Handlers \ {h} : req'[g] = req[g]
<1>1. CASE Receive(h)
  BY <1>1 DEF Receive, SaveTask, SaveRow, DeleteCheck, AssignTask, Update, TypeOK
<1>2. CASE Continue(h)
  BY <1>2 DEF Continue, FinishSave, PopNone, PopOldest, PopCommit, PopRetry, Retry,
              PopSchedule, Reply, NewRetrievalTask, SaveRow, DeleteCommit, Abandon, TypeOK
<1>. QED
  BY <1>1, <1>2

(* A first attempt of popTask starts with nothing, and one that has taken  *)
(* a task with a schedule says so.                                         *)
AttemptsSound ==
  \A h \in Handlers :
    /\ req[h].pc = "pop" /\ req[h].attempts = 0 => req[h].task = NULL
    /\ req[h].pc = "commit" /\ req[h].task \in Scheduled => req[h].scheduled

LEMMA AttemptsInductive ==
  ASSUME TypeOK, AttemptsSound, [Next]_vars
  PROVE  AttemptsSound'
<1>. DEFINE Sound(r) == /\ r.pc = "pop" /\ r.attempts = 0 => r.task = NULL
                        /\ r.pc = "commit" /\ r.task \in Scheduled => r.scheduled
<1>1. ASSUME NEW h \in Handlers, Receive(h) \/ Continue(h) PROVE AttemptsSound'
  <2>. req[h] \in Requests /\ Sound(req[h])
    BY DEF TypeOK, AttemptsSound
  <2>. SUFFICES Sound(req'[h])
    BY <1>1, OthersUnchanged DEF AttemptsSound
  <2>. Sound(Idle) /\ \A w, t : \A pc \in {"save", "delete", "retrieve"} : Sound(At(pc, w, t))
    BY DEF Idle, At
  <2>. \A w : Sound(At("pop", w, NULL))
    BY DEF At
  <2>1. CASE Receive(h)
    <3>1. ASSUME NEW t \in TaskIds, SaveTask(h, t) \/ DeleteCheck(h, t) PROVE Sound(req'[h])
      BY <3>1 DEF SaveTask, SaveRow, DeleteCheck, TypeOK
    <3>2. ASSUME NEW w \in Workers, AssignTask(h, w) PROVE Sound(req'[h])
      BY <3>2 DEF AssignTask, TypeOK
    <3>3. ASSUME NEW w \in Workers, NEW t \in TaskIds, NEW s \in Statuses, Update(h, w, t, s)
          PROVE  Sound(req'[h])
      BY <3>3 DEF Update, TypeOK
    <3>. QED
      BY <2>1, <3>1, <3>2, <3>3 DEF Receive
  <2>2. CASE Continue(h)
    <3>. Sound(AfterPop(req[h]))
      BY DEF AfterPop, Requests
    <3>1. CASE FinishSave(h) \/ Reply(h) \/ Abandon(h) \/ DeleteCommit(h)
               \/ PopSchedule(h) \/ \E r \in TaskIds : NewRetrievalTask(h, r)
      BY <3>1 DEF FinishSave, Reply, Abandon, DeleteCommit, PopSchedule, NewRetrievalTask,
                  SaveRow, TypeOK
    <3>2. ASSUME Retry(h) PROVE Sound(req'[h])
      <4>1. req'[h].pc = "pop" /\ req'[h].attempts = req[h].attempts + 1
        BY <3>2 DEF Retry, TypeOK, Requests
      <4>2. req[h].attempts \in Nat
        BY DEF Requests
      <4>. QED
        BY <4>1, <4>2
    <3>3. CASE PopNone(h)
      BY <3>3 DEF PopNone, TypeOK
    <3>4. CASE PopOldest(h)
      <4>1. PICK t : req' = [req EXCEPT ![h].pc = "commit", ![h].task = t,
                                        ![h].scheduled = @ \/ t \in Scheduled]
        BY <3>4 DEF PopOldest
      <4>2. /\ req'[h].pc = "commit" /\ req'[h].task = t
            /\ req'[h].scheduled = (req[h].scheduled \/ t \in Scheduled)
        BY <4>1 DEF TypeOK, Requests
      <4>. QED
        BY <4>2
    <3>5. CASE PopCommit(h) \/ PopRetry(h)
      BY <3>2, <3>5 DEF PopCommit, PopRetry, TypeOK
    <3>. QED
      BY <2>2, <3>1, <3>3, <3>4, <3>5 DEF Continue
  <2>. QED
    BY <1>1, <2>1, <2>2
<1>2. CASE Crash
  BY <1>2 DEF Crash, AttemptsSound, Idle
<1>3. ASSUME req' = req PROVE AttemptsSound'
  BY <1>3 DEF AttemptsSound
<1>. QED
  BY <1>1, <1>2, <1>3
     DEF Next, vars, ResetWorkerTasks, DrainWorker, UndrainWorker, ImportTask, Restart

(* Whatever is retried, imported or left unacknowledged, what a request is *)
(* answered with is its worker's task in the tables, save in the one case  *)
(* that popTask is run again and finds nothing open.                       *)
THEOREM RepliesCommitted == Spec => CommittedReplies
<1>1. Init => AttemptsSound
  BY DEF Init, AttemptsSound, Idle
<1>2. TypeOK /\ AttemptsSound /\ [Next]_vars => AttemptsSound'
  BY AttemptsInductive
<1>3. ASSUME TypeOK, AttemptsSound, [Next]_vars
      PROVE  [\A h \in Handlers :
                Answered(h) =>
                  \/ workedBy'[req'[h].task] = req'[h].worker
                  \/ req[h].attempts > 0 /\ Candidates(req[h].worker) = {}]_vars
  <2>. SUFFICES ASSUME Next, NEW h \in Handlers, req[h].pc # "reply", req'[h].pc = "reply"
                PROVE  \/ workedBy'[req'[h].task] = req'[h].worker
                       \/ req[h].attempts > 0 /\ Candidates(req[h].worker) = {}
    BY <1>3 DEF Answered
  <2>. req[h] \in Requests /\ req'[h] # req[h]
    BY <1>3 DEF TypeOK
  <2>1. Receive(h) \/ Continue(h)
    <3>1. ASSUME NEW g \in Handlers, Receive(g) \/ Continue(g) PROVE g = h
      BY <1>3, <3>1, OthersUnchanged
    <3>2. ~Crash
      BY DEF Crash, Idle
    <3>. QED
      BY <3>1, <3>2
         DEF Next, ResetWorkerTasks, DrainWorker, UndrainWorker, ImportTask, Restart
  <2>2. ~Receive(h)
    <3>1. ~\E t \in TaskIds : SaveTask(h, t) \/ DeleteCheck(h, t)
      BY <1>3 DEF SaveTask, SaveRow, DeleteCheck, At, Idle, TypeOK
    <3>2. ~\E w \in Workers : AssignTask(h, w)
      BY <1>3 DEF AssignTask, At, TypeOK
    <3>3. ~\E w \in Workers, t \in TaskIds, s \in Statuses : Update(h, w, t, s)
      BY <1>3 DEF Update, At, TypeOK
    <3>. QED
      BY <3>1, <3>2, <3>3 DEF Receive
  <2>3. PopNone(h) \/ PopCommit(h)
    <3>1. ~PopRetry(h)
      BY <1>3 DEF PopRetry, Retry, TypeOK, Requests
    <3>2. ASSUME PopOldest(h) PROVE FALSE
      <4>1. req'[h].pc = "commit"
        BY <3>2, <1>3 DEF PopOldest, TypeOK, Requests
      <4>. QED
        BY <4>1
    <3>3. ~FinishSave(h) /\ ~PopSchedule(h) /\ ~Reply(h) /\ ~DeleteCommit(h) /\ ~Abandon(h)
      BY <1>3 DEF FinishSave, PopSchedule, Reply, DeleteCommit, Abandon, At, Idle, TypeOK
    <3>4. ~\E r \in TaskIds : NewRetrievalTask(h, r)
      BY <1>3 DEF NewRetrievalTask, SaveRow, At, Idle, TypeOK
    <3>. QED
      BY <2>1, <2>2, <3>1, <3>2, <3>3, <3>4 DEF Continue
  <2>4. CASE PopNone(h)
    <3>1. req[h].task # NULL
      BY <1>3, <2>4 DEF PopNone, AfterPop, Idle, TypeOK
    <3>2. req[h].attempts \in Nat /\ req[h].attempts # 0
      BY <1>3, <2>4, <3>1 DEF PopNone, AttemptsSound, Requests
    <3>. QED
      BY <2>4, <3>2 DEF PopNone
  <2>5. CASE PopCommit(h)
    <3>1. req'[h] = AfterPop(req[h]) /\ ~req[h].scheduled
      <4>1. Idle.pc # "reply"
        BY DEF Idle
      <4>2. ASSUME Retry(h) PROVE FALSE
        <5>1. req'[h].pc = "pop"
          BY <4>2, <1>3 DEF Retry, TypeOK, Requests
        <5>. QED
          BY <5>1
      <4>3. req'[h] = AfterPop(req[h])
        BY <1>3, <2>5, <4>1, <4>2 DEF PopCommit, TypeOK
      <4>. QED
        BY <4>3 DEF AfterPop, Idle, Requests
    <3>2. req'[h].task = req[h].task /\ req'[h].worker = req[h].worker
      BY <3>1 DEF AfterPop, Idle, Requests
    <3>3. req[h].task \in TaskIds /\ req[h].task \notin Scheduled
      BY <1>3, <2>5, <3>1 DEF PopCommit, AttemptsSound, Requests
    <3>. QED
      BY <1>3, <2>5, <3>2, <3>3 DEF PopCommit, WriteAssignment, TypeOK
  <2>. QED
    BY <2>3, <2>4, <2>5
<1>. QED
  BY <1>1, <1>2, <1>3, TypeCorrect, PTL DEF Spec, CommittedReplies

-----------------------------------------------------------------------------
(* The cron entries of scheduled tasks.                                    *)

Kept(t) == Present(t) /\ workedBy[t] = SchedulerOwner

(* Either t has its entry, or one handler is about to make it.             *)
Entered(t) ==
  \/ jobs[t] = 1 /\ Scheduling(t) = {}
  \/ jobs[t] = 0 /\ \E h \in Handlers : Scheduling(t) = {h}
Unentered(t) == jobs[t] = 0 /\ Scheduling(t) = {}

(* What OneJobPerSchedule needs to be inductive: a task that is not the    *)
(* scheduler's has no entry and nobody about to make one, and a controller *)
(* that is down has no handlers.  Of deleted tasks nothing is said: their  *)
(* entries stay until they fire.                                           *)
EntryOf(t) == /\ Kept(t) => Entered(t)
              /\ ~Kept(t) /\ row[t] # "deleted" => Unentered(t)
EntryInv ==
  /\ ~up => \A h \in Handlers : req[h].pc = "idle"
  /\ up => \A t \in Scheduled \ BadSchedule : EntryOf(t)

(* A step that leaves t's row and entry alone, and who is scheduling it.   *)
LEMMA EntryUntouched ==
  ASSUME NEW t, EntryOf(t), jobs'[t] = jobs[t], Scheduling(t)' = Scheduling(t),
         row'[t] = row[t], Kept(t)' <=> Kept(t)
  PROVE  EntryOf(t)'
BY DEF EntryOf, Entered, Unentered

(* A handler that is not scheduling t after its step leaves the others.    *)
LEMMA SchedulingOfOne ==
  ASSUME TypeOK, NEW h \in Handlers, NEW r, req' = [req EXCEPT ![h] = r], NEW t
  PROVE  r.pc \notin {"schedule", "save"} \/ r.task # t
           => Scheduling(t)' = Scheduling(t) \ {h}
<1>1. req'[h] = r /\ \A g \in Handlers \ {h} : req'[g] = req[g]
  BY DEF TypeOK
<1>. QED
  BY <1>1 DEF Scheduling

(* A handler that schedules nothing before and after its step, which       *)
(* leaves the entries and the owners alone.                                *)
LEMMA EntryElsewhere ==
  ASSUME TypeOK, EntryInv, up' = up, jobs' = jobs, row' = row,
         \A t \in Scheduled : workedBy'[t] = workedBy[t],
         NEW h \in Handlers, NEW r, req' = [req EXCEPT ![h] = r],
         req[h].pc \notin {"schedule", "save"}, r.pc \notin {"schedule", "save"},
         up \/ r.pc = "idle"
  PROVE  EntryInv'
<1>1. ASSUME NEW t \in Scheduled \ BadSchedule, up PROVE EntryOf(t)'
  <2>1. Scheduling(t)' = Scheduling(t)
    <3>1. h \notin Scheduling(t)
      BY DEF Scheduling
    <3>. QED
      BY <3>1, SchedulingOfOne DEF Scheduling
  <2>2. Kept(t)' <=> Kept(t)
    BY DEF Kept, Present
  <2>. QED
    BY <1>1, <2>1, <2>2, EntryUntouched DEF EntryInv
<1>2. ~up => \A g \in Handlers : req'[g].pc = "idle"
  BY DEF EntryInv, TypeOK
<1>. QED
  BY <1>1, <1>2 DEF EntryInv

(* saveTask's transaction: the new row has no entry, and one handler about *)
(* to make it.                                                             *)
LEMMA EntrySave ==
  ASSUME ~AckLost, TypeOK, EntryInv, up, up' = up, jobs' = jobs,
         NEW h \in Handlers, req[h].pc \in {"idle", "retrieve"},
         NEW s \in TaskIds, SaveRow(h, s)
  PROVE  EntryInv'
<1>1. /\ row[s] = "unused" /\ row' = [row EXCEPT ![s] = "present"]
      /\ workedBy' = [workedBy EXCEPT ![s] = IF s \in Scheduled THEN SchedulerOwner ELSE NULL]
  BY DEF SaveRow, InsertRow
<1>. DEFINE r == IF s \in Scheduled THEN At("save", NULL, s) ELSE Idle
<1>2. /\ req' = [req EXCEPT ![h] = r]
      /\ s \in Scheduled => r.pc = "save" /\ r.task = s
      /\ s \notin Scheduled => r.pc = "idle"
  BY DEF SaveRow, At, Idle
<1>. HIDE DEF r
<1>3. ASSUME NEW t \in Scheduled \ BadSchedule PROVE EntryOf(t)'
  <2>1. EntryOf(t) /\ h \notin Scheduling(t)
    BY DEF EntryInv, Scheduling
  <2>2. t \in TaskIds
    BY ConstantsAssumption
  <2>3. CASE t = s
    <3>1. Unentered(t)
      BY <1>1, <2>1, <2>3 DEF EntryOf, Kept, Present
    <3>2. Scheduling(t)' = {h}
      <4>1. req'[h] = r /\ \A g \in Handlers \ {h} : req'[g] = req[g]
        BY <1>2 DEF TypeOK
      <4>2. \A g \in Handlers : g \in Scheduling(t)' <=> g = h
        BY <1>2, <2>3, <3>1, <4>1 DEF Unentered, Scheduling
      <4>. QED
        BY <4>2 DEF Scheduling
    <3>3. Kept(t)' /\ jobs'[t] = 0
      BY <1>1, <2>2, <2>3, <3>1 DEF Kept, Present, Unentered, TypeOK
    <3>. QED
      BY <3>2, <3>3 DEF EntryOf, Entered
  <2>4. CASE t # s
    <3>1. Scheduling(t)' = Scheduling(t)
      BY <1>2, <2>1, <2>4, SchedulingOfOne DEF Scheduling
    <3>2. row'[t] = row[t] /\ (Kept(t)' <=> Kept(t))
      BY <1>1, <2>2, <2>4 DEF Kept, Present, TypeOK
    <3>. QED
      BY <2>1, <3>1, <3>2, EntryUntouched
  <2>. QED
    BY <2>3, <2>4
<1>. QED
  BY <1>3 DEF EntryInv

(* scheduleTask of a task with a schedule, by the one that was about to.   *)
LEMMA EntrySchedule ==
  ASSUME TypeOK, EntryInv, up, up' = up, NEW h \in Handlers, NEW r,
         req' = [req EXCEPT ![h] = r], req[h].pc \in {"schedule", "save"},
         r.pc \notin {"schedule", "save"}, req[h].task \in Scheduled,
         ScheduleTask(req[h].task)
  PROVE  EntryInv'
<1>1. UNCHANGED <<row, workedBy>>
  BY DEF ScheduleTask
<1>2. ASSUME NEW t \in Scheduled \ BadSchedule PROVE EntryOf(t)'
  <2>1. EntryOf(t) /\ Scheduling(t)' = Scheduling(t) \ {h} /\ (Kept(t)' <=> Kept(t))
    BY <1>1, SchedulingOfOne DEF EntryInv, Kept, Present
  <2>2. t \in TaskIds /\ jobs[t] \in Nat
    BY ConstantsAssumption DEF TypeOK
  <2>3. CASE t = req[h].task
    <3>1. h \in Scheduling(t)
      BY <2>3 DEF Scheduling
    <3>2. jobs'[t] = jobs[t] + 1
      BY <2>2, <2>3 DEF ScheduleTask, TypeOK
    <3>3. Kept(t) => jobs[t] = 0 /\ Scheduling(t) = {h}
      BY <2>1, <3>1 DEF EntryOf, Entered
    <3>4. Kept(t) => jobs'[t] = 1 /\ Scheduling(t)' = {}
      BY <2>1, <3>2, <3>3
    <3>5. ~Kept(t) => row[t] = "deleted"
      BY <2>1, <3>1 DEF EntryOf, Unentered
    <3>. QED
      BY <1>1, <2>1, <3>4, <3>5 DEF EntryOf, Entered
  <2>4. CASE t # req[h].task
    <3>1. jobs'[t] = jobs[t]
      BY <2>2, <2>4 DEF ScheduleTask, TypeOK
    <3>2. h \notin Scheduling(t)
      BY <2>4 DEF Scheduling
    <3>. QED
      BY <1>1, <2>1, <3>1, <3>2, EntryUntouched
  <2>. QED
    BY <2>3, <2>4
<1>. QED
  BY <1>2 DEF EntryInv

(* A deleted task's entry stays, and is not spoken of any more.            *)
LEMMA EntryDelete ==
  ASSUME TypeOK, EntryInv, up, up' = up, NEW h \in Handlers, DeleteCommit(h)
  PROVE  EntryInv'
<1>1. /\ req' = [req EXCEPT ![h] = Idle] /\ UNCHANGED <<jobs, workedBy>>
      /\ row' = [row EXCEPT ![req[h].task] = IF Present(req[h].task) THEN "deleted" ELSE @]
      /\ req[h].pc = "delete"
  BY DEF DeleteCommit
<1>2. Idle.pc = "idle"
  BY DEF Idle
<1>3. ASSUME NEW t \in Scheduled \ BadSchedule PROVE EntryOf(t)'
  <2>1. EntryOf(t) /\ h \notin Scheduling(t) /\ t \in TaskIds
    BY <1>1, ConstantsAssumption DEF EntryInv, Scheduling
  <2>2. Scheduling(t)' = Scheduling(t)
    BY <1>1, <1>2, <2>1, SchedulingOfOne DEF Scheduling
  <2>3. CASE row'[t] = row[t]
    <3>1. Kept(t)' <=> Kept(t)
      BY <1>1, <2>3 DEF Kept, Present
    <3>. QED
      BY <1>1, <2>1, <2>2, <2>3, <3>1, EntryUntouched
  <2>4. CASE row'[t] # row[t]
    <3>1. row'[t] = "deleted"
      BY <1>1, <2>1, <2>4 DEF TypeOK
    <3>. QED
      BY <3>1 DEF EntryOf, Kept, Present
  <2>. QED
    BY <2>3, <2>4
<1>. QED
  BY <1>3 DEF EntryInv

(* popTask's commit makes a task with a schedule the scheduler's, and the  *)
(* handler goes on to schedule it.                                         *)
LEMMA EntryPop ==
  ASSUME ~AckLost, OwnerInv, EntryInv, up, up' = up, NEW h \in Handlers, PopCommit(h)
  PROVE  EntryInv'
<1>. req[h] \in Requests /\ TypeOK /\ FlagsSound
  BY DEF OwnerInv, TypeOK
<1>. SchedulerOwner \notin Workers \union {NULL} /\ NULL \notin TaskIds
  BY ConstantsAssumption
<1>. DEFINE s == req[h].task
            r == AfterPop(req[h])
<1>1. /\ req[h].pc = "commit" /\ s \in TaskIds /\ Present(s) /\ workedBy[s] = NULL
      /\ req[h].scheduled <=> s \in Scheduled
      /\ req[h].worker \in Workers
  BY DEF PopCommit, FlagsSound, Requests, Assigning
<1>2. /\ req' = [req EXCEPT ![h] = r] /\ UNCHANGED <<row, jobs>>
      /\ workedBy' = [workedBy EXCEPT ![s] = IF s \in Scheduled THEN SchedulerOwner
                                                               ELSE req[h].worker]
  BY DEF PopCommit, WriteAssignment
<1>3. r.task = s /\ r.pc = IF s \in Scheduled THEN "schedule" ELSE "reply"
  BY <1>1 DEF AfterPop, Requests
<1>. HIDE DEF r, s
<1>4. ASSUME NEW t \in Scheduled \ BadSchedule PROVE EntryOf(t)'
  <2>1. EntryOf(t) /\ h \notin Scheduling(t) /\ t \in TaskIds
    BY <1>1, ConstantsAssumption DEF EntryInv, Scheduling
  <2>2. CASE t = s
    <3>1. Unentered(t)
      BY <1>1, <2>1, <2>2 DEF EntryOf, Kept, Present
    <3>2. Scheduling(t)' = {h}
      <4>1. req'[h] = r /\ \A g \in Handlers \ {h} : req'[g] = req[g]
        BY <1>2 DEF TypeOK
      <4>2. \A g \in Handlers : g \in Scheduling(t)' <=> g = h
        BY <1>3, <2>2, <3>1, <4>1 DEF Unentered, Scheduling
      <4>. QED
        BY <4>2 DEF Scheduling
    <3>3. Kept(t)'
      BY <1>1, <1>2, <2>2 DEF Kept, Present, TypeOK
    <3>. QED
      BY <1>2, <3>1, <3>2, <3>3 DEF EntryOf, Entered, Unentered
  <2>3. CASE t # s
    <3>1. Scheduling(t)' = Scheduling(t)
      BY <1>2, <1>3, <2>1, <2>3, SchedulingOfOne DEF Scheduling
    <3>2. Kept(t)' <=> Kept(t)
      BY <1>2, <2>1, <2>3 DEF Kept, Present, TypeOK
    <3>. QED
      BY <1>2, <2>1, <3>1, <3>2, EntryUntouched
  <2>. QED
    BY <2>2, <2>3
<1>. QED
  BY <1>4 DEF EntryInv

LEMMA EntryContinue ==
  ASSUME ~AckLost, OwnerInv, EntryInv, NEW h \in Handlers, Continue(h)
  PROVE  EntryInv'
<1>. req[h] \in Requests /\ TypeOK /\ FlagsSound
  BY DEF OwnerInv, TypeOK
<1>. SchedulerOwner \notin Workers \union {NULL}
  BY ConstantsAssumption
<1>1. up /\ up' = up
  <2>1. req[h].pc # "idle"
    BY DEF Continue, FinishSave, PopNone, PopOldest, PopCommit, PopRetry, PopSchedule, Reply,
           NewRetrievalTask, DeleteCommit, Abandon
  <2>2. up' = up
    BY DEF Continue, FinishSave, PopNone, PopOldest, PopCommit, PopRetry, PopSchedule, Reply,
           NewRetrievalTask, SaveRow, DeleteCommit, Abandon
  <2>. QED
    BY <2>1, <2>2 DEF EntryInv
<1>2. CASE FinishSave(h)
  <2>1. req' = [req EXCEPT ![h] = Idle] /\ ScheduleTask(req[h].task) /\ req[h].pc = "save"
    BY <1>2 DEF FinishSave
  <2>2. Idle.pc = "idle" /\ req[h].task \in Scheduled
    BY <2>1 DEF Idle, FlagsSound
  <2>. QED
    BY <1>1, <2>1, <2>2, EntrySchedule
<1>3. CASE PopSchedule(h)
  <2>. DEFINE r == At("pop", req[h].worker, NULL)
  <2>1. req' = [req EXCEPT ![h] = r] /\ ScheduleTask(req[h].task) /\ req[h].pc = "schedule"
    BY <1>3 DEF PopSchedule
  <2>2. r.pc = "pop" /\ req[h].task \in Scheduled
    BY <2>1 DEF At, FlagsSound
  <2>. HIDE DEF r
  <2>. QED
    BY <1>1, <2>1, <2>2, EntrySchedule
<1>4. CASE \E s \in TaskIds : NewRetrievalTask(h, s)
  <2>1. PICK s \in TaskIds : req[h].pc = "retrieve" /\ SaveRow(h, s)
    BY <1>4 DEF NewRetrievalTask
  <2>2. jobs' = jobs
    BY <2>1 DEF SaveRow
  <2>. QED
    BY <1>1, <2>1, <2>2, EntrySave
<1>5. CASE PopNone(h)
  <2>. DEFINE r == AfterPop(req[h])
  <2>1. /\ req' = [req EXCEPT ![h] = r] /\ UNCHANGED <<row, workedBy, jobs>>
        /\ req[h].pc = "pop" /\ ~req[h].scheduled
    BY <1>5 DEF PopNone, tables, FlagsSound
  <2>2. r.pc \in {"idle", "reply"}
    BY <2>1 DEF AfterPop, Idle, Requests
  <2>. HIDE DEF r
  <2>. QED
    BY <1>1, <2>1, <2>2, EntryElsewhere
<1>6. CASE PopOldest(h)
  <2>1. PICK t : req' = [req EXCEPT ![h].pc = "commit", ![h].task = t,
                                    ![h].scheduled = @ \/ t \in Scheduled]
    BY <1>6 DEF PopOldest
  <2>. DEFINE r == [req[h] EXCEPT !.pc = "commit", !.task = t,
                                  !.scheduled = @ \/ t \in Scheduled]
  <2>2. req' = [req EXCEPT ![h] = r] /\ r.pc = "commit"
    BY <2>1 DEF Requests
  <2>3. UNCHANGED <<row, workedBy, jobs>> /\ req[h].pc = "pop"
    BY <1>6 DEF PopOldest, tables
  <2>. HIDE DEF r
  <2>. QED
    BY <1>1, <2>2, <2>3, EntryElsewhere
<1>7. CASE PopRetry(h)
  <2>. DEFINE r == [req[h] EXCEPT !.pc = "pop", !.attempts = @ + 1]
  <2>1. req' = [req EXCEPT ![h] = r] /\ r.pc = "pop"
    BY <1>7 DEF PopRetry, Retry, Requests
  <2>2. UNCHANGED <<row, workedBy, jobs>> /\ req[h].pc = "commit"
    BY <1>7 DEF PopRetry, tables
  <2>. HIDE DEF r
  <2>. QED
    BY <1>1, <2>1, <2>2, EntryElsewhere
<1>8. CASE Reply(h) \/ Abandon(h)
  <2>1. /\ req' = [req EXCEPT ![h] = Idle] /\ UNCHANGED <<row, workedBy, jobs>>
        /\ req[h].pc \notin {"schedule", "save"}
    BY <1>8 DEF Reply, Abandon, tables
  <2>2. Idle.pc = "idle"
    BY DEF Idle
  <2>. QED
    BY <1>1, <2>1, <2>2, EntryElsewhere
<1>9. CASE DeleteCommit(h)
  BY <1>1, <1>9, EntryDelete DEF OwnerInv
<1>10. CASE PopCommit(h)
  BY <1>1, <1>10, EntryPop
<1>. QED
  BY <1>2, <1>3, <1>4, <1>5, <1>6, <1>7, <1>8, <1>9, <1>10 DEF Continue

LEMMA EntryReceive ==
  ASSUME ~AckLost, OwnerInv, EntryInv, NEW h \in Handlers, Receive(h)
  PROVE  EntryInv'
<1>. TypeOK
  BY DEF OwnerInv
<1>1. up /\ up' = up
  BY DEF Receive, SaveTask, SaveRow, DeleteCheck, AssignTask, Update
<1>2. Idle.pc = "idle"
  BY DEF Idle
<1>3. ASSUME NEW s \in TaskIds, SaveTask(h, s) PROVE EntryInv'
  <2>1. req[h].pc = "idle" /\ SaveRow(h, s) /\ jobs' = jobs
    BY <1>2, <1>3 DEF SaveTask, SaveRow
  <2>. QED
    BY <1>1, <2>1, EntrySave
<1>5. ASSUME NEW s \in TaskIds, DeleteCheck(h, s) PROVE EntryInv'
  <2>. DEFINE r == At("delete", NULL, s)
  <2>1. /\ req[h] = Idle /\ req' = [req EXCEPT ![h] = r] /\ r.pc = "delete"
        /\ UNCHANGED <<row, workedBy, jobs>>
    BY <1>5 DEF DeleteCheck, tables, At
  <2>. HIDE DEF r
  <2>. QED
    BY <1>1, <1>2, <2>1, EntryElsewhere
<1>6. ASSUME NEW w \in Workers, AssignTask(h, w) PROVE EntryInv'
  <2>. DEFINE r == At("pop", w, NULL)
  <2>1. /\ req[h] = Idle /\ req' = [req EXCEPT ![h] = r] /\ r.pc = "pop"
        /\ UNCHANGED <<row, workedBy, jobs>>
    BY <1>6 DEF AssignTask, tables, At
  <2>. HIDE DEF r
  <2>. QED
    BY <1>1, <1>2, <2>1, EntryElsewhere
<1>7. ASSUME NEW w \in Workers, NEW t \in TaskIds, NEW s \in Statuses, Update(h, w, t, s)
      PROVE  EntryInv'
  <2>. DEFINE r == IF s = "Successful" /\ t \in WithRetrieval
                   THEN At("retrieve", w, t) ELSE Idle
  <2>1. /\ req[h] = Idle /\ req' = [req EXCEPT ![h] = r] /\ r.pc \in {"retrieve", "idle"}
        /\ UNCHANGED <<row, workedBy, jobs>>
    BY <1>7 DEF Update, At, Idle, TypeOK
  <2>. HIDE DEF r
  <2>. QED
    BY <1>1, <1>2, <2>1, EntryElsewhere
<1>. QED
  BY <1>3, <1>5, <1>6, <1>7 DEF Receive

LEMMA EntryInductive ==
  ASSUME ~AckLost, OwnerInv, EntryInv, [Next]_vars
  PROVE  EntryInv'
<1>. TypeOK
  BY DEF OwnerInv
<1>. SchedulerOwner \notin Workers \union {NULL}
  BY ConstantsAssumption
<1>1. ASSUME UNCHANGED <<row, jobs, req, up>>,
             \A t \in Scheduled : Kept(t)' <=> Kept(t)
      PROVE  EntryInv'
  <2>1. \A t : Scheduling(t)' = Scheduling(t)
    BY <1>1 DEF Scheduling
  <2>. QED
    BY <1>1, <2>1 DEF EntryInv, EntryOf, Entered, Unentered
<1>2. ASSUME NEW w \in Workers, ResetWorkerTasks(w) PROVE EntryInv'
  <2>1. /\ UNCHANGED <<row, jobs, req, up>>
        /\ \A t \in TaskIds : \/ workedBy'[t] = workedBy[t]
                              \/ workedBy'[t] = NULL /\ workedBy[t] = w
    BY <1>2 DEF ResetWorkerTasks, InProgressOf, TypeOK
  <2>2. \A t \in Scheduled : Kept(t)' <=> Kept(t)
    BY <2>1, ConstantsAssumption DEF Kept, Present
  <2>. QED
    BY <1>1, <2>1, <2>2
<1>3. CASE UNCHANGED <<row, workedBy, jobs, req, up>>
  BY <1>1, <1>3 DEF Kept, Present
<1>4. ASSUME NEW w \in Workers, DrainWorker(w) \/ UndrainWorker(w) PROVE EntryInv'
  BY <1>3, <1>4 DEF DrainWorker, UndrainWorker, tables
<1>5. ASSUME NEW s \in TaskIds, ImportTask(s) PROVE EntryInv'
  <2>1. /\ row[s] = "unused" /\ row' = [row EXCEPT ![s] = "present"]
        /\ workedBy' = [workedBy EXCEPT ![s] = NULL] /\ UNCHANGED <<jobs, req, up>>
    BY <1>5 DEF ImportTask, InsertRow
  <2>2. ASSUME NEW t \in Scheduled \ BadSchedule, up PROVE EntryOf(t)'
    <3>1. EntryOf(t) /\ t \in TaskIds /\ Scheduling(t)' = Scheduling(t)
      BY <2>1, <2>2, ConstantsAssumption DEF EntryInv, Scheduling
    <3>2. CASE t = s
      <4>1. Unentered(t) /\ ~Kept(t)'
        BY <2>1, <3>1, <3>2 DEF EntryOf, Kept, Present, TypeOK
      <4>. QED
        BY <2>1, <3>1, <4>1 DEF EntryOf, Unentered
    <3>3. CASE t # s
      <4>1. row'[t] = row[t] /\ (Kept(t)' <=> Kept(t))
        BY <2>1, <3>1, <3>3 DEF Kept, Present, TypeOK
      <4>. QED
        BY <2>1, <3>1, <4>1, EntryUntouched
    <3>. QED
      BY <3>2, <3>3
  <2>. QED
    BY <2>1, <2>2 DEF EntryInv
<1>6. CASE Crash
  BY <1>6 DEF Crash, EntryInv, Idle
<1>7. CASE Restart
  <2>1. \A h \in Handlers : req'[h].pc = "idle"
    BY <1>7 DEF Restart, EntryInv
  <2>2. ASSUME NEW t \in Scheduled \ BadSchedule PROVE EntryOf(t)'
    <3>1. Scheduling(t)' = {} /\ t \in TaskIds
      BY <2>1, ConstantsAssumption DEF Scheduling
    <3>2. row' = row /\ workedBy' = workedBy /\ jobs'[t] = IF t \in Recovered THEN 1 ELSE 0
      BY <1>7, <3>1 DEF Restart, tables
    <3>3. t \in Recovered <=> Kept(t)'
      BY <3>2 DEF Recovered, Kept, Present
    <3>. QED
      BY <3>1, <3>2, <3>3 DEF EntryOf, Entered, Unentered
  <2>. QED
    BY <1>7, <2>1, <2>2 DEF EntryInv, Restart
<1>8. CASE UNCHANGED vars
  BY <1>3, <1>8 DEF vars
<1>. QED
  BY <1>2, <1>4, <1>5, <1>6, <1>7, <1>8, EntryContinue, EntryReceive DEF Next

(* As long as every commit is acknowledged and no retry of popTask carries *)
(* `scheduled` over, each task the scheduler owns has exactly one cron     *)
(* entry or one handler on its way to scheduleTask, over every interleaving*)
(* of saves, pops, deletions, crashes and recoveries.                      *)
THEOREM JobsCorrect ==
  ASSUME NothingLeftBehind, ~AckLost
  PROVE  Spec => []OneJobPerSchedule
<1>1. Init => EntryInv
  <2>1. Init => \A t \in Scheduled : Scheduling(t) = {} /\ jobs[t] = 0 /\ ~Kept(t)
    BY ConstantsAssumption DEF Init, Scheduling, Idle, Kept, Present
  <2>. QED
    BY <2>1 DEF Init, EntryInv, EntryOf, Unentered
<1>2. OwnerInv /\ EntryInv /\ [Next]_vars => EntryInv'
  BY EntryInductive
<1>3. OwnerInv /\ [Next]_vars => OwnerInv'
  BY OwnerInductive
<1>4. EntryInv => OneJobPerSchedule
  <2>. SUFFICES ASSUME EntryInv, up, NEW t \in Scheduled \ BadSchedule, Kept(t)
                PROVE  jobs[t] + Cardinality(Scheduling(t)) = 1
    BY DEF OneJobPerSchedule, Kept
  <2>1. CASE jobs[t] = 1 /\ Scheduling(t) = {}
    BY <2>1, FS_EmptySet
  <2>2. ASSUME NEW h \in Handlers, jobs[t] = 0, Scheduling(t) = {h}
        PROVE  jobs[t] + Cardinality(Scheduling(t)) = 1
    BY <2>2, FS_Singleton
  <2>. QED
    BY <2>1, <2>2 DEF EntryInv, EntryOf, Entered
<1>. QED
  BY <1>1, <1>2, <1>3, <1>4, OwnerInit, PTL DEF Spec
=============================================================================
