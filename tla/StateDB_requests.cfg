\* Two handlers, transactions that are retried, commits whose
\* acknowledgement is lost; a task of each kind: plain with a retrieval schedule,
\* tagged, scheduled.
SPECIFICATION Spec
CONSTANTS
  TaskIds = {1, 2, 3}
  w1 = w1
  w2 = w2
  tag1 = tag1
  Workers = {w1, w2}
  Handlers = {h1, h2}
  Tags = {tag1}
  TagOf <- MCTagOf
  WorkerTags <- MCWorkerTags
  Scheduled = {3}
  Imported = {}
  BadSchedule = {}
  WithRetrieval = {1}
  MaxAttempts = 2
  MaxRecords = 1
  AckLost = TRUE
  NULL = NULL
  SchedulerOwner = SchedulerOwner
SYMMETRY Symmetry
INVARIANTS
  LedgerAgrees
  OwnerAgrees
PROPERTIES
  CommittedReplies
  ImplementsBoard
