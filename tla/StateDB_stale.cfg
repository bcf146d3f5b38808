\* popTask is retried after a serialization failure.
SPECIFICATION Spec
CONSTANTS
  TaskIds = {1}
  w1 = w1
  w2 = w2
  tag1 = tag1
  Workers = {w1, w2}
  Handlers = {h1, h2}
  Tags = {tag1}
  TagOf <- MCTagOf
  WorkerTags <- MCWorkerTags
  Scheduled = {}
  Imported = {}
  BadSchedule = {}
  WithRetrieval = {}
  MaxAttempts = 2
  AckLost = FALSE
  MaxRecords = 1
  NULL = NULL
  SchedulerOwner = SchedulerOwner
SYMMETRY Symmetry
PROPERTIES
  RepliesWithAssigned
