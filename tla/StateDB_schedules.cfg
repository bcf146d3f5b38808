\* Scheduled tasks: ingested, imported without an owner, one that does not parse;
\* no retries, so that no attempt leaves anything behind.
SPECIFICATION FairSpec
CONSTANTS
  TaskIds = {1, 2, 3, 4}
  w1 = w1
  w2 = w2
  tag1 = tag1
  Workers = {w1}
  Handlers = {h1, h2}
  Tags = {tag1}
  TagOf <- MCTagOf
  WorkerTags <- MCWorkerTags
  Scheduled = {2, 3, 4}
  Imported = {3}
  BadSchedule = {4}
  WithRetrieval = {}
  MaxAttempts = 1
  AckLost = FALSE
  MaxRecords = 1
  NULL = NULL
  SchedulerOwner = SchedulerOwner
INVARIANTS
  TypeOK
  OneJobPerSchedule
PROPERTIES
  DrainTakesEffect
