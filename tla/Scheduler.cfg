\* One task, whose schedule may change from one without a limit to one with,
\* or to one that does not parse, or be lost; its firings overlap, any call of
\* the database may fail, and finished children are reopened.
SPECIFICATION FairSpec
CONSTANTS
  Tasks = {t1}
  Versions = {1, 2, 3}
  Limited = {2}
  Invalid = {3}
  NoSchedule = NoSchedule
  Jobs = {j1, j2}
  Firings = {f1, f2}
  DbErrors = {"load", "count", "delete", "save", "unassign"}
  MaxChildren = 2
  NULL = NULL
INVARIANTS TypeOK AtMostOneEntry NeverForgotten
PROPERTIES NeverFromWorker NewChildAlone FiringsEnd SchedulesEnd
