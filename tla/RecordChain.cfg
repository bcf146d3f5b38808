\* Two handlers, two workers, two rows; c2 is the record of an excluded error.
SPECIFICATION FairSpec
CONSTANTS
  Rows = {1, 2}
  Records = {c1, c2}
  Excluded = {c2}
  Workers = {w1, w2}
  Handlers = {h1, h2}
  MaxUpdates = 3
  MaxFaults = 1
  NULL = NULL
INVARIANTS
  TypeOK
  NoFork
  NothingLost
  Traversable
  SelfHealing
PROPERTIES
  NeverWithdrawn
  ImplementsLog
  RequestsEnd
