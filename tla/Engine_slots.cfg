\* Two workers, three goroutines, under fairness.
CONSTANTS
  r1 = r1
  r2 = r2
  r3 = r3
  Workers = 2
  Runners <- MCRunners
  Kinds = {"storage", "unknown"}
SPECIFICATION FairSpec
INVARIANTS TypeOK SlotsAccounted AtMostOneMore NoLostWakeup
PROPERTIES ImplementsPool PopsAgain ReleasesGoOn CloseReturns
