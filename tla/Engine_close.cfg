\* Close while deals are under way.
CONSTANTS
  r1 = r1
  r2 = r2
  r3 = r3
  Workers = 2
  Runners <- MCRunners
  Kinds = {"storage", "retrieval"}
SPECIFICATION Spec
INVARIANTS NodeOutlivesDeals
