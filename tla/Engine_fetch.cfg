\* A GetTask that fails after a deal has ended.
CONSTANTS
  r1 = r1
  r2 = r2
  r3 = r3
  Workers = 2
  Runners <- MCRunners
  Kinds = {"storage", "retrieval"}
SPECIFICATION Spec
INVARIANTS EngineSurvives
