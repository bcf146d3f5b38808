\* Two deals for the same payload.
SPECIFICATION FairSpec
CONSTANTS
  Deals = {d1, d2}
  Leftover = {}
  MaxBytes = 1
  MaxFaults = 1
  NULL = NULL
INVARIANTS
  TypeOK
  OutcomeIsOwn
  StagesArchived
  NothingLeft
PROPERTY
  DealsEnd
