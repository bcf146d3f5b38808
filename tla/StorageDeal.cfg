\* A deal among the updates of another, with updates without stages; it may
\* restart its transfer, and the node may report a state again.
SPECIFICATION FairSpec
CONSTANTS
  Own = own
  Others = {other}
  Repeats = {"Sealing"}
  MaxUpdates = 6
  MaxOthers = 1
  MaxFaults = 2
  NULL = NULL
INVARIANTS
  TypeOK
  OutcomeIsOwn
  
PROPERTIES
  IdsDropOnlyOnRepeat
  DealEnds
