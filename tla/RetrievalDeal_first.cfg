\* One deal, with a retrieval of an earlier process to cancel, told of its bytes
\* in two events.
SPECIFICATION Spec
CONSTANTS
  Deals = {d1}
  Leftover = {old}
  MaxBytes = 2
  MaxFaults = 0
  NULL = NULL
INVARIANT
  FirstByteIsFirst
