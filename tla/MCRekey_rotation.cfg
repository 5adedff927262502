SPECIFICATION Spec
CONSTANTS
  Blobs = {b1, b2, b3}
  MaxRuns = 4
  Torn = Torn
SYMMETRY Symmetry
INVARIANTS
  TypeOK
  DoneIsReadable
  DBVouchesForRest
CHECK_DEADLOCK FALSE
