SPECIFICATION Spec
CONSTANTS
  Keys = {k1, k2}
  MaxRequests = 3
  MaxStarts = 2
  MaxRestarts = 1
SYMMETRY Symmetry
INVARIANTS
  TypeOK
  ConfigAgrees
  ShowsOwnRow
  OwnRowKept
CHECK_DEADLOCK FALSE
