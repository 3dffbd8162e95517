SPECIFICATION FairSpec
CONSTANT MaxRequests = 2
INVARIANTS
  LifecycleTypes
  QuietBeforeClose
PROPERTY LateSignalEnds
CHECK_DEADLOCK FALSE
