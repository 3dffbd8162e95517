SPECIFICATION FairSpec
CONSTANTS
  Runs = {r1}
  MaxStages = 3
  MaxRestarts = 1
INVARIANTS
  RunningIsReachable
  StatusExplained
PROPERTIES
  RecordSpec
  NothingStartsAfterStop
  RunsEnd
CHECK_DEADLOCK FALSE
