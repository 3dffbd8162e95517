SPECIFICATION FairSpec
CONSTANTS
  BufferMax = 2
  TriggerLen = 2
  Retention = 1
  CleanupGap = 1
  MaxTime = 2
  MaxSamples = 3
  MaxCrashes = 1
INVARIANTS
  TypeOK
  EveryBucketAccounted
  SamplesInOrder
PROPERTIES
  OnlyTheOldestGo
  EventuallyStored
CHECK_DEADLOCK FALSE
