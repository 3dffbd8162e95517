SPECIFICATION Spec
CONSTANTS
  Runs = {r1}
  MaxStages = 1
  MaxRestarts = 0
INVARIANT RefusalIsTrue
CHECK_DEADLOCK FALSE
