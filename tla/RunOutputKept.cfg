SPECIFICATION Spec
CONSTANTS
  MaxLines = 4
  PipeCap = 2
INVARIANT OutputKept
CHECK_DEADLOCK FALSE
