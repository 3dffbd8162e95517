SPECIFICATION ServicesSpec
CONSTANTS
  MaxLines = 4
  PipeCap = 2
  None = none
  Jobs = {1, 2}
  Names = {"daily", "Daily", "other"}
  Sanitize <- MCSanitize
  MaxSecond = 2
  Writers = {"cicd"}
  LogLines = 4
  Sizes = {1, 2}
  MaxFiles = 2
  Sources = {"system", "own"}
  Default = "system"
  AppOf <- MCAppOf
  Scripts = {"script"}
  Pages = {"p1", "p2"}
  MaxChanges = 3
INVARIANTS
  ServiceTypes
  ServicesKeepTheirWord
PROPERTIES
  RowsAreFinal
  ProcessesEnd
CHECK_DEADLOCK FALSE
