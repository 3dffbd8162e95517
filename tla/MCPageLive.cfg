SPECIFICATION PageSpec
CONSTANTS
  Sockets = {s1, s2, s3}
  Polls = {p1}
  MaxSnapshots = 2
  MaxToggles = 3
  MaxLoads = 1
  None = none
  Slots = {s1, s2}
  s1 = s1
  s2 = s2
  s3 = s3
INVARIANTS
  ConnectedIsOpen
  CanReconnect
  OneSocket
PROPERTIES
  EventuallyShown
  LoggedOutQuiet
  PanelsSettle
CHECK_DEADLOCK FALSE
