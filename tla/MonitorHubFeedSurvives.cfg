SPECIFICATION Spec
CONSTANTS
  Clients = {c1}
  Pollers = {}
  Collector = collector
  Nobody = nobody
  SendCap = 1
  MaxSnapshots = 1

INVARIANT FeedSurvives
CHECK_DEADLOCK FALSE
