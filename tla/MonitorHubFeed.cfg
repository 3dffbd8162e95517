SPECIFICATION FairSpec
CONSTANTS
  Clients = {c1}
  Pollers = {p1}
  Collector = collector
  Nobody = nobody
  SendCap = 2
  MaxSnapshots = 2
INVARIANTS
  ListedChannelsOpen
  BroadcastsInOrder
PROPERTIES
  CollectionsEnd
  DroppedClientsWindUp
CHECK_DEADLOCK FALSE
