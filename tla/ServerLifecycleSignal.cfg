SPECIFICATION FairSpec
CONSTANT MaxRequests = 2
PROPERTY SignalEnds
CHECK_DEADLOCK FALSE
