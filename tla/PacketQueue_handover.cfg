SPECIFICATION FairSpec
CONSTANTS
  NODE = 2
  MaxAhead = 2
  MaxPackets = 7
INVARIANT HandledInOrder
PROPERTY EverythingHandled
CHECK_DEADLOCK FALSE
