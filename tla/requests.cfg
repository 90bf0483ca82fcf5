SPECIFICATION MCSpec
CONSTANTS
  Dimensions = {0, 1}
  StartDimension = 0
  CacheCapacity = 1
  EventCapacity = 1
  HostCapacity = 1
  WireCapacity = 1
  MaxRequests = 2
  MaxResends = 2
  MaxRevision <- Revisions
  MaxTransfers = 1
INVARIANTS InFlightAccounted 
PROPERTIES AtMostOnce Answered
CHECK_DEADLOCK FALSE
