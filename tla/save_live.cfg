CONSTANTS
  a = a
  b = b
  e = e
  n = n
  NotResident = NotResident
  NoData = NoData
  BadPayload = BadPayload
  NoWrite = NoWrite
  Idle = Idle
  Columns = {a}
  Regions = {1}
  Dimensions = {1}
  RegionOf <- MCRegionOf
  DimensionOf <- MCDimensionOf
  Evictable = {}
  CacheLimit = 1
  QueueCapacity = 1
  AckCapacity = 6
  MaxEdits = 1
  MaxEpoch = 2
  MaxFailures = 1
  MaxRestarts = 1
  MaxSaveAlls = 1
  BarrierTimeouts = TRUE
SPECIFICATION FairSpec
INVARIANTS EntitiesOnDisk
PROPERTIES FailClosed EditReachesDisk WaitEnds
CHECK_DEADLOCK FALSE
