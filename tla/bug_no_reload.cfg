CONSTANTS
  a = a
  b = b
  e = e
  n = n
  NotResident = NotResident
  NoData = NoData
  BadPayload = BadPayload
  NoWrite = NoWrite
  Idle = Idle
  Columns = {e}
  Regions = {2}
  Dimensions = {1}
  RegionOf <- MCRegionOf
  DimensionOf <- MCDimensionOf
  Evictable = {e}
  CacheLimit = 1
  QueueCapacity = 2
  AckCapacity = 8
  MaxEdits = 1
  MaxEpoch = 0
  MaxFailures = 0
  MaxRestarts = 0
  MaxSaveAlls = 0
  BarrierTimeouts = FALSE
SPECIFICATION NewWorld
INVARIANT ReloadKeepsRevision
