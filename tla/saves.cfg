CONSTANTS
  a = a
  b = b
  e = e
  n = n
  NotResident = NotResident
  NoData = NoData
  BadPayload = BadPayload
  NoWrite = NoWrite
  Idle = Idle
  Columns = {a, b, n}
  Regions = {1, 3}
  Dimensions = {1, 2}
  RegionOf <- MCRegionOf
  DimensionOf <- MCDimensionOf
  Evictable = {n}
  CacheLimit = 1
  QueueCapacity = 1
  AckCapacity = 12
  MaxEdits = 2
  MaxEpoch = 0
  MaxFailures = 1
  MaxRestarts = 0
  MaxSaveAlls = 1
  BarrierTimeouts = FALSE
SPECIFICATION NewWorld
INVARIANTS TypeOK DirtyIsResident InFlightTracked CleanIsOnDisk
PROPERTIES SaveAllOkMeansSaved
CHECK_DEADLOCK FALSE
