CONSTANTS
  save = save
  flush = flush
  r1 = r1
  r2 = r2
  a = a
  b = b
  c = c
  p = p
  NoData = NoData
  NoWrite = NoWrite
  Managers = {save, flush}
  Regions = {r1, r2}
  Columns = {a, b, c}
  Payloads = {p}
  RegionOf <- MCRegionOf
  Writes <- WritesShared
  CacheLimit = 1
SPECIFICATION MCSpec
INVARIANTS PromiseKept
PROPERTIES CorruptFileStays ImplementsDurableColumns
