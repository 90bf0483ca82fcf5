SPECIFICATION FairSpec
CONSTANTS
  Absent = Absent
  Columns <- Triple
  SectionYs = {0}
  Width = 2
  Height = 2
  Payloads <- Walls
  EditCells <- Border
  LightCells <- Lamp
  Lods = {0, 1}
  NearLod = 0
  ViewDistance = 1
  UnloadHysteresis = 0
  RegionSize = 2
  MaxJobs = 1
  QueueLimit = 2
  InitialCapacity = 1
  Start = 1
  MaxEvents = 4
INVARIANTS ShowsCurrent NeverForgotten ArenaAccounted ActiveCounted
PROPERTIES MeshArrives
