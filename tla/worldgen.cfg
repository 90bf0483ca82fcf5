SPECIFICATION FairSpec
CONSTANTS
  Dimensions = {0, 1}
  Coords = {1, 2, 3}
  Players = {1, 2}
  Start <- Apart
  View <- HereAndNext
  Ring <- Around
  Spawn = {1}
  Loaded <- Origin
  Broken <- Undecodable
  InFlightLimit = 2
  Batch = 1
  MaxActs = 3
INVARIANTS OneJobEach
PROPERTIES ImplementsColumnDemand QueuedIsSent
