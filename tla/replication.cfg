SPECIFICATION MCSpec
CONSTANTS
  Dimensions = {0, 1}
  Coords = {1, 2}
  Positions = {1, 2, 3}
  View <- WalkView
  Ring <- WalkRing
  Start = 1
  StartDimension = 0
  Loaded <- NoColumn
  Batch = 1
  HostCapacity = 2
  MailboxCapacity = 1
  OutCapacity = 2
  WireCapacity = 1
  MaxMutations = 2
  MaxMoves = 1
  MaxTransfers = 2
  Unseen = Unseen
INVARIANTS GapFree CaughtUp
PROPERTIES ColumnArrives
