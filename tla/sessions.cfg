SPECIFICATION MCSpec
CONSTANTS
  Connections = {1, 2, 3}
  Hosts = {8, 9}
  Names = {"ann", "bob", "eve"}
  Name <- Visitors
  CommandLoop = 0
  MaxPlayers = 2
  EventCapacity = 2
  HostCapacity = 1
  MaxStalls = 1
  MaxProgress = 1
  MaxBroadcasts = 1
  MaxSaveFailures = 1
  MaxSpoils = 1
INVARIANTS SlotsReserved PlayersArePresent ProgressKept
PROPERTIES RejectionsExplained
CHECK_DEADLOCK FALSE
