SPECIFICATION FairSpec
CONSTANTS
  Length = 5
  Edge = 3
  Setups <- Circuits
  Placeable = {"wire", "stone"}
  MaxPower = 3
  MaxPasses = 8
  ScheduleCap = 1
  ButtonTicks = 2
  Delay = 1
  MaxActs = 2
INVARIANTS AsleepIsSettled FiresOncePerPulse
CHECK_DEADLOCK FALSE
PROPERTIES PulsesPass QuietsDown PushesConserve
