SPECIFICATION Spec
CONSTANTS
  Players = {"p", "q"}
  Positions = {"c", "h", "f", "s"}
  Items = {"carrot", "potion", "brewed", "log", "coal", "planks"}
  Nowhere = Nowhere
  NoItem = NoItem
  KindAt <- KindsHere
  Above <- AboveHere
  Target <- TargetHere
  TargetSide <- SideHere
  MaxStack <- Sizes
  InventorySize = 2
  ChestSize = 1
  HopperSize = 1
  Edible = {"carrot"}
  Fuel = {"log", "coal", "planks"}
  Potions = {"potion", "brewed"}
  Smelts <- SmeltsHere
  Recipes <- RecipesHere
  Brews <- BrewsHere
  Station = "s"
  Starts <- StartsHere
  Gift <- GiftHere
  MaxRequests = 3
INVARIANTS ItemsConserved ReservationHeld ViewsAreReal
CHECK_DEADLOCK FALSE
