---------------------------- MODULE MCContainers ----------------------------
(* A chest over a hopper over a furnace, and a brewing stand beside them.     *)
EXTENDS Containers, TLC
Nothing == <<Empty>>
KindsHere == "c" :> "chest" @@ "h" :> "hopper" @@ "f" :> "furnace" @@ "s" :> "stand"
AboveHere == "c" :> Nowhere @@ "h" :> "c" @@ "f" :> "h" @@ "s" :> Nowhere
TargetHere == "c" :> Nowhere @@ "h" :> "f" @@ "f" :> Nowhere @@ "s" :> Nowhere
SideHere == [pos \in Positions |-> "up"]
Sizes == "carrot" :> 2 @@ "potion" :> 1 @@ "brewed" :> 1 @@ "log" :> 2 @@ "coal" :> 2 @@ "planks" :> 2
SmeltsHere == [i \in Items |-> IF i = "log" THEN "coal" ELSE NoItem]
RecipesHere == {[of |-> "log", to |-> Stack("planks", 1)]}
BrewsHere == {<<"potion", "carrot", "brewed">>}
Bag(first, second) ==
  [p \in Players |-> IF p = "p" THEN <<first, second>> ELSE <<Empty, Empty>>]
Stored(chest, input, fuel, output) ==
  "c" :> <<chest>> @@ "h" :> <<Empty>> @@ "f" :> <<input, fuel, output>> @@ "s" :> <<>>
Carrot == Stack("carrot", 1)
Log == Stack("log", 1)
(* A brew beside a chest with more of its ingredient, the same beside a       *)
(* furnace, and a furnace with work to do.                                    *)
StartsHere ==
  {[inventory |-> Bag(Carrot, Stack("potion", 1)), slots |-> Stored(Carrot, Empty, Empty, Empty)],
   [inventory |-> Bag(Carrot, Stack("potion", 1)), slots |-> Stored(Empty, Empty, Empty, Carrot)],
   [inventory |-> Bag(Empty, Empty), slots |-> Stored(Log, Empty, Log, Empty)]}
GiftHere == Stack("carrot", 1)
=============================================================================
