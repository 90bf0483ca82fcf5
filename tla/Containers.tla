----------------------------- MODULE Containers -----------------------------
(* The items of the players and of the containers they share: a session's    *)
(* inventory, its cursor and its brew; chests, furnaces and hoppers; who      *)
(* views which container, and the copy of it that the runtime keeps for       *)
(* each session to close what a player leaves behind.                         *)
(* The authority handles one request or one step of a tick at a time.  A      *)
(* stack is an item and a count: enchantments and names, which only tell      *)
(* stacks apart, are part of the item.  Experience, redstone, cooking time    *)
(* and the cooldown of a hopper are left out: a furnace or a hopper may act   *)
(* in any tick.  No block of the server ever gets a chest type (placing sets  *)
(* state 0), so every chest is single.                                        *)
EXTENDS Integers, Sequences, SequencesExt, FiniteSets

CONSTANTS
  Players, Positions,
  KindAt,        \* what stands at a position, and what is placed there again
  Above,         \* the position above each one, Nowhere if there is none
  Target,        \* the position each hopper faces,
  TargetSide,    \* and the side of that block it reaches: "up" or "side"
  Nowhere, Items, NoItem,
  MaxStack,      \* of each item
  InventorySize, ChestSize, HopperSize,
  Edible, Fuel, Potions,
  Smelts,        \* what an item smelts into, NoItem if nothing
  Recipes,       \* crafting: [of |-> an item, to |-> a stack]
  Brews,         \* brewing: <<potion, ingredient, result>>
  Station,       \* where the brewing stand is
  Starts,        \* the stacks a loaded world may have: [inventory, slots]
  Gift,          \* the stack a command or a catch adds
  MaxRequests    \* how many requests and gifts change items or blocks

ASSUME SizesAssumption ==
  /\ InventorySize \in Nat \ {0}
  /\ {ChestSize, HopperSize, MaxRequests} \subseteq Nat
  /\ \A i \in Items : MaxStack[i] \in Nat \ {0}

(* A hopper faces another block than itself, and so does what is above one.   *)
ASSUME PlacesAssumption ==
  /\ IsFiniteSet(Players) /\ IsFiniteSet(Positions)
  /\ \A pos \in Positions : Target[pos] # pos /\ Above[pos] # pos

VARIABLES
  inventory, cursor, brew,    \* SessionGameplayState, per player
  block,                      \* per position: its kind, slots and open bit
  drops,                      \* dropped stacks at a position, oldest first
  viewers,                    \* ServerWorld::container_viewers
  tracked,                    \* InterestSet::open_containers, per player
  closures,                   \* pending_container_closures
  lit,                        \* burn_time > 0, per position
  supply,                     \* per item: how much of it there should be
  requests                    \* how many there were

vars == <<inventory, cursor, brew, block, drops, viewers, tracked, closures,
          lit, supply, requests>>
session == <<inventory, cursor, brew>>
views == <<viewers, tracked, closures>>
ghosts == <<supply, requests>>

Slots == 1..InventorySize

(* A request within the bound.                                                *)
Asked == requests < MaxRequests /\ requests' = requests + 1

-----------------------------------------------------------------------------
(* Stacks and slots.                                                          *)
Empty == [item |-> NoItem, count |-> 0]
Stack(i, n) == IF n = 0 THEN Empty ELSE [item |-> i, count |-> n]
Stacks == {Empty} \union UNION {[item : {i}, count : 1..MaxStack[i]] : i \in Items}

(* What a recipe makes fits a slot, and every item that is brewed into another *)
(* stacks at least as high: in the code every potion stacks to one.           *)
ASSUME ItemsAssumption ==
  /\ NoItem \notin Items
  /\ (Edible \union Fuel \union Potions) \subseteq Items
  /\ Smelts \in [Items -> Items \union {NoItem}]
  /\ Gift \in Stacks
  /\ \A r \in Recipes : r.of \in Items /\ r.to \in Stacks
  /\ \A b \in Brews : {b[1], b[3]} \subseteq Items /\ MaxStack[b[1]] =< MaxStack[b[3]]

Less(s, n) == Stack(s.item, s.count - n)
Room(slot, s) ==
  IF slot = Empty THEN MaxStack[s.item]
  ELSE IF slot.item = s.item THEN MaxStack[s.item] - slot.count ELSE 0

Lower(a, b) == IF a < b THEN a ELSE b

(* Pours what is left of a stack into one slot.                               *)
Pour(acc, k, s, wanted) ==
  LET n == Lower(Room(acc.slots[k], s), acc.left)
  IN IF (acc.slots[k] = Empty) = wanted /\ n > 0
       THEN [slots |-> [acc.slots EXCEPT ![k] = Stack(s.item, @.count + n)],
             left  |-> acc.left - n]
       ELSE acc

(* add_slot: like stacks fill up first, then the first empty slots; what does *)
(* not fit in full is refused.                                                *)
Poured(acc, s, wanted) ==
  LET after[k \in 0..Len(acc.slots)] ==
        IF k = 0 THEN acc ELSE Pour(after[k - 1], k, s, wanted)
  IN after[Len(acc.slots)]
AddSlot(slots, s) ==
  IF s = Empty THEN [slots |-> slots, left |-> 0]
  ELSE Poured(Poured([slots |-> slots, left |-> s.count], s, FALSE), s, TRUE)

(* try_insert_item: one unit to the first like stack with room that takes it, *)
(* else to the first empty slot that does; 0 if there is none.                *)
First(K) == IF K = {} THEN 0 ELSE Min(K)
SlotFor(slots, i, taking) ==
  LET like == First({k \in taking : slots[k].item = i /\ slots[k].count < MaxStack[i]})
      free == First({k \in taking : slots[k] = Empty})
  IN IF like # 0 THEN like ELSE free

(* Mutant: a right click adds its item to a like stack also when it is full.  *)
ClickedOver(slot, held, isLeft) ==
  LET like  == slot.item = held.item
      n     == IF isLeft THEN Lower(Room(slot, held), held.count) ELSE 1
      taken == IF isLeft THEN slot.count ELSE (slot.count + 1) \div 2
  IN CASE held = Empty /\ slot = Empty -> <<slot, held>>
       [] held = Empty /\ slot # Empty -> <<Less(slot, taken), Stack(slot.item, taken)>>
       [] held # Empty /\ (slot = Empty \/ like) ->
            <<Stack(held.item, slot.count + n), Less(held, n)>>
       [] OTHER -> <<held, slot>>

(* apply_stack_click: what slot and cursor are after a click.                 *)
Clicked(slot, held, isLeft) ==
  LET like  == slot.item = held.item
      n     == IF isLeft THEN Lower(Room(slot, held), held.count)
               ELSE Lower(Room(slot, held), 1)
      taken == IF isLeft THEN slot.count ELSE (slot.count + 1) \div 2
  IN CASE held = Empty /\ slot = Empty -> <<slot, held>>
       [] held = Empty /\ slot # Empty -> <<Less(slot, taken), Stack(slot.item, taken)>>
       [] held # Empty /\ (slot = Empty \/ like) ->
            <<Stack(held.item, slot.count + n), Less(held, n)>>
       [] OTHER -> <<held, slot>>

-----------------------------------------------------------------------------
(* Blocks and who views them.                                                 *)
Kinds == {"air", "chest", "furnace", "hopper", "stand"}
SlotCount(kind) ==
  CASE kind = "chest" -> ChestSize
    [] kind = "hopper" -> HopperSize
    [] kind = "furnace" -> 3
    [] OTHER -> 0
Blocks ==
  UNION {[kind : {kind}, slots : [1..SlotCount(kind) -> Stacks],
          open : IF kind = "chest" THEN BOOLEAN ELSE {FALSE}] : kind \in Kinds}

ASSUME StartsAssumption ==
  /\ KindAt \in [Positions -> Kinds]
  /\ \A start \in Starts :
       /\ start.inventory \in [Players -> [Slots -> Stacks]]
       /\ \A pos \in Positions : start.slots[pos] \in [1..SlotCount(KindAt[pos]) -> Stacks]

IsContainer(pos) == SlotCount(block[pos].kind) > 0
Air == [kind |-> "air", slots |-> <<>>, open |-> FALSE]
Placed(kind) == [kind |-> kind, slots |-> [k \in 1..SlotCount(kind) |-> Empty],
                 open |-> FALSE]

(* A player's views of some positions end; a chest without a viewer closes.   *)
Without(p, closed) ==
  [pos \in Positions |-> IF pos \in closed THEN viewers[pos] \ {p} ELSE viewers[pos]]
LastViewer(p, pos) == viewers[pos] = {p} /\ block[pos].kind = "chest"
Shut(p, closed) ==
  [pos \in Positions |->
     IF pos \in closed /\ LastViewer(p, pos)
       THEN [block[pos] EXCEPT !.open = FALSE] ELSE block[pos]]

-----------------------------------------------------------------------------
(* The brew of a session reserves slots of its inventory.                     *)
NoBrew == [ingredient |-> 0, bottles |-> {}, expected |-> <<>>, ready |-> FALSE]
Reserved(b) == IF b = NoBrew THEN {} ELSE {b.ingredient} \union b.bottles
BrewLocksSlot(p, k) == k \in Reserved(brew[p])
(* Mutant: only the item of a reserved slot is compared, not how much of it.  *)
PreservesBrewItems(p, slots) ==
  \A k \in Reserved(brew[p]) : slots[k].item = inventory[p][k].item
PreservesBrewLocks(p, slots) ==
  \A k \in Reserved(brew[p]) : slots[k] = inventory[p][k]

Brewed(potion, ingredient) ==
  LET fits == {b \in Brews : b[1] = potion /\ b[2] = ingredient}
  IN IF fits = {} THEN NoItem ELSE (CHOOSE b \in fits : TRUE)[3]

StartBrew(p, k, bottles) ==
  /\ block[Station].kind = "stand"
  /\ brew[p] = NoBrew
  /\ inventory[p][k] # Empty
  /\ k \notin bottles
  /\ \A b \in bottles : inventory[p][b].item \in Potions
  /\ \E b \in bottles : Brewed(inventory[p][b].item, inventory[p][k].item) # NoItem
  /\ brew' = [brew EXCEPT ![p] =
       [ingredient |-> k, bottles |-> bottles, ready |-> FALSE,
        expected |-> [i \in {k} \union bottles |-> inventory[p][i]]]]
  /\ Asked
  /\ UNCHANGED <<inventory, cursor, block, drops, views, lit, supply>>

(* tick_brew: the stand must still be there when a tick comes.                *)
TickBrew(p) ==
  /\ brew[p] # NoBrew
  /\ \/ /\ block[Station].kind = "stand"
        /\ ~brew[p].ready
        /\ brew' = [brew EXCEPT ![p].ready = TRUE]
     \/ /\ block[Station].kind # "stand"
        /\ brew' = [brew EXCEPT ![p] = NoBrew]
  /\ UNCHANGED <<inventory, cursor, block, drops, views, lit, ghosts>>

(* The bottles a brew turns into something, and what the inventory is then.   *)
Turned(b) ==
  {k \in b.bottles : Brewed(b.expected[k].item, b.expected[b.ingredient].item) # NoItem}
AfterBrew(slots, b) ==
  [k \in DOMAIN slots |->
     IF k = b.ingredient THEN Less(slots[k], 1)
     ELSE IF k \in Turned(b)
       THEN [slots[k] EXCEPT !.item = Brewed(@, slots[b.ingredient].item)]
     ELSE slots[k]]

(* How many units of an item some slots hold.                                 *)
Total(counts) ==
  LET upTo[k \in 0..Len(counts)] == IF k = 0 THEN 0 ELSE upTo[k - 1] + counts[k]
  IN upTo[Len(counts)]
Units(s, i) == IF s.item = i THEN s.count ELSE 0
CountIn(slots, i) == Total([k \in 1..Len(slots) |-> Units(slots[k], i)])
AddUp(f, D) ==
  LET order == SetToSeq(D) IN Total([k \in 1..Len(order) |-> f[order[k]]])
Changed(before, after) ==
  [i \in Items |-> supply[i] + CountIn(after, i) - CountIn(before, i)]

TakeBrew(p) ==
  LET b == brew[p]
      after == AfterBrew(inventory[p], b)
  IN /\ b # NoBrew
     /\ block[Station].kind = "stand"
     /\ b.ready
     /\ \A k \in Reserved(b) : inventory[p][k] = b.expected[k]
     /\ inventory' = [inventory EXCEPT ![p] = after]
     /\ brew' = [brew EXCEPT ![p] = NoBrew]
     /\ supply' = Changed(inventory[p], after)
     /\ UNCHANGED <<cursor, block, drops, views, lit, requests>>

CancelBrew(p) ==
  /\ brew[p] # NoBrew
  /\ block[Station].kind = "stand"
  /\ brew' = [brew EXCEPT ![p] = NoBrew]
  /\ UNCHANGED <<inventory, cursor, block, drops, views, lit, ghosts>>

-----------------------------------------------------------------------------
(* Requests about containers.                                                 *)

(* open_container, then route_container_result: the others that the runtime   *)
(* has for the player are closed.                                             *)
Open(p, pos) ==
  LET others == tracked[p] \ {pos}
      shut   == Shut(p, others)
  IN /\ IsContainer(pos)
     /\ viewers' = [Without(p, others) EXCEPT ![pos] = viewers[pos] \union {p}]
     /\ block' = IF block[pos].kind = "chest" /\ viewers[pos] = {}
                   THEN [shut EXCEPT ![pos].open = TRUE] ELSE shut
     /\ tracked' = [tracked EXCEPT ![p] = {pos}]
     /\ UNCHANGED <<session, drops, closures, lit, ghosts>>

(* A player's views of some positions end, as the runtime forces it.          *)
Departed(p, closed) ==
  /\ viewers' = Without(p, closed)
  /\ block' = Shut(p, closed)
  /\ tracked' = [tracked EXCEPT ![p] = @ \ closed]

Close(p, pos) ==
  /\ IsContainer(pos)
  /\ Departed(p, {pos})
  /\ UNCHANGED <<session, drops, closures, lit, ghosts>>

(* The player walks away from some containers, or asks from too far away.     *)
WalkAway(p, closed) ==
  /\ closed # {}
  /\ closed \subseteq tracked[p]
  /\ Departed(p, closed)
  /\ UNCHANGED <<session, drops, closures, lit, ghosts>>

(* Logout, transfer and respawn: cleanup_session_lifecycle and the runtime's  *)
(* own cleanup.  Inventory and cursor are the player's file until a login.    *)
Leave(p) ==
  /\ viewers' = Without(p, Positions)
  /\ block' = Shut(p, Positions)
  /\ tracked' = [tracked EXCEPT ![p] = {}]
  /\ brew' = [brew EXCEPT ![p] = NoBrew]
  /\ UNCHANGED <<inventory, cursor, drops, closures, lit, ghosts>>

(* apply_container_click: with an empty cursor the player may claim a stack   *)
(* of the hotbar (from), which is picked up first; claiming nothing, what     *)
(* comes out of the container goes to the inventory.                          *)
Click(p, pos, k, isLeft, from) ==
  LET picked  == from # 0
      held    == IF picked THEN inventory[p][from] ELSE cursor[p]
      left    == IF picked THEN [inventory[p] EXCEPT ![from] = Empty] ELSE inventory[p]
      result  == Clicked(block[pos].slots[k], held, isLeft)
      extract == cursor[p] = Empty /\ ~picked
      added   == IF extract THEN AddSlot(left, result[2]) ELSE [slots |-> left, left |-> 0]
  IN /\ p \in viewers[pos]
     /\ picked => /\ cursor[p] = Empty
                  /\ inventory[p][from] # Empty
                  /\ ~BrewLocksSlot(p, from)
     /\ added.left = 0
     /\ PreservesBrewLocks(p, added.slots)
     /\ inventory' = [inventory EXCEPT ![p] = added.slots]
     /\ cursor' = [cursor EXCEPT ![p] = IF extract THEN Empty ELSE result[2]]
     /\ block' = [block EXCEPT ![pos].slots[k] = result[1]]
     /\ tracked' = [tracked EXCEPT ![p] = @ \union {pos}]
     /\ Asked
     /\ UNCHANGED <<brew, drops, viewers, closures, lit, supply>>

(* take_furnace_output writes the furnace before the brew locks of the player *)
(* are looked at: when they refuse, the player does not get what was taken.   *)
Output(pos) == IF block[pos].kind = "furnace" THEN block[pos].slots[3].count ELSE 0
TakeOutput(p, pos, n) ==
  LET output == block[pos].slots[3]
      added  == AddSlot(inventory[p], Stack(output.item, n))
      keeps  == PreservesBrewLocks(p, added.slots)
  IN /\ block[pos].kind = "furnace"
     /\ n \in 1..Output(pos)
     /\ added.left = 0
     /\ block' = [block EXCEPT ![pos].slots[3] = Less(@, n)]
     /\ inventory' = [inventory EXCEPT ![p] = IF keeps THEN added.slots ELSE @]
     /\ supply' = IF keeps THEN supply ELSE [supply EXCEPT ![output.item] = @ - n]
     /\ Asked
     /\ UNCHANGED <<cursor, brew, drops, views, lit>>

-----------------------------------------------------------------------------
(* Other requests that change an inventory.                                   *)

(* execute_craft, from one stack.                                             *)
Craft(p, k, recipe) ==
  LET paid  == [inventory[p] EXCEPT ![k] = Less(@, 1)]
      added == AddSlot(paid, recipe.to)
  IN /\ inventory[p][k].item = recipe.of
     /\ ~BrewLocksSlot(p, k)
     /\ added.left = 0
     /\ PreservesBrewLocks(p, added.slots)
     /\ inventory' = [inventory EXCEPT ![p] = added.slots]
     /\ supply' = Changed(inventory[p], added.slots)
     /\ Asked
     /\ UNCHANGED <<cursor, brew, block, drops, views, lit>>

(* apply_item_use: food leaves the first slot that has it.                    *)
Eat(p, i) ==
  LET k == First({x \in DOMAIN inventory[p] : inventory[p][x].item = i})
      after == [inventory[p] EXCEPT ![k] = Less(@, 1)]
  IN /\ k # 0
     /\ PreservesBrewLocks(p, after)
     /\ inventory' = [inventory EXCEPT ![p] = after]
     /\ supply' = Changed(inventory[p], after)
     /\ Asked
     /\ UNCHANGED <<cursor, brew, block, drops, views, lit>>

(* A command or a catch adds a stack without asking the brew locks.           *)
Give(p) ==
  LET added == AddSlot(inventory[p], Gift)
  IN /\ added.left = 0
     /\ inventory' = [inventory EXCEPT ![p] = added.slots]
     /\ supply' = Changed(inventory[p], added.slots)
     /\ Asked
     /\ UNCHANGED <<cursor, brew, block, drops, views, lit>>

(* The stacks a container drops, in the order of its slots.                   *)
Loose(slots) ==
  LET upTo[k \in 0..Len(slots)] ==
        IF k = 0 THEN <<>>
        ELSE IF slots[k] = Empty THEN upTo[k - 1] ELSE Append(upTo[k - 1], slots[k])
  IN upTo[Len(slots)]

(* commit_mining_break and set_block: the content is dropped, the viewers     *)
(* lose the container and their closures are queued.  The item of the block   *)
(* itself, dropped here and paid when it is placed, is left out.              *)
Mine(pos) ==
  /\ block[pos].kind # "air"
  /\ drops' = [drops EXCEPT ![pos] = @ \o Loose(block[pos].slots)]
  /\ block' = [block EXCEPT ![pos] = Air]
  /\ lit' = [lit EXCEPT ![pos] = FALSE]
  /\ viewers' = [viewers EXCEPT ![pos] = {}]
  /\ closures' = closures \union (viewers[pos] \X {pos})
  /\ Asked
  /\ UNCHANGED <<session, tracked, supply>>

Place(pos) ==
  /\ block[pos].kind = "air"
  /\ block' = [block EXCEPT ![pos] = Placed(KindAt[pos])]
  /\ Asked
  /\ UNCHANGED <<session, drops, views, lit, supply>>

(* At the end of a tick every queued closure ends the view it names, also a   *)
(* view of a container that was placed and opened there since.                *)
Gone(pos) == {p \in Players : <<p, pos>> \in closures}
(* Mutant: the queued closures remove viewers but leave the chest as it is.   *)
CloseGoneQuietly ==
  /\ closures # {}
  /\ viewers' = [pos \in Positions |-> viewers[pos] \ Gone(pos)]
  /\ tracked' = [p \in Players |-> {pos \in tracked[p] : p \notin Gone(pos)}]
  /\ closures' = {}
  /\ UNCHANGED <<session, block, drops, lit, ghosts>>
CloseGone ==
  /\ closures # {}
  /\ viewers' = [pos \in Positions |-> viewers[pos] \ Gone(pos)]
  /\ block' = [pos \in Positions |->
       IF /\ block[pos].kind = "chest"
          /\ viewers[pos] # {} /\ viewers[pos] \subseteq Gone(pos)
         THEN [block[pos] EXCEPT !.open = FALSE] ELSE block[pos]]
  /\ tracked' = [p \in Players |-> {pos \in tracked[p] : p \notin Gone(pos)}]
  /\ closures' = {}
  /\ UNCHANGED <<session, drops, lit, ghosts>>

-----------------------------------------------------------------------------
(* Automation in the tick.                                                    *)

(* ContainerAccess: what the sides of a block give and take.                  *)
CanInsert(kind, k, i, side) ==
  kind = "furnace" => \/ side = "up" /\ k = 1
                      \/ side = "side" /\ k = 2 /\ i \in Fuel
CanExtract(kind, k) == kind = "furnace" => k = 3

(* transfer_one: the first stack that may leave gives one unit, or nothing    *)
(* moves at all.                                                              *)
SourceSlot(from) ==
  First({k \in DOMAIN block[from].slots :
           CanExtract(block[from].kind, k) /\ block[from].slots[k] # Empty})
TargetSlot(to, side, i) ==
  SlotFor(block[to].slots, i,
          {k \in DOMAIN block[to].slots : CanInsert(block[to].kind, k, i, side)})
CanTransfer(from, to, side) ==
  /\ {from, to} \subseteq Positions
  /\ SourceSlot(from) # 0
  /\ TargetSlot(to, side, block[from].slots[SourceSlot(from)].item) # 0
OneMore(slots, k, i) == [slots EXCEPT ![k] = Stack(i, @.count + 1)]
Transfer(from, to, side) ==
  LET k == SourceSlot(from)
      i == block[from].slots[k].item
  IN block' = [block EXCEPT
       ![from].slots[k] = Less(@, 1),
       ![to].slots = OneMore(block[to].slots, TargetSlot(to, side, i), i)]

(* A hopper pushes; if it cannot it pulls from above; if it cannot do that    *)
(* either it picks up a dropped stack above it, one unit at a time.           *)
Pushes(pos) == CanTransfer(pos, Target[pos], TargetSide[pos])
Pulls(pos) == CanTransfer(Above[pos], pos, "up")
(* Mutant: the dropped stack is gone once one unit of it is in the hopper.    *)
PickUpWhole(pos) ==
  LET above == Above[pos]
      k     == TargetSlot(pos, "up", Head(drops[above]).item)
  IN /\ above \in Positions
     /\ drops[above] # <<>>
     /\ k # 0
     /\ block' = [block EXCEPT ![pos].slots = OneMore(@, k, Head(drops[above]).item)]
     /\ drops' = [drops EXCEPT ![above] = Tail(@)]
PickUp(pos) ==
  LET above == Above[pos]
      drop  == Head(drops[above])
      k     == TargetSlot(pos, "up", drop.item)
  IN /\ above \in Positions
     /\ drops[above] # <<>>
     /\ k # 0
     /\ block' = [block EXCEPT ![pos].slots = OneMore(@, k, drop.item)]
     /\ drops' = [drops EXCEPT ![above] =
          IF drop.count = 1 THEN Tail(@) ELSE <<Less(drop, 1)>> \o Tail(@)]

Hopper(pos) ==
  /\ block[pos].kind = "hopper"
  /\ \/ Pushes(pos) /\ Transfer(pos, Target[pos], TargetSide[pos]) /\ UNCHANGED drops
     \/ ~Pushes(pos) /\ Pulls(pos) /\ Transfer(Above[pos], pos, "up") /\ UNCHANGED drops
     \/ ~Pushes(pos) /\ ~Pulls(pos) /\ PickUp(pos)
  /\ UNCHANGED <<session, views, lit, ghosts>>

(* FurnaceBlockEntity::tick: fuel is taken when it is out and something can   *)
(* be smelted; a fire lit before may end with the tick, and if it does not    *)
(* the smelt may be done.                                                     *)
CanSmelt(slots) ==
  LET to == IF slots[1] = Empty THEN NoItem ELSE Smelts[slots[1].item]
  IN to # NoItem /\ Room(slots[3], Stack(to, 1)) > 0
Fuelled(pos) ==
  /\ ~lit[pos]
  /\ CanSmelt(block[pos].slots)
  /\ block[pos].slots[2].item \in Fuel
FurnaceTick(pos, burns, done) ==
  LET old   == block[pos].slots
      fed   == IF Fuelled(pos) THEN [old EXCEPT ![2] = Less(@, 1)] ELSE old
      fired == lit[pos] \/ Fuelled(pos)
      new   == IF done
                 THEN [fed EXCEPT ![1] = Less(@, 1),
                                  ![3] = Stack(Smelts[old[1].item], @.count + 1)]
                 ELSE fed
  IN /\ block[pos].kind = "furnace"
     /\ fired
     /\ Fuelled(pos) => burns
     /\ done => burns /\ CanSmelt(old)
     /\ lit' = [lit EXCEPT ![pos] = burns]
     /\ block' = [block EXCEPT ![pos].slots = new]
     /\ supply' = Changed(old, new)
     /\ UNCHANGED <<session, drops, views, requests>>

-----------------------------------------------------------------------------
Init ==
  /\ \E start \in Starts :
       /\ inventory = start.inventory
       /\ block = [pos \in Positions |->
            [kind |-> KindAt[pos], slots |-> start.slots[pos], open |-> FALSE]]
       /\ supply = [i \in Items |->
            AddUp([p \in Players |-> CountIn(start.inventory[p], i)], Players)
            + AddUp([pos \in Positions |-> CountIn(start.slots[pos], i)], Positions)]
  /\ cursor = [p \in Players |-> Empty]
  /\ brew = [p \in Players |-> NoBrew]
  /\ drops = [pos \in Positions |-> <<>>]
  /\ viewers = [pos \in Positions |-> {}]
  /\ tracked = [p \in Players |-> {}]
  /\ closures = {}
  /\ lit = [pos \in Positions |-> FALSE]
  /\ requests = 0

Next ==
  \/ \E p \in Players, k \in Slots, bottles \in SUBSET Slots : StartBrew(p, k, bottles)
  \/ \E p \in Players : TickBrew(p) \/ TakeBrew(p) \/ CancelBrew(p) \/ Leave(p) \/ Give(p)
  \/ \E p \in Players, pos \in Positions : Open(p, pos) \/ Close(p, pos)
  \/ \E p \in Players, closed \in SUBSET Positions : WalkAway(p, closed)
  \/ \E p \in Players, pos \in Positions : \E k \in DOMAIN block[pos].slots,
        isLeft \in BOOLEAN, from \in Slots \union {0} : Click(p, pos, k, isLeft, from)
  \/ \E p \in Players, pos \in Positions : \E n \in 1..Output(pos) : TakeOutput(p, pos, n)
  \/ \E p \in Players, k \in Slots, recipe \in Recipes : Craft(p, k, recipe)
  \/ \E p \in Players, i \in Edible : Eat(p, i)
  \/ \E pos \in Positions : Mine(pos) \/ Place(pos) \/ Hopper(pos)
  \/ CloseGone
  \/ \E pos \in Positions, burns, done \in BOOLEAN : FurnaceTick(pos, burns, done)
Spec == Init /\ [][Next]_vars

-----------------------------------------------------------------------------
(* Every slot holds a stack of at most its item's size, a container has as    *)
(* many slots as its kind says and nothing else has any, and only a chest can *)
(* be open.                                                                   *)
IsBrew(b) ==
  \/ b = NoBrew
  \/ /\ b = [ingredient |-> b.ingredient, bottles |-> b.bottles,
             expected |-> b.expected, ready |-> b.ready]
     /\ b.ingredient \in Slots /\ b.bottles \subseteq Slots
     /\ b.expected \in [{b.ingredient} \union b.bottles -> Stacks \ {Empty}]
     /\ b.ready \in BOOLEAN
TypeOK ==
  /\ inventory \in [Players -> [Slots -> Stacks]]
  /\ cursor \in [Players -> Stacks]
  /\ brew = [p \in Players |-> brew[p]] /\ \A p \in Players : IsBrew(brew[p])
  /\ block \in [Positions -> Blocks]
  /\ drops \in [Positions -> Seq(Stacks \ {Empty})]
  /\ viewers \in [Positions -> SUBSET Players]
  /\ tracked \in [Players -> SUBSET Positions]
  /\ closures \subseteq Players \X Positions
  /\ lit \in [Positions -> BOOLEAN]
  /\ supply \in [Items -> Int]
  /\ requests \in 0..MaxRequests

(* Clicks, hoppers, mining and lifecycle only move items: what all slots,     *)
(* cursors and drops hold of an item is what the world began with and what    *)
(* recipes, fire, food and gifts made or used up.  (What a rejected furnace   *)
(* take loses counts as used up, see TakeOutput.)                             *)
Carried(i) == [p \in Players |-> Units(cursor[p], i) + CountIn(inventory[p], i)]
Lying(i) == [pos \in Positions |-> CountIn(block[pos].slots, i) + CountIn(drops[pos], i)]
ItemsConserved ==
  \A i \in Items : AddUp(Carried(i), Players) + AddUp(Lying(i), Positions) = supply[i]

(* As long as a brew is pending its slots still hold at least what it         *)
(* reserved, whatever clicks, takes, crafts, meals and gifts came between.    *)
ReservationHeld ==
  \A p \in Players : \A k \in Reserved(brew[p]) :
    /\ inventory[p][k].item = brew[p].expected[k].item
    /\ inventory[p][k].count >= brew[p].expected[k].count

(* Who views a container views one that exists and is open, the runtime knows *)
(* of the view and so can end it, and a chest nobody views is closed.         *)
ViewsAreReal ==
  \A pos \in Positions :
    /\ viewers[pos] # {} => IsContainer(pos)
    /\ block[pos].kind = "chest" => (block[pos].open <=> viewers[pos] # {})
    /\ \A p \in viewers[pos] : pos \in tracked[p]
=============================================================================
