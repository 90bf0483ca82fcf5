------------------------------ MODULE BlockProofs ------------------------------
(***************************************************************************)
(* The blocks of a world that do something: containers, for any players,   *)
(* positions, stacks and recipes, and redstone circuits, for runs of any   *)
(* length, any setups and any bounds.                                      *)
(*                                                                         *)
(* Containers: who views a container views one that is there, the runtime  *)
(* knows of it, and a chest is open exactly while somebody views it; no    *)
(* item is lost or made but by what uses it up or makes it; and a pending  *)
(* brew finds what it reserved.                                            *)
(* Redstone: a dispenser fires once for each pulse, a tick that pushes     *)
(* blocks keeps them all, and a circuit that sleeps is settled: every      *)
(* component shows what the blocks around it call for.                     *)
(*                                                                         *)
(* The sums are over sequences and sets of any size, the transitions of a  *)
(* tick over a run of any length.  What is true of them is proved by       *)
(* induction on a number (UpToInduction, from the least element of a set   *)
(* of naturals), and that the recursive functions they are computed with   *)
(* exist by building them step by step (Repeats, CircuitRuns).             *)
(***************************************************************************)
EXTENDS Containers, Redstone, FiniteSetTheorems, SequenceTheorems, TLAPS

(***************************************************************************)
(* Who views what.                                                         *)
(***************************************************************************)
\* The part of the types the argument needs.  What the slots hold plays no part.
IsBlock(b) ==
  /\ b = [kind |-> b.kind, slots |-> b.slots, open |-> b.open]
  /\ b.open \in BOOLEAN

Types ==
  /\ viewers \in [Positions -> SUBSET Players]
  /\ tracked \in [Players -> SUBSET Positions]
  /\ block = [pos \in Positions |-> block[pos]]
  /\ \A pos \in Positions : IsBlock(block[pos])

Inv == Types /\ ViewsAreReal

\* A step changes of the blocks at most what their slots hold.
KeepsBlocks ==
  /\ block' = [pos \in Positions |-> block'[pos]]
  /\ \A pos \in Positions :
       /\ IsBlock(block'[pos])
       /\ block'[pos].kind = block[pos].kind
       /\ block'[pos].open = block[pos].open

-----------------------------------------------------------------------------

LEMMA SlotsOnly ==
  ASSUME NEW b, IsBlock(b), NEW s
  PROVE  /\ IsBlock([b EXCEPT !.slots = s])
         /\ [b EXCEPT !.slots = s].kind = b.kind
         /\ [b EXCEPT !.slots = s].open = b.open
  <1>1. [b EXCEPT !.slots = s] = [kind |-> b.kind, slots |-> s, open |-> b.open]
    BY DEF IsBlock
  <1>2. QED
    BY <1>1 DEF IsBlock

LEMMA ClosesOnly ==
  ASSUME NEW b, IsBlock(b), NEW o \in BOOLEAN
  PROVE  /\ IsBlock([b EXCEPT !.open = o])
         /\ [b EXCEPT !.open = o].kind = b.kind
         /\ [b EXCEPT !.open = o].open = o
  <1>1. [b EXCEPT !.open = o] = [kind |-> b.kind, slots |-> b.slots, open |-> o]
    BY DEF IsBlock
  <1>2. QED
    BY <1>1 DEF IsBlock

\* Writing the slots of one block keeps the blocks.
LEMMA WriteKeeps ==
  ASSUME Types, NEW pos \in Positions, NEW s,
         block' = [block EXCEPT ![pos] = [block[pos] EXCEPT !.slots = s]]
  PROVE  KeepsBlocks
  <1>1. \A x \in Positions : block'[x] = IF x = pos THEN [block[pos] EXCEPT !.slots = s]
                                         ELSE block[x]
    BY DEF Types
  <1>2. block' = [x \in Positions |-> block'[x]]
    BY DEF Types
  <1>3. ASSUME NEW x \in Positions
        PROVE  IsBlock(block'[x]) /\ block'[x].kind = block[x].kind /\ block'[x].open = block[x].open
    <2>1. IsBlock(block[x])
      BY DEF Types
    <2>2. CASE x = pos
      BY <1>1, <2>1, <2>2, SlotsOnly
    <2>3. CASE x # pos
      BY <1>1, <2>1, <2>3
    <2>4. QED
      BY <2>2, <2>3
  <1>4. QED
    BY <1>2, <1>3 DEF KeepsBlocks

\* Keeping the blocks and who views them keeps the invariant; so does
\* remembering one more view.
LEMMA KeepingInv ==
  ASSUME Inv, KeepsBlocks, viewers' = viewers,
         tracked' \in [Players -> SUBSET Positions],
         \A p \in Players : tracked[p] \subseteq tracked'[p]
  PROVE  Inv'
  <1>1. Types'
    BY DEF Inv, Types, KeepsBlocks
  <1>2. ASSUME NEW pos \in Positions PROVE IsContainer(pos)' <=> IsContainer(pos)
    BY <1>2 DEF KeepsBlocks, IsContainer, SlotCount
  <1>3. ViewsAreReal'
    BY <1>2 DEF Inv, Types, ViewsAreReal, KeepsBlocks
  <1>4. QED
    BY <1>1, <1>3 DEF Inv

LEMMA SameBlocks ==
  ASSUME Inv, UNCHANGED <<block, viewers, tracked>>
  PROVE  Inv'
  <1>1. KeepsBlocks
    BY DEF Inv, Types, KeepsBlocks
  <1>2. QED
    BY <1>1, KeepingInv DEF Inv, Types

-----------------------------------------------------------------------------

LEMMA InitInv == Init => Inv
  <1> SUFFICES ASSUME Init PROVE Inv
    OBVIOUS
  <1>1. PICK start \in Starts :
          block = [pos \in Positions |->
            [kind |-> KindAt[pos], slots |-> start.slots[pos], open |-> FALSE]]
    BY DEF Init
  <1>2. Types
    BY <1>1 DEF Init, Types, IsBlock
  <1>3. ViewsAreReal
    BY <1>1 DEF Init, ViewsAreReal
  <1>4. QED
    BY <1>2, <1>3 DEF Inv

\* Ending some of one player's views.
LEMMA ShutInv ==
  ASSUME Inv, NEW p \in Players, NEW closed \in SUBSET Positions
  PROVE  /\ Without(p, closed) \in [Positions -> SUBSET Players]
         /\ Shut(p, closed) = [pos \in Positions |-> Shut(p, closed)[pos]]
         /\ \A pos \in Positions :
              /\ IsBlock(Shut(p, closed)[pos])
              /\ Shut(p, closed)[pos].kind = block[pos].kind
              /\ block[pos].kind = "chest" =>
                   (Shut(p, closed)[pos].open <=> Without(p, closed)[pos] # {})
  <1>1. Without(p, closed) \in [Positions -> SUBSET Players]
    BY DEF Inv, Types, Without
  <1>2. ASSUME NEW pos \in Positions
        PROVE  Shut(p, closed)[pos] = IF pos \in closed /\ LastViewer(p, pos)
                 THEN [block[pos] EXCEPT !.open = FALSE] ELSE block[pos]
    BY DEF Shut
  <1>3. ASSUME NEW pos \in Positions
        PROVE  /\ IsBlock(Shut(p, closed)[pos])
               /\ Shut(p, closed)[pos].kind = block[pos].kind
    BY <1>2, ClosesOnly DEF Inv, Types
  <1>4. ASSUME NEW pos \in Positions, block[pos].kind = "chest"
        PROVE  Shut(p, closed)[pos].open <=> Without(p, closed)[pos] # {}
    <2>1. block[pos].open <=> viewers[pos] # {}
      BY <1>4 DEF Inv, ViewsAreReal
    <2>2. CASE pos \in closed /\ viewers[pos] = {p}
      <3>1. Shut(p, closed)[pos] = [block[pos] EXCEPT !.open = FALSE]
        BY <1>2, <1>4, <2>2 DEF LastViewer
      <3>2. IsBlock(block[pos])
        BY DEF Inv, Types
      <3>3. Shut(p, closed)[pos].open = FALSE
        BY <3>1, <3>2, ClosesOnly
      <3>4. Without(p, closed)[pos] = {}
        BY <2>2 DEF Without
      <3>5. QED
        BY <3>3, <3>4
    <2>3. CASE ~(pos \in closed /\ viewers[pos] = {p})
      <3>1. Shut(p, closed)[pos] = block[pos]
        BY <1>2, <2>3 DEF LastViewer
      <3>2. Without(p, closed)[pos] # {} <=> viewers[pos] # {}
        BY <2>3 DEF Without
      <3>3. QED
        BY <2>1, <3>1, <3>2
    <2>4. QED
      BY <2>2, <2>3
  <1>5. Shut(p, closed) = [pos \in Positions |-> Shut(p, closed)[pos]]
    BY DEF Shut
  <1>6. QED
    BY <1>1, <1>3, <1>4, <1>5

\* A step that ends some of one player's views, and no other's.
LEMMA EndingInv ==
  ASSUME Inv, NEW p \in Players, NEW closed \in SUBSET Positions,
         viewers' = Without(p, closed), block' = Shut(p, closed),
         tracked' \in [Players -> SUBSET Positions],
         \A q \in Players \ {p} : tracked'[q] = tracked[q],
         tracked[p] \ closed \subseteq tracked'[p]
  PROVE  Inv'
  <1>1. Types'
    BY ShutInv DEF Inv, Types
  <1>2. ASSUME NEW pos \in Positions
        PROVE  /\ viewers'[pos] = IF pos \in closed THEN viewers[pos] \ {p} ELSE viewers[pos]
               /\ block'[pos].kind = block[pos].kind
               /\ IsContainer(pos)' <=> IsContainer(pos)
    BY ShutInv DEF Without, IsContainer, SlotCount
  <1>3. ASSUME NEW pos \in Positions
        PROVE  /\ viewers'[pos] # {} => IsContainer(pos)'
               /\ block'[pos].kind = "chest" => (block'[pos].open <=> viewers'[pos] # {})
    <2>1. viewers'[pos] # {} => IsContainer(pos)'
      BY <1>2 DEF Inv, ViewsAreReal
    <2>2. block'[pos].kind = "chest" => (block'[pos].open <=> viewers'[pos] # {})
      BY <1>2, ShutInv
    <2>3. QED
      BY <2>1, <2>2
  <1>4. ASSUME NEW pos \in Positions, NEW q \in viewers'[pos]
        PROVE  pos \in tracked'[q]
    <2>1. q \in viewers[pos] /\ q \in Players /\ pos \in tracked[q]
      BY <1>2, <1>4 DEF Inv, Types, ViewsAreReal
    <2>2. CASE q = p
      BY <2>1, <2>2, <1>2, <1>4
    <2>3. CASE q # p
      BY <2>1, <2>3
    <2>4. QED
      BY <2>2, <2>3
  <1>5. QED
    BY <1>1, <1>3, <1>4 DEF Inv, ViewsAreReal

LEMMA DepartedInv ==
  ASSUME Inv, NEW p \in Players, NEW closed \in SUBSET Positions, Departed(p, closed)
  PROVE  Inv'
  BY EndingInv DEF Departed, Inv, Types

LEMMA LeaveInv ==
  ASSUME Inv, NEW p \in Players, Leave(p)
  PROVE  Inv'
  BY EndingInv DEF Leave, Inv, Types

\* Whoever opens a container leaves every other one first.
LEMMA OpenInv ==
  ASSUME Inv, NEW p \in Players, NEW pos \in Positions, Open(p, pos)
  PROVE  Inv'
  <1> DEFINE others == tracked[p] \ {pos}
             shut == Shut(p, others)
             left == Without(p, others)
  <1>1. /\ viewers' = [left EXCEPT ![pos] = viewers[pos] \union {p}]
        /\ block' = IF block[pos].kind = "chest" /\ viewers[pos] = {}
                      THEN [shut EXCEPT ![pos].open = TRUE] ELSE shut
        /\ tracked' = [tracked EXCEPT ![p] = {pos}]
        /\ IsContainer(pos)
    BY DEF Open
  <1>2. others \in SUBSET Positions
    BY DEF Inv, Types
  <1>3. /\ left \in [Positions -> SUBSET Players]
        /\ shut = [x \in Positions |-> shut[x]]
        /\ \A x \in Positions :
             /\ IsBlock(shut[x]) /\ shut[x].kind = block[x].kind
             /\ block[x].kind = "chest" => (shut[x].open <=> left[x] # {})
    BY <1>2, ShutInv
  <1>4. ASSUME NEW x \in Positions
        PROVE  /\ left[x] = IF x \in others THEN viewers[x] \ {p} ELSE viewers[x]
               /\ viewers'[x] = IF x = pos THEN viewers[pos] \union {p} ELSE left[x]
    BY <1>1, <1>3 DEF Without
  <1>5. ASSUME NEW x \in Positions
        PROVE  block'[x] = IF x = pos /\ block[pos].kind = "chest" /\ viewers[pos] = {}
                 THEN [shut[x] EXCEPT !.open = TRUE] ELSE shut[x]
    BY <1>1, <1>3
  <1>6. block' = [x \in Positions |-> block'[x]]
    <2>1. CASE block[pos].kind = "chest" /\ viewers[pos] = {}
      BY <1>1, <1>3, <2>1
    <2>2. CASE ~(block[pos].kind = "chest" /\ viewers[pos] = {})
      BY <1>1, <1>3, <2>2
    <2>3. QED
      BY <2>1, <2>2
  <1> HIDE DEF shut, left
  <1>7. ASSUME NEW x \in Positions
        PROVE  /\ IsBlock(block'[x]) /\ block'[x].kind = block[x].kind
               /\ IsContainer(x)' <=> IsContainer(x)
    <2>1. IsBlock(block'[x]) /\ block'[x].kind = block[x].kind
      <3>1. IsBlock(shut[x]) /\ shut[x].kind = block[x].kind
        BY <1>3
      <3>2. /\ IsBlock([shut[x] EXCEPT !.open = TRUE])
            /\ [shut[x] EXCEPT !.open = TRUE].kind = shut[x].kind
        BY <3>1, ClosesOnly
      <3>3. block'[x] = shut[x] \/ block'[x] = [shut[x] EXCEPT !.open = TRUE]
        BY <1>5
      <3>4. QED
        BY <3>1, <3>2, <3>3
    <2>2. QED
      BY <2>1 DEF IsContainer, SlotCount
  <1>8. Types'
    <2>1. viewers' \in [Positions -> SUBSET Players]
      BY <1>1, <1>3 DEF Inv, Types
    <2>2. tracked' \in [Players -> SUBSET Positions]
      BY <1>1 DEF Inv, Types
    <2>3. QED
      BY <1>6, <1>7, <2>1, <2>2 DEF Types
  <1>9. ASSUME NEW x \in Positions, viewers'[x] # {}
        PROVE  IsContainer(x)'
    <2>1. CASE x = pos
      BY <1>1, <1>7, <2>1
    <2>2. CASE x # pos
      BY <1>4, <1>7, <1>9, <2>2 DEF Inv, ViewsAreReal
    <2>3. QED
      BY <2>1, <2>2
  <1>10. ASSUME NEW x \in Positions, block'[x].kind = "chest"
         PROVE  block'[x].open <=> viewers'[x] # {}
    <2>1. block[x].kind = "chest"
      BY <1>7, <1>10
    <2>2. CASE x # pos
      BY <1>3, <1>4, <1>5, <2>1, <2>2
    <2>3. CASE x = pos /\ viewers[pos] = {}
      <3>1. block'[x].open = TRUE
        BY <1>3, <1>5, <2>1, <2>3, ClosesOnly
      <3>2. QED
        BY <1>4, <2>3, <3>1
    <2>4. CASE x = pos /\ viewers[pos] # {}
      <3>1. block'[x] = shut[x]
        BY <1>5, <2>4
      <3>2. left[x] = viewers[pos] /\ viewers'[x] # {}
        BY <1>4, <2>4 DEF others
      <3>3. shut[x].open <=> left[x] # {}
        BY <1>3, <2>1
      <3>4. QED
        BY <2>4, <3>1, <3>2, <3>3
    <2>5. QED
      BY <2>2, <2>3, <2>4
  <1>11. ASSUME NEW x \in Positions, NEW q \in viewers'[x]
         PROVE  x \in tracked'[q]
    <2>1. tracked'[p] = {pos} /\ \A r \in Players \ {p} : tracked'[r] = tracked[r]
      BY <1>1 DEF Inv, Types
    <2>2. CASE q = p
      <3>1. x \notin others => x = pos \/ p \notin viewers[x]
        BY DEF Inv, ViewsAreReal
      <3>2. CASE x # pos
        <4>1. p \in left[x]
          BY <1>4, <1>11, <2>2, <3>2
        <4>2. x \notin others /\ p \in viewers[x]
          BY <1>4, <4>1
        <4>3. QED
          BY <3>1, <3>2, <4>2
      <3>3. QED
        BY <2>1, <2>2, <3>2
    <2>3. CASE q # p
      <3>1. q \in viewers[x]
        <4>1. q \in viewers[x] \union {p} \/ q \in left[x]
          BY <1>4, <1>11
        <4>2. left[x] \subseteq viewers[x]
          BY <1>4
        <4>3. QED
          BY <2>3, <4>1, <4>2
      <3>2. q \in Players /\ x \in tracked[q]
        BY <3>1 DEF Inv, Types, ViewsAreReal
      <3>3. QED
        BY <2>1, <2>3, <3>2
    <2>4. QED
      BY <2>2, <2>3
  <1>12. QED
    BY <1>8, <1>9, <1>10, <1>11 DEF Inv, ViewsAreReal

-----------------------------------------------------------------------------
\* Clicks, furnaces and hoppers write slots and nothing else of a block.

LEMMA ClickInv ==
  ASSUME Inv, NEW p \in Players, NEW pos \in Positions, NEW k, NEW isLeft, NEW from,
         Click(p, pos, k, isLeft, from)
  PROVE  Inv'
  <1>1. PICK s : block' = [block EXCEPT ![pos].slots[k] = s]
    BY DEF Click
  <1>2. KeepsBlocks
    BY <1>1, WriteKeeps DEF Inv
  <1>3. viewers' = viewers /\ tracked' = [tracked EXCEPT ![p] = @ \union {pos}]
    BY DEF Click
  <1>4. QED
    BY <1>2, <1>3, KeepingInv DEF Inv, Types

LEMMA TakeOutputInv ==
  ASSUME Inv, NEW p \in Players, NEW pos \in Positions, NEW n, TakeOutput(p, pos, n)
  PROVE  Inv'
  <1>1. PICK s : block' = [block EXCEPT ![pos].slots[3] = s]
    BY DEF TakeOutput
  <1>2. KeepsBlocks
    BY <1>1, WriteKeeps DEF Inv
  <1>3. UNCHANGED <<viewers, tracked>>
    BY DEF TakeOutput, views
  <1>4. QED
    BY <1>2, <1>3, KeepingInv DEF Inv, Types

LEMMA FurnaceTickInv ==
  ASSUME Inv, NEW pos \in Positions, NEW burns, NEW done, FurnaceTick(pos, burns, done)
  PROVE  Inv'
  <1>1. PICK s : block' = [block EXCEPT ![pos].slots = s]
    BY DEF FurnaceTick
  <1>2. KeepsBlocks
    BY <1>1, WriteKeeps DEF Inv
  <1>3. UNCHANGED <<viewers, tracked>>
    BY DEF FurnaceTick, views
  <1>4. QED
    BY <1>2, <1>3, KeepingInv DEF Inv, Types

\* A transfer writes the slots of two blocks, or of one twice.
LEMMA TransferKeeps ==
  ASSUME Types, NEW from \in Positions, NEW to \in Positions, NEW side,
         Transfer(from, to, side)
  PROVE  KeepsBlocks
  <1>1. PICK s, t : block' = [block EXCEPT ![from].slots = s, ![to].slots = t]
    <2> DEFINE k == SourceSlot(from)
               i == block[from].slots[k].item
               s0 == [block[from].slots EXCEPT ![k] = Less(@, 1)]
               t0 == OneMore(block[to].slots, TargetSlot(to, side, i), i)
    <2>1. block' = [block EXCEPT ![from].slots = s0, ![to].slots = t0]
      BY DEF Transfer
    <2>2. QED
      BY <2>1
  <1> DEFINE b == [block EXCEPT ![from].slots = s]
  <1>2. b = [pos \in Positions |-> b[pos]]
    BY DEF Types
  <1>3. ASSUME NEW pos \in Positions
        PROVE  /\ IsBlock(b[pos])
               /\ b[pos].kind = block[pos].kind
               /\ b[pos].open = block[pos].open
    <2>1. b[pos] = IF pos = from THEN [block[from] EXCEPT !.slots = s] ELSE block[pos]
      BY DEF Types
    <2>2. QED
      BY <2>1, SlotsOnly DEF Types
  <1>4. block' = [b EXCEPT ![to] = [b[to] EXCEPT !.slots = t]]
    BY <1>1
  <1> HIDE DEF b
  <1>5. ASSUME NEW pos \in Positions
        PROVE  block'[pos] = IF pos = to THEN [b[to] EXCEPT !.slots = t] ELSE b[pos]
    BY <1>2, <1>4
  <1>6. block' = [pos \in Positions |-> block'[pos]]
    BY <1>2, <1>4
  <1>7. ASSUME NEW pos \in Positions
        PROVE  /\ IsBlock(block'[pos])
               /\ block'[pos].kind = block[pos].kind
               /\ block'[pos].open = block[pos].open
    <2>1. CASE pos = to
      <3>1. /\ IsBlock([b[to] EXCEPT !.slots = t])
            /\ [b[to] EXCEPT !.slots = t].kind = b[to].kind
            /\ [b[to] EXCEPT !.slots = t].open = b[to].open
        BY <1>3, SlotsOnly
      <3>2. block'[to] = [b[to] EXCEPT !.slots = t]
        BY <1>5
      <3>3. QED
        BY <1>3, <2>1, <3>1, <3>2
    <2>2. CASE pos # to
      BY <1>3, <1>5, <2>2
    <2>3. QED
      BY <2>1, <2>2
  <1>8. QED
    BY <1>6, <1>7 DEF KeepsBlocks

LEMMA HopperInv ==
  ASSUME Inv, NEW pos \in Positions, Hopper(pos)
  PROVE  Inv'
  <1>1. UNCHANGED <<viewers, tracked>>
    BY DEF Hopper, views
  <1>2. CASE Pushes(pos) /\ Transfer(pos, Target[pos], TargetSide[pos])
    BY <1>2, TransferKeeps, <1>1, KeepingInv DEF Inv, Types, Pushes, CanTransfer
  <1>3. CASE Pulls(pos) /\ Transfer(Above[pos], pos, "up")
    BY <1>3, TransferKeeps, <1>1, KeepingInv DEF Inv, Types, Pulls, CanTransfer
  <1>4. CASE PickUp(pos)
    <2>1. PICK s : block' = [block EXCEPT ![pos].slots = s]
      BY <1>4 DEF PickUp
    <2>2. KeepsBlocks
      BY <2>1, WriteKeeps DEF Inv
    <2>3. QED
      BY <2>2, <1>1, KeepingInv DEF Inv, Types
  <1>5. QED
    BY <1>2, <1>3, <1>4 DEF Hopper

-----------------------------------------------------------------------------
\* A container that is broken has no viewer left; where air was nobody viewed.

LEMMA MineInv ==
  ASSUME Inv, NEW pos \in Positions, Mine(pos)
  PROVE  Inv'
  <1>1. /\ block' = [block EXCEPT ![pos] = Air]
        /\ viewers' = [viewers EXCEPT ![pos] = {}]
        /\ tracked' = tracked
    BY DEF Mine
  <1>2. ASSUME NEW x \in Positions
        PROVE  /\ block'[x] = IF x = pos THEN Air ELSE block[x]
               /\ viewers'[x] = IF x = pos THEN {} ELSE viewers[x]
    BY <1>1 DEF Inv, Types
  <1>3. IsBlock(Air) /\ Air.kind # "chest"
    BY DEF IsBlock, Air
  <1>4. Types'
    BY <1>1, <1>2, <1>3 DEF Inv, Types
  <1>5. ViewsAreReal'
    BY <1>1, <1>2, <1>3 DEF Inv, ViewsAreReal, IsContainer, SlotCount
  <1>6. QED
    BY <1>4, <1>5 DEF Inv

LEMMA PlaceInv ==
  ASSUME Inv, NEW pos \in Positions, Place(pos)
  PROVE  Inv'
  <1>1. /\ block[pos].kind = "air"
        /\ block' = [block EXCEPT ![pos] = Placed(KindAt[pos])]
        /\ UNCHANGED <<viewers, tracked>>
    BY DEF Place, views
  <1>2. ASSUME NEW x \in Positions
        PROVE  block'[x] = IF x = pos THEN Placed(KindAt[pos]) ELSE block[x]
    BY <1>1 DEF Inv, Types
  <1>3. IsBlock(Placed(KindAt[pos])) /\ Placed(KindAt[pos]).open = FALSE
    BY DEF IsBlock, Placed
  <1>4. viewers[pos] = {}
    BY <1>1, Z3 DEF Inv, ViewsAreReal, IsContainer, SlotCount
  <1>5. Types'
    BY <1>1, <1>2, <1>3 DEF Inv, Types
  <1>6. ViewsAreReal'
    BY <1>1, <1>2, <1>3, <1>4 DEF Inv, ViewsAreReal, IsContainer, SlotCount
  <1>7. QED
    BY <1>5, <1>6 DEF Inv

LEMMA CloseGoneInv ==
  ASSUME Inv, CloseGone
  PROVE  Inv'
  <1> DEFINE last(pos) == /\ block[pos].kind = "chest"
                          /\ viewers[pos] # {} /\ viewers[pos] \subseteq Gone(pos)
  <1>1. /\ viewers' = [pos \in Positions |-> viewers[pos] \ Gone(pos)]
        /\ block' = [pos \in Positions |->
             IF last(pos) THEN [block[pos] EXCEPT !.open = FALSE] ELSE block[pos]]
        /\ tracked' = [p \in Players |-> {pos \in tracked[p] : p \notin Gone(pos)}]
    BY DEF CloseGone
  <1>2. ASSUME NEW x \in Positions
        PROVE  /\ viewers'[x] = viewers[x] \ Gone(x)
               /\ block'[x] = IF last(x) THEN [block[x] EXCEPT !.open = FALSE] ELSE block[x]
    BY <1>1
  <1>3. ASSUME NEW x \in Positions
        PROVE  /\ IsBlock(block'[x]) /\ block'[x].kind = block[x].kind
               /\ last(x) => block'[x].open = FALSE
               /\ ~last(x) => block'[x].open = block[x].open
               /\ IsContainer(x)' <=> IsContainer(x)
    <2>1. IsBlock(block[x])
      BY DEF Inv, Types
    <2>2. /\ IsBlock([block[x] EXCEPT !.open = FALSE])
          /\ [block[x] EXCEPT !.open = FALSE].kind = block[x].kind
          /\ [block[x] EXCEPT !.open = FALSE].open = FALSE
      BY <2>1, ClosesOnly
    <2>3. IsBlock(block'[x]) /\ block'[x].kind = block[x].kind
      BY <1>2, <2>1, <2>2
    <2>4. QED
      BY <1>2, <2>2, <2>3 DEF IsContainer, SlotCount
  <1>4. Types'
    <2>1. viewers' \in [Positions -> SUBSET Players]
      BY <1>1 DEF Inv, Types
    <2>2. tracked' \in [Players -> SUBSET Positions]
      BY <1>1 DEF Inv, Types
    <2>3. block' = [pos \in Positions |-> block'[pos]]
      BY <1>1
    <2>4. QED
      BY <1>3, <2>1, <2>2, <2>3 DEF Types
  <1>5. ASSUME NEW x \in Positions, block'[x].kind = "chest"
        PROVE  block'[x].open <=> viewers'[x] # {}
    <2>1. block[x].open <=> viewers[x] # {}
      BY <1>3, <1>5 DEF Inv, ViewsAreReal
    <2>2. CASE last(x)
      <3>1. block'[x].open = FALSE
        BY <1>3, <2>2
      <3>2. viewers'[x] = {}
        BY <1>2, <2>2
      <3>3. QED
        BY <3>1, <3>2
    <2>3. CASE ~last(x)
      <3>1. block'[x].open = block[x].open
        BY <1>3, <2>3
      <3>2. viewers[x] # {} <=> viewers'[x] # {}
        BY <1>2, <1>3, <1>5, <2>3
      <3>3. QED
        BY <2>1, <3>1, <3>2
    <2>4. QED
      BY <2>2, <2>3
  <1> HIDE DEF last
  <1>6. ASSUME NEW x \in Positions
        PROVE  /\ viewers'[x] # {} => IsContainer(x)'
               /\ \A q \in viewers'[x] : x \in tracked'[q]
    BY <1>1, <1>2, <1>3 DEF Inv, Types, ViewsAreReal
  <1>7. QED
    BY <1>4, <1>5, <1>6 DEF Inv, ViewsAreReal

-----------------------------------------------------------------------------

LEMMA NextInv == Inv /\ [Next]_vars => Inv'
  <1> SUFFICES ASSUME Inv, [Next]_vars PROVE Inv'
    OBVIOUS
  <1>1. CASE \E p \in Players, k \in Slots, bottles \in SUBSET Slots : StartBrew(p, k, bottles)
    BY <1>1, SameBlocks DEF StartBrew, views
  <1>2. CASE \E p \in Players : TickBrew(p) \/ TakeBrew(p) \/ CancelBrew(p) \/ Give(p)
    BY <1>2, SameBlocks DEF TickBrew, TakeBrew, CancelBrew, Give, views
  <1>3. CASE \E p \in Players : Leave(p)
    BY <1>3, LeaveInv
  <1>4. CASE \E p \in Players, pos \in Positions : Open(p, pos) \/ Close(p, pos)
    <2>1. CASE \E p \in Players, pos \in Positions : Open(p, pos)
      BY <2>1, OpenInv
    <2>2. CASE \E p \in Players, pos \in Positions : Close(p, pos)
      <3>1. PICK p \in Players, pos \in Positions : Departed(p, {pos})
        BY <2>2 DEF Close
      <3>2. {pos} \in SUBSET Positions
        OBVIOUS
      <3>3. QED
        BY <3>1, <3>2, DepartedInv
    <2>3. QED
      BY <1>4, <2>1, <2>2
  <1>5. CASE \E p \in Players, closed \in SUBSET Positions : WalkAway(p, closed)
    BY <1>5, DepartedInv DEF WalkAway
  <1>6. CASE \E p \in Players, pos \in Positions : \E k \in DOMAIN block[pos].slots,
               isLeft \in BOOLEAN, from \in Slots \union {0} : Click(p, pos, k, isLeft, from)
    BY <1>6, ClickInv
  <1>7. CASE \E p \in Players, pos \in Positions : \E n \in 1..Output(pos) : TakeOutput(p, pos, n)
    BY <1>7, TakeOutputInv
  <1>8. CASE \E p \in Players, k \in Slots, recipe \in Recipes : Craft(p, k, recipe)
    BY <1>8, SameBlocks DEF Craft, views
  <1>9. CASE \E p \in Players, i \in Edible : Eat(p, i)
    BY <1>9, SameBlocks DEF Eat, views
  <1>10. CASE \E pos \in Positions : Mine(pos) \/ Place(pos) \/ Hopper(pos)
    BY <1>10, MineInv, PlaceInv, HopperInv
  <1>11. CASE CloseGone
    BY <1>11, CloseGoneInv
  <1>12. CASE \E pos \in Positions, burns, done \in BOOLEAN : FurnaceTick(pos, burns, done)
    BY <1>12, FurnaceTickInv
  <1>13. CASE UNCHANGED vars
    BY <1>13, SameBlocks DEF vars
  <1>14. QED
    BY <1>1, <1>2, <1>3, <1>4, <1>5, <1>6, <1>7, <1>8, <1>9, <1>10, <1>11, <1>12, <1>13
    DEF Next

(* Nobody views a container that is gone, whatever players, hoppers, fire and *)
(* breaking do and in whichever order the runtime ends views, and no chest    *)
(* stays open behind its last viewer: open_container, close_container_viewer  *)
(* _forced, set_block and the closures drained after each tick agree.         *)
THEOREM ViewsStayReal == Spec => []ViewsAreReal
  <1>1. Inv => ViewsAreReal
    BY DEF Inv
  <1>2. QED
    BY InitInv, NextInv, <1>1, PTL DEF Spec

-----------------------------------------------------------------------------
(***************************************************************************)
(* The items.  Every step that moves items is reduced to what it adds to   *)
(* one player and to one or two positions (the Balance lemmas); Goods is   *)
(* the inductive invariant: the types, the sums and the reservations hold  *)
(* each other up, as a reserved slot must hold a stack to be brewed.       *)
(***************************************************************************)

\* Every non-empty set of naturals has a least element.
LEMMA LeastNatural ==
  ASSUME NEW T \in SUBSET Nat, T # {}
  PROVE  \E n \in T : \A m \in T : n =< m
  <1> DEFINE R == OpToRel(<, Nat)
  <1>1. IsWellFoundedOn(R, Nat)
    BY NatLessThanWellFounded
  <1>2. \A x, y \in Nat : <<x, y>> \in R <=> x < y
    BY DEF OpToRel
  <1> HIDE DEF R
  <1>3. PICK n \in T : \A m \in T : <<m, n>> \notin R
    BY <1>1, WFMin
  <1>4. \A m \in T : ~(m < n)
    BY <1>2, <1>3, Zenon
  <1>5. QED
    BY <1>4

\* Induction up to n, for a set of good numbers.
LEMMA UpToInduction ==
  ASSUME NEW n \in Nat, NEW G, 0 \in G, \A k \in 1..n : k - 1 \in G => k \in G
  PROVE  0..n \subseteq G
  <1> DEFINE Bad == {k \in 0..n : k \notin G}
  <1> SUFFICES ASSUME Bad # {} PROVE FALSE
    OBVIOUS
  <1>0. Bad \in SUBSET Nat
    OBVIOUS
  <1>1. PICK k \in Bad : \A m \in Bad : k =< m
    <2> HIDE DEF Bad
    <2>1. QED
      BY <1>0, LeastNatural
  <1>2. k # 0 /\ k \in 1..n /\ k - 1 \in 0..n
    BY <1>1
  <1>3. k - 1 \in G
    BY <1>1, <1>2
  <1>4. QED
    BY <1>1, <1>2, <1>3

\* g is what repeating the step F makes of a.
Runs(g, n, A, a, F) ==
  g \in [0..n -> A] /\ g[0] = a /\ \A k \in 1..n : g[k] = F[<<g[k - 1], k>>]

\* A step can be repeated n times from any value.
LEMMA Repeats ==
  ASSUME NEW n \in Nat, NEW A, NEW a \in A, NEW F \in [A \X (1..n) -> A]
  PROVE  \E g : Runs(g, n, A, a, F)
  <1> DEFINE G == {m \in 0..n : \E g : Runs(g, m, A, a, F)}
  <1>1. 0 \in G
    <2>1. Runs([k \in 0..0 |-> a], 0, A, a, F)
      BY DEF Runs
    <2>2. 0 \in 0..n
      OBVIOUS
    <2>3. QED
      BY <2>1, <2>2
  <1>2. ASSUME NEW m \in 1..n, m - 1 \in G PROVE m \in G
    <2>1. PICK g : Runs(g, m - 1, A, a, F)
      BY <1>2
    <2> DEFINE h == [k \in 0..m |-> IF k = m THEN F[<<g[m - 1], m>>] ELSE g[k]]
    <2>2. F[<<g[m - 1], m>>] \in A
      BY <2>1 DEF Runs
    <2>3. h \in [0..m -> A] /\ h[0] = a
      BY <2>1, <2>2 DEF Runs
    <2>4. ASSUME NEW k \in 1..m PROVE h[k] = F[<<h[k - 1], k>>]
      <3>1. k \in 0..m /\ k - 1 \in 0..m /\ k - 1 # m
        OBVIOUS
      <3>2. h[k - 1] = g[k - 1]
        BY <3>1
      <3>3. CASE k = m
        <4>1. h[k] = F[<<g[k - 1], k>>]
          BY <3>1, <3>3
        <4>2. QED
          BY <3>2, <4>1
      <3>4. CASE k # m
        <4>1. k \in 1..(m - 1) /\ h[k] = g[k]
          BY <3>1, <3>4
        <4>2. g[k] = F[<<g[k - 1], k>>]
          BY <2>1, <4>1 DEF Runs
        <4>3. QED
          BY <3>2, <4>1, <4>2
      <3>5. QED
        BY <3>3, <3>4
    <2> HIDE DEF h
    <2>5. Runs(h, m, A, a, F)
      BY <2>3, <2>4 DEF Runs
    <2>6. m \in 0..n
      OBVIOUS
    <2>7. QED
      BY <2>5, <2>6
  <1> HIDE DEF G
  <1>3. n \in G
    BY <1>1, <1>2, UpToInduction
  <1>4. QED
    BY <1>3 DEF G

-----------------------------------------------------------------------------
\* A sum is what adding its terms one by one makes it.
LEMMA TotalIs ==
  ASSUME NEW n \in Nat, NEW c \in [1..n -> Int]
  PROVE  \E u \in [0..n -> Int] :
           /\ u[0] = 0 /\ u[n] = Total(c)
           /\ \A k \in 1..n : u[k] = u[k - 1] + c[k]
  <1> DEFINE F == [z \in Int \X (1..n) |-> z[1] + c[z[2]]]
             Is(u) == u = [k \in 0..n |-> IF k = 0 THEN 0 ELSE u[k - 1] + c[k]]
             sum == CHOOSE u : Is(u)
  <1>1. \A x \in Int, k \in 1..n : F[<<x, k>>] = x + c[k] /\ F[<<x, k>>] \in Int
    OBVIOUS
  <1>2. Len(c) = n
    BY LenProperties, SeqDef
  <1> HIDE DEF F
  <1>3. PICK g : g \in [0..n -> Int] /\ g[0] = 0 /\ \A k \in 1..n : g[k] = F[<<g[k - 1], k>>]
    <2> DEFINE I == Int
               z == 0
    <2>1. F \in [I \X (1..n) -> I] /\ z \in I
      BY DEF F
    <2> HIDE DEF I, z
    <2>2. \E g : Runs(g, n, I, z, F)
      BY <2>1, Repeats
    <2>3. QED
      BY <2>2 DEF I, z, Runs
  <1>4. ASSUME NEW k \in 1..n PROVE g[k] = g[k - 1] + c[k]
    <2>1. g[k - 1] \in Int
      BY <1>3
    <2>2. QED
      BY <1>1, <1>3, <2>1
  <1>5. Is(g)
    BY <1>3, <1>4
  <1>6. Is(sum)
    <2> HIDE DEF Is
    <2>1. QED
      BY <1>5
  <1>7. Total(c) = sum[n]
    BY <1>2 DEF Total
  <1> HIDE DEF sum
  <1>8. \A k \in 0..n : sum[k] = IF k = 0 THEN 0 ELSE sum[k - 1] + c[k]
    BY <1>6
  <1>9. \A k \in 0..n : sum[k] = g[k]
    <2> DEFINE G == {k \in 0..n : sum[k] = g[k]}
    <2>1. 0 \in G
      BY <1>3, <1>8
    <2>2. ASSUME NEW k \in 1..n, k - 1 \in G PROVE k \in G
      <3>1. k \in 0..n /\ k # 0 /\ sum[k - 1] = g[k - 1]
        BY <2>2
      <3>2. sum[k] = sum[k - 1] + c[k]
        BY <1>8, <3>1
      <3>3. QED
        BY <1>4, <3>1, <3>2
    <2> HIDE DEF G
    <2>3. 0..n \subseteq G
      BY <2>1, <2>2, UpToInduction
    <2>4. QED
      BY <2>3 DEF G
  <1>10. g[n] = Total(c)
    BY <1>7, <1>9
  <1>11. QED
    BY <1>3, <1>4, <1>10

\* A sum of integers is one.
LEMMA TotalType ==
  ASSUME NEW n \in Nat, NEW c \in [1..n -> Int]
  PROVE  Total(c) \in Int
  BY TotalIs

\* Zeros add up to zero.
LEMMA TotalOfZeros ==
  ASSUME NEW n \in Nat, NEW c \in [1..n -> Int], \A k \in 1..n : c[k] = 0
  PROVE  Total(c) = 0
  <1>1. PICK u \in [0..n -> Int] : /\ u[0] = 0 /\ u[n] = Total(c)
                                  /\ \A k \in 1..n : u[k] = u[k - 1] + c[k]
    BY TotalIs
  <1> DEFINE G == {k \in 0..n : u[k] = 0}
  <1>2. 0 \in G
    BY <1>1
  <1>3. ASSUME NEW k \in 1..n, k - 1 \in G PROVE k \in G
    BY <1>1, <1>3
  <1>4. n \in 0..n
    OBVIOUS
  <1> HIDE DEF G
  <1>5. 0..n \subseteq G
    BY <1>2, <1>3, UpToInduction
  <1>6. QED
    BY <1>1, <1>4, <1>5 DEF G

\* Changing one term changes the sum by as much.
LEMMA TotalChange ==
  ASSUME NEW n \in Nat, NEW c \in [1..n -> Int], NEW d \in [1..n -> Int], NEW j \in 1..n,
         \A k \in 1..n : k # j => d[k] = c[k]
  PROVE  Total(d) = Total(c) + (d[j] - c[j])
  <1>1. PICK u \in [0..n -> Int] : /\ u[0] = 0 /\ u[n] = Total(c)
                                  /\ \A k \in 1..n : u[k] = u[k - 1] + c[k]
    BY TotalIs
  <1>2. PICK v \in [0..n -> Int] : /\ v[0] = 0 /\ v[n] = Total(d)
                                  /\ \A k \in 1..n : v[k] = v[k - 1] + d[k]
    BY TotalIs
  <1> DEFINE G == {k \in 0..n : v[k] = u[k] + IF k < j THEN 0 ELSE d[j] - c[j]}
  <1>3. 0 \in G
    BY <1>1, <1>2
  <1>4. ASSUME NEW k \in 1..n, k - 1 \in G PROVE k \in G
    <2>1. v[k - 1] = u[k - 1] + IF k - 1 < j THEN 0 ELSE d[j] - c[j]
      BY <1>4
    <2>2. /\ u[k] = u[k - 1] + c[k] /\ v[k] = v[k - 1] + d[k]
          /\ {u[k - 1], v[k - 1], u[k], v[k], c[k], d[k], c[j], d[j]} \subseteq Int
      <3>1. k - 1 \in 0..n /\ k \in 0..n
        OBVIOUS
      <3>2. u[k - 1] \in Int /\ u[k] \in Int /\ c[k] \in Int /\ c[j] \in Int
        BY <1>1, <3>1
      <3>3. v[k - 1] \in Int /\ v[k] \in Int /\ d[k] \in Int /\ d[j] \in Int
        BY <1>2, <3>1
      <3>4. u[k] = u[k - 1] + c[k] /\ v[k] = v[k - 1] + d[k]
        BY <1>1, <1>2
      <3>5. QED
        BY <3>2, <3>3, <3>4
    <2>3. CASE k = j
      <3>1. k - 1 < j /\ ~(k < j)
        BY <2>3
      <3>2. v[k - 1] = u[k - 1]
        BY <2>1, <2>2, <3>1
      <3>3. v[k] = u[k] + (d[j] - c[j])
        BY <2>2, <2>3, <3>2
      <3>4. QED
        BY <3>1, <3>3
    <2>4. CASE k # j
      <3>1. d[k] = c[k] /\ (k < j <=> k - 1 < j)
        BY <2>4
      <3> DEFINE gain == IF k < j THEN 0 ELSE d[j] - c[j]
      <3>2. gain \in Int /\ v[k - 1] = u[k - 1] + gain
        <4>1. gain \in Int
          BY SMT
        <4>2. CASE k < j
          BY <2>1, <2>2, <3>1, <4>2
        <4>3. CASE ~(k < j)
          BY <2>1, <2>2, <3>1, <4>3
        <4>4. QED
          BY <4>1, <4>2, <4>3
      <3> HIDE DEF gain
      <3>3. v[k] = u[k] + gain
        <4>1. d[k] = c[k] /\ v[k] = v[k - 1] + d[k] /\ u[k] = u[k - 1] + c[k]
          BY <2>2, <3>1
        <4>2. c[k] \in Int /\ u[k - 1] \in Int
          BY <2>2
        <4>3. \A x, y, z \in Int : (x + y) + z = (x + z) + y
          BY SMT
        <4>4. (u[k - 1] + gain) + c[k] = (u[k - 1] + c[k]) + gain
          BY <3>2, <4>2, <4>3
        <4>5. QED
          BY <3>2, <4>1, <4>4
      <3>4. QED
        BY <3>3 DEF gain
    <2>5. QED
      BY <2>3, <2>4
  <1>5. n \in 0..n /\ ~(n < j)
    OBVIOUS
  <1> HIDE DEF G
  <1>6. n \in G
    BY <1>3, <1>4, <1>5, UpToInduction
  <1>7. v[n] = u[n] + (d[j] - c[j])
    BY <1>5, <1>6 DEF G
  <1>8. QED
    BY <1>1, <1>2, <1>7

\* The sum over two sequences in a row.
LEMMA TotalAppend ==
  ASSUME NEW n \in Nat, NEW m \in Nat, NEW c \in [1..n -> Int], NEW e \in [1..m -> Int],
         NEW d \in [1..(n + m) -> Int],
         \A k \in 1..n : d[k] = c[k], \A k \in 1..m : d[n + k] = e[k]
  PROVE  Total(d) = Total(c) + Total(e)
  <1>1. PICK u \in [0..n -> Int] : /\ u[0] = 0 /\ u[n] = Total(c)
                                  /\ \A k \in 1..n : u[k] = u[k - 1] + c[k]
    BY TotalIs
  <1>2. PICK v \in [0..m -> Int] : /\ v[0] = 0 /\ v[m] = Total(e)
                                  /\ \A k \in 1..m : v[k] = v[k - 1] + e[k]
    BY TotalIs
  <1>3. PICK w \in [0..(n + m) -> Int] :
          /\ w[0] = 0 /\ w[n + m] = Total(d)
          /\ \A k \in 1..(n + m) : w[k] = w[k - 1] + d[k]
    <2> DEFINE N == n + m
    <2>1. N \in Nat /\ d \in [1..N -> Int]
      OBVIOUS
    <2> HIDE DEF N
    <2>2. \E x \in [0..N -> Int] : /\ x[0] = 0 /\ x[N] = Total(d)
                                  /\ \A k \in 1..N : x[k] = x[k - 1] + d[k]
      BY <2>1, TotalIs
    <2>3. QED
      BY <2>2 DEF N
  <1> DEFINE G == {k \in 0..n : w[k] = u[k]}
             H == {k \in 0..m : w[n + k] = u[n] + v[k]}
  <1>4. 0 \in G
    BY <1>1, <1>3
  <1>5. ASSUME NEW k \in 1..n, k - 1 \in G PROVE k \in G
    <2>1. k \in 0..n /\ k \in 1..(n + m) /\ d[k] = c[k] /\ w[k - 1] = u[k - 1]
      BY <1>5
    <2>2. w[k] = w[k - 1] + d[k] /\ u[k] = u[k - 1] + c[k]
      BY <1>1, <1>3, <2>1
    <2>3. QED
      BY <2>1, <2>2
  <1>6. ASSUME NEW k \in 1..m, k - 1 \in H PROVE k \in H
    <2>1. /\ k \in 0..m /\ n + k \in 1..(n + m) /\ d[n + k] = e[k]
          /\ w[n + (k - 1)] = u[n] + v[k - 1] /\ n + (k - 1) = (n + k) - 1
      BY <1>6
    <2>2. w[n + k] = w[(n + k) - 1] + d[n + k] /\ v[k] = v[k - 1] + e[k]
      BY <1>2, <1>3, <2>1
    <2>3. u[n] \in Int /\ v[k - 1] \in Int /\ e[k] \in Int
      OBVIOUS
    <2>4. w[n + k] = u[n] + v[k]
      BY <2>1, <2>2, <2>3
    <2>5. QED
      BY <2>1, <2>4
  <1>7. n \in 0..n /\ m \in 0..m
    OBVIOUS
  <1> HIDE DEF G, H
  <1>8. n \in G
    BY <1>4, <1>5, <1>7, UpToInduction
  <1>9. 0 \in H
    <2>1. w[n] = u[n] /\ n + 0 = n
      BY <1>8 DEF G
    <2>2. u[n] \in Int
      OBVIOUS
    <2>3. QED
      BY <1>2, <2>1, <2>2 DEF H
  <1>10. m \in H
    BY <1>6, <1>7, <1>9, UpToInduction
  <1>11. w[n + m] = u[n] + v[m]
    BY <1>10 DEF H
  <1>12. QED
    BY <1>1, <1>2, <1>3, <1>11

-----------------------------------------------------------------------------
\* The order in which AddUp adds visits every element once.
LEMMA OrderVisitsAll ==
  ASSUME NEW D, IsFiniteSet(D)
  PROVE  \E n \in Nat :
           /\ SetToSeq(D) \in [1..n -> D] /\ Len(SetToSeq(D)) = n
           /\ \A x \in D : \E k \in 1..n : SetToSeq(D)[k] = x
           /\ \A j, k \in 1..n : SetToSeq(D)[j] = SetToSeq(D)[k] => j = k
  <1> DEFINE n == Cardinality(D)
             q == SetToSeq(D)
  <1>1. n \in Nat /\ ExistsBijection(1..n, D)
    BY FS_CardinalityType
  <1>2. PICK f : f \in Bijection(1..n, D)
    BY <1>1 DEF ExistsBijection
  <1>3. f \in [1..n -> D] /\ IsInjective(f)
    BY <1>2 DEF Bijection, Injection, IsInjective
  <1>4. q \in [1..n -> D] /\ IsInjective(q)
    BY <1>3 DEF SetToSeq
  <1> HIDE DEF q, n
  <1>5. q \in Injection(1..n, D)
    BY <1>4 DEF Injection
  <1>6. Cardinality(1..n) = n
    <2>1. 1 \in Int /\ n \in Int
      BY <1>1
    <2>2. Cardinality(1..n) = IF 1 > n THEN 0 ELSE n - 1 + 1
      BY <2>1, FS_Interval
    <2>3. QED
      BY <1>1, <2>2
  <1>7. q \in Surjection(1..n, D)
    BY <1>5, <1>6, FS_Injection DEF n
  <1>8. Len(q) = n
    BY <1>1, <1>4, LenProperties, SeqDef
  <1>9. QED
    BY <1>1, <1>4, <1>7, <1>8 DEF Surjection, IsInjective, q

\* What a finite set of elements adds is an integer.
LEMMA AddUpType ==
  ASSUME NEW D, IsFiniteSet(D), NEW f \in [D -> Int]
  PROVE  AddUp(f, D) \in Int
  <1>1. PICK n \in Nat : SetToSeq(D) \in [1..n -> D] /\ Len(SetToSeq(D)) = n
    BY OrderVisitsAll
  <1>2. [k \in 1..n |-> f[SetToSeq(D)[k]]] \in [1..n -> Int]
    BY <1>1
  <1>3. AddUp(f, D) = Total([k \in 1..n |-> f[SetToSeq(D)[k]]])
    BY <1>1 DEF AddUp
  <1>4. QED
    BY <1>2, <1>3, TotalType

\* Changing what one element adds changes the sum by as much.
LEMMA AddUpChange ==
  ASSUME NEW D, IsFiniteSet(D), NEW f \in [D -> Int], NEW g \in [D -> Int], NEW x \in D,
         \A y \in D : y # x => g[y] = f[y]
  PROVE  AddUp(g, D) = AddUp(f, D) + (g[x] - f[x])
  <1> DEFINE q == SetToSeq(D)
  <1>1. PICK n \in Nat : /\ q \in [1..n -> D] /\ Len(q) = n
                         /\ \A y \in D : \E k \in 1..n : q[k] = y
                         /\ \A j, k \in 1..n : q[j] = q[k] => j = k
    BY OrderVisitsAll
  <1> DEFINE c == [k \in 1..n |-> f[q[k]]]
             d == [k \in 1..n |-> g[q[k]]]
  <1>2. AddUp(f, D) = Total(c) /\ AddUp(g, D) = Total(d)
    BY <1>1 DEF AddUp
  <1> HIDE DEF q
  <1>3. c \in [1..n -> Int] /\ d \in [1..n -> Int]
    BY <1>1
  <1>4. PICK j \in 1..n : q[j] = x
    BY <1>1
  <1>5. \A k \in 1..n : k # j => d[k] = c[k]
    BY <1>1, <1>4
  <1>6. d[j] = g[x] /\ c[j] = f[x]
    BY <1>4
  <1> HIDE DEF c, d
  <1>7. QED
    BY <1>2, <1>3, <1>5, <1>6, TotalChange

-----------------------------------------------------------------------------
\* Stacks.

\* Stacks and their counts.
LEMMA StackTypes ==
  /\ Empty \in Stacks /\ Empty.item = NoItem /\ Empty.count = 0
  /\ \A s \in Stacks : s # Empty =>
       /\ s.item \in Items /\ s.item # NoItem
       /\ s.count \in 1..MaxStack[s.item] /\ s.count \in Nat \ {0}
  /\ \A s \in Stacks : s.count \in Nat
  /\ \A i \in Items : \A n \in 0..MaxStack[i] :
       /\ Stack(i, n) \in Stacks /\ Stack(i, n).count = n
       /\ n # 0 => Stack(i, n).item = i /\ Stack(i, n) # Empty
       /\ n = 0 => Stack(i, n) = Empty
  <1> USE ItemsAssumption, SizesAssumption
  <1>1. Empty \in Stacks /\ Empty.item = NoItem /\ Empty.count = 0
    BY DEF Stacks, Empty
  <1>2. ASSUME NEW s \in Stacks, s # Empty
        PROVE  /\ s.item \in Items /\ s.item # NoItem
               /\ s.count \in 1..MaxStack[s.item] /\ s.count \in Nat \ {0}
    <2>1. PICK i \in Items : s \in [item : {i}, count : 1..MaxStack[i]]
      BY <1>2 DEF Stacks
    <2>2. s.item = i /\ s.count \in 1..MaxStack[i] /\ MaxStack[i] \in Nat
      BY <2>1
    <2>3. QED
      BY <2>2
  <1>3. ASSUME NEW i \in Items, NEW n \in 0..MaxStack[i]
        PROVE  /\ Stack(i, n) \in Stacks /\ Stack(i, n).count = n
               /\ n # 0 => Stack(i, n).item = i /\ Stack(i, n) # Empty
               /\ n = 0 => Stack(i, n) = Empty
    <2>1. CASE n = 0
      BY <1>1, <2>1 DEF Stack
    <2>2. CASE n # 0
      <3>1. Stack(i, n) = [item |-> i, count |-> n] /\ n \in 1..MaxStack[i]
        BY <2>2 DEF Stack
      <3>2. Stack(i, n) \in [item : {i}, count : 1..MaxStack[i]]
        BY <3>1
      <3>3. Stack(i, n) \in Stacks
        BY <3>2 DEF Stacks
      <3>4. Stack(i, n).item = i /\ Stack(i, n).count = n /\ i # NoItem
        BY <3>1
      <3>5. QED
        BY <1>1, <2>2, <3>3, <3>4
    <2>3. QED
      BY <2>1, <2>2
  <1>4. \A s \in Stacks : s.count \in Nat
    BY <1>1, <1>2
  <1>5. QED
    BY <1>1, <1>2, <1>3, <1>4

\* How much of an item a stack holds, also of a stack that is made.
LEMMA UnitsType ==
  ASSUME NEW s \in Stacks, NEW i \in Items
  PROVE  Units(s, i) \in Nat
  BY StackTypes DEF Units

LEMMA UnitsOfStack ==
  ASSUME NEW i \in Items, NEW j \in Items, NEW n \in 0..MaxStack[j]
  PROVE  Units(Stack(j, n), i) = IF i = j THEN n ELSE 0
  <1>1. Stack(j, n).count = n /\ (n # 0 => Stack(j, n).item = j)
    BY StackTypes
  <1>2. n = 0 => Stack(j, n).item = NoItem
    BY StackTypes
  <1>3. QED
    BY <1>1, <1>2, ItemsAssumption DEF Units

\* The count of some slots is a sum over them.
LEMMA CountIs ==
  ASSUME NEW n \in Nat, NEW slots \in [1..n -> Stacks], NEW i \in Items
  PROVE  /\ Len(slots) = n /\ slots \in Seq(Stacks)
         /\ [k \in 1..n |-> Units(slots[k], i)] \in [1..n -> Int]
         /\ CountIn(slots, i) = Total([k \in 1..n |-> Units(slots[k], i)])
         /\ CountIn(slots, i) \in Int
  <1>1. slots \in Seq(Stacks)
    BY SeqDef
  <1>2. Len(slots) = n
    BY <1>1, LenProperties
  <1>3. [k \in 1..n |-> Units(slots[k], i)] \in [1..n -> Int]
    BY UnitsType
  <1>4. CountIn(slots, i) = Total([k \in 1..n |-> Units(slots[k], i)])
    BY <1>2 DEF CountIn
  <1>5. QED
    BY <1>1, <1>2, <1>3, <1>4, TotalType

LEMMA CountSums ==
  ASSUME NEW n \in Nat, NEW slots \in [1..n -> Stacks], NEW i \in Items
  PROVE  CountIn(slots, i) = Total([k \in 1..n |-> Units(slots[k], i)])
  BY CountIs

\* Writing one slot changes a count by what the slot gains.
LEMMA CountWritten ==
  ASSUME NEW n \in Nat, NEW slots \in [1..n -> Stacks], NEW i \in Items,
         NEW k \in 1..n, NEW t \in [1..n -> Stacks], \A j \in 1..n : j # k => t[j] = slots[j]
  PROVE  CountIn(t, i) = CountIn(slots, i) + (Units(t[k], i) - Units(slots[k], i))
  <1> DEFINE c == [j \in 1..n |-> Units(slots[j], i)]
             d == [j \in 1..n |-> Units(t[j], i)]
  <1>1. c \in [1..n -> Int] /\ CountIn(slots, i) = Total(c)
    BY UnitsType, CountSums
  <1>2. d \in [1..n -> Int] /\ CountIn(t, i) = Total(d)
    BY UnitsType, CountSums
  <1>3. \A j \in 1..n : j # k => d[j] = c[j]
    OBVIOUS
  <1>4. d[k] = Units(t[k], i) /\ c[k] = Units(slots[k], i)
    OBVIOUS
  <1> HIDE DEF c, d
  <1>5. Total(d) = Total(c) + (d[k] - c[k])
    BY <1>1, <1>2, <1>3, TotalChange
  <1>6. QED
    BY <1>1, <1>2, <1>4, <1>5

LEMMA CountWrite ==
  ASSUME NEW n \in Nat, NEW slots \in [1..n -> Stacks], NEW i \in Items,
         NEW k \in 1..n, NEW s \in Stacks
  PROVE  /\ [slots EXCEPT ![k] = s] \in [1..n -> Stacks]
         /\ CountIn([slots EXCEPT ![k] = s], i)
              = CountIn(slots, i) + (Units(s, i) - Units(slots[k], i))
  <1> DEFINE t == [slots EXCEPT ![k] = s]
  <1>1. t \in [1..n -> Stacks] /\ t[k] = s /\ \A j \in 1..n : j # k => t[j] = slots[j]
    OBVIOUS
  <1> HIDE DEF t
  <1>2. CountIn(t, i) = CountIn(slots, i) + (Units(t[k], i) - Units(slots[k], i))
    BY <1>1, CountWritten
  <1>3. QED
    BY <1>1, <1>2 DEF t

\* What two sequences of stacks hold together.
LEMMA CountConcat ==
  ASSUME NEW a \in Seq(Stacks), NEW b \in Seq(Stacks), NEW i \in Items
  PROVE  CountIn(a \o b, i) = CountIn(a, i) + CountIn(b, i)
  <1> DEFINE n == Len(a)
             m == Len(b)
             ab == a \o b
             c == [j \in 1..n |-> Units(a[j], i)]
             e == [j \in 1..m |-> Units(b[j], i)]
             d == [j \in 1..(n + m) |-> Units(ab[j], i)]
  <1>1. /\ n \in Nat /\ a \in [1..n -> Stacks]
        /\ m \in Nat /\ b \in [1..m -> Stacks]
    BY LenProperties
  <1>2. /\ ab \in Seq(Stacks) /\ Len(ab) = n + m
        /\ \A j \in 1..(n + m) : ab[j] = IF j <= n THEN a[j] ELSE b[j - n]
    BY ConcatProperties
  <1>3. ab \in [1..(n + m) -> Stacks]
    BY <1>2, LenProperties
  <1> HIDE DEF n, m, ab
  <1>4. n + m \in Nat
    BY <1>1
  <1>5. /\ c \in [1..n -> Int] /\ CountIn(a, i) = Total(c)
        /\ e \in [1..m -> Int] /\ CountIn(b, i) = Total(e)
    BY <1>1, CountIs
  <1>6. d \in [1..(n + m) -> Int] /\ CountIn(ab, i) = Total(d)
    <2> DEFINE N == n + m
    <2> HIDE DEF N
    <2>1. ab \in [1..N -> Stacks] /\ N \in Nat
      BY <1>3, <1>4 DEF N
    <2>2. /\ [j \in 1..N |-> Units(ab[j], i)] \in [1..N -> Int]
          /\ CountIn(ab, i) = Total([j \in 1..N |-> Units(ab[j], i)])
      <3>1. [j \in 1..N |-> Units(ab[j], i)] \in [1..N -> Int]
        BY <2>1, UnitsType
      <3>2. CountIn(ab, i) = Total([j \in 1..N |-> Units(ab[j], i)])
        BY <2>1, CountSums
      <3>3. QED
        BY <3>1, <3>2
    <2>3. QED
      BY <2>2 DEF N
  <1>7. \A j \in 1..n : d[j] = c[j]
    <2> TAKE j \in 1..n
    <2>1. j \in 1..(n + m) /\ ab[j] = a[j]
      BY <1>1, <1>2
    <2>2. d[j] = Units(ab[j], i) /\ c[j] = Units(a[j], i)
      BY <2>1
    <2>3. QED
      BY <2>1, <2>2
  <1>8. \A j \in 1..m : d[n + j] = e[j]
    <2> TAKE j \in 1..m
    <2>1. n + j \in 1..(n + m) /\ ~(n + j <= n) /\ (n + j) - n = j
      BY <1>1
    <2>2. ab[n + j] = b[j]
      BY <1>2, <2>1
    <2>3. QED
      BY <2>1, <2>2
  <1> HIDE DEF c, d, e
  <1>9. Total(d) = Total(c) + Total(e)
    BY <1>1, <1>5, <1>6, <1>7, <1>8, TotalAppend
  <1>10. QED
    BY <1>5, <1>6, <1>9 DEF ab

-----------------------------------------------------------------------------
\* add_slot.

\* Slots while a stack is poured into them, and how much of it is left.
Pourings(n) == [slots : [1..n -> Stacks], left : Nat]

\* From a to b nothing was lost or made, and no slot lost what it held.
Pours(a, b, s, n) ==
  /\ \A i \in Items : CountIn(b.slots, i) + (IF i = s.item THEN b.left ELSE 0)
                       = CountIn(a.slots, i) + (IF i = s.item THEN a.left ELSE 0)
  /\ \A k \in 1..n : a.slots[k] # Empty =>
       /\ b.slots[k] # Empty
       /\ b.slots[k].item = a.slots[k].item /\ b.slots[k].count >= a.slots[k].count

\* Pouring step by step, from slot to slot.
LEMMA PoursTransitive ==
  ASSUME NEW n \in Nat, NEW s, NEW a \in Pourings(n), NEW b \in Pourings(n),
         NEW c \in Pourings(n), Pours(a, b, s, n), Pours(b, c, s, n)
  PROVE  Pours(a, c, s, n)
  <1>1. \A i \in Items : CountIn(c.slots, i) + (IF i = s.item THEN c.left ELSE 0)
                         = CountIn(a.slots, i) + (IF i = s.item THEN a.left ELSE 0)
    BY DEF Pours
  <1>2. ASSUME NEW k \in 1..n, a.slots[k] # Empty
        PROVE  /\ c.slots[k] # Empty
               /\ c.slots[k].item = a.slots[k].item /\ c.slots[k].count >= a.slots[k].count
    <2>1. /\ b.slots[k] # Empty
          /\ b.slots[k].item = a.slots[k].item /\ b.slots[k].count >= a.slots[k].count
      BY <1>2 DEF Pours
    <2>2. c.slots[k] # Empty
          /\ c.slots[k].item = b.slots[k].item /\ c.slots[k].count >= b.slots[k].count
      BY <2>1 DEF Pours
    <2>3. {a.slots[k].count, b.slots[k].count, c.slots[k].count} \subseteq Nat
      BY StackTypes DEF Pourings
    <2>4. QED
      BY <2>1, <2>2, <2>3
  <1>3. QED
    BY <1>1, <1>2 DEF Pours

LEMMA PourStep ==
  ASSUME NEW n \in Nat, NEW a \in Pourings(n), NEW s \in Stacks, s # Empty,
         NEW k \in 1..n, NEW wanted
  PROVE  Pour(a, k, s, wanted) \in Pourings(n) /\ Pours(a, Pour(a, k, s, wanted), s, n)
  <1> DEFINE slot == a.slots[k]
             free == Room(slot, s)
             m == Lower(free, a.left)
             more == Stack(s.item, slot.count + m)
             b == [slots |-> [a.slots EXCEPT ![k] = more], left |-> a.left - m]
  <1>1. /\ a.slots \in [1..n -> Stacks] /\ a.left \in Nat /\ slot \in Stacks
        /\ s.item \in Items /\ MaxStack[s.item] \in Nat \ {0}
    BY StackTypes, SizesAssumption DEF Pourings
  <1>2. /\ slot.count \in Nat /\ (slot = Empty => slot.count = 0)
        /\ slot # Empty => slot.item \in Items /\ slot.count \in 1..MaxStack[slot.item]
    BY <1>1, StackTypes
  <1>3. free \in Nat /\ (free # 0 => free = MaxStack[s.item] - slot.count)
    BY <1>1, <1>2 DEF Room
  <1>4. m \in 0..free /\ m <= a.left
    BY <1>1, <1>3 DEF Lower
  <1>5. CASE m = 0 \/ (slot = Empty) # wanted
    <2>1. Pour(a, k, s, wanted) = a
      BY <1>5 DEF Pour
    <2>2. Pours(a, a, s, n)
      <3>1. \A j \in 1..n : a.slots[j].count \in Nat
        BY <1>1, StackTypes
      <3>2. QED
        BY <3>1 DEF Pours
    <2>3. QED
      BY <2>1, <2>2
  <1>6. CASE m # 0 /\ (slot = Empty) = wanted
    <2>1. Pour(a, k, s, wanted) = b
      BY <1>4, <1>6 DEF Pour
    <2>2. slot.count + m \in 1..MaxStack[s.item] /\ (slot # Empty => slot.item = s.item)
      <3>1. free # 0
        BY <1>4, <1>6
      <3>2. slot # Empty => slot.item = s.item
        BY <3>1 DEF Room
      <3>3. QED
        BY <1>1, <1>2, <1>3, <1>4, <1>6, <3>1, <3>2
    <2>3. /\ more \in Stacks /\ more # Empty /\ more.item = s.item
          /\ more.count = slot.count + m
      BY <1>1, <2>2, StackTypes
    <2>4. /\ [a.slots EXCEPT ![k] = more] \in [1..n -> Stacks]
          /\ \A i \in Items : CountIn([a.slots EXCEPT ![k] = more], i)
                = CountIn(a.slots, i) + (Units(more, i) - Units(slot, i))
      <3> HIDE DEF more
      <3>1. QED
        BY <1>1, <2>3, CountWrite
    <2>5. a.left - m \in Nat
      BY <1>1, <1>3, <1>4
    <2>6. b \in Pourings(n)
      BY <2>4, <2>5 DEF Pourings
    <2>7. \A i \in Items : Units(more, i) - Units(slot, i) = IF i = s.item THEN m ELSE 0
      <3> HIDE DEF more, m
      <3>1. TAKE i \in Items
      <3>2. Units(more, i) = IF i = s.item THEN slot.count + m ELSE 0
        BY <2>3 DEF Units
      <3>3. Units(slot, i) = IF i = s.item THEN slot.count ELSE 0
        <4>1. CASE slot = Empty
          <5>1. slot.item = NoItem /\ slot.count = 0
            BY <4>1, StackTypes
          <5>2. QED
            BY <5>1, <1>1 DEF Units
        <4>2. CASE slot # Empty
          BY <2>2, <4>2 DEF Units
        <4>3. QED
          BY <4>1, <4>2
      <3>4. m \in Nat
        BY <1>3, <1>4
      <3>5. QED
        BY <1>2, <3>2, <3>3, <3>4
    <2>8. ASSUME NEW i \in Items
          PROVE  CountIn(b.slots, i) + (IF i = s.item THEN b.left ELSE 0)
                   = CountIn(a.slots, i) + (IF i = s.item THEN a.left ELSE 0)
      <3>1. CountIn(a.slots, i) \in Int
        BY <1>1, CountIs
      <3>2. m \in Nat
        BY <1>3, <1>4
      <3>3. CountIn(b.slots, i) = CountIn(a.slots, i) + IF i = s.item THEN m ELSE 0
        <4>1. b.slots = [a.slots EXCEPT ![k] = more]
          OBVIOUS
        <4> HIDE DEF b, more, m
        <4>2. QED
          BY <2>4, <2>7, <4>1
      <3>4. b.left = a.left - m
        OBVIOUS
      <3> HIDE DEF b, m
      <3>5. QED
        BY <1>1, <3>1, <3>2, <3>3, <3>4
    <2>9. ASSUME NEW j \in 1..n, a.slots[j] # Empty
          PROVE  /\ b.slots[j] # Empty
                 /\ b.slots[j].item = a.slots[j].item /\ b.slots[j].count >= a.slots[j].count
      <3>1. b.slots[j] = IF j = k THEN more ELSE a.slots[j]
        BY <1>1
      <3>2. a.slots[j].count \in Nat /\ m \in Nat
        BY <1>1, <1>3, <1>4, StackTypes
      <3> HIDE DEF b, more, m
      <3>3. CASE j = k
        BY <2>2, <2>3, <2>9, <3>1, <3>2, <3>3
      <3>4. CASE j # k
        BY <2>9, <3>1, <3>2, <3>4
      <3>5. QED
        BY <3>3, <3>4
    <2> HIDE DEF b
    <2>10. Pours(a, b, s, n)
      BY <2>8, <2>9 DEF Pours
    <2>11. QED
      BY <2>1, <2>6, <2>10
  <1>7. QED
    BY <1>5, <1>6

LEMMA PouredIs ==
  ASSUME NEW n \in Nat, NEW a \in Pourings(n), NEW s \in Stacks, s # Empty, NEW wanted
  PROVE  Poured(a, s, wanted) \in Pourings(n) /\ Pours(a, Poured(a, s, wanted), s, n)
  <1> DEFINE A == Pourings(n)
             F == [z \in A \X (1..n) |-> Pour(z[1], z[2], s, wanted)]
             Is(f) == f = [k \in 0..n |-> IF k = 0 THEN a ELSE Pour(f[k - 1], k, s, wanted)]
             after == CHOOSE f : Is(f)
  <1>1. Len(a.slots) = n
    <2>1. a.slots \in [1..n -> Stacks]
      BY DEF Pourings
    <2>2. QED
      BY <2>1, LenProperties, SeqDef
  <1>2. \A x \in A, k \in 1..n : F[<<x, k>>] = Pour(x, k, s, wanted)
    OBVIOUS
  <1>3. F \in [A \X (1..n) -> A]
    BY PourStep
  <1> HIDE DEF F, A
  <1>4. PICK g : Runs(g, n, A, a, F)
    BY <1>3, Repeats DEF A
  <1>5. /\ g \in [0..n -> A] /\ g[0] = a
        /\ \A k \in 1..n : g[k] = Pour(g[k - 1], k, s, wanted)
    <2>1. ASSUME NEW k \in 1..n PROVE g[k] = Pour(g[k - 1], k, s, wanted)
      <3>1. g[k - 1] \in A /\ g[k] = F[<<g[k - 1], k>>]
        BY <1>4 DEF Runs
      <3>2. QED
        BY <1>2, <3>1
    <2>2. QED
      BY <1>4, <2>1 DEF Runs
  <1>6. Is(g)
    BY <1>5
  <1>7. Is(after)
    <2> HIDE DEF Is
    <2>1. QED
      BY <1>6
  <1>8. Poured(a, s, wanted) = after[n]
    BY <1>1 DEF Poured
  <1> HIDE DEF after
  <1>9. \A k \in 0..n : after[k] = IF k = 0 THEN a ELSE Pour(after[k - 1], k, s, wanted)
    BY <1>7
  <1> DEFINE G == {k \in 0..n : after[k] \in A /\ Pours(a, after[k], s, n)}
  <1>10. 0 \in G
    <2>1. after[0] = a
      BY <1>9
    <2>2. \A k \in 1..n : a.slots[k].count \in Nat
      BY StackTypes DEF Pourings
    <2>3. Pours(a, a, s, n)
      BY <2>2 DEF Pours
    <2>4. QED
      BY <2>1, <2>3 DEF A
  <1>11. ASSUME NEW k \in 1..n, k - 1 \in G PROVE k \in G
    <2>1. /\ after[k - 1] \in Pourings(n) /\ Pours(a, after[k - 1], s, n)
          /\ k \in 0..n /\ k # 0
      BY <1>11 DEF A
    <2>2. after[k] = Pour(after[k - 1], k, s, wanted)
      BY <1>9, <2>1
    <2>3. after[k] \in Pourings(n) /\ Pours(after[k - 1], after[k], s, n)
      BY <2>1, <2>2, PourStep
    <2>4. Pours(a, after[k], s, n)
      BY <2>1, <2>3, PoursTransitive
    <2>5. QED
      BY <2>1, <2>3, <2>4 DEF A
  <1> HIDE DEF G
  <1>12. n \in G
    BY <1>10, <1>11, UpToInduction
  <1>13. QED
    BY <1>8, <1>12 DEF G, A

\* add_slot makes and loses nothing, and only adds to what a slot holds.
LEMMA AddSlotIs ==
  ASSUME NEW n \in Nat, NEW slots \in [1..n -> Stacks], NEW s \in Stacks
  PROVE  LET to == AddSlot(slots, s) IN
         /\ to.slots \in [1..n -> Stacks] /\ to.left \in Nat
         /\ to.left = 0 => \A i \in Items :
              CountIn(to.slots, i) = CountIn(slots, i) + Units(s, i)
         /\ \A k \in 1..n : slots[k] # Empty =>
              /\ to.slots[k].item = slots[k].item /\ to.slots[k].count >= slots[k].count
  <1>0. \A k \in 1..n : slots[k].count \in Nat
    BY StackTypes
  <1>1. CASE s = Empty
    <2>1. AddSlot(slots, s) = [slots |-> slots, left |-> 0]
      BY <1>1 DEF AddSlot
    <2>2. \A i \in Items : Units(s, i) = 0 /\ CountIn(slots, i) \in Int
      BY <1>1, CountIs, StackTypes, ItemsAssumption DEF Units
    <2>3. QED
      BY <1>0, <2>1, <2>2
  <1>2. CASE s # Empty
    <2> DEFINE a == [slots |-> slots, left |-> s.count]
               b == Poured(a, s, FALSE)
               c == Poured(b, s, TRUE)
    <2>1. a \in Pourings(n) /\ a.slots = slots /\ a.left = s.count
      BY StackTypes DEF Pourings
    <2>2. AddSlot(slots, s) = c
      BY <1>2 DEF AddSlot
    <2> HIDE DEF a
    <2>3. b \in Pourings(n) /\ Pours(a, b, s, n)
      BY <1>2, <2>1, PouredIs
    <2> HIDE DEF b
    <2>4. c \in Pourings(n) /\ Pours(b, c, s, n)
      BY <1>2, <2>3, PouredIs
    <2> HIDE DEF c
    <2>5. Pours(a, c, s, n)
      BY <2>1, <2>3, <2>4, PoursTransitive
    <2>6. c.slots \in [1..n -> Stacks] /\ c.left \in Nat
      BY <2>4 DEF Pourings
    <2>7. ASSUME NEW i \in Items, c.left = 0
          PROVE  CountIn(c.slots, i) = CountIn(slots, i) + Units(s, i)
      <3>1. CountIn(c.slots, i) \in Int /\ CountIn(slots, i) \in Int
        BY <2>6, CountIs
      <3>2. CountIn(c.slots, i) + (IF i = s.item THEN 0 ELSE 0)
              = CountIn(slots, i) + (IF i = s.item THEN s.count ELSE 0)
        BY <2>1, <2>5, <2>7 DEF Pours
      <3>3. s.count \in Nat
        BY StackTypes
      <3>4. QED
        BY <3>1, <3>2, <3>3 DEF Units
    <2>8. \A k \in 1..n : slots[k] # Empty =>
            /\ c.slots[k].item = slots[k].item /\ c.slots[k].count >= slots[k].count
      BY <2>1, <2>5 DEF Pours
    <2>9. QED
      BY <2>2, <2>6, <2>7, <2>8
  <1>3. QED
    BY <1>1, <1>2

-----------------------------------------------------------------------------
\* The other operators on stacks and slots.

\* The first of some slots is one of them.
LEMMA FirstIs ==
  ASSUME NEW n \in Nat, NEW K \in SUBSET (1..n)
  PROVE  First(K) # 0 => First(K) \in K
  <1> SUFFICES ASSUME K # {} PROVE First(K) \in K
    BY DEF First
  <1>1. K \in SUBSET Nat
    OBVIOUS
  <1>2. \E k \in K : \A j \in K : k =< j
    BY <1>1, LeastNatural
  <1>3. Min(K) \in K
    BY <1>2 DEF Min
  <1>4. QED
    BY <1>3 DEF First

\* Taking some of a stack leaves the rest.
LEMMA LessIs ==
  ASSUME NEW s \in Stacks, s # Empty, NEW n \in 0..s.count
  PROVE  /\ Less(s, n) \in Stacks /\ Stack(s.item, n) \in Stacks
         /\ \A i \in Items : /\ Units(Less(s, n), i) = Units(s, i) - (IF i = s.item THEN n ELSE 0)
                            /\ Units(Stack(s.item, n), i) = IF i = s.item THEN n ELSE 0
  <1>1. /\ s.item \in Items /\ s.count \in 1..MaxStack[s.item] /\ s.count \in Nat
        /\ MaxStack[s.item] \in Nat
    BY StackTypes, SizesAssumption
  <1>2. s.count - n \in 0..MaxStack[s.item] /\ n \in 0..MaxStack[s.item]
    BY <1>1
  <1>3. Less(s, n) \in Stacks /\ Stack(s.item, n) \in Stacks
    BY <1>1, <1>2, StackTypes DEF Less
  <1>4. ASSUME NEW i \in Items
        PROVE  /\ Units(Less(s, n), i) = IF i = s.item THEN s.count - n ELSE 0
               /\ Units(Stack(s.item, n), i) = IF i = s.item THEN n ELSE 0
    BY <1>1, <1>2, UnitsOfStack DEF Less
  <1>5. ASSUME NEW i \in Items PROVE Units(s, i) = IF i = s.item THEN s.count ELSE 0
    BY DEF Units
  <1>6. QED
    BY <1>1, <1>3, <1>4, <1>5

\* A click moves units between slot and cursor.
LEMMA ClickedIs ==
  ASSUME NEW slot \in Stacks, NEW held \in Stacks, NEW isLeft \in BOOLEAN
  PROVE  LET to == Clicked(slot, held, isLeft) IN
         /\ to[1] \in Stacks /\ to[2] \in Stacks
         /\ \A i \in Items : Units(to[1], i) + Units(to[2], i) = Units(slot, i) + Units(held, i)
  <1> DEFINE to == Clicked(slot, held, isLeft)
             Right == /\ to[1] \in Stacks /\ to[2] \in Stacks
                      /\ \A i \in Items :
                           Units(to[1], i) + Units(to[2], i) = Units(slot, i) + Units(held, i)
             like == slot.item = held.item
  <1>0. \A i \in Items : Units(slot, i) \in Nat /\ Units(held, i) \in Nat
    BY UnitsType
  <1>1. CASE held = Empty /\ slot = Empty
    <2>1. to = <<slot, held>>
      BY <1>1 DEF Clicked
    <2>2. QED
      BY <2>1
  <1>2. CASE held = Empty /\ slot # Empty
    <2> DEFINE taken == IF isLeft THEN slot.count ELSE (slot.count + 1) \div 2
    <2>1. to = <<Less(slot, taken), Stack(slot.item, taken)>>
      BY <1>2 DEF Clicked
    <2>2. slot.count \in Nat \ {0}
      BY <1>2, StackTypes
    <2>3. taken \in 0..slot.count
      BY <2>2
    <2> HIDE DEF taken
    <2>4. /\ Less(slot, taken) \in Stacks /\ Stack(slot.item, taken) \in Stacks
          /\ \A i \in Items :
               /\ Units(Less(slot, taken), i) = Units(slot, i) - (IF i = slot.item THEN taken ELSE 0)
               /\ Units(Stack(slot.item, taken), i) = IF i = slot.item THEN taken ELSE 0
      BY <1>2, <2>3, LessIs
    <2>5. \A i \in Items : Units(held, i) = 0
      BY <1>2, StackTypes, ItemsAssumption DEF Units
    <2>6. taken \in Nat
      BY <2>2, <2>3
    <2>7. QED
      BY <1>0, <2>1, <2>4, <2>5, <2>6
  <1>3. CASE held # Empty /\ (slot = Empty \/ like)
    <2> DEFINE free == Room(slot, held)
               n == IF isLeft THEN Lower(free, held.count) ELSE Lower(free, 1)
    <2>1. to = <<Stack(held.item, slot.count + n), Less(held, n)>>
      BY <1>3 DEF Clicked
    <2>2. /\ held.count \in Nat \ {0} /\ held.item \in Items
          /\ MaxStack[held.item] \in Nat \ {0} /\ slot.count \in Nat
      BY <1>3, StackTypes, SizesAssumption
    <2>3. free \in Nat /\ free + slot.count = MaxStack[held.item]
      <3>1. CASE slot = Empty
        BY <2>2, <3>1, StackTypes DEF Room
      <3>2. CASE slot # Empty
        <4>1. slot.count \in 1..MaxStack[held.item] /\ slot.item = held.item
          BY <1>3, <3>2, StackTypes
        <4>2. QED
          BY <2>2, <3>2, <4>1 DEF Room
      <3>3. QED
        BY <3>1, <3>2
    <2>4. n \in 0..free /\ n \in 0..held.count
      BY <2>2, <2>3 DEF Lower
    <2> HIDE DEF n, free
    <2>5. slot.count + n \in 0..MaxStack[held.item] /\ n \in Nat
      BY <2>2, <2>3, <2>4
    <2>6. /\ Stack(held.item, slot.count + n) \in Stacks
          /\ \A i \in Items : Units(Stack(held.item, slot.count + n), i)
                                 = IF i = held.item THEN slot.count + n ELSE 0
      BY <2>2, <2>5, StackTypes, UnitsOfStack
    <2>7. /\ Less(held, n) \in Stacks
          /\ \A i \in Items : Units(Less(held, n), i)
                                 = Units(held, i) - (IF i = held.item THEN n ELSE 0)
      BY <1>3, <2>4, LessIs
    <2>8. \A i \in Items : Units(slot, i) = IF i = held.item THEN slot.count ELSE 0
      <3>1. CASE slot = Empty
        BY <2>2, <3>1, StackTypes, ItemsAssumption DEF Units
      <3>2. CASE slot # Empty
        BY <1>3, <3>2 DEF Units
      <3>3. QED
        BY <3>1, <3>2
    <2>9. ASSUME NEW i \in Items
          PROVE  Units(Stack(held.item, slot.count + n), i) + Units(Less(held, n), i)
                   = Units(slot, i) + Units(held, i)
      <3>1. Units(held, i) \in Int /\ slot.count \in Int /\ n \in Int
        BY <1>0, <2>2, <2>5
      <3>2. CASE i = held.item
        BY <2>6, <2>7, <2>8, <3>1, <3>2
      <3>3. CASE i # held.item
        BY <2>6, <2>7, <2>8, <3>1, <3>3
      <3>4. QED
        BY <3>2, <3>3
    <2>10. QED
      BY <1>0, <2>1, <2>6, <2>7, <2>9
  <1>4. CASE held # Empty /\ ~(slot = Empty \/ like)
    <2>1. to = <<held, slot>>
      BY <1>4 DEF Clicked
    <2>2. QED
      BY <1>0, <2>1
  <1>5. QED
    BY <1>1, <1>2, <1>3, <1>4

\* A single stack, and none.
LEMMA CountOne ==
  ASSUME NEW s \in Stacks, NEW i \in Items
  PROVE  <<s>> \in Seq(Stacks) /\ CountIn(<<s>>, i) = Units(s, i)
  <1> DEFINE c == [k \in 1..1 |-> Units(<<s>>[k], i)]
  <1>1. <<s>> \in [1..1 -> Stacks]
    OBVIOUS
  <1>2. /\ <<s>> \in Seq(Stacks) /\ c \in [1..1 -> Int]
        /\ CountIn(<<s>>, i) = Total(c)
    <2> DEFINE t == <<s>>
    <2>1. t \in [1..1 -> Stacks] /\ t \in Seq(Stacks)
      BY <1>1
    <2> HIDE DEF t
    <2>2. [k \in 1..1 |-> Units(t[k], i)] \in [1..1 -> Int]
      BY <2>1, UnitsType
    <2>3. CountIn(t, i) = Total([k \in 1..1 |-> Units(t[k], i)])
      BY <2>1, CountSums
    <2>4. QED
      BY <2>1, <2>2, <2>3 DEF t
  <1>3. PICK u \in [0..1 -> Int] : /\ u[0] = 0 /\ u[1] = Total(c)
                                  /\ \A k \in 1..1 : u[k] = u[k - 1] + c[k]
    BY <1>2, TotalIs
  <1>4. c[1] = Units(s, i) /\ c[1] \in Int
    BY <1>2
  <1> HIDE DEF c
  <1>5. u[1] = 0 + c[1]
    BY <1>3
  <1>6. QED
    BY <1>2, <1>3, <1>4, <1>5

LEMMA CountNone ==
  ASSUME NEW i \in Items
  PROVE  <<>> \in Seq(Stacks) /\ CountIn(<<>>, i) = 0
  <1>1. <<>> \in [1..0 -> Stacks] /\ <<>> \in Seq(Stacks)
    OBVIOUS
  <1> DEFINE c == [k \in 1..0 |-> Units(<<>>[k], i)]
  <1>2. c \in [1..0 -> Int] /\ CountIn(<<>>, i) = Total(c)
    <2> DEFINE t == <<>>
    <2>1. 0 \in Nat /\ t \in [1..0 -> Stacks]
      BY <1>1
    <2> HIDE DEF t
    <2>2. [k \in 1..0 |-> Units(t[k], i)] \in [1..0 -> Int]
      OBVIOUS
    <2>3. CountIn(t, i) = Total([k \in 1..0 |-> Units(t[k], i)])
      BY <2>1, CountSums
    <2>4. QED
      BY <2>2, <2>3 DEF t
  <1> HIDE DEF c
  <1>3. Total(c) = 0
    <2>1. 0 \in Nat /\ \A k \in 1..0 : c[k] = 0
      OBVIOUS
    <2>2. QED
      BY <1>2, <2>1, TotalOfZeros
  <1>4. QED
    BY <1>1, <1>2, <1>3

\* What a broken container drops is what it held.
LEMMA LooseIs ==
  ASSUME NEW n \in Nat, NEW slots \in [1..n -> Stacks]
  PROVE  /\ Loose(slots) \in Seq(Stacks \ {Empty})
         /\ \A i \in Items : CountIn(Loose(slots), i) = CountIn(slots, i)
  <1> DEFINE A == Seq(Stacks \ {Empty})
             Add(x, k) == IF slots[k] = Empty THEN x ELSE Append(x, slots[k])
             F == [z \in A \X (1..n) |-> Add(z[1], z[2])]
             none == <<>>
             Is(f) == f = [k \in 0..n |-> IF k = 0 THEN <<>>
                             ELSE IF slots[k] = Empty THEN f[k - 1]
                             ELSE Append(f[k - 1], slots[k])]
             upTo == CHOOSE f : Is(f)
  <1>1. Len(slots) = n
    BY LenProperties, SeqDef
  <1>2. \A x \in A, k \in 1..n : F[<<x, k>>] = Add(x, k)
    OBVIOUS
  <1>3. F \in [A \X (1..n) -> A] /\ none \in A
    OBVIOUS
  <1> HIDE DEF F, A, none
  <1>4. PICK g : Runs(g, n, A, none, F)
    BY <1>3, Repeats
  <1>5. /\ g \in [0..n -> A] /\ g[0] = <<>>
        /\ \A k \in 1..n : g[k] = Add(g[k - 1], k)
    <2> HIDE DEF Add
    <2>1. ASSUME NEW k \in 1..n PROVE g[k] = Add(g[k - 1], k)
      <3>1. g[k - 1] \in A /\ g[k] = F[<<g[k - 1], k>>]
        BY <1>4 DEF Runs
      <3>2. QED
        BY <1>2, <3>1
    <2>2. QED
      BY <1>4, <2>1 DEF Runs, none
  <1>6. Is(g)
    <2>1. \A k \in 1..n : g[k] = IF slots[k] = Empty THEN g[k - 1]
                                 ELSE Append(g[k - 1], slots[k])
      BY <1>5
    <2>2. ASSUME NEW k \in 0..n
          PROVE  g[k] = IF k = 0 THEN <<>>
                        ELSE IF slots[k] = Empty THEN g[k - 1]
                        ELSE Append(g[k - 1], slots[k])
      <3>1. CASE k = 0
        BY <1>5, <3>1
      <3>2. CASE k # 0
        <4>1. k \in 1..n
          BY <3>2
        <4>2. QED
          BY <2>1, <3>2, <4>1
      <3>3. QED
        BY <3>1, <3>2
    <2>3. QED
      BY <1>5, <2>2
  <1>7. Is(upTo)
    <2> HIDE DEF Is
    <2>1. QED
      BY <1>6
  <1>8. Loose(slots) = upTo[n]
    BY <1>1 DEF Loose
  <1> HIDE DEF upTo
  <1>9. \A k \in 0..n : upTo[k] = IF k = 0 THEN <<>>
                                   ELSE IF slots[k] = Empty THEN upTo[k - 1]
                                   ELSE Append(upTo[k - 1], slots[k])
    BY <1>7
  <1>10. \A k \in 0..n : upTo[k] \in A
    <2> DEFINE G == {k \in 0..n : upTo[k] \in A}
    <2>1. 0 \in G
      BY <1>3, <1>9 DEF none
    <2>2. ASSUME NEW k \in 1..n, k - 1 \in G PROVE k \in G
      <3>1. /\ k \in 0..n /\ k # 0 /\ upTo[k - 1] \in A
            /\ upTo[k] = IF slots[k] = Empty THEN upTo[k - 1]
                         ELSE Append(upTo[k - 1], slots[k])
        BY <1>9, <2>2
      <3>2. slots[k] # Empty => Append(upTo[k - 1], slots[k]) \in A
        BY <3>1, AppendProperties DEF A
      <3>3. QED
        BY <3>1, <3>2
    <2> HIDE DEF G
    <2>3. 0..n \subseteq G
      BY <2>1, <2>2, UpToInduction
    <2>4. QED
      BY <2>3 DEF G
  <1>11. ASSUME NEW i \in Items
         PROVE  CountIn(Loose(slots), i) = CountIn(slots, i)
    <2> DEFINE c == [k \in 1..n |-> Units(slots[k], i)]
    <2>1. c \in [1..n -> Int] /\ CountIn(slots, i) = Total(c)
      BY CountIs
    <2>2. PICK u \in [0..n -> Int] : /\ u[0] = 0 /\ u[n] = Total(c)
                                    /\ \A k \in 1..n : u[k] = u[k - 1] + c[k]
      <3> HIDE DEF c
      <3>1. QED
        BY <2>1, TotalIs
    <2> DEFINE G == {k \in 0..n : CountIn(upTo[k], i) = u[k]}
    <2>3. 0 \in G
      BY <1>9, <2>2, CountNone
    <2>4. ASSUME NEW k \in 1..n, k - 1 \in G PROVE k \in G
      <3>1. /\ k \in 0..n /\ k - 1 \in 0..n /\ k # 0
            /\ CountIn(upTo[k - 1], i) = u[k - 1] /\ u[k - 1] \in Int
        BY <2>4
      <3>2. u[k] = u[k - 1] + Units(slots[k], i)
        BY <2>2
      <3>3. CASE slots[k] = Empty
        <4>1. Units(slots[k], i) = 0
          BY <3>3, StackTypes, ItemsAssumption DEF Units
        <4>2. upTo[k] = upTo[k - 1]
          BY <1>9, <3>1, <3>3
        <4>3. QED
          BY <3>1, <3>2, <4>1, <4>2
      <3>4. CASE slots[k] # Empty
        <4>1. upTo[k] = Append(upTo[k - 1], slots[k])
          BY <1>9, <3>1, <3>4
        <4>2. upTo[k - 1] \in Seq(Stacks \ {Empty})
          BY <1>10, <3>1 DEF A
        <4>3. upTo[k - 1] \in Seq(Stacks) /\ slots[k] \in Stacks
          BY <4>2, SeqMonotonic
        <4>4. upTo[k] = upTo[k - 1] \o <<slots[k]>>
          BY <4>1, <4>3, AppendIsConcat
        <4>5. <<slots[k]>> \in Seq(Stacks) /\ CountIn(<<slots[k]>>, i) = Units(slots[k], i)
          BY <4>3, CountOne
        <4>6. CountIn(upTo[k], i) = CountIn(upTo[k - 1], i) + Units(slots[k], i)
          BY <4>3, <4>4, <4>5, CountConcat
        <4>7. QED
          BY <3>1, <3>2, <4>6
      <3>5. QED
        BY <3>3, <3>4
    <2> HIDE DEF G, c
    <2>5. 0..n \subseteq G
      BY <2>3, <2>4, UpToInduction
    <2>6. CountIn(upTo[n], i) = u[n]
      BY <2>5 DEF G
    <2>7. QED
      BY <1>8, <2>1, <2>2, <2>6
  <1>12. Loose(slots) \in A
    BY <1>8, <1>10
  <1>13. QED
    BY <1>11, <1>12 DEF A

-----------------------------------------------------------------------------
\* The types of what holds items.
GoodsTypes ==
  /\ inventory \in [Players -> [Slots -> Stacks]]
  /\ cursor \in [Players -> Stacks]
  /\ brew = [p \in Players |-> brew[p]] /\ \A p \in Players : IsBrew(brew[p])
  /\ block \in [Positions -> Blocks]
  /\ drops \in [Positions -> Seq(Stacks \ {Empty})]
  /\ supply \in [Items -> Int]

\* What a block is, and blocks made from its parts.
LEMMA BlockIs ==
  ASSUME NEW b \in Blocks
  PROVE  /\ b.kind \in Kinds /\ SlotCount(b.kind) \in Nat
         /\ b.slots \in [1..SlotCount(b.kind) -> Stacks]
         /\ b.open \in BOOLEAN /\ (b.open => b.kind = "chest")
         /\ b = [kind |-> b.kind, slots |-> b.slots, open |-> b.open]
  <1>1. PICK k \in Kinds :
          b \in [kind : {k}, slots : [1..SlotCount(k) -> Stacks],
                open : IF k = "chest" THEN BOOLEAN ELSE {FALSE}]
    BY DEF Blocks
  <1>2. b.kind = k /\ b.slots \in [1..SlotCount(k) -> Stacks]
    BY <1>1
  <1>3. b.open \in IF k = "chest" THEN BOOLEAN ELSE {FALSE}
    BY <1>1
  <1>4. SlotCount(k) \in Nat
    BY SizesAssumption DEF SlotCount
  <1>5. b = [kind |-> b.kind, slots |-> b.slots, open |-> b.open]
    BY <1>1
  <1>6. QED
    BY <1>2, <1>3, <1>4, <1>5

LEMMA MakeBlock ==
  ASSUME NEW k \in Kinds, NEW s \in [1..SlotCount(k) -> Stacks],
         NEW o \in BOOLEAN, o => k = "chest"
  PROVE  [kind |-> k, slots |-> s, open |-> o] \in Blocks
  <1>1. o \in IF k = "chest" THEN BOOLEAN ELSE {FALSE}
    OBVIOUS
  <1>2. [kind |-> k, slots |-> s, open |-> o]
          \in [kind : {k}, slots : [1..SlotCount(k) -> Stacks],
               open : IF k = "chest" THEN BOOLEAN ELSE {FALSE}]
    BY <1>1
  <1>3. QED
    BY <1>2 DEF Blocks

LEMMA BlockWrite ==
  ASSUME NEW b \in Blocks, NEW s \in [1..SlotCount(b.kind) -> Stacks]
  PROVE  /\ [b EXCEPT !.slots = s] \in Blocks
         /\ [b EXCEPT !.slots = s].slots = s /\ [b EXCEPT !.slots = s].kind = b.kind
  <1>1. [b EXCEPT !.slots = s] = [kind |-> b.kind, slots |-> s, open |-> b.open]
    BY BlockIs
  <1>2. QED
    BY <1>1, BlockIs, MakeBlock

LEMMA BlockSetOpen ==
  ASSUME NEW b \in Blocks, NEW o \in BOOLEAN, o => b.kind = "chest"
  PROVE  /\ [b EXCEPT !.open = o] \in Blocks
         /\ [b EXCEPT !.open = o].slots = b.slots /\ [b EXCEPT !.open = o].kind = b.kind
  <1>1. [b EXCEPT !.open = o] = [kind |-> b.kind, slots |-> b.slots, open |-> o]
    BY BlockIs
  <1>2. QED
    BY <1>1, BlockIs, MakeBlock

\* What the players of two states carry of an item differs by what one player gains.
LEMMA CarriedChange ==
  ASSUME GoodsTypes, GoodsTypes', NEW p \in Players, NEW i \in Items,
         \A q \in Players : q # p => inventory'[q] = inventory[q] /\ cursor'[q] = cursor[q]
  PROVE  /\ AddUp(Carried(i), Players)' = AddUp(Carried(i), Players)
              + ((Units(cursor'[p], i) + CountIn(inventory'[p], i))
                 - (Units(cursor[p], i) + CountIn(inventory[p], i)))
         /\ AddUp(Carried(i), Players) \in Int
  <1> DEFINE f == [q \in Players |-> Units(cursor[q], i) + CountIn(inventory[q], i)]
             g == [q \in Players |-> Units(cursor'[q], i) + CountIn(inventory'[q], i)]
  <1>1. InventorySize \in Nat /\ IsFiniteSet(Players)
    BY SizesAssumption, PlacesAssumption
  <1>2. ASSUME NEW q \in Players
        PROVE  /\ Units(cursor[q], i) + CountIn(inventory[q], i) \in Int
               /\ Units(cursor'[q], i) + CountIn(inventory'[q], i) \in Int
    <2>1. /\ cursor[q] \in Stacks /\ inventory[q] \in [1..InventorySize -> Stacks]
          /\ cursor'[q] \in Stacks /\ inventory'[q] \in [1..InventorySize -> Stacks]
      BY DEF GoodsTypes, Slots
    <2>2. /\ Units(cursor[q], i) \in Nat /\ Units(cursor'[q], i) \in Nat
          /\ CountIn(inventory[q], i) \in Int /\ CountIn(inventory'[q], i) \in Int
      BY <1>1, <2>1, UnitsType, CountIs
    <2>3. QED
      BY <2>2
  <1>3. f \in [Players -> Int] /\ g \in [Players -> Int]
    BY <1>2
  <1>4. \A q \in Players : q # p => g[q] = f[q]
    OBVIOUS
  <1>5. /\ f[p] = Units(cursor[p], i) + CountIn(inventory[p], i)
        /\ g[p] = Units(cursor'[p], i) + CountIn(inventory'[p], i)
    OBVIOUS
  <1>6. AddUp(Carried(i), Players) = AddUp(f, Players)
    BY DEF Carried
  <1>7. AddUp(Carried(i), Players)' = AddUp(g, Players)
    BY DEF Carried
  <1> HIDE DEF f, g
  <1>8. AddUp(g, Players) = AddUp(f, Players) + (g[p] - f[p])
    BY <1>1, <1>3, <1>4, AddUpChange
  <1>9. AddUp(f, Players) \in Int
    BY <1>1, <1>3, AddUpType
  <1>10. QED
    BY <1>5, <1>6, <1>7, <1>8, <1>9

\* What lies at a position can be counted.
LEMMA LyingTypes ==
  ASSUME NEW b \in Blocks, NEW d \in Seq(Stacks \ {Empty}), NEW i \in Items
  PROVE  CountIn(b.slots, i) \in Int /\ CountIn(d, i) \in Int
  <1>1. d \in Seq(Stacks)
    BY SeqMonotonic
  <1>2. Len(d) \in Nat /\ d \in [1..Len(d) -> Stacks]
    BY <1>1, LenProperties
  <1>3. SlotCount(b.kind) \in Nat /\ b.slots \in [1..SlotCount(b.kind) -> Stacks]
    BY BlockIs
  <1>4. CountIn(b.slots, i) \in Int
    BY <1>3, CountIs
  <1>5. CountIn(d, i) \in Int
    BY <1>2, CountIs
  <1>6. QED
    BY <1>4, <1>5

\* What lies at a position.
LyingAt(b, d, i) == CountIn(b.slots, i) + CountIn(d, i)

LEMMA LyingAtType ==
  ASSUME NEW b \in Blocks, NEW d \in Seq(Stacks \ {Empty}), NEW i \in Items
  PROVE  LyingAt(b, d, i) \in Int
  <1>1. CountIn(b.slots, i) \in Int /\ CountIn(d, i) \in Int
    BY LyingTypes
  <1> QED
    BY <1>1 DEF LyingAt

\* The same for what lies in the world, of which two positions change.
LEMMA LyingChangeTwo ==
  ASSUME GoodsTypes, GoodsTypes', NEW x \in Positions, NEW y \in Positions, x # y,
         NEW i \in Items,
         \A z \in Positions : z # x /\ z # y =>
           LyingAt(block'[z], drops'[z], i) = LyingAt(block[z], drops[z], i)
  PROVE  /\ AddUp(Lying(i), Positions)' = AddUp(Lying(i), Positions)
              + (LyingAt(block'[x], drops'[x], i) - LyingAt(block[x], drops[x], i))
              + (LyingAt(block'[y], drops'[y], i) - LyingAt(block[y], drops[y], i))
         /\ AddUp(Lying(i), Positions) \in Int
  <1> DEFINE f == [z \in Positions |-> LyingAt(block[z], drops[z], i)]
             g == [z \in Positions |-> LyingAt(block'[z], drops'[z], i)]
             h == [z \in Positions |-> IF z = x THEN g[x] ELSE f[z]]
  <1>1. IsFiniteSet(Positions)
    BY PlacesAssumption
  <1>2. ASSUME NEW z \in Positions
        PROVE  /\ LyingAt(block[z], drops[z], i) \in Int
               /\ LyingAt(block'[z], drops'[z], i) \in Int
    <2>1. /\ block[z] \in Blocks /\ block'[z] \in Blocks
          /\ drops[z] \in Seq(Stacks \ {Empty}) /\ drops'[z] \in Seq(Stacks \ {Empty})
      BY DEF GoodsTypes
    <2>2. LyingAt(block[z], drops[z], i) \in Int
      BY <2>1, LyingAtType
    <2>3. LyingAt(block'[z], drops'[z], i) \in Int
      BY <2>1, LyingAtType
    <2>4. QED
      BY <2>2, <2>3
  <1>3. f \in [Positions -> Int] /\ g \in [Positions -> Int]
    BY <1>2
  <1>4. /\ f[x] = LyingAt(block[x], drops[x], i) /\ g[x] = LyingAt(block'[x], drops'[x], i)
        /\ f[y] = LyingAt(block[y], drops[y], i) /\ g[y] = LyingAt(block'[y], drops'[y], i)
    OBVIOUS
  <1>5. \A z \in Positions : z # x /\ z # y => g[z] = f[z]
    OBVIOUS
  <1>6. AddUp(Lying(i), Positions) = AddUp(f, Positions)
    BY DEF Lying, LyingAt
  <1>7. AddUp(Lying(i), Positions)' = AddUp(g, Positions)
    BY DEF Lying, LyingAt
  <1> HIDE DEF f, g
  <1>8. /\ h \in [Positions -> Int] /\ h[x] = g[x] /\ h[y] = f[y]
        /\ \A z \in Positions : z # x => h[z] = f[z]
        /\ \A z \in Positions : z # y => g[z] = h[z]
    BY <1>3, <1>5
  <1> HIDE DEF h
  <1>9. AddUp(h, Positions) = AddUp(f, Positions) + (h[x] - f[x])
    BY <1>1, <1>3, <1>8, AddUpChange
  <1>10. AddUp(g, Positions) = AddUp(h, Positions) + (g[y] - h[y])
    BY <1>1, <1>3, <1>8, AddUpChange
  <1>11. AddUp(f, Positions) \in Int
    BY <1>1, <1>3, AddUpType
  <1>12. {f[x], f[y], g[x], g[y]} \subseteq Int
    BY <1>3
  <1>13. AddUp(g, Positions) = AddUp(f, Positions) + (g[x] - f[x]) + (g[y] - f[y])
    BY <1>8, <1>9, <1>10, <1>11, <1>12
  <1>14. QED
    BY <1>4, <1>6, <1>7, <1>11, <1>13

\* The same where one position changes.
LEMMA LyingChange ==
  ASSUME GoodsTypes, GoodsTypes', NEW x \in Positions, NEW i \in Items,
         \A z \in Positions : z # x =>
           LyingAt(block'[z], drops'[z], i) = LyingAt(block[z], drops[z], i)
  PROVE  /\ AddUp(Lying(i), Positions)' = AddUp(Lying(i), Positions)
              + (LyingAt(block'[x], drops'[x], i) - LyingAt(block[x], drops[x], i))
         /\ AddUp(Lying(i), Positions) \in Int
  <1> DEFINE f == [z \in Positions |-> LyingAt(block[z], drops[z], i)]
             g == [z \in Positions |-> LyingAt(block'[z], drops'[z], i)]
  <1>1. IsFiniteSet(Positions)
    BY PlacesAssumption
  <1>2. ASSUME NEW z \in Positions
        PROVE  /\ LyingAt(block[z], drops[z], i) \in Int
               /\ LyingAt(block'[z], drops'[z], i) \in Int
    <2>1. /\ block[z] \in Blocks /\ block'[z] \in Blocks
          /\ drops[z] \in Seq(Stacks \ {Empty}) /\ drops'[z] \in Seq(Stacks \ {Empty})
      BY DEF GoodsTypes
    <2>2. LyingAt(block[z], drops[z], i) \in Int
      BY <2>1, LyingAtType
    <2>3. LyingAt(block'[z], drops'[z], i) \in Int
      BY <2>1, LyingAtType
    <2>4. QED
      BY <2>2, <2>3
  <1>3. f \in [Positions -> Int] /\ g \in [Positions -> Int]
    BY <1>2
  <1>4. /\ f[x] = LyingAt(block[x], drops[x], i) /\ g[x] = LyingAt(block'[x], drops'[x], i)
        /\ \A z \in Positions : z # x => g[z] = f[z]
    OBVIOUS
  <1>5. AddUp(Lying(i), Positions) = AddUp(f, Positions)
    BY DEF Lying, LyingAt
  <1>6. AddUp(Lying(i), Positions)' = AddUp(g, Positions)
    BY DEF Lying, LyingAt
  <1> HIDE DEF f, g
  <1>7. /\ AddUp(g, Positions) = AddUp(f, Positions) + (g[x] - f[x])
        /\ AddUp(f, Positions) \in Int
    BY <1>1, <1>3, <1>4, AddUpChange, AddUpType
  <1>8. QED
    BY <1>4, <1>5, <1>6, <1>7

\* Both sums are integers.
LEMMA CarriedType ==
  ASSUME GoodsTypes, NEW i \in Items
  PROVE  AddUp(Carried(i), Players) \in Int
  <1>1. InventorySize \in Nat /\ IsFiniteSet(Players)
    BY SizesAssumption, PlacesAssumption
  <1>2. ASSUME NEW q \in Players
        PROVE  Units(cursor[q], i) + CountIn(inventory[q], i) \in Int
    <2>1. cursor[q] \in Stacks /\ inventory[q] \in [1..InventorySize -> Stacks]
      BY DEF GoodsTypes, Slots
    <2>2. Units(cursor[q], i) \in Nat /\ CountIn(inventory[q], i) \in Int
      BY <1>1, <2>1, UnitsType, CountIs
    <2>3. QED
      BY <2>2
  <1>3. Carried(i) \in [Players -> Int]
    BY <1>2 DEF Carried
  <1>4. QED
    BY <1>1, <1>3, AddUpType

LEMMA LyingType ==
  ASSUME GoodsTypes, NEW i \in Items
  PROVE  AddUp(Lying(i), Positions) \in Int
  <1>1. IsFiniteSet(Positions)
    BY PlacesAssumption
  <1>2. ASSUME NEW z \in Positions
        PROVE  CountIn(block[z].slots, i) + CountIn(drops[z], i) \in Int
    <2>1. block[z] \in Blocks /\ drops[z] \in Seq(Stacks \ {Empty})
      BY DEF GoodsTypes
    <2>2. LyingAt(block[z], drops[z], i) \in Int
      BY <2>1, LyingAtType
    <2>3. QED
      BY <2>2 DEF LyingAt
  <1>3. Lying(i) \in [Positions -> Int]
    BY <1>2 DEF Lying
  <1>4. QED
    BY <1>1, <1>3, AddUpType

-----------------------------------------------------------------------------
CarriedBy(c, slots, i) == Units(c, i) + CountIn(slots, i)

\* What one player carries can be counted.
LEMMA CarriedByType ==
  ASSUME NEW c \in Stacks, NEW slots \in [Slots -> Stacks], NEW i \in Items
  PROVE  Units(c, i) \in Nat /\ CountIn(slots, i) \in Int /\ CarriedBy(c, slots, i) \in Int
  <1>1. InventorySize \in Nat
    BY SizesAssumption
  <1>2. Units(c, i) \in Nat /\ CountIn(slots, i) \in Int
    BY <1>1, UnitsType, CountIs DEF Slots
  <1> QED
    BY <1>2 DEF CarriedBy

\* The invariant for one item.
LEMMA ConservedAsSums ==
  ASSUME ItemsConserved, NEW i \in Items
  PROVE  AddUp(Carried(i), Players) + AddUp(Lying(i), Positions) = supply[i]
  BY DEF ItemsConserved

\* A step that changes what one player carries and what lies at one position.
LEMMA BalanceOne ==
  ASSUME GoodsTypes, GoodsTypes', ItemsConserved,
         NEW p \in Players, NEW x \in Positions,
         \A q \in Players : q # p => inventory'[q] = inventory[q] /\ cursor'[q] = cursor[q],
         \A z \in Positions, i \in Items : z # x =>
           LyingAt(block'[z], drops'[z], i) = LyingAt(block[z], drops[z], i),
         \A i \in Items : supply'[i] = supply[i]
           + (CarriedBy(cursor'[p], inventory'[p], i) - CarriedBy(cursor[p], inventory[p], i))
           + (LyingAt(block'[x], drops'[x], i) - LyingAt(block[x], drops[x], i))
  PROVE  ItemsConserved'
  <1>1. ASSUME NEW i \in Items
        PROVE  AddUp(Carried(i), Players)' + AddUp(Lying(i), Positions)' = supply'[i]
    <2>1. /\ AddUp(Carried(i), Players)' = AddUp(Carried(i), Players)
               + (CarriedBy(cursor'[p], inventory'[p], i) - CarriedBy(cursor[p], inventory[p], i))
          /\ AddUp(Carried(i), Players) \in Int
      BY CarriedChange DEF CarriedBy
    <2>2. /\ AddUp(Lying(i), Positions)' = AddUp(Lying(i), Positions)
               + (LyingAt(block'[x], drops'[x], i) - LyingAt(block[x], drops[x], i))
          /\ AddUp(Lying(i), Positions) \in Int
      BY LyingChange
    <2>3. AddUp(Carried(i), Players) + AddUp(Lying(i), Positions) = supply[i]
      BY ConservedAsSums
    <2>4. /\ CarriedBy(cursor[p], inventory[p], i) \in Int
          /\ CarriedBy(cursor'[p], inventory'[p], i) \in Int
      <3>1. /\ cursor[p] \in Stacks /\ cursor'[p] \in Stacks
            /\ inventory[p] \in [Slots -> Stacks] /\ inventory'[p] \in [Slots -> Stacks]
        BY DEF GoodsTypes
      <3>2. CarriedBy(cursor[p], inventory[p], i) \in Int
        BY <3>1, CarriedByType
      <3>3. CarriedBy(cursor'[p], inventory'[p], i) \in Int
        BY <3>1, CarriedByType
      <3> QED
        BY <3>2, <3>3
    <2>5. /\ LyingAt(block[x], drops[x], i) \in Int
          /\ LyingAt(block'[x], drops'[x], i) \in Int
      <3>1. /\ block[x] \in Blocks /\ block'[x] \in Blocks
            /\ drops[x] \in Seq(Stacks \ {Empty}) /\ drops'[x] \in Seq(Stacks \ {Empty})
        BY DEF GoodsTypes
      <3>2. LyingAt(block[x], drops[x], i) \in Int
        BY <3>1, LyingAtType
      <3>3. LyingAt(block'[x], drops'[x], i) \in Int
        BY <3>1, LyingAtType
      <3> QED
        BY <3>2, <3>3
    <2> QED
      BY <2>1, <2>2, <2>3, <2>4, <2>5
  <1> QED
    BY <1>1 DEF ItemsConserved

\* A step of one player alone.
LEMMA BalancePlayer ==
  ASSUME GoodsTypes, GoodsTypes', ItemsConserved, NEW p \in Players,
         \A q \in Players : q # p => inventory'[q] = inventory[q] /\ cursor'[q] = cursor[q],
         UNCHANGED <<block, drops>>,
         \A i \in Items : supply'[i] = supply[i]
           + (CarriedBy(cursor'[p], inventory'[p], i) - CarriedBy(cursor[p], inventory[p], i))
  PROVE  ItemsConserved'
  <1>1. ASSUME NEW i \in Items
        PROVE  AddUp(Carried(i), Players)' + AddUp(Lying(i), Positions)' = supply'[i]
    <2>1. /\ AddUp(Carried(i), Players)' = AddUp(Carried(i), Players)
               + (CarriedBy(cursor'[p], inventory'[p], i) - CarriedBy(cursor[p], inventory[p], i))
          /\ AddUp(Carried(i), Players) \in Int
      BY CarriedChange DEF CarriedBy
    <2>2. AddUp(Lying(i), Positions)' = AddUp(Lying(i), Positions)
      BY DEF Lying
    <2>3. AddUp(Lying(i), Positions) \in Int
      BY LyingType
    <2>4. AddUp(Carried(i), Players) + AddUp(Lying(i), Positions) = supply[i]
      BY ConservedAsSums
    <2>5. /\ CarriedBy(cursor[p], inventory[p], i) \in Int
          /\ CarriedBy(cursor'[p], inventory'[p], i) \in Int
      <3>1. /\ cursor[p] \in Stacks /\ cursor'[p] \in Stacks
            /\ inventory[p] \in [Slots -> Stacks] /\ inventory'[p] \in [Slots -> Stacks]
        BY DEF GoodsTypes
      <3>2. CarriedBy(cursor[p], inventory[p], i) \in Int
        BY <3>1, CarriedByType
      <3>3. CarriedBy(cursor'[p], inventory'[p], i) \in Int
        BY <3>1, CarriedByType
      <3> QED
        BY <3>2, <3>3
    <2> QED
      BY <2>1, <2>2, <2>3, <2>4, <2>5
  <1> QED
    BY <1>1 DEF ItemsConserved

\* A step at one position alone.
LEMMA BalancePosition ==
  ASSUME GoodsTypes, GoodsTypes', ItemsConserved, NEW x \in Positions,
         UNCHANGED <<inventory, cursor>>,
         \A z \in Positions, i \in Items : z # x =>
           LyingAt(block'[z], drops'[z], i) = LyingAt(block[z], drops[z], i),
         \A i \in Items : supply'[i] = supply[i]
           + (LyingAt(block'[x], drops'[x], i) - LyingAt(block[x], drops[x], i))
  PROVE  ItemsConserved'
  <1>1. ASSUME NEW i \in Items
        PROVE  AddUp(Carried(i), Players)' + AddUp(Lying(i), Positions)' = supply'[i]
    <2>1. AddUp(Carried(i), Players)' = AddUp(Carried(i), Players)
      BY DEF Carried
    <2>2. /\ AddUp(Lying(i), Positions)' = AddUp(Lying(i), Positions)
               + (LyingAt(block'[x], drops'[x], i) - LyingAt(block[x], drops[x], i))
          /\ AddUp(Lying(i), Positions) \in Int
      BY LyingChange
    <2>3. AddUp(Carried(i), Players) \in Int
      BY CarriedType
    <2>4. AddUp(Carried(i), Players) + AddUp(Lying(i), Positions) = supply[i]
      BY ConservedAsSums
    <2>5. /\ LyingAt(block[x], drops[x], i) \in Int
          /\ LyingAt(block'[x], drops'[x], i) \in Int
      <3>1. /\ block[x] \in Blocks /\ block'[x] \in Blocks
            /\ drops[x] \in Seq(Stacks \ {Empty}) /\ drops'[x] \in Seq(Stacks \ {Empty})
        BY DEF GoodsTypes
      <3>2. LyingAt(block[x], drops[x], i) \in Int
        BY <3>1, LyingAtType
      <3>3. LyingAt(block'[x], drops'[x], i) \in Int
        BY <3>1, LyingAtType
      <3> QED
        BY <3>2, <3>3
    <2> QED
      BY <2>1, <2>2, <2>3, <2>4, <2>5
  <1> QED
    BY <1>1 DEF ItemsConserved

\* A step that moves items from one position to another.
LEMMA BalanceTwo ==
  ASSUME GoodsTypes, GoodsTypes', ItemsConserved,
         NEW x \in Positions, NEW y \in Positions, x # y,
         UNCHANGED <<inventory, cursor, supply>>,
         \A z \in Positions, i \in Items : z # x /\ z # y =>
           LyingAt(block'[z], drops'[z], i) = LyingAt(block[z], drops[z], i),
         \A i \in Items :
           LyingAt(block'[x], drops'[x], i) + LyingAt(block'[y], drops'[y], i)
             = LyingAt(block[x], drops[x], i) + LyingAt(block[y], drops[y], i)
  PROVE  ItemsConserved'
  <1>1. ASSUME NEW i \in Items
        PROVE  AddUp(Carried(i), Players)' + AddUp(Lying(i), Positions)' = supply'[i]
    <2>1. AddUp(Carried(i), Players)' = AddUp(Carried(i), Players)
      BY DEF Carried
    <2>2. /\ AddUp(Lying(i), Positions)' = AddUp(Lying(i), Positions)
               + (LyingAt(block'[x], drops'[x], i) - LyingAt(block[x], drops[x], i))
               + (LyingAt(block'[y], drops'[y], i) - LyingAt(block[y], drops[y], i))
          /\ AddUp(Lying(i), Positions) \in Int
      BY LyingChangeTwo
    <2>3. AddUp(Carried(i), Players) + AddUp(Lying(i), Positions) = supply[i]
      BY ConservedAsSums
    <2>4. /\ block[x] \in Blocks /\ block'[x] \in Blocks
          /\ drops[x] \in Seq(Stacks \ {Empty}) /\ drops'[x] \in Seq(Stacks \ {Empty})
          /\ block[y] \in Blocks /\ block'[y] \in Blocks
          /\ drops[y] \in Seq(Stacks \ {Empty}) /\ drops'[y] \in Seq(Stacks \ {Empty})
      BY DEF GoodsTypes
    <2>5. LyingAt(block[x], drops[x], i) \in Int
      BY <2>4, LyingAtType
    <2>6. LyingAt(block'[x], drops'[x], i) \in Int
      BY <2>4, LyingAtType
    <2>7. LyingAt(block[y], drops[y], i) \in Int
      BY <2>4, LyingAtType
    <2>8. LyingAt(block'[y], drops'[y], i) \in Int
      BY <2>4, LyingAtType
    <2>9. LyingAt(block'[x], drops'[x], i) + LyingAt(block'[y], drops'[y], i)
            = LyingAt(block[x], drops[x], i) + LyingAt(block[y], drops[y], i)
      OBVIOUS
    <2> QED
      BY <2>1, <2>2, <2>3, <2>5, <2>6, <2>7, <2>8, <2>9
  <1> QED
    BY <1>1 DEF ItemsConserved

\* A step that changes no slot.
LEMMA BalanceNone ==
  ASSUME ItemsConserved, UNCHANGED <<inventory, cursor, drops, supply>>,
         \A z \in Positions : block'[z].slots = block[z].slots
  PROVE  ItemsConserved'
  <1>1. ASSUME NEW i \in Items PROVE Carried(i)' = Carried(i) /\ Lying(i)' = Lying(i)
    BY DEF Carried, Lying
  <1>2. ASSUME NEW i \in Items
        PROVE  AddUp(Carried(i), Players)' + AddUp(Lying(i), Positions)' = supply'[i]
    <2>1. AddUp(Carried(i), Players)' = AddUp(Carried(i), Players)
      BY <1>1
    <2>2. AddUp(Lying(i), Positions)' = AddUp(Lying(i), Positions)
      BY <1>1
    <2> QED
      BY <2>1, <2>2, ConservedAsSums
  <1> QED
    BY <1>2 DEF ItemsConserved

\* A brew reserves slots of the inventory.
LEMMA ReservedSlots ==
  ASSUME NEW b, IsBrew(b)
  PROVE  /\ Reserved(b) \subseteq Slots
         /\ \A k \in Reserved(b) : b.expected[k] \in Stacks /\ b.expected[k] # Empty
         /\ Reserved(NoBrew) = {}
         /\ b # NoBrew => Reserved(b) = {b.ingredient} \union b.bottles
  BY DEF IsBrew, Reserved

\* A step that leaves in every slot it keeps reserved at least what was there.
LEMMA ReservationKept ==
  ASSUME GoodsTypes, GoodsTypes', ReservationHeld,
         \A p \in Players : \A k \in Reserved(brew'[p]) :
           /\ k \in Reserved(brew[p]) /\ brew'[p].expected[k] = brew[p].expected[k]
           /\ inventory'[p][k].item = inventory[p][k].item
           /\ inventory'[p][k].count >= inventory[p][k].count
  PROVE  ReservationHeld'
  <1>1. ASSUME NEW p \in Players, NEW k \in Reserved(brew'[p])
        PROVE  /\ inventory'[p][k].item = brew'[p].expected[k].item
               /\ inventory'[p][k].count >= brew'[p].expected[k].count
    <2>1. k \in Reserved(brew[p]) /\ brew'[p].expected[k] = brew[p].expected[k]
      BY <1>1
    <2>2. /\ inventory[p][k].item = brew[p].expected[k].item
          /\ inventory[p][k].count >= brew[p].expected[k].count
      BY <2>1 DEF ReservationHeld
    <2>3. k \in Slots /\ brew[p].expected[k] \in Stacks
      BY <2>1, ReservedSlots DEF GoodsTypes
    <2>4. inventory[p][k] \in Stacks /\ inventory'[p][k] \in Stacks
      BY <2>3 DEF GoodsTypes
    <2>5. /\ inventory[p][k].count \in Nat /\ inventory'[p][k].count \in Nat
          /\ brew[p].expected[k].count \in Nat
      BY <2>3, <2>4, StackTypes
    <2>6. /\ inventory'[p][k].item = inventory[p][k].item
          /\ inventory'[p][k].count >= inventory[p][k].count
      BY <1>1
    <2> QED
      BY <2>1, <2>2, <2>5, <2>6
  <1> QED
    BY <1>1 DEF ReservationHeld

\* A step of the inventories that obeys the brew locks of one player.
LEMMA ReservationLocked ==
  ASSUME GoodsTypes, GoodsTypes', ReservationHeld, NEW p \in Players,
         brew' = brew, \A q \in Players : q # p => inventory'[q] = inventory[q],
         PreservesBrewLocks(p, inventory'[p])
  PROVE  ReservationHeld'
  <1>1. ASSUME NEW q \in Players, NEW k \in Reserved(brew'[q])
        PROVE  /\ k \in Reserved(brew[q]) /\ brew'[q].expected[k] = brew[q].expected[k]
               /\ inventory'[q][k].item = inventory[q][k].item
               /\ inventory'[q][k].count >= inventory[q][k].count
    <2>1. k \in Reserved(brew[q]) /\ brew'[q].expected[k] = brew[q].expected[k]
      BY <1>1
    <2>2. inventory'[q][k] = inventory[q][k]
      BY <2>1 DEF PreservesBrewLocks
    <2>3. inventory[q][k].count \in Nat
      BY <2>1, ReservedSlots, StackTypes DEF GoodsTypes
    <2> QED
      BY <2>1, <2>2, <2>3
  <1> QED
    BY <1>1, ReservationKept

\* A step that starts no brew and changes no inventory.
LEMMA ReservationSame ==
  ASSUME GoodsTypes, GoodsTypes', ReservationHeld, inventory' = inventory,
         \A q \in Players : brew'[q] = brew[q] \/ brew'[q] = NoBrew
  PROVE  ReservationHeld'
  <1>1. ASSUME NEW q \in Players, NEW k \in Reserved(brew'[q])
        PROVE  /\ k \in Reserved(brew[q]) /\ brew'[q].expected[k] = brew[q].expected[k]
               /\ inventory'[q][k].item = inventory[q][k].item
               /\ inventory'[q][k].count >= inventory[q][k].count
    <2>1. brew'[q] = brew[q]
      BY DEF Reserved
    <2>2. inventory[q][k].count \in Nat
      BY <2>1, ReservedSlots, StackTypes DEF GoodsTypes
    <2> QED
      BY <2>1, <2>2
  <1> QED
    BY <1>1, ReservationKept

-----------------------------------------------------------------------------
Goods == GoodsTypes /\ ItemsConserved /\ ReservationHeld

\* One player's brew changes.
LEMMA BrewTypes ==
  ASSUME NEW p \in Players, NEW b, IsBrew(b), brew = [q \in Players |-> brew[q]],
         \A q \in Players : IsBrew(brew[q]), brew' = [brew EXCEPT ![p] = b]
  PROVE  /\ brew' = [q \in Players |-> brew'[q]] /\ \A q \in Players : IsBrew(brew'[q])
         /\ brew'[p] = b /\ \A q \in Players : q # p => brew'[q] = brew[q]
  <1>1. \A q \in Players : brew'[q] = IF q = p THEN b ELSE brew[q]
    OBVIOUS
  <1>2. brew' = [q \in Players |-> brew'[q]]
    OBVIOUS
  <1> QED
    BY <1>1, <1>2

\* A reserved slot is not empty.
LEMMA ReservedFull ==
  ASSUME Goods, NEW p \in Players, NEW k \in Reserved(brew[p])
  PROVE  k \in Slots /\ inventory[p][k] \in Stacks /\ inventory[p][k] # Empty
  <1>1. k \in Slots /\ brew[p].expected[k] \in Stacks /\ brew[p].expected[k] # Empty
    BY ReservedSlots DEF Goods, GoodsTypes
  <1>2. inventory[p][k] \in Stacks
    BY <1>1 DEF Goods, GoodsTypes
  <1>3. inventory[p][k].item = brew[p].expected[k].item
    BY DEF Goods, ReservationHeld
  <1> QED
    BY <1>1, <1>2, <1>3, StackTypes

\* One player's inventory changes, and the supply by as much.
LEMMA InventoryStep ==
  ASSUME Goods, NEW p \in Players, NEW after \in [Slots -> Stacks],
         inventory' = [inventory EXCEPT ![p] = after],
         supply' = Changed(inventory[p], after),
         UNCHANGED <<cursor, block, drops>>,
         brew' = [q \in Players |-> brew'[q]], \A q \in Players : IsBrew(brew'[q])
  PROVE  /\ GoodsTypes' /\ ItemsConserved'
         /\ inventory'[p] = after
         /\ \A q \in Players : q # p => inventory'[q] = inventory[q]
  <1>1. inventory \in [Players -> [Slots -> Stacks]] /\ cursor \in [Players -> Stacks]
    BY DEF Goods, GoodsTypes
  <1>2. /\ inventory'[p] = after /\ inventory' \in [Players -> [Slots -> Stacks]]
        /\ \A q \in Players : q # p => inventory'[q] = inventory[q]
    BY <1>1
  <1>3. ASSUME NEW i \in Items
        PROVE  /\ supply'[i] \in Int
               /\ supply'[i] = supply[i] + (CarriedBy(cursor'[p], inventory'[p], i)
                                            - CarriedBy(cursor[p], inventory[p], i))
    <2>1. /\ Units(cursor[p], i) \in Nat /\ CountIn(inventory[p], i) \in Int
          /\ CountIn(after, i) \in Int
      BY <1>1, CarriedByType
    <2>2. supply[i] \in Int
      BY DEF Goods, GoodsTypes
    <2>3. supply'[i] = supply[i] + CountIn(after, i) - CountIn(inventory[p], i)
      BY DEF Changed
    <2> QED
      BY <1>2, <2>1, <2>2, <2>3 DEF CarriedBy
  <1>4. supply' \in [Items -> Int]
    BY <1>3 DEF Changed
  <1>5. GoodsTypes'
    BY <1>2, <1>4 DEF Goods, GoodsTypes
  <1>6. ItemsConserved'
    BY <1>2, <1>3, <1>5, BalancePlayer DEF Goods
  <1> QED
    BY <1>2, <1>5, <1>6

\* Crafting and eating pay from one slot.
LEMMA CraftGoods ==
  ASSUME Goods, NEW p \in Players, NEW k \in Slots, NEW recipe \in Recipes,
         Craft(p, k, recipe)
  PROVE  Goods'
  <1> DEFINE paid == [inventory[p] EXCEPT ![k] = Less(inventory[p][k], 1)]
             added == AddSlot(paid, recipe.to)
  <1>1. /\ inventory[p][k].item = recipe.of
        /\ PreservesBrewLocks(p, added.slots)
        /\ inventory' = [inventory EXCEPT ![p] = added.slots]
        /\ supply' = Changed(inventory[p], added.slots)
        /\ UNCHANGED <<cursor, brew, block, drops>>
    BY DEF Craft
  <1>2. recipe.of \in Items /\ recipe.to \in Stacks
    BY ItemsAssumption
  <1>3. inventory[p] \in [Slots -> Stacks] /\ inventory[p][k] \in Stacks
    BY DEF Goods, GoodsTypes
  <1>4. inventory[p][k] # Empty /\ inventory[p][k].count \in Nat \ {0}
    BY <1>1, <1>2, <1>3, StackTypes, ItemsAssumption
  <1>5. Less(inventory[p][k], 1) \in Stacks
    BY <1>3, <1>4, LessIs
  <1>6. paid \in [Slots -> Stacks]
    BY <1>3, <1>5
  <1> HIDE DEF paid
  <1>7. InventorySize \in Nat
    BY SizesAssumption
  <1>8. added.slots \in [Slots -> Stacks]
    BY <1>2, <1>6, <1>7, AddSlotIs DEF Slots
  <1> HIDE DEF added
  <1>9. brew' = [q \in Players |-> brew'[q]] /\ \A q \in Players : IsBrew(brew'[q])
    BY <1>1 DEF Goods, GoodsTypes
  <1>10. /\ GoodsTypes' /\ ItemsConserved' /\ inventory'[p] = added.slots
         /\ \A q \in Players : q # p => inventory'[q] = inventory[q]
    BY <1>1, <1>8, <1>9, InventoryStep
  <1>11. ReservationHeld'
    BY <1>1, <1>10, ReservationLocked DEF Goods
  <1> QED
    BY <1>10, <1>11 DEF Goods

LEMMA EatGoods ==
  ASSUME Goods, NEW p \in Players, NEW i \in Edible, Eat(p, i)
  PROVE  Goods'
  <1> DEFINE K == {x \in DOMAIN inventory[p] : inventory[p][x].item = i}
             k == First(K)
             after == [inventory[p] EXCEPT ![k] = Less(inventory[p][k], 1)]
  <1>1. /\ k # 0 /\ PreservesBrewLocks(p, after)
        /\ inventory' = [inventory EXCEPT ![p] = after]
        /\ supply' = Changed(inventory[p], after)
        /\ UNCHANGED <<cursor, brew, block, drops>>
    BY DEF Eat
  <1>2. inventory[p] \in [Slots -> Stacks] /\ InventorySize \in Nat /\ i \in Items
    BY SizesAssumption, ItemsAssumption DEF Goods, GoodsTypes
  <1>3. K \in SUBSET (1..InventorySize)
    BY <1>2 DEF Slots
  <1>4. k \in K
    BY <1>1, <1>2, <1>3, FirstIs
  <1>5. k \in Slots /\ inventory[p][k].item = i /\ inventory[p][k] \in Stacks
    BY <1>2, <1>4
  <1> HIDE DEF k, K
  <1>6. inventory[p][k] # Empty /\ inventory[p][k].count \in Nat \ {0}
    BY <1>2, <1>5, StackTypes, ItemsAssumption
  <1>7. Less(inventory[p][k], 1) \in Stacks
    BY <1>5, <1>6, LessIs
  <1>8. after \in [Slots -> Stacks]
    BY <1>2, <1>7
  <1> HIDE DEF after
  <1>9. brew' = [q \in Players |-> brew'[q]] /\ \A q \in Players : IsBrew(brew'[q])
    BY <1>1 DEF Goods, GoodsTypes
  <1>10. /\ GoodsTypes' /\ ItemsConserved' /\ inventory'[p] = after
         /\ \A q \in Players : q # p => inventory'[q] = inventory[q]
    BY <1>1, <1>8, <1>9, InventoryStep
  <1>11. ReservationHeld'
    BY <1>1, <1>10, ReservationLocked DEF Goods
  <1> QED
    BY <1>10, <1>11 DEF Goods

\* What is added to an inventory only raises what its slots hold.
LEMMA GiveGoods ==
  ASSUME Goods, NEW p \in Players, Give(p)
  PROVE  Goods'
  <1> DEFINE added == AddSlot(inventory[p], Gift)
  <1>1. /\ inventory' = [inventory EXCEPT ![p] = added.slots]
        /\ supply' = Changed(inventory[p], added.slots)
        /\ UNCHANGED <<cursor, brew, block, drops>>
    BY DEF Give
  <1>2. inventory[p] \in [Slots -> Stacks] /\ InventorySize \in Nat /\ Gift \in Stacks
    BY SizesAssumption, ItemsAssumption DEF Goods, GoodsTypes
  <1>3. /\ added.slots \in [Slots -> Stacks]
        /\ \A k \in Slots : inventory[p][k] # Empty =>
             /\ added.slots[k].item = inventory[p][k].item
             /\ added.slots[k].count >= inventory[p][k].count
    BY <1>2, AddSlotIs DEF Slots
  <1> HIDE DEF added
  <1>4. brew' = [q \in Players |-> brew'[q]] /\ \A q \in Players : IsBrew(brew'[q])
    BY <1>1 DEF Goods, GoodsTypes
  <1>5. /\ GoodsTypes' /\ ItemsConserved' /\ inventory'[p] = added.slots
        /\ \A q \in Players : q # p => inventory'[q] = inventory[q]
    BY <1>1, <1>3, <1>4, InventoryStep
  <1>6. ASSUME NEW q \in Players, NEW k \in Reserved(brew'[q])
        PROVE  /\ k \in Reserved(brew[q]) /\ brew'[q].expected[k] = brew[q].expected[k]
               /\ inventory'[q][k].item = inventory[q][k].item
               /\ inventory'[q][k].count >= inventory[q][k].count
    <2>1. k \in Reserved(brew[q]) /\ brew'[q] = brew[q]
      BY <1>1, <1>6
    <2>2. k \in Slots /\ inventory[q][k] \in Stacks /\ inventory[q][k] # Empty
      BY <2>1, ReservedFull
    <2>3. CASE q = p
      BY <1>3, <1>5, <2>1, <2>2, <2>3
    <2>4. CASE q # p
      <3>1. inventory[q][k].count \in Nat
        BY <2>2, StackTypes
      <3> QED
        BY <1>5, <2>1, <2>4, <3>1
    <2> QED
      BY <2>3, <2>4
  <1>7. ReservationHeld'
    BY <1>5, <1>6, ReservationKept DEF Goods
  <1> QED
    BY <1>5, <1>7 DEF Goods

-----------------------------------------------------------------------------
\* What a finished brew makes of the inventory is made of stacks.
LEMMA BrewedIs ==
  ASSUME NEW potion, NEW ingredient, Brewed(potion, ingredient) # NoItem
  PROVE  /\ Brewed(potion, ingredient) \in Items /\ potion \in Items
         /\ MaxStack[potion] =< MaxStack[Brewed(potion, ingredient)]
  <1> DEFINE fits == {b \in Brews : b[1] = potion /\ b[2] = ingredient}
             c == CHOOSE b \in fits : TRUE
  <1>1. fits # {} /\ Brewed(potion, ingredient) = c[3]
    BY DEF Brewed
  <1>2. c \in fits
    BY <1>1
  <1>3. c \in Brews /\ c[1] = potion
    BY <1>2
  <1> HIDE DEF c
  <1>4. {c[1], c[3]} \subseteq Items /\ MaxStack[c[1]] =< MaxStack[c[3]]
    BY <1>3, ItemsAssumption
  <1> QED
    BY <1>1, <1>3, <1>4

LEMMA AfterBrewIs ==
  ASSUME Goods, NEW p \in Players, brew[p] # NoBrew,
         \A k \in Reserved(brew[p]) : inventory[p][k] = brew[p].expected[k]
  PROVE  AfterBrew(inventory[p], brew[p]) \in [Slots -> Stacks]
  <1> DEFINE b == brew[p]
             slots == inventory[p]
             after == AfterBrew(slots, b)
  <1>1. slots \in [Slots -> Stacks] /\ IsBrew(b)
    BY DEF Goods, GoodsTypes
  <1>2. Reserved(b) = {b.ingredient} \union b.bottles /\ Reserved(b) \subseteq Slots
    BY <1>1, ReservedSlots
  <1>3. after = [k \in Slots |->
                  IF k = b.ingredient THEN Less(slots[k], 1)
                  ELSE IF k \in Turned(b)
                    THEN [slots[k] EXCEPT !.item = Brewed(slots[k].item, slots[b.ingredient].item)]
                  ELSE slots[k]]
    BY <1>1 DEF AfterBrew
  <1>4. ASSUME NEW k \in Slots PROVE after[k] \in Stacks
    <2>1. slots[k] \in Stacks
      BY <1>1
    <2>2. CASE k = b.ingredient
      <3>1. slots[k] # Empty
        BY <1>2, <2>2, ReservedFull
      <3>2. slots[k].count \in Nat \ {0}
        BY <2>1, <3>1, StackTypes
      <3>3. Less(slots[k], 1) \in Stacks
        BY <2>1, <3>1, <3>2, LessIs
      <3> QED
        BY <1>3, <2>2, <3>3
    <2>3. CASE k # b.ingredient /\ k \in Turned(b)
      <3> DEFINE j == Brewed(slots[k].item, slots[b.ingredient].item)
      <3>1. k \in b.bottles
        BY <2>3 DEF Turned
      <3>2. k \in Reserved(b) /\ b.ingredient \in Reserved(b)
        BY <1>2, <3>1
      <3>3. slots[k] = b.expected[k] /\ slots[b.ingredient] = b.expected[b.ingredient]
        BY <3>2
      <3>4. j # NoItem
        BY <2>3, <3>3 DEF Turned
      <3>5. j \in Items /\ MaxStack[slots[k].item] =< MaxStack[j]
        BY <3>4, BrewedIs
      <3>6. slots[k] # Empty
        BY <3>2, ReservedFull
      <3> HIDE DEF j
      <3>7. slots[k].item \in Items /\ slots[k].count \in 1..MaxStack[slots[k].item]
        BY <2>1, <3>6, StackTypes
      <3>8. MaxStack[j] \in Nat /\ MaxStack[slots[k].item] \in Nat
        BY <3>5, <3>7, SizesAssumption
      <3>9. slots[k].count \in 1..MaxStack[j]
        BY <3>5, <3>7, <3>8
      <3>10. [slots[k] EXCEPT !.item = j] \in [item : {j}, count : 1..MaxStack[j]]
        <4>1. slots[k] = [item |-> slots[k].item, count |-> slots[k].count]
          BY <2>1 DEF Stacks, Empty
        <4>2. [slots[k] EXCEPT !.item = j] = [item |-> j, count |-> slots[k].count]
          BY <4>1
        <4> QED
          BY <4>2, <3>9
      <3>11. [slots[k] EXCEPT !.item = j] \in Stacks
        BY <3>5, <3>10 DEF Stacks
      <3>12. after[k] = [slots[k] EXCEPT !.item = j]
        BY <1>3, <2>3 DEF j
      <3> QED
        BY <3>11, <3>12
    <2>4. CASE k # b.ingredient /\ k \notin Turned(b)
      BY <1>3, <2>1, <2>4
    <2> QED
      BY <2>2, <2>3, <2>4
  <1> QED
    BY <1>3, <1>4

\* A brew is taken where everything it reserved is still there.
LEMMA TakeBrewGoods ==
  ASSUME Goods, NEW p \in Players, TakeBrew(p)
  PROVE  Goods'
  <1> DEFINE after == AfterBrew(inventory[p], brew[p])
  <1>1. /\ brew[p] # NoBrew
        /\ \A k \in Reserved(brew[p]) : inventory[p][k] = brew[p].expected[k]
        /\ inventory' = [inventory EXCEPT ![p] = after]
        /\ brew' = [brew EXCEPT ![p] = NoBrew]
        /\ supply' = Changed(inventory[p], after)
        /\ UNCHANGED <<cursor, block, drops>>
    BY DEF TakeBrew
  <1>2. after \in [Slots -> Stacks]
    BY <1>1, AfterBrewIs
  <1> HIDE DEF after
  <1>3. IsBrew(NoBrew)
    BY DEF IsBrew
  <1>4. /\ brew' = [q \in Players |-> brew'[q]] /\ \A q \in Players : IsBrew(brew'[q])
        /\ brew'[p] = NoBrew /\ \A q \in Players : q # p => brew'[q] = brew[q]
    BY <1>1, <1>3, BrewTypes DEF Goods, GoodsTypes
  <1>5. /\ GoodsTypes' /\ ItemsConserved' /\ inventory'[p] = after
        /\ \A q \in Players : q # p => inventory'[q] = inventory[q]
    BY <1>1, <1>2, <1>4, InventoryStep
  <1>6. ASSUME NEW q \in Players, NEW k \in Reserved(brew'[q])
        PROVE  /\ k \in Reserved(brew[q]) /\ brew'[q].expected[k] = brew[q].expected[k]
               /\ inventory'[q][k].item = inventory[q][k].item
               /\ inventory'[q][k].count >= inventory[q][k].count
    <2>1. q # p
      BY <1>4, <1>6 DEF Reserved
    <2>2. k \in Reserved(brew[q]) /\ brew'[q] = brew[q] /\ inventory'[q] = inventory[q]
      BY <1>4, <1>5, <1>6, <2>1
    <2>3. inventory[q][k] \in Stacks
      BY <2>2, ReservedFull
    <2>4. inventory[q][k].count \in Nat
      BY <2>3, StackTypes
    <2> QED
      BY <2>2, <2>4
  <1>7. ReservationHeld'
    BY <1>5, <1>6, ReservationKept DEF Goods
  <1> QED
    BY <1>5, <1>7 DEF Goods

-----------------------------------------------------------------------------
\* Steps that change no slot.
LEMMA QuietGoods ==
  ASSUME Goods, UNCHANGED <<inventory, cursor, drops, supply>>,
         brew' = [q \in Players |-> brew'[q]], \A q \in Players : IsBrew(brew'[q]),
         \A q \in Players : brew'[q] = brew[q] \/ brew'[q] = NoBrew,
         block' = [x \in Positions |-> block'[x]],
         \A x \in Positions : block'[x] \in Blocks /\ block'[x].slots = block[x].slots
  PROVE  Goods'
  <1>1. GoodsTypes'
    BY DEF Goods, GoodsTypes
  <1>2. ItemsConserved'
    BY BalanceNone DEF Goods
  <1>3. ReservationHeld'
    BY <1>1, ReservationSame DEF Goods
  <1> QED
    BY <1>1, <1>2, <1>3 DEF Goods

\* Closing a chest leaves its slots.
LEMMA ShutGoods ==
  ASSUME GoodsTypes, NEW p, NEW closed
  PROVE  /\ Shut(p, closed) = [x \in Positions |-> Shut(p, closed)[x]]
         /\ \A x \in Positions : /\ Shut(p, closed)[x] \in Blocks
                                 /\ Shut(p, closed)[x].slots = block[x].slots
                                 /\ Shut(p, closed)[x].kind = block[x].kind
  <1>1. Shut(p, closed) = [x \in Positions |-> Shut(p, closed)[x]]
    BY DEF Shut
  <1>2. ASSUME NEW x \in Positions
        PROVE  /\ Shut(p, closed)[x] \in Blocks
               /\ Shut(p, closed)[x].slots = block[x].slots
               /\ Shut(p, closed)[x].kind = block[x].kind
    <2>1. block[x] \in Blocks
      BY DEF GoodsTypes
    <2>2. /\ [block[x] EXCEPT !.open = FALSE] \in Blocks
          /\ [block[x] EXCEPT !.open = FALSE].slots = block[x].slots
          /\ [block[x] EXCEPT !.open = FALSE].kind = block[x].kind
      BY <2>1, BlockSetOpen
    <2>3. Shut(p, closed)[x] = block[x] \/ Shut(p, closed)[x] = [block[x] EXCEPT !.open = FALSE]
      BY DEF Shut
    <2> QED
      BY <2>1, <2>2, <2>3
  <1> QED
    BY <1>1, <1>2

\* What a step leaves alone keeps its type.
LEMMA BrewUnchanged ==
  ASSUME GoodsTypes, brew' = brew
  PROVE  /\ brew' = [q \in Players |-> brew'[q]] /\ \A q \in Players : IsBrew(brew'[q])
         /\ \A q \in Players : brew'[q] = brew[q] \/ brew'[q] = NoBrew
  BY DEF GoodsTypes

LEMMA BlockUnchanged ==
  ASSUME GoodsTypes, block' = block
  PROVE  /\ block' = [x \in Positions |-> block'[x]]
         /\ \A x \in Positions : block'[x] \in Blocks /\ block'[x].slots = block[x].slots
  BY DEF GoodsTypes

\* Views end, and nothing moves.
LEMMA DepartedGoods ==
  ASSUME Goods, NEW p \in Players, NEW closed, Departed(p, closed),
         UNCHANGED <<session, drops, ghosts>>
  PROVE  Goods'
  <1>1. UNCHANGED <<inventory, cursor, brew, drops, supply>> /\ block' = Shut(p, closed)
    BY DEF Departed, session, ghosts
  <1>2. GoodsTypes
    BY DEF Goods
  <1>3. /\ block' = [x \in Positions |-> block'[x]]
        /\ \A x \in Positions : block'[x] \in Blocks /\ block'[x].slots = block[x].slots
    BY <1>1, <1>2, ShutGoods
  <1> QED
    BY <1>1, <1>2, <1>3, BrewUnchanged, QuietGoods

LEMMA LeaveGoods ==
  ASSUME Goods, NEW p \in Players, Leave(p)
  PROVE  Goods'
  <1>1. /\ UNCHANGED <<inventory, cursor, drops, supply>> /\ block' = Shut(p, Positions)
        /\ brew' = [brew EXCEPT ![p] = NoBrew]
    BY DEF Leave, ghosts
  <1>2. GoodsTypes /\ IsBrew(NoBrew)
    BY DEF Goods, IsBrew
  <1>3. /\ block' = [x \in Positions |-> block'[x]]
        /\ \A x \in Positions : block'[x] \in Blocks /\ block'[x].slots = block[x].slots
    BY <1>1, <1>2, ShutGoods
  <1>4. /\ brew' = [q \in Players |-> brew'[q]] /\ \A q \in Players : IsBrew(brew'[q])
        /\ brew'[p] = NoBrew /\ \A q \in Players : q # p => brew'[q] = brew[q]
    BY <1>1, <1>2, BrewTypes DEF GoodsTypes
  <1> QED
    BY <1>1, <1>3, <1>4, QuietGoods

LEMMA OpenGoods ==
  ASSUME Goods, NEW p \in Players, NEW pos \in Positions, Open(p, pos)
  PROVE  Goods'
  <1> DEFINE others == tracked[p] \ {pos}
             shut == Shut(p, others)
             chest == block[pos].kind = "chest" /\ viewers[pos] = {}
  <1>1. /\ UNCHANGED <<inventory, cursor, brew, drops, supply>>
        /\ block' = IF chest THEN [shut EXCEPT ![pos].open = TRUE] ELSE shut
    BY DEF Open, session, ghosts
  <1>2. GoodsTypes
    BY DEF Goods
  <1>3. /\ shut = [x \in Positions |-> shut[x]]
        /\ \A x \in Positions : /\ shut[x] \in Blocks /\ shut[x].slots = block[x].slots
                                /\ shut[x].kind = block[x].kind
    <2>1. shut = [x \in Positions |-> shut[x]]
      BY DEF Shut
    <2>2. ASSUME NEW x \in Positions
          PROVE  /\ shut[x] \in Blocks /\ shut[x].slots = block[x].slots
                 /\ shut[x].kind = block[x].kind
      <3>1. block[x] \in Blocks
        BY <1>2 DEF GoodsTypes
      <3>2. /\ [block[x] EXCEPT !.open = FALSE] \in Blocks
            /\ [block[x] EXCEPT !.open = FALSE].slots = block[x].slots
            /\ [block[x] EXCEPT !.open = FALSE].kind = block[x].kind
        BY <3>1, BlockSetOpen
      <3>3. shut[x] = block[x] \/ shut[x] = [block[x] EXCEPT !.open = FALSE]
        BY DEF Shut
      <3> QED
        BY <3>1, <3>2, <3>3
    <2> QED
      BY <2>1, <2>2
  <1> HIDE DEF shut
  <1>4. ASSUME NEW x \in Positions
        PROVE  block'[x] = IF x = pos /\ chest THEN [shut[x] EXCEPT !.open = TRUE] ELSE shut[x]
    BY <1>1, <1>3
  <1>5. block' = [x \in Positions |-> block'[x]]
    <2>1. CASE chest
      BY <1>1, <1>3, <2>1
    <2>2. CASE ~chest
      BY <1>1, <1>3, <2>2
    <2> QED
      BY <2>1, <2>2
  <1>6. ASSUME NEW x \in Positions
        PROVE  block'[x] \in Blocks /\ block'[x].slots = block[x].slots
    <2>1. shut[x] \in Blocks /\ shut[x].slots = block[x].slots
      BY <1>3
    <2>2. CASE x = pos /\ chest
      <3>1. shut[x].kind = "chest"
        BY <1>3, <2>2
      <3>2. /\ [shut[x] EXCEPT !.open = TRUE] \in Blocks
            /\ [shut[x] EXCEPT !.open = TRUE].slots = shut[x].slots
        BY <2>1, <3>1, BlockSetOpen
      <3> QED
        BY <1>4, <2>1, <2>2, <3>2
    <2>3. CASE ~(x = pos /\ chest)
      BY <1>4, <2>1, <2>3
    <2> QED
      BY <2>2, <2>3
  <1> QED
    BY <1>1, <1>2, <1>5, <1>6, BrewUnchanged, QuietGoods

LEMMA CloseGoneGoods ==
  ASSUME Goods, CloseGone
  PROVE  Goods'
  <1>1. /\ UNCHANGED <<inventory, cursor, brew, drops, supply>>
        /\ block' = [x \in Positions |->
             IF /\ block[x].kind = "chest"
                /\ viewers[x] # {} /\ viewers[x] \subseteq Gone(x)
               THEN [block[x] EXCEPT !.open = FALSE] ELSE block[x]]
    BY DEF CloseGone, session, ghosts
  <1>2. GoodsTypes
    BY DEF Goods
  <1>3. ASSUME NEW x \in Positions
        PROVE  block'[x] \in Blocks /\ block'[x].slots = block[x].slots
    <2>1. block[x] \in Blocks
      BY <1>2 DEF GoodsTypes
    <2>2. /\ [block[x] EXCEPT !.open = FALSE] \in Blocks
          /\ [block[x] EXCEPT !.open = FALSE].slots = block[x].slots
      BY <2>1, BlockSetOpen
    <2>3. block'[x] = block[x] \/ block'[x] = [block[x] EXCEPT !.open = FALSE]
      BY <1>1
    <2> QED
      BY <2>1, <2>2, <2>3
  <1>4. block' = [x \in Positions |-> block'[x]]
    BY <1>1
  <1> QED
    BY <1>1, <1>2, <1>3, <1>4, BrewUnchanged, QuietGoods

\* A brew gets ready, is cancelled or starts.
LEMMA BrewReady ==
  ASSUME NEW b, IsBrew(b), b # NoBrew, NEW v \in BOOLEAN
  PROVE  [b EXCEPT !.ready = v] = [ingredient |-> b.ingredient, bottles |-> b.bottles,
                                   expected |-> b.expected, ready |-> v]
  <1>1. b = [ingredient |-> b.ingredient, bottles |-> b.bottles,
             expected |-> b.expected, ready |-> b.ready]
    BY DEF IsBrew
  <1> QED
    BY <1>1

LEMMA TickBrewGoods ==
  ASSUME Goods, NEW p \in Players, TickBrew(p)
  PROVE  Goods'
  <1>1. UNCHANGED <<inventory, cursor, block, drops, supply>> /\ brew[p] # NoBrew
    BY DEF TickBrew, ghosts
  <1>2. GoodsTypes /\ IsBrew(NoBrew) /\ IsBrew(brew[p])
    BY DEF Goods, GoodsTypes, IsBrew
  <1>3. CASE brew' = [brew EXCEPT ![p] = NoBrew]
    <2>1. /\ brew' = [q \in Players |-> brew'[q]] /\ \A q \in Players : IsBrew(brew'[q])
          /\ brew'[p] = NoBrew /\ \A q \in Players : q # p => brew'[q] = brew[q]
      BY <1>2, <1>3, BrewTypes DEF GoodsTypes
    <2> QED
      BY <1>1, <1>2, <2>1, BlockUnchanged, QuietGoods
  <1>4. CASE brew' = [brew EXCEPT ![p].ready = TRUE]
    <2> DEFINE b == [brew[p] EXCEPT !.ready = TRUE]
    <2>1. b = [ingredient |-> brew[p].ingredient, bottles |-> brew[p].bottles,
               expected |-> brew[p].expected, ready |-> TRUE]
      BY <1>1, <1>2, BrewReady
    <2>2. IsBrew(b) /\ b # NoBrew /\ b.expected = brew[p].expected
      BY <1>1, <1>2, <2>1 DEF IsBrew, NoBrew
    <2>3. Reserved(b) = Reserved(brew[p])
      BY <1>1, <2>1, <2>2 DEF Reserved
    <2>4. brew' = [brew EXCEPT ![p] = b]
      BY <1>4
    <2> HIDE DEF b
    <2>5. /\ brew' = [q \in Players |-> brew'[q]] /\ \A q \in Players : IsBrew(brew'[q])
          /\ brew'[p] = b /\ \A q \in Players : q # p => brew'[q] = brew[q]
      BY <1>2, <2>2, <2>4, BrewTypes DEF GoodsTypes
    <2>6. GoodsTypes'
      BY <1>1, <1>2, <2>5 DEF GoodsTypes
    <2>7. ItemsConserved'
      BY <1>1, BalanceNone DEF Goods
    <2>8. ASSUME NEW q \in Players, NEW k \in Reserved(brew'[q])
          PROVE  /\ k \in Reserved(brew[q]) /\ brew'[q].expected[k] = brew[q].expected[k]
                 /\ inventory'[q][k].item = inventory[q][k].item
                 /\ inventory'[q][k].count >= inventory[q][k].count
      <3>1. k \in Reserved(brew[q]) /\ brew'[q].expected[k] = brew[q].expected[k]
        BY <2>2, <2>3, <2>5, <2>8
      <3>2. inventory[q][k] \in Stacks
        BY <3>1, ReservedFull
      <3> QED
        BY <1>1, <3>1, <3>2, StackTypes
    <2>9. ReservationHeld'
      BY <1>2, <2>6, <2>8, ReservationKept DEF Goods
    <2> QED
      BY <2>6, <2>7, <2>9 DEF Goods
  <1> QED
    BY <1>3, <1>4 DEF TickBrew

LEMMA CancelBrewGoods ==
  ASSUME Goods, NEW p \in Players, CancelBrew(p)
  PROVE  Goods'
  <1>1. UNCHANGED <<inventory, cursor, block, drops, supply>>
    BY DEF CancelBrew, ghosts
  <1>2. GoodsTypes /\ IsBrew(NoBrew) /\ brew' = [brew EXCEPT ![p] = NoBrew]
    BY DEF Goods, IsBrew, CancelBrew
  <1>3. /\ brew' = [q \in Players |-> brew'[q]] /\ \A q \in Players : IsBrew(brew'[q])
        /\ brew'[p] = NoBrew /\ \A q \in Players : q # p => brew'[q] = brew[q]
    BY <1>2, BrewTypes DEF GoodsTypes
  <1> QED
    BY <1>1, <1>2, <1>3, BlockUnchanged, QuietGoods

LEMMA StartBrewGoods ==
  ASSUME Goods, NEW p \in Players, NEW k \in Slots, NEW bottles \in SUBSET Slots,
         StartBrew(p, k, bottles)
  PROVE  Goods'
  <1> DEFINE e == [i \in {k} \union bottles |-> inventory[p][i]]
             b == [ingredient |-> k, bottles |-> bottles, ready |-> FALSE, expected |-> e]
  <1>1. /\ inventory[p][k] # Empty /\ \A i \in bottles : inventory[p][i].item \in Potions
        /\ brew' = [brew EXCEPT ![p] = b]
        /\ UNCHANGED <<inventory, cursor, block, drops, supply>>
    BY DEF StartBrew
  <1>2. GoodsTypes /\ inventory[p] \in [Slots -> Stacks]
    BY DEF Goods, GoodsTypes
  <1>3. \A i \in {k} \union bottles : inventory[p][i] \in Stacks \ {Empty}
    <2>1. \A i \in bottles : inventory[p][i].item # NoItem
      BY <1>1, ItemsAssumption
    <2> QED
      BY <1>1, <1>2, <2>1, StackTypes
  <1>4. e \in [{k} \union bottles -> Stacks \ {Empty}]
    BY <1>3
  <1>5. b.ingredient = k /\ b.bottles = bottles /\ b.expected = e /\ b.ready = FALSE
    OBVIOUS
  <1>6. IsBrew(b) /\ Reserved(b) = {k} \union bottles
    <2>1. b = [ingredient |-> b.ingredient, bottles |-> b.bottles,
               expected |-> b.expected, ready |-> b.ready]
      OBVIOUS
    <2>2. b # NoBrew
      <3>1. b.ingredient # 0
        BY SizesAssumption DEF Slots
      <3>2. NoBrew.ingredient = 0
        BY DEF NoBrew
      <3> QED
        BY <3>1, <3>2
    <2> HIDE DEF b
    <2>3. IsBrew(b)
      BY <1>4, <1>5, <2>1 DEF IsBrew
    <2> QED
      BY <1>5, <2>2, <2>3 DEF Reserved
  <1> HIDE DEF b
  <1>7. /\ brew' = [q \in Players |-> brew'[q]] /\ \A q \in Players : IsBrew(brew'[q])
        /\ brew'[p] = b /\ \A q \in Players : q # p => brew'[q] = brew[q]
    BY <1>1, <1>2, <1>6, BrewTypes DEF GoodsTypes
  <1>8. GoodsTypes'
    BY <1>1, <1>2, <1>7 DEF GoodsTypes
  <1>9. ItemsConserved'
    BY <1>1, BalanceNone DEF Goods
  <1>10. ASSUME NEW q \in Players, NEW i \in Reserved(brew'[q])
         PROVE  /\ inventory'[q][i].item = brew'[q].expected[i].item
                /\ inventory'[q][i].count >= brew'[q].expected[i].count
    <2>1. CASE q = p
      <3>1. i \in {k} \union bottles /\ brew'[q].expected[i] = inventory[p][i]
        BY <1>5, <1>6, <1>7, <1>10, <2>1
      <3>2. inventory[p][i].count \in Nat
        BY <1>3, <3>1, StackTypes
      <3> QED
        BY <1>1, <2>1, <3>1, <3>2
    <2>2. CASE q # p
      <3>1. brew'[q] = brew[q] /\ i \in Reserved(brew[q])
        BY <1>7, <1>10, <2>2
      <3> QED
        BY <1>1, <3>1 DEF Goods, ReservationHeld
    <2> QED
      BY <2>1, <2>2
  <1>11. ReservationHeld'
    BY <1>10 DEF ReservationHeld
  <1> QED
    BY <1>8, <1>9, <1>11 DEF Goods

-----------------------------------------------------------------------------
\* The slots of one block are written.
LEMMA BlockStep ==
  ASSUME GoodsTypes, NEW x \in Positions,
         NEW s \in [1..SlotCount(block[x].kind) -> Stacks],
         block' = [block EXCEPT ![x] = [block[x] EXCEPT !.slots = s]]
  PROVE  /\ block' \in [Positions -> Blocks] /\ block'[x].slots = s
         /\ \A z \in Positions : z # x => block'[z] = block[z]
  <1>1. block \in [Positions -> Blocks] /\ block[x] \in Blocks
    BY DEF GoodsTypes
  <1>2. [block[x] EXCEPT !.slots = s] \in Blocks /\ [block[x] EXCEPT !.slots = s].slots = s
    BY <1>1, BlockWrite
  <1> QED
    BY <1>1, <1>2

\* The slots of a block and what they hold.
LEMMA SlotsOf ==
  ASSUME GoodsTypes, NEW x \in Positions
  PROVE  /\ SlotCount(block[x].kind) \in Nat /\ block[x] \in Blocks
         /\ block[x].slots \in [1..SlotCount(block[x].kind) -> Stacks]
         /\ drops[x] \in Seq(Stacks \ {Empty})
  <1>1. block[x] \in Blocks /\ drops[x] \in Seq(Stacks \ {Empty})
    BY DEF GoodsTypes
  <1> QED
    BY <1>1, BlockIs

LEMMA SlotCounts ==
  ASSUME GoodsTypes, NEW x \in Positions, NEW s \in [1..SlotCount(block[x].kind) -> Stacks],
         NEW i \in Items
  PROVE  CountIn(s, i) \in Int /\ CountIn(drops[x], i) \in Int
  <1>1. SlotCount(block[x].kind) \in Nat /\ block[x] \in Blocks
        /\ drops[x] \in Seq(Stacks \ {Empty})
    BY SlotsOf
  <1>2. CountIn(s, i) \in Int
    BY <1>1, CountIs
  <1>3. CountIn(drops[x], i) \in Int
    BY <1>1, LyingTypes
  <1> QED
    BY <1>2, <1>3

\* A click moves items between a slot, a cursor and an inventory.
LEMMA ClickGoods ==
  ASSUME Goods, NEW p \in Players, NEW pos \in Positions, NEW k \in DOMAIN block[pos].slots,
         NEW isLeft \in BOOLEAN, NEW from \in Slots \union {0}, Click(p, pos, k, isLeft, from)
  PROVE  Goods'
  <1> DEFINE picked == from # 0
             slot == block[pos].slots[k]
             held == IF picked THEN inventory[p][from] ELSE cursor[p]
             left == IF picked THEN [inventory[p] EXCEPT ![from] = Empty] ELSE inventory[p]
             result == Clicked(slot, held, isLeft)
             extract == cursor[p] = Empty /\ ~picked
             added == IF extract THEN AddSlot(left, result[2]) ELSE [slots |-> left, left |-> 0]
             rest == IF extract THEN Empty ELSE result[2]
             s == [block[pos].slots EXCEPT ![k] = result[1]]
  <1>1. /\ picked => cursor[p] = Empty
        /\ added.left = 0 /\ PreservesBrewLocks(p, added.slots)
        /\ inventory' = [inventory EXCEPT ![p] = added.slots]
        /\ cursor' = [cursor EXCEPT ![p] = rest]
        /\ block' = [block EXCEPT ![pos] = [block[pos] EXCEPT !.slots = s]]
        /\ UNCHANGED <<brew, drops, supply>>
    BY DEF Click
  <1>2. /\ GoodsTypes /\ inventory \in [Players -> [Slots -> Stacks]]
        /\ cursor \in [Players -> Stacks] /\ supply \in [Items -> Int]
    BY DEF Goods, GoodsTypes
  <1>3. inventory[p] \in [Slots -> Stacks] /\ cursor[p] \in Stacks /\ InventorySize \in Nat
    BY <1>2, SizesAssumption
  <1>4. picked => from \in Slots
    OBVIOUS
  <1>5. held \in Stacks /\ left \in [Slots -> Stacks]
    BY <1>3, <1>4, StackTypes
  <1>6. /\ SlotCount(block[pos].kind) \in Nat
        /\ block[pos].slots \in [1..SlotCount(block[pos].kind) -> Stacks]
    BY <1>2, SlotsOf
  <1>7. k \in 1..SlotCount(block[pos].kind) /\ slot \in Stacks
    BY <1>6
  <1>8. ASSUME NEW i \in Items PROVE Units(Empty, i) = 0
    BY ItemsAssumption DEF Units, Empty
  <1>9. ASSUME NEW i \in Items
        PROVE  CountIn(left, i) + Units(held, i)
                 = CountIn(inventory[p], i) + (IF picked THEN 0 ELSE Units(cursor[p], i))
    <2>1. CountIn(inventory[p], i) \in Int /\ Units(held, i) \in Nat
      BY <1>3, <1>5, CarriedByType
    <2>2. CASE picked
      <3>1. CountIn(left, i) = CountIn(inventory[p], i)
              + (Units(Empty, i) - Units(inventory[p][from], i))
        BY <1>3, <1>4, <2>2, StackTypes, CountWrite DEF Slots
      <3>2. held = inventory[p][from]
        BY <2>2
      <3> HIDE DEF left, held
      <3> QED
        BY <1>8, <2>1, <2>2, <3>1, <3>2
    <2>3. CASE ~picked
      <3>1. left = inventory[p] /\ held = cursor[p]
        BY <2>3
      <3> QED
        BY <2>3, <3>1
    <2> QED
      BY <2>2, <2>3
  <1>10. ~picked => held = cursor[p]
    OBVIOUS
  <1> HIDE DEF held, left, slot
  <1>11. /\ result[1] \in Stacks /\ result[2] \in Stacks
         /\ \A i \in Items : Units(result[1], i) + Units(result[2], i)
                               = Units(slot, i) + Units(held, i)
    BY <1>5, <1>7, ClickedIs
  <1> HIDE DEF result
  <1>12. /\ s \in [1..SlotCount(block[pos].kind) -> Stacks]
         /\ \A i \in Items : CountIn(s, i) = CountIn(block[pos].slots, i)
                               + (Units(result[1], i) - Units(slot, i))
    BY <1>6, <1>7, <1>11, CountWrite DEF slot
  <1>13. rest \in Stacks
    BY <1>11, StackTypes
  <1>14. /\ added.slots \in [Slots -> Stacks]
         /\ \A i \in Items : CountIn(added.slots, i) + Units(rest, i)
                               = CountIn(left, i) + Units(result[2], i)
    <2>1. CASE extract
      <3>1. /\ AddSlot(left, result[2]).slots \in [Slots -> Stacks]
            /\ AddSlot(left, result[2]).left = 0 => \A i \in Items :
                 CountIn(AddSlot(left, result[2]).slots, i)
                   = CountIn(left, i) + Units(result[2], i)
        BY <1>3, <1>5, <1>11, AddSlotIs DEF Slots
      <3>2. added = AddSlot(left, result[2]) /\ rest = Empty
        BY <2>1
      <3> HIDE DEF added, rest
      <3>3. ASSUME NEW i \in Items
            PROVE  CountIn(added.slots, i) + Units(rest, i) = CountIn(left, i) + Units(result[2], i)
        <4>1. Units(rest, i) = 0
          BY <1>8, <3>2
        <4>2. CountIn(added.slots, i) = CountIn(left, i) + Units(result[2], i)
          BY <1>1, <3>1, <3>2
        <4>3. CountIn(left, i) \in Int /\ Units(result[2], i) \in Nat
          BY <1>5, <1>11, CarriedByType
        <4> QED
          BY <4>1, <4>2, <4>3
      <3> QED
        BY <3>1, <3>2, <3>3
    <2>2. CASE ~extract
      <3>1. added.slots = left /\ rest = result[2]
        BY <2>2
      <3> QED
        BY <1>5, <3>1
    <2> QED
      BY <2>1, <2>2
  <1>15. extract => picked \/ cursor[p] = Empty
    OBVIOUS
  <1> HIDE DEF added, rest, s, extract
  <1>16. /\ block' \in [Positions -> Blocks] /\ block'[pos].slots = s
         /\ \A z \in Positions : z # pos => block'[z] = block[z]
    BY <1>1, <1>2, <1>12, BlockStep
  <1>17. /\ inventory' \in [Players -> [Slots -> Stacks]] /\ inventory'[p] = added.slots
         /\ cursor' \in [Players -> Stacks] /\ cursor'[p] = rest
         /\ \A q \in Players : q # p => inventory'[q] = inventory[q] /\ cursor'[q] = cursor[q]
    BY <1>1, <1>2, <1>13, <1>14
  <1>18. GoodsTypes'
    BY <1>1, <1>2, <1>16, <1>17 DEF GoodsTypes
  <1>19. ASSUME NEW i \in Items
         PROVE  supply'[i] = supply[i]
           + (CarriedBy(cursor'[p], inventory'[p], i) - CarriedBy(cursor[p], inventory[p], i))
           + (LyingAt(block'[pos], drops'[pos], i) - LyingAt(block[pos], drops[pos], i))
    <2>1. /\ Units(cursor[p], i) \in Nat /\ CountIn(inventory[p], i) \in Int
          /\ Units(rest, i) \in Nat /\ CountIn(added.slots, i) \in Int
          /\ Units(held, i) \in Nat /\ CountIn(left, i) \in Int
      BY <1>3, <1>5, <1>13, <1>14, CarriedByType
    <2>2. /\ Units(result[1], i) \in Nat /\ Units(result[2], i) \in Nat /\ Units(slot, i) \in Nat
      BY <1>7, <1>11, UnitsType
    <2>3. CountIn(block[pos].slots, i) \in Int /\ CountIn(drops[pos], i) \in Int
      BY <1>2, <1>6, SlotCounts
    <2>4. supply[i] \in Int /\ supply'[i] = supply[i]
      BY <1>1, <1>2
    <2>5. CountIn(left, i) + Units(held, i) = CountIn(inventory[p], i) + Units(cursor[p], i)
      <3>1. CASE picked
        BY <1>1, <1>8, <1>9, <2>1, <3>1
      <3>2. CASE ~picked
        BY <1>9, <3>2
      <3> QED
        BY <3>1, <3>2
    <2>6. CountIn(added.slots, i) + Units(rest, i) = CountIn(left, i) + Units(result[2], i)
      BY <1>14
    <2>7. Units(result[1], i) + Units(result[2], i) = Units(slot, i) + Units(held, i)
      BY <1>11
    <2>8. CountIn(s, i) = CountIn(block[pos].slots, i) + (Units(result[1], i) - Units(slot, i))
      BY <1>12
    <2>9. CarriedBy(cursor'[p], inventory'[p], i) = Units(rest, i) + CountIn(added.slots, i)
      BY <1>17 DEF CarriedBy
    <2>10. CarriedBy(cursor[p], inventory[p], i) = Units(cursor[p], i) + CountIn(inventory[p], i)
      BY DEF CarriedBy
    <2>11. LyingAt(block'[pos], drops'[pos], i) = CountIn(s, i) + CountIn(drops[pos], i)
      BY <1>1, <1>16 DEF LyingAt
    <2>12. LyingAt(block[pos], drops[pos], i)
             = CountIn(block[pos].slots, i) + CountIn(drops[pos], i)
      BY DEF LyingAt
    <2>13. CarriedBy(cursor'[p], inventory'[p], i) - CarriedBy(cursor[p], inventory[p], i)
             = Units(result[2], i) - Units(held, i)
      BY <2>1, <2>2, <2>5, <2>6, <2>9, <2>10
    <2>14. LyingAt(block'[pos], drops'[pos], i) - LyingAt(block[pos], drops[pos], i)
             = Units(result[1], i) - Units(slot, i)
      BY <2>2, <2>3, <2>8, <2>11, <2>12
    <2> QED
      BY <2>1, <2>2, <2>4, <2>7, <2>13, <2>14
  <1>20. \A z \in Positions, i \in Items : z # pos =>
           LyingAt(block'[z], drops'[z], i) = LyingAt(block[z], drops[z], i)
    BY <1>1, <1>16
  <1>21. ItemsConserved'
    BY <1>2, <1>17, <1>18, <1>19, <1>20, BalanceOne DEF Goods
  <1>22. ReservationHeld'
    BY <1>1, <1>17, <1>18, ReservationLocked DEF Goods
  <1> QED
    BY <1>18, <1>21, <1>22 DEF Goods

\* What is taken from a furnace is the player's or, when refused, used up.
LEMMA TakeOutputGoods ==
  ASSUME Goods, NEW p \in Players, NEW pos \in Positions, NEW n \in 1..Output(pos),
         TakeOutput(p, pos, n)
  PROVE  Goods'
  <1> DEFINE output == block[pos].slots[3]
             added == AddSlot(inventory[p], Stack(output.item, n))
             keeps == PreservesBrewLocks(p, added.slots)
             after == IF keeps THEN added.slots ELSE inventory[p]
             s == [block[pos].slots EXCEPT ![3] = Less(output, n)]
  <1>1. /\ block[pos].kind = "furnace" /\ added.left = 0
        /\ block' = [block EXCEPT ![pos] = [block[pos] EXCEPT !.slots = s]]
        /\ inventory' = [inventory EXCEPT ![p] = after]
        /\ supply' = IF keeps THEN supply
                     ELSE [supply EXCEPT ![output.item] = supply[output.item] - n]
        /\ UNCHANGED <<cursor, brew, drops>>
    BY DEF TakeOutput
  <1>2. /\ GoodsTypes /\ inventory \in [Players -> [Slots -> Stacks]]
        /\ cursor \in [Players -> Stacks] /\ supply \in [Items -> Int]
    BY DEF Goods, GoodsTypes
  <1>3. inventory[p] \in [Slots -> Stacks] /\ cursor[p] \in Stacks /\ InventorySize \in Nat
    BY <1>2, SizesAssumption
  <1>4. SlotCount(block[pos].kind) = 3 /\ block[pos].slots \in [1..3 -> Stacks]
    <2>1. SlotCount("furnace") = 3
      BY DEF SlotCount
    <2> QED
      BY <1>1, <1>2, <2>1, SlotsOf
  <1>5. output \in Stacks /\ n \in 1..output.count
    BY <1>1, <1>4 DEF Output
  <1>6. output # Empty /\ output.count \in Nat /\ output.item \in Items
    BY <1>5, StackTypes
  <1> HIDE DEF output
  <1>7. /\ Less(output, n) \in Stacks /\ Stack(output.item, n) \in Stacks
        /\ \A i \in Items :
             /\ Units(Less(output, n), i) = Units(output, i) - (IF i = output.item THEN n ELSE 0)
             /\ Units(Stack(output.item, n), i) = IF i = output.item THEN n ELSE 0
    BY <1>5, <1>6, LessIs
  <1>8. /\ s \in [1..3 -> Stacks]
        /\ \A i \in Items : CountIn(s, i) = CountIn(block[pos].slots, i)
                              + (Units(Less(output, n), i) - Units(output, i))
    <2> DEFINE old == block[pos].slots
               less == Less(output, n)
    <2>1. old \in [1..3 -> Stacks] /\ less \in Stacks /\ 3 \in 1..3 /\ old[3] = output
      BY <1>4, <1>7 DEF output
    <2>2. s = [old EXCEPT ![3] = less]
      OBVIOUS
    <2> HIDE DEF old, less, s
    <2>3. s \in [1..3 -> Stacks] /\ s[3] = less /\ \A j \in 1..3 : j # 3 => s[j] = old[j]
      BY <2>1, <2>2
    <2>4. ASSUME NEW i \in Items
          PROVE  CountIn(s, i) = CountIn(old, i) + (Units(less, i) - Units(output, i))
      <3>1. PICK n3 \in Nat : n3 = 3
        OBVIOUS
      <3>2. /\ old \in [1..n3 -> Stacks] /\ s \in [1..n3 -> Stacks] /\ n3 \in 1..n3
            /\ \A j \in 1..n3 : j # n3 => s[j] = old[j]
        BY <2>1, <2>3, <3>1
      <3>3. CountIn(s, i) = CountIn(old, i) + (Units(s[n3], i) - Units(old[n3], i))
        BY <3>2, CountWritten
      <3>4. s[n3] = less /\ old[n3] = output
        BY <2>1, <2>3, <3>1
      <3> QED
        BY <3>3, <3>4
    <2> QED
      BY <2>3, <2>4 DEF old, less
  <1>9. /\ added.slots \in [Slots -> Stacks]
        /\ \A i \in Items : CountIn(added.slots, i)
             = CountIn(inventory[p], i) + Units(Stack(output.item, n), i)
    BY <1>1, <1>3, <1>7, AddSlotIs DEF Slots
  <1> HIDE DEF added, keeps
  <1>10. after \in [Slots -> Stacks]
    BY <1>3, <1>9
  <1>11. ASSUME NEW i \in Items
         PROVE  /\ supply'[i] \in Int
                /\ supply'[i] + (IF i = output.item THEN n ELSE 0)
                     = supply[i] + (CountIn(after, i) - CountIn(inventory[p], i))
    <2>1. CountIn(inventory[p], i) \in Int /\ supply[i] \in Int /\ n \in Int
      BY <1>2, <1>3, <1>5, <1>6, CarriedByType
    <2>2. CASE keeps
      <3>1. after = added.slots /\ supply'[i] = supply[i]
        BY <1>1, <2>2
      <3>2. CountIn(added.slots, i) = CountIn(inventory[p], i) + (IF i = output.item THEN n ELSE 0)
        BY <1>7, <1>9
      <3> QED
        BY <2>1, <3>1, <3>2
    <2>3. CASE ~keeps
      <3>1. after = inventory[p]
            /\ supply'[i] = IF i = output.item THEN supply[i] - n ELSE supply[i]
        BY <1>1, <1>2, <2>3
      <3> QED
        BY <2>1, <3>1
    <2> QED
      BY <2>2, <2>3
  <1>12. supply' \in [Items -> Int]
    <2>1. CASE keeps
      BY <1>1, <1>2, <2>1
    <2>2. CASE ~keeps
      <3>1. supply[output.item] - n \in Int
        BY <1>2, <1>5, <1>6
      <3> QED
        BY <1>1, <1>2, <2>2, <3>1
    <2> QED
      BY <2>1, <2>2
  <1>13. PreservesBrewLocks(p, after)
    BY DEF PreservesBrewLocks, keeps
  <1> HIDE DEF after, s
  <1>14. /\ block' \in [Positions -> Blocks] /\ block'[pos].slots = s
         /\ \A z \in Positions : z # pos => block'[z] = block[z]
    BY <1>1, <1>2, <1>4, <1>8, BlockStep
  <1>15. /\ inventory' \in [Players -> [Slots -> Stacks]] /\ inventory'[p] = after
         /\ \A q \in Players : q # p => inventory'[q] = inventory[q]
    BY <1>1, <1>2, <1>10
  <1>16. GoodsTypes'
    BY <1>1, <1>2, <1>12, <1>14, <1>15 DEF GoodsTypes
  <1>17. ASSUME NEW i \in Items
         PROVE  supply'[i] = supply[i]
           + (CarriedBy(cursor'[p], inventory'[p], i) - CarriedBy(cursor[p], inventory[p], i))
           + (LyingAt(block'[pos], drops'[pos], i) - LyingAt(block[pos], drops[pos], i))
    <2> DEFINE m == IF i = output.item THEN n ELSE 0
    <2>1. /\ Units(cursor[p], i) \in Nat /\ CountIn(inventory[p], i) \in Int
          /\ CountIn(after, i) \in Int
      BY <1>3, <1>10, CarriedByType
    <2>2. CountIn(block[pos].slots, i) \in Int /\ CountIn(drops[pos], i) \in Int
      BY <1>2, <1>4, SlotCounts
    <2>3. supply[i] \in Int /\ supply'[i] \in Int /\ m \in Int /\ Units(output, i) \in Nat
      BY <1>2, <1>5, <1>6, <1>11, UnitsType
    <2>4. supply'[i] + m = supply[i] + (CountIn(after, i) - CountIn(inventory[p], i))
      BY <1>11
    <2>5. CountIn(s, i) = CountIn(block[pos].slots, i) + (Units(Less(output, n), i) - Units(output, i))
      BY <1>8
    <2>6. Units(Less(output, n), i) = Units(output, i) - m
      BY <1>7
    <2>7. CarriedBy(cursor'[p], inventory'[p], i) = Units(cursor[p], i) + CountIn(after, i)
      BY <1>1, <1>15 DEF CarriedBy
    <2>8. CarriedBy(cursor[p], inventory[p], i) = Units(cursor[p], i) + CountIn(inventory[p], i)
      BY DEF CarriedBy
    <2>9. LyingAt(block'[pos], drops'[pos], i) = CountIn(s, i) + CountIn(drops[pos], i)
      BY <1>1, <1>14 DEF LyingAt
    <2>10. LyingAt(block[pos], drops[pos], i)
             = CountIn(block[pos].slots, i) + CountIn(drops[pos], i)
      BY DEF LyingAt
    <2> HIDE DEF m
    <2> QED
      BY <2>1, <2>2, <2>3, <2>4, <2>5, <2>6, <2>7, <2>8, <2>9, <2>10
  <1>18. \A z \in Positions, i \in Items : z # pos =>
           LyingAt(block'[z], drops'[z], i) = LyingAt(block[z], drops[z], i)
    BY <1>1, <1>14
  <1>19. ItemsConserved'
    BY <1>1, <1>15, <1>16, <1>17, <1>18, BalanceOne DEF Goods
  <1>20. ReservationHeld'
    BY <1>1, <1>13, <1>15, <1>16, ReservationLocked DEF Goods
  <1> QED
    BY <1>16, <1>19, <1>20 DEF Goods

\* A step at one position that leaves the players alone.
LEMMA PositionStep ==
  ASSUME Goods, NEW x \in Positions, UNCHANGED <<inventory, cursor, brew>>,
         block' \in [Positions -> Blocks], drops' \in [Positions -> Seq(Stacks \ {Empty})],
         supply' \in [Items -> Int],
         \A z \in Positions : z # x => block'[z] = block[z] /\ drops'[z] = drops[z],
         \A i \in Items : supply'[i] = supply[i]
           + (LyingAt(block'[x], drops'[x], i) - LyingAt(block[x], drops[x], i))
  PROVE  Goods'
  <1>1. GoodsTypes'
    BY DEF Goods, GoodsTypes
  <1>2. ItemsConserved'
    BY <1>1, BalancePosition DEF Goods
  <1>3. ReservationHeld'
    BY <1>1, ReservationSame DEF Goods
  <1> QED
    BY <1>1, <1>2, <1>3 DEF Goods

\* Empty slots hold nothing.
LEMMA NoSlots ==
  ASSUME NEW n \in Nat, NEW s \in [1..n -> Stacks], \A k \in 1..n : s[k] = Empty, NEW i \in Items
  PROVE  CountIn(s, i) = 0
  <1> DEFINE c == [k \in 1..n |-> Units(s[k], i)]
  <1>1. c \in [1..n -> Int] /\ CountIn(s, i) = Total(c)
    BY CountIs
  <1>2. \A k \in 1..n : c[k] = 0
    BY ItemsAssumption DEF Units, Empty
  <1> HIDE DEF c
  <1> QED
    BY <1>1, <1>2, TotalOfZeros

\* What a broken container held is dropped, and a placed one is empty.
LEMMA MineGoods ==
  ASSUME Goods, NEW pos \in Positions, Mine(pos)
  PROVE  Goods'
  <1> DEFINE old == block[pos].slots
             loose == Loose(old)
  <1>1. /\ drops' = [drops EXCEPT ![pos] = drops[pos] \o loose]
        /\ block' = [block EXCEPT ![pos] = Air]
        /\ UNCHANGED <<inventory, cursor, brew, supply>>
    BY DEF Mine, session
  <1>2. GoodsTypes /\ block \in [Positions -> Blocks]
        /\ drops \in [Positions -> Seq(Stacks \ {Empty})] /\ supply \in [Items -> Int]
    BY DEF Goods, GoodsTypes
  <1>3. /\ SlotCount(block[pos].kind) \in Nat
        /\ old \in [1..SlotCount(block[pos].kind) -> Stacks]
        /\ drops[pos] \in Seq(Stacks \ {Empty})
    BY <1>2, SlotsOf
  <1>4. /\ loose \in Seq(Stacks \ {Empty})
        /\ \A i \in Items : CountIn(loose, i) = CountIn(old, i)
    BY <1>3, LooseIs
  <1> HIDE DEF loose
  <1>5. Air \in Blocks /\ Air.slots = <<>>
    <2>1. "air" \in Kinds /\ SlotCount("air") = 0
      BY DEF Kinds, SlotCount
    <2>2. <<>> \in [1..SlotCount("air") -> Stacks]
      BY <2>1
    <2>3. [kind |-> "air", slots |-> <<>>, open |-> FALSE] \in Blocks
      BY <2>1, <2>2, MakeBlock
    <2> QED
      BY <2>3 DEF Air
  <1>6. drops[pos] \o loose \in Seq(Stacks \ {Empty})
    BY <1>3, <1>4, ConcatProperties
  <1>7. /\ block' \in [Positions -> Blocks] /\ block'[pos] = Air
        /\ drops' \in [Positions -> Seq(Stacks \ {Empty})] /\ drops'[pos] = drops[pos] \o loose
        /\ \A z \in Positions : z # pos => block'[z] = block[z] /\ drops'[z] = drops[z]
    BY <1>1, <1>2, <1>5, <1>6
  <1>8. ASSUME NEW i \in Items
        PROVE  supply'[i] = supply[i]
          + (LyingAt(block'[pos], drops'[pos], i) - LyingAt(block[pos], drops[pos], i))
    <2>1. loose \in Seq(Stacks) /\ drops[pos] \in Seq(Stacks)
      BY <1>3, <1>4, SeqMonotonic
    <2>2. CountIn(drops[pos] \o loose, i) = CountIn(drops[pos], i) + CountIn(old, i)
      BY <1>4, <2>1, CountConcat
    <2>3. CountIn(<<>>, i) = 0
      BY CountNone
    <2>4. CountIn(old, i) \in Int /\ CountIn(drops[pos], i) \in Int /\ supply[i] \in Int
      BY <1>2, <1>3, SlotCounts
    <2>5. LyingAt(block'[pos], drops'[pos], i) = CountIn(drops[pos], i) + CountIn(old, i)
      BY <1>5, <1>7, <2>2, <2>3, <2>4 DEF LyingAt
    <2>6. LyingAt(block[pos], drops[pos], i) = CountIn(old, i) + CountIn(drops[pos], i)
      BY DEF LyingAt
    <2> QED
      BY <1>1, <2>4, <2>5, <2>6
  <1> QED
    BY <1>1, <1>2, <1>7, <1>8, PositionStep

LEMMA PlaceGoods ==
  ASSUME Goods, NEW pos \in Positions, Place(pos)
  PROVE  Goods'
  <1> DEFINE kind == KindAt[pos]
             s == [k \in 1..SlotCount(kind) |-> Empty]
             old == block[pos].slots
  <1>1. /\ block[pos].kind = "air"
        /\ block' = [block EXCEPT ![pos] = Placed(kind)]
        /\ UNCHANGED <<inventory, cursor, brew, drops, supply>>
    BY DEF Place, session
  <1>2. GoodsTypes /\ block \in [Positions -> Blocks]
        /\ drops \in [Positions -> Seq(Stacks \ {Empty})] /\ supply \in [Items -> Int]
    BY DEF Goods, GoodsTypes
  <1>3. kind \in Kinds /\ SlotCount(kind) \in Nat
    BY StartsAssumption, SizesAssumption DEF SlotCount
  <1>4. old \in [1..0 -> Stacks]
    <2>1. SlotCount("air") = 0
      BY DEF SlotCount
    <2> QED
      BY <1>1, <1>2, <2>1, SlotsOf
  <1>5. s \in [1..SlotCount(kind) -> Stacks] /\ \A k \in 1..SlotCount(kind) : s[k] = Empty
    BY StackTypes
  <1> HIDE DEF s
  <1>6. Placed(kind) \in Blocks /\ Placed(kind).slots = s
    <2>1. [kind |-> kind, slots |-> s, open |-> FALSE] \in Blocks
      BY <1>3, <1>5, MakeBlock
    <2> QED
      BY <2>1 DEF Placed, s
  <1> HIDE DEF kind
  <1>7. /\ block' \in [Positions -> Blocks] /\ block'[pos].slots = s
        /\ \A z \in Positions : z # pos => block'[z] = block[z]
    BY <1>1, <1>2, <1>6
  <1>8. ASSUME NEW i \in Items
        PROVE  supply'[i] = supply[i]
          + (LyingAt(block'[pos], drops'[pos], i) - LyingAt(block[pos], drops[pos], i))
    <2>1. CountIn(s, i) = 0
      BY <1>3, <1>5, NoSlots
    <2>2. CountIn(old, i) = 0
      BY <1>4, NoSlots
    <2>3. CountIn(drops[pos], i) \in Int /\ supply[i] \in Int
      BY <1>2, SlotsOf, SlotCounts
    <2> QED
      BY <1>1, <1>7, <2>1, <2>2, <2>3 DEF LyingAt
  <1> QED
    BY <1>1, <1>2, <1>7, <1>8, PositionStep

-----------------------------------------------------------------------------
\* What fire takes and makes is used up and made.
LEMMA FurnaceTickGoods ==
  ASSUME Goods, NEW pos \in Positions, NEW burns \in BOOLEAN, NEW done \in BOOLEAN,
         FurnaceTick(pos, burns, done)
  PROVE  Goods'
  <1> DEFINE old == block[pos].slots
             fuelled == Fuelled(pos)
             less2 == Less(old[2], 1)
             fed == IF fuelled THEN [old EXCEPT ![2] = less2] ELSE old
             to == Smelts[old[1].item]
             less1 == Less(fed[1], 1)
             more == Stack(to, fed[3].count + 1)
             new == IF done THEN [fed EXCEPT ![1] = less1, ![3] = more] ELSE fed
  <1>1. /\ block[pos].kind = "furnace" /\ (done => CanSmelt(old))
        /\ block' = [block EXCEPT ![pos] = [block[pos] EXCEPT !.slots = new]]
        /\ supply' = Changed(old, new)
        /\ UNCHANGED <<inventory, cursor, brew, drops>>
    BY DEF FurnaceTick, session
  <1>2. GoodsTypes /\ block \in [Positions -> Blocks]
        /\ drops \in [Positions -> Seq(Stacks \ {Empty})] /\ supply \in [Items -> Int]
    BY DEF Goods, GoodsTypes
  <1>3. SlotCount(block[pos].kind) = 3 /\ old \in [1..3 -> Stacks]
    <2>1. SlotCount("furnace") = 3
      BY DEF SlotCount
    <2> QED
      BY <1>1, <1>2, <2>1, SlotsOf
  <1>4. old[1] \in Stacks /\ old[2] \in Stacks /\ old[3] \in Stacks
    BY <1>3
  <1>5. fuelled => less2 \in Stacks
    <2> SUFFICES ASSUME fuelled PROVE less2 \in Stacks
      OBVIOUS
    <2>1. old[2].item \in Fuel
      BY DEF Fuelled
    <2>2. old[2] # Empty /\ old[2].count \in Nat \ {0}
      BY <1>4, <2>1, StackTypes, ItemsAssumption
    <2>3. less2 \in Stacks
      BY <1>4, <2>2, LessIs
    <2> QED
      BY <2>3
  <1>6. fed \in [1..3 -> Stacks] /\ fed[1] = old[1] /\ fed[3] = old[3]
    BY <1>3, <1>5
  <1> HIDE DEF fed
  <1>7. done => less1 \in Stacks /\ more \in Stacks
    <2> SUFFICES ASSUME done PROVE less1 \in Stacks /\ more \in Stacks
      OBVIOUS
    <2>1. old[1] # Empty /\ to # NoItem /\ Room(old[3], Stack(to, 1)) > 0
      BY <1>1, ItemsAssumption DEF CanSmelt, Empty
    <2>2. old[1].item \in Items /\ old[1].count \in Nat \ {0}
      BY <1>4, <2>1, StackTypes
    <2>3. to \in Items /\ MaxStack[to] \in Nat \ {0}
      BY <2>1, <2>2, ItemsAssumption, SizesAssumption
    <2>4. less1 \in Stacks
      BY <1>4, <1>6, <2>1, <2>2, LessIs
    <2> HIDE DEF to
    <2>5. 1 \in 0..MaxStack[to]
      BY <2>3
    <2>6. Stack(to, 1).item = to
      BY <2>3, <2>5, StackTypes
    <2>7. old[3].count + 1 \in 0..MaxStack[to]
      <3>1. CASE old[3] = Empty
        BY <2>3, <3>1, StackTypes
      <3>2. CASE old[3] # Empty
        <4>1. old[3].count \in Nat
          BY <1>4, StackTypes
        <4>2. old[3].item = to /\ MaxStack[to] - old[3].count > 0
          BY <2>1, <2>6, <3>2 DEF Room
        <4> QED
          BY <2>3, <4>1, <4>2
      <3> QED
        BY <3>1, <3>2
    <2>8. more \in Stacks
      BY <1>6, <2>3, <2>7, StackTypes
    <2> QED
      BY <2>4, <2>8
  <1> HIDE DEF less1, more
  <1>8. new \in [1..3 -> Stacks]
    BY <1>6, <1>7
  <1> HIDE DEF new
  <1>9. /\ block' \in [Positions -> Blocks] /\ block'[pos].slots = new
        /\ \A z \in Positions : z # pos => block'[z] = block[z]
    BY <1>1, <1>2, <1>3, <1>8, BlockStep
  <1>10. ASSUME NEW i \in Items
         PROVE  /\ supply'[i] \in Int
                /\ supply'[i] = supply[i]
                     + (LyingAt(block'[pos], drops'[pos], i) - LyingAt(block[pos], drops[pos], i))
    <2>1. CountIn(old, i) \in Int /\ CountIn(drops[pos], i) \in Int
      BY <1>2, <1>3, SlotCounts
    <2>2. CountIn(new, i) \in Int
      BY <1>2, <1>3, <1>8, SlotCounts
    <2>3. supply[i] \in Int /\ supply'[i] = supply[i] + CountIn(new, i) - CountIn(old, i)
      BY <1>1, <1>2 DEF Changed
    <2>4. LyingAt(block'[pos], drops'[pos], i) = CountIn(new, i) + CountIn(drops[pos], i)
      BY <1>1, <1>9 DEF LyingAt
    <2>5. LyingAt(block[pos], drops[pos], i) = CountIn(old, i) + CountIn(drops[pos], i)
      BY DEF LyingAt
    <2> HIDE DEF old
    <2> QED
      BY <2>1, <2>2, <2>3, <2>4, <2>5
  <1>11. supply' \in [Items -> Int]
    BY <1>1, <1>10 DEF Changed
  <1> QED
    BY <1>1, <1>2, <1>9, <1>10, <1>11, PositionStep

-----------------------------------------------------------------------------
\* The slot a unit goes to has room for it.
LEMMA OneMoreIs ==
  ASSUME NEW n \in Nat, NEW slots \in [1..n -> Stacks], NEW i \in Items,
         NEW taking \in SUBSET (1..n), SlotFor(slots, i, taking) # 0
  PROVE  LET more == OneMore(slots, SlotFor(slots, i, taking), i) IN
         /\ more \in [1..n -> Stacks]
         /\ \A j \in Items : CountIn(more, j) = CountIn(slots, j) + (IF j = i THEN 1 ELSE 0)
  <1> DEFINE L == {k \in taking : slots[k].item = i /\ slots[k].count < MaxStack[i]}
             F == {k \in taking : slots[k] = Empty}
             k == SlotFor(slots, i, taking)
             s == Stack(i, slots[k].count + 1)
             more == [slots EXCEPT ![k] = s]
  <1>1. L \in SUBSET (1..n) /\ F \in SUBSET (1..n)
    OBVIOUS
  <1>2. k \in L \/ k \in F
    <2>1. First(L) # 0 => First(L) \in L
      BY <1>1, FirstIs
    <2>2. First(F) # 0 => First(F) \in F
      BY <1>1, FirstIs
    <2>3. k = IF First(L) # 0 THEN First(L) ELSE First(F)
      BY DEF SlotFor
    <2> QED
      BY <2>1, <2>2, <2>3
  <1>3. MaxStack[i] \in Nat \ {0} /\ k \in 1..n
    BY <1>1, <1>2, SizesAssumption
  <1> HIDE DEF k
  <1>4. slots[k] \in Stacks /\ slots[k].count \in Nat
    BY <1>3, StackTypes
  <1>5. slots[k].count + 1 \in 0..MaxStack[i]
    <2>1. CASE k \in L
      BY <1>3, <1>4, <2>1
    <2>2. CASE k \in F
      BY <1>3, <2>2, StackTypes
    <2> QED
      BY <1>2, <2>1, <2>2
  <1>6. s \in Stacks
    BY <1>5, StackTypes
  <1>7. ASSUME NEW j \in Items
        PROVE  Units(s, j) - Units(slots[k], j) = IF j = i THEN 1 ELSE 0
    <2>1. Units(s, j) = IF j = i THEN slots[k].count + 1 ELSE 0
      BY <1>5, UnitsOfStack
    <2>2. CASE k \in L
      <3>1. Units(slots[k], j) = IF j = i THEN slots[k].count ELSE 0
        BY <2>2 DEF Units
      <3> QED
        BY <1>4, <2>1, <3>1
    <2>3. CASE k \in F
      <3>1. slots[k].count = 0 /\ Units(slots[k], j) = 0
        BY <2>3, ItemsAssumption DEF Units, Empty
      <3> QED
        BY <2>1, <3>1
    <2> QED
      BY <1>2, <2>2, <2>3
  <1> HIDE DEF s
  <1>8. more \in [1..n -> Stacks] /\ more[k] = s /\ \A j \in 1..n : j # k => more[j] = slots[j]
    BY <1>3, <1>6
  <1> HIDE DEF more
  <1>9. ASSUME NEW j \in Items
        PROVE  CountIn(more, j) = CountIn(slots, j) + (IF j = i THEN 1 ELSE 0)
    <2>1. CountIn(more, j) = CountIn(slots, j) + (Units(more[k], j) - Units(slots[k], j))
      BY <1>3, <1>8, CountWritten
    <2> QED
      BY <1>7, <1>8, <2>1
  <1>10. OneMore(slots, SlotFor(slots, i, taking), i) = more
    BY DEF OneMore, more, s, k
  <1> QED
    BY <1>8, <1>9, <1>10

\* The same for the slot of a block.
LEMMA TargetIs ==
  ASSUME GoodsTypes, NEW x \in Positions, NEW i \in Items, NEW side, TargetSlot(x, side, i) # 0
  PROVE  LET more == OneMore(block[x].slots, TargetSlot(x, side, i), i) IN
         /\ more \in [1..SlotCount(block[x].kind) -> Stacks]
         /\ \A j \in Items : CountIn(more, j)
              = CountIn(block[x].slots, j) + (IF j = i THEN 1 ELSE 0)
  <1> DEFINE slots == block[x].slots
             taking == {k \in DOMAIN slots : CanInsert(block[x].kind, k, i, side)}
  <1>1. SlotCount(block[x].kind) \in Nat /\ slots \in [1..SlotCount(block[x].kind) -> Stacks]
    BY SlotsOf
  <1>2. taking \in SUBSET (1..SlotCount(block[x].kind))
    BY <1>1
  <1>3. TargetSlot(x, side, i) = SlotFor(slots, i, taking)
    BY DEF TargetSlot
  <1> HIDE DEF taking, slots
  <1>4. SlotFor(slots, i, taking) # 0
    BY <1>3
  <1>5. /\ OneMore(slots, SlotFor(slots, i, taking), i) \in [1..SlotCount(block[x].kind) -> Stacks]
        /\ \A j \in Items : CountIn(OneMore(slots, SlotFor(slots, i, taking), i), j)
             = CountIn(slots, j) + (IF j = i THEN 1 ELSE 0)
    BY <1>1, <1>2, <1>4, OneMoreIs
  <1> QED
    BY <1>3, <1>5 DEF slots

\* A unit leaves one block and reaches another.
LEMMA TransferGoods ==
  ASSUME Goods, NEW from \in Positions, NEW to \in Positions, from # to, NEW side,
         CanTransfer(from, to, side), Transfer(from, to, side),
         UNCHANGED <<drops, session, ghosts>>
  PROVE  Goods'
  <1> DEFINE K == {x \in DOMAIN block[from].slots :
                     CanExtract(block[from].kind, x) /\ block[from].slots[x] # Empty}
             k == SourceSlot(from)
             old == block[from].slots
             i == old[k].item
             less == Less(old[k], 1)
             paid == [old EXCEPT ![k] = less]
             more == OneMore(block[to].slots, TargetSlot(to, side, i), i)
  <1>1. /\ block' = [block EXCEPT ![from] = [block[from] EXCEPT !.slots = paid],
                                  ![to] = [block[to] EXCEPT !.slots = more]]
        /\ k # 0 /\ TargetSlot(to, side, i) # 0
        /\ UNCHANGED <<inventory, cursor, brew, drops, supply>>
    BY DEF Transfer, CanTransfer, session, ghosts
  <1>2. GoodsTypes /\ block \in [Positions -> Blocks]
        /\ drops \in [Positions -> Seq(Stacks \ {Empty})] /\ supply \in [Items -> Int]
    BY DEF Goods, GoodsTypes
  <1>3. SlotCount(block[from].kind) \in Nat /\ old \in [1..SlotCount(block[from].kind) -> Stacks]
    BY <1>2, SlotsOf
  <1>4. k \in K
    <2>1. K \in SUBSET (1..SlotCount(block[from].kind))
      BY <1>3
    <2>2. First(K) # 0 => First(K) \in K
      BY <1>3, <2>1, FirstIs
    <2> QED
      BY <1>1, <2>2 DEF SourceSlot
  <1>5. k \in 1..SlotCount(block[from].kind) /\ old[k] \in Stacks /\ old[k] # Empty
    BY <1>3, <1>4
  <1> HIDE DEF k, K
  <1>6. i \in Items /\ old[k].count \in Nat \ {0}
    BY <1>5, StackTypes
  <1>7. /\ less \in Stacks
        /\ \A j \in Items : Units(less, j) = Units(old[k], j) - (IF j = i THEN 1 ELSE 0)
    BY <1>5, <1>6, LessIs
  <1> HIDE DEF less
  <1>8. /\ paid \in [1..SlotCount(block[from].kind) -> Stacks] /\ paid[k] = less
        /\ \A j \in 1..SlotCount(block[from].kind) : j # k => paid[j] = old[j]
    BY <1>3, <1>5, <1>7
  <1> HIDE DEF paid
  <1>9. ASSUME NEW j \in Items
        PROVE  CountIn(paid, j) = CountIn(old, j) - (IF j = i THEN 1 ELSE 0)
    <2>1. CountIn(paid, j) = CountIn(old, j) + (Units(paid[k], j) - Units(old[k], j))
      BY <1>3, <1>5, <1>8, CountWritten
    <2>2. Units(old[k], j) \in Nat /\ CountIn(old, j) \in Int
      BY <1>2, <1>3, <1>5, UnitsType, SlotCounts
    <2> QED
      BY <1>7, <1>8, <2>1, <2>2
  <1> HIDE DEF i
  <1>10. /\ more \in [1..SlotCount(block[to].kind) -> Stacks]
         /\ \A j \in Items : CountIn(more, j)
              = CountIn(block[to].slots, j) + (IF j = i THEN 1 ELSE 0)
    BY <1>1, <1>2, <1>6, TargetIs
  <1> HIDE DEF more
  <1>11. /\ [block[from] EXCEPT !.slots = paid] \in Blocks
         /\ [block[from] EXCEPT !.slots = paid].slots = paid
    BY <1>2, <1>8, BlockWrite
  <1>12. /\ [block[to] EXCEPT !.slots = more] \in Blocks
         /\ [block[to] EXCEPT !.slots = more].slots = more
    BY <1>2, <1>10, BlockWrite
  <1>13. /\ block' \in [Positions -> Blocks]
         /\ block'[from].slots = paid /\ block'[to].slots = more
         /\ \A z \in Positions : z # from /\ z # to => block'[z] = block[z]
    BY <1>1, <1>2, <1>11, <1>12
  <1>14. GoodsTypes'
    BY <1>1, <1>2, <1>13 DEF GoodsTypes
  <1>15. ASSUME NEW j \in Items
         PROVE  LyingAt(block'[from], drops'[from], j) + LyingAt(block'[to], drops'[to], j)
                  = LyingAt(block[from], drops[from], j) + LyingAt(block[to], drops[to], j)
    <2> DEFINE one == IF j = i THEN 1 ELSE 0
    <2>1. /\ CountIn(old, j) \in Int /\ CountIn(drops[from], j) \in Int
          /\ CountIn(block[to].slots, j) \in Int /\ CountIn(drops[to], j) \in Int
      BY <1>2, SlotsOf, SlotCounts
    <2>2. LyingAt(block'[from], drops'[from], j) = (CountIn(old, j) - one) + CountIn(drops[from], j)
      BY <1>1, <1>9, <1>13 DEF LyingAt
    <2>3. LyingAt(block'[to], drops'[to], j)
            = (CountIn(block[to].slots, j) + one) + CountIn(drops[to], j)
      BY <1>1, <1>10, <1>13 DEF LyingAt
    <2>4. LyingAt(block[from], drops[from], j) = CountIn(old, j) + CountIn(drops[from], j)
      BY DEF LyingAt
    <2>5. LyingAt(block[to], drops[to], j) = CountIn(block[to].slots, j) + CountIn(drops[to], j)
      BY DEF LyingAt
    <2>6. one \in Int
      OBVIOUS
    <2> HIDE DEF one, old
    <2> QED
      BY <2>1, <2>2, <2>3, <2>4, <2>5, <2>6
  <1>16. \A z \in Positions, j \in Items : z # from /\ z # to =>
           LyingAt(block'[z], drops'[z], j) = LyingAt(block[z], drops[z], j)
    BY <1>1, <1>13
  <1>17. ItemsConserved'
    BY <1>1, <1>14, <1>15, <1>16, BalanceTwo DEF Goods
  <1>18. ReservationHeld'
    BY <1>1, <1>14, ReservationSame DEF Goods
  <1> QED
    BY <1>14, <1>17, <1>18 DEF Goods

\* What a queue of drops holds, by its first drop.
LEMMA DropsHead ==
  ASSUME NEW d \in Seq(Stacks \ {Empty}), d # <<>>
  PROVE  /\ Head(d) \in Stacks \ {Empty} /\ Tail(d) \in Seq(Stacks \ {Empty})
         /\ \A j \in Items : CountIn(d, j) = Units(Head(d), j) + CountIn(Tail(d), j)
  <1>1. Head(d) \in Stacks \ {Empty} /\ Tail(d) \in Seq(Stacks \ {Empty})
    BY HeadTailProperties
  <1>4. d = <<Head(d)>> \o Tail(d)
    <2> DEFINE q == <<Head(d)>> \o Tail(d)
    <2>1. <<Head(d)>> \in Seq(Stacks \ {Empty}) /\ Len(<<Head(d)>>) = 1
      BY <1>1
    <2>2. q \in Seq(Stacks \ {Empty}) /\ Len(q) = 1 + Len(Tail(d))
      BY <1>1, <2>1, ConcatProperties
    <2>3. Len(d) \in Nat \ {0} /\ Len(Tail(d)) = Len(d) - 1
      BY HeadTailProperties, EmptySeq, LenProperties
    <2>4. \A k \in 1..Len(d) : q[k] = d[k]
      <3>1. q[1] = d[1]
        BY <1>1, <2>1, ConcatProperties
      <3>2. ASSUME NEW k \in 2..Len(d) PROVE q[k] = d[k]
        <4>1. k - 1 \in 1..Len(Tail(d)) /\ k \in 1..(1 + Len(Tail(d))) /\ k > 1
          BY <2>3
        <4>2. q[k] = Tail(d)[k - 1]
          BY <1>1, <2>1, <4>1, ConcatProperties
        <4>3. Tail(d)[k - 1] = d[(k - 1) + 1]
          BY <4>1, HeadTailProperties
        <4> QED
          BY <4>1, <4>2, <4>3
      <3> QED
        BY <2>3, <3>1, <3>2
    <2> HIDE DEF q
    <2>5. Len(q) = Len(d)
      BY <2>2, <2>3
    <2>6. q = d
      BY <2>2, <2>4, <2>5, SeqEqual
    <2> QED
      BY <2>6 DEF q
  <1>2. Tail(d) \in Seq(Stacks)
    BY <1>1, SeqMonotonic
  <1>3. ASSUME NEW j \in Items
        PROVE  CountIn(d, j) = Units(Head(d), j) + CountIn(Tail(d), j)
    <2>1. <<Head(d)>> \in Seq(Stacks) /\ CountIn(<<Head(d)>>, j) = Units(Head(d), j)
      BY <1>1, CountOne
    <2>2. CountIn(<<Head(d)>> \o Tail(d), j) = CountIn(<<Head(d)>>, j) + CountIn(Tail(d), j)
      BY <1>2, <2>1, CountConcat
    <2> QED
      BY <1>4, <2>1, <2>2
  <1> QED
    BY <1>1, <1>3

\* A unit of a dropped stack reaches a hopper.
LEMMA PickUpGoods ==
  ASSUME Goods, NEW pos \in Positions, PickUp(pos), UNCHANGED <<session, ghosts>>
  PROVE  Goods'
  <1> DEFINE above == Above[pos]
             d == drops[above]
             drop == Head(d)
             i == drop.item
             less == Less(drop, 1)
             e == IF drop.count = 1 THEN Tail(d) ELSE <<less>> \o Tail(d)
             more == OneMore(block[pos].slots, TargetSlot(pos, "up", i), i)
  <1>1. /\ above \in Positions /\ d # <<>> /\ TargetSlot(pos, "up", i) # 0
        /\ block' = [block EXCEPT ![pos] = [block[pos] EXCEPT !.slots = more]]
        /\ drops' = [drops EXCEPT ![above] = e]
        /\ UNCHANGED <<inventory, cursor, brew, supply>>
    BY DEF PickUp, session, ghosts
  <1>2. GoodsTypes /\ block \in [Positions -> Blocks]
        /\ drops \in [Positions -> Seq(Stacks \ {Empty})] /\ supply \in [Items -> Int]
    BY DEF Goods, GoodsTypes
  <1>3. above # pos
    BY PlacesAssumption
  <1> HIDE DEF above
  <1>4. d \in Seq(Stacks \ {Empty})
    BY <1>1, <1>2
  <1> HIDE DEF d
  <1>5. /\ drop \in Stacks \ {Empty} /\ Tail(d) \in Seq(Stacks \ {Empty})
        /\ \A j \in Items : CountIn(d, j) = Units(drop, j) + CountIn(Tail(d), j)
    BY <1>1, <1>4, DropsHead
  <1> HIDE DEF drop
  <1>6. i \in Items /\ drop.count \in Nat \ {0} /\ drop.count \in 1..MaxStack[i]
    BY <1>5, StackTypes
  <1>7. /\ less \in Stacks
        /\ \A j \in Items : Units(less, j) = Units(drop, j) - (IF j = i THEN 1 ELSE 0)
    BY <1>5, <1>6, LessIs
  <1>8. drop.count # 1 => less # Empty
    <2> SUFFICES ASSUME drop.count # 1 PROVE less # Empty
      OBVIOUS
    <2>1. drop.count - 1 \in 0..MaxStack[i] /\ drop.count - 1 # 0
      BY <1>6, SizesAssumption
    <2> QED
      BY <1>6, <2>1, StackTypes DEF Less
  <1> HIDE DEF less
  <1>9. ASSUME NEW j \in Items
        PROVE  CountIn(d, j) \in Int /\ CountIn(Tail(d), j) \in Int
    <2>1. d \in Seq(Stacks) /\ Tail(d) \in Seq(Stacks)
      BY <1>4, <1>5, SeqMonotonic
    <2>2. Len(d) \in Nat /\ d \in [1..Len(d) -> Stacks]
      BY <2>1, LenProperties
    <2>3. Len(Tail(d)) \in Nat /\ Tail(d) \in [1..Len(Tail(d)) -> Stacks]
      BY <2>1, LenProperties
    <2>4. CountIn(d, j) \in Int
      BY <2>2, CountIs
    <2>5. CountIn(Tail(d), j) \in Int
      BY <2>3, CountIs
    <2> QED
      BY <2>4, <2>5
  <1>10. /\ e \in Seq(Stacks \ {Empty})
         /\ \A j \in Items : CountIn(e, j) = CountIn(d, j) - (IF j = i THEN 1 ELSE 0)
    <2>1. CASE drop.count = 1
      <3>1. e = Tail(d)
        BY <2>1
      <3>2. ASSUME NEW j \in Items
            PROVE  CountIn(e, j) = CountIn(d, j) - (IF j = i THEN 1 ELSE 0)
        <4>1. Units(drop, j) = IF j = i THEN 1 ELSE 0
          BY <2>1 DEF Units
        <4>2. CountIn(d, j) = Units(drop, j) + CountIn(Tail(d), j)
          BY <1>5
        <4>3. CountIn(e, j) = CountIn(Tail(d), j)
          BY <3>1
        <4> HIDE DEF e, i
        <4> QED
          BY <1>9, <4>1, <4>2, <4>3
      <3> QED
        BY <1>5, <3>1, <3>2
    <2>2. CASE drop.count # 1
      <3>1. e = <<less>> \o Tail(d) /\ less \in Stacks \ {Empty}
        BY <1>7, <1>8, <2>2
      <3>2. <<less>> \in Seq(Stacks \ {Empty}) /\ Tail(d) \in Seq(Stacks)
        BY <1>5, <3>1, SeqMonotonic
      <3>3. e \in Seq(Stacks \ {Empty})
        BY <1>5, <3>1, <3>2, ConcatProperties
      <3>4. ASSUME NEW j \in Items
            PROVE  CountIn(e, j) = CountIn(d, j) - (IF j = i THEN 1 ELSE 0)
        <4>1. <<less>> \in Seq(Stacks) /\ CountIn(<<less>>, j) = Units(less, j)
          BY <1>7, CountOne
        <4>2. CountIn(<<less>> \o Tail(d), j) = CountIn(<<less>>, j) + CountIn(Tail(d), j)
          BY <3>2, <4>1, CountConcat
        <4>3. CountIn(d, j) = Units(drop, j) + CountIn(Tail(d), j)
          BY <1>5
        <4>4. Units(drop, j) \in Nat
          BY <1>5, UnitsType
        <4>5. Units(less, j) = Units(drop, j) - (IF j = i THEN 1 ELSE 0)
          BY <1>7
        <4>6. CountIn(e, j) = Units(less, j) + CountIn(Tail(d), j)
          BY <3>1, <4>1, <4>2
        <4> HIDE DEF e, i
        <4> QED
          BY <1>9, <4>3, <4>4, <4>5, <4>6
      <3> QED
        BY <3>3, <3>4
    <2> QED
      BY <2>1, <2>2
  <1> HIDE DEF e, i
  <1>11. /\ more \in [1..SlotCount(block[pos].kind) -> Stacks]
         /\ \A j \in Items : CountIn(more, j)
              = CountIn(block[pos].slots, j) + (IF j = i THEN 1 ELSE 0)
    BY <1>1, <1>2, <1>6, TargetIs
  <1> HIDE DEF more
  <1>12. /\ block' \in [Positions -> Blocks] /\ block'[pos].slots = more
         /\ \A z \in Positions : z # pos => block'[z] = block[z]
    BY <1>1, <1>2, <1>11, BlockStep
  <1>13. /\ drops' \in [Positions -> Seq(Stacks \ {Empty})] /\ drops'[above] = e
         /\ \A z \in Positions : z # above => drops'[z] = drops[z]
    BY <1>1, <1>2, <1>10
  <1>14. GoodsTypes'
    BY <1>1, <1>2, <1>12, <1>13 DEF GoodsTypes
  <1>15. ASSUME NEW j \in Items
         PROVE  LyingAt(block'[above], drops'[above], j) + LyingAt(block'[pos], drops'[pos], j)
                  = LyingAt(block[above], drops[above], j) + LyingAt(block[pos], drops[pos], j)
    <2> DEFINE one == IF j = i THEN 1 ELSE 0
    <2>1. /\ CountIn(block[above].slots, j) \in Int /\ CountIn(d, j) \in Int
          /\ CountIn(block[pos].slots, j) \in Int /\ CountIn(drops[pos], j) \in Int
      BY <1>1, <1>2, <1>9, SlotsOf, SlotCounts
    <2>2. LyingAt(block'[above], drops'[above], j)
            = CountIn(block[above].slots, j) + (CountIn(d, j) - one)
      BY <1>1, <1>3, <1>10, <1>12, <1>13 DEF LyingAt
    <2>3. LyingAt(block'[pos], drops'[pos], j)
            = (CountIn(block[pos].slots, j) + one) + CountIn(drops[pos], j)
      BY <1>3, <1>11, <1>12, <1>13 DEF LyingAt
    <2>4. LyingAt(block[above], drops[above], j) = CountIn(block[above].slots, j) + CountIn(d, j)
      BY DEF LyingAt, d
    <2>5. LyingAt(block[pos], drops[pos], j)
            = CountIn(block[pos].slots, j) + CountIn(drops[pos], j)
      BY DEF LyingAt
    <2>6. one \in Int
      OBVIOUS
    <2> HIDE DEF one
    <2> QED
      BY <2>1, <2>2, <2>3, <2>4, <2>5, <2>6
  <1>16. \A z \in Positions, j \in Items : z # above /\ z # pos =>
           LyingAt(block'[z], drops'[z], j) = LyingAt(block[z], drops[z], j)
    BY <1>12, <1>13
  <1>17. ItemsConserved'
    BY <1>1, <1>3, <1>14, <1>15, <1>16, BalanceTwo DEF Goods
  <1>18. ReservationHeld'
    BY <1>1, <1>14, ReservationSame DEF Goods
  <1> QED
    BY <1>14, <1>17, <1>18 DEF Goods

\* A hopper pushes, pulls or picks up.
LEMMA HopperGoods ==
  ASSUME Goods, NEW pos \in Positions, Hopper(pos)
  PROVE  Goods'
  <1>1. UNCHANGED <<session, ghosts>> /\ Target[pos] # pos /\ Above[pos] # pos
    BY PlacesAssumption DEF Hopper
  <1>2. CASE Pushes(pos) /\ Transfer(pos, Target[pos], TargetSide[pos]) /\ UNCHANGED drops
    <2>1. Target[pos] \in Positions /\ CanTransfer(pos, Target[pos], TargetSide[pos])
      BY <1>2 DEF Pushes, CanTransfer
    <2> QED
      BY <1>1, <1>2, <2>1, TransferGoods
  <1>3. CASE Pulls(pos) /\ Transfer(Above[pos], pos, "up") /\ UNCHANGED drops
    <2>1. Above[pos] \in Positions /\ CanTransfer(Above[pos], pos, "up")
      BY <1>3 DEF Pulls, CanTransfer
    <2> QED
      BY <1>1, <1>3, <2>1, TransferGoods
  <1>4. CASE PickUp(pos)
    BY <1>1, <1>4, PickUpGoods
  <1> QED
    BY <1>2, <1>3, <1>4 DEF Hopper

-----------------------------------------------------------------------------
LEMMA InitGoods == Init => Goods
  <1> SUFFICES ASSUME Init PROVE Goods
    OBVIOUS
  <1>1. PICK start \in Starts :
          /\ inventory = start.inventory
          /\ block = [pos \in Positions |->
               [kind |-> KindAt[pos], slots |-> start.slots[pos], open |-> FALSE]]
          /\ supply = [i \in Items |->
               AddUp([p \in Players |-> CountIn(start.inventory[p], i)], Players)
               + AddUp([pos \in Positions |-> CountIn(start.slots[pos], i)], Positions)]
    BY DEF Init
  <1>2. /\ start.inventory \in [Players -> [Slots -> Stacks]]
        /\ \A pos \in Positions : /\ start.slots[pos] \in [1..SlotCount(KindAt[pos]) -> Stacks]
                                  /\ KindAt[pos] \in Kinds
    BY StartsAssumption
  <1>3. /\ cursor = [p \in Players |-> Empty] /\ brew = [p \in Players |-> NoBrew]
        /\ drops = [pos \in Positions |-> <<>>]
    BY DEF Init
  <1>4. ASSUME NEW pos \in Positions
        PROVE  block[pos] \in Blocks /\ block[pos].slots = start.slots[pos]
    <2>1. [kind |-> KindAt[pos], slots |-> start.slots[pos], open |-> FALSE] \in Blocks
      BY <1>2, MakeBlock
    <2> QED
      BY <1>1, <2>1
  <1>5. /\ block \in [Positions -> Blocks] /\ inventory \in [Players -> [Slots -> Stacks]]
        /\ cursor \in [Players -> Stacks] /\ drops \in [Positions -> Seq(Stacks \ {Empty})]
        /\ brew = [p \in Players |-> brew[p]] /\ \A p \in Players : IsBrew(brew[p])
    <2>1. block \in [Positions -> Blocks]
      BY <1>1, <1>4
    <2>2. inventory \in [Players -> [Slots -> Stacks]] /\ cursor \in [Players -> Stacks]
      BY <1>1, <1>2, <1>3, StackTypes
    <2>3. drops \in [Positions -> Seq(Stacks \ {Empty})]
      BY <1>3, EmptySeq
    <2>4. brew = [p \in Players |-> brew[p]] /\ \A p \in Players : IsBrew(brew[p])
      BY <1>3 DEF IsBrew
    <2> QED
      BY <2>1, <2>2, <2>3, <2>4
  <1>6. IsFiniteSet(Players) /\ IsFiniteSet(Positions) /\ InventorySize \in Nat
    BY PlacesAssumption, SizesAssumption
  <1>7. ASSUME NEW i \in Items
        PROVE  /\ Carried(i) = [p \in Players |-> CountIn(start.inventory[p], i)]
               /\ Lying(i) = [pos \in Positions |-> CountIn(start.slots[pos], i)]
               /\ AddUp(Carried(i), Players) \in Int /\ AddUp(Lying(i), Positions) \in Int
    <2>1. ASSUME NEW p \in Players
          PROVE  /\ Units(cursor[p], i) + CountIn(inventory[p], i) = CountIn(start.inventory[p], i)
                 /\ CountIn(start.inventory[p], i) \in Int
      <3>1. Units(cursor[p], i) = 0
        BY <1>3, ItemsAssumption DEF Units, Empty
      <3>2. start.inventory[p] \in [Slots -> Stacks] /\ inventory[p] = start.inventory[p]
        BY <1>1, <1>2
      <3>3. CountIn(start.inventory[p], i) \in Int
        BY <1>6, <3>2, CountIs DEF Slots
      <3> QED
        BY <3>1, <3>2, <3>3
    <2>2. ASSUME NEW x \in Positions
          PROVE  /\ CountIn(block[x].slots, i) + CountIn(drops[x], i) = CountIn(start.slots[x], i)
                 /\ CountIn(start.slots[x], i) \in Int
      <3>1. CountIn(drops[x], i) = 0
        BY <1>3, CountNone
      <3>2. CountIn(block[x].slots, i) \in Int
        BY <1>4, <1>5, LyingTypes
      <3> QED
        BY <1>4, <3>1, <3>2
    <2>3. /\ Carried(i) = [p \in Players |-> CountIn(start.inventory[p], i)]
          /\ Carried(i) \in [Players -> Int]
      BY <2>1 DEF Carried
    <2>4. /\ Lying(i) = [pos \in Positions |-> CountIn(start.slots[pos], i)]
          /\ Lying(i) \in [Positions -> Int]
      BY <2>2 DEF Lying
    <2>5. AddUp(Carried(i), Players) \in Int
      BY <1>6, <2>3, AddUpType
    <2>6. AddUp(Lying(i), Positions) \in Int
      BY <1>6, <2>4, AddUpType
    <2> QED
      BY <2>3, <2>4, <2>5, <2>6
  <1>8. ASSUME NEW i \in Items
        PROVE  /\ supply[i] \in Int
               /\ AddUp(Carried(i), Players) + AddUp(Lying(i), Positions) = supply[i]
    BY <1>1, <1>7
  <1>9. GoodsTypes
    <2>1. supply \in [Items -> Int]
      BY <1>1, <1>8
    <2> QED
      BY <1>5, <2>1 DEF GoodsTypes
  <1>10. ItemsConserved
    BY <1>8 DEF ItemsConserved
  <1>11. ReservationHeld
    BY <1>3 DEF ReservationHeld, Reserved
  <1> QED
    BY <1>9, <1>10, <1>11 DEF Goods

LEMMA NextGoods == Goods /\ [Next]_vars => Goods'
  <1> SUFFICES ASSUME Goods, [Next]_vars PROVE Goods'
    OBVIOUS
  <1>1. CASE \E p \in Players, k \in Slots, bottles \in SUBSET Slots : StartBrew(p, k, bottles)
    BY <1>1, StartBrewGoods
  <1>2. CASE \E p \in Players : TickBrew(p) \/ TakeBrew(p) \/ CancelBrew(p) \/ Leave(p) \/ Give(p)
    BY <1>2, TickBrewGoods, TakeBrewGoods, CancelBrewGoods, LeaveGoods, GiveGoods
  <1>3. CASE \E p \in Players, pos \in Positions : Open(p, pos) \/ Close(p, pos)
    BY <1>3, OpenGoods, DepartedGoods DEF Close
  <1>4. CASE \E p \in Players, closed \in SUBSET Positions : WalkAway(p, closed)
    BY <1>4, DepartedGoods DEF WalkAway
  <1>5. CASE \E p \in Players, pos \in Positions : \E k \in DOMAIN block[pos].slots,
               isLeft \in BOOLEAN, from \in Slots \union {0} : Click(p, pos, k, isLeft, from)
    BY <1>5, ClickGoods
  <1>6. CASE \E p \in Players, pos \in Positions : \E n \in 1..Output(pos) : TakeOutput(p, pos, n)
    BY <1>6, TakeOutputGoods
  <1>7. CASE \E p \in Players, k \in Slots, recipe \in Recipes : Craft(p, k, recipe)
    BY <1>7, CraftGoods
  <1>8. CASE \E p \in Players, i \in Edible : Eat(p, i)
    BY <1>8, EatGoods
  <1>9. CASE \E pos \in Positions : Mine(pos) \/ Place(pos) \/ Hopper(pos)
    BY <1>9, MineGoods, PlaceGoods, HopperGoods
  <1>10. CASE CloseGone
    BY <1>10, CloseGoneGoods
  <1>11. CASE \E pos \in Positions, burns, done \in BOOLEAN : FurnaceTick(pos, burns, done)
    BY <1>11, FurnaceTickGoods
  <1>12. CASE UNCHANGED vars
    <2>1. UNCHANGED <<inventory, cursor, brew, block, drops, supply>> /\ GoodsTypes
      BY <1>12 DEF vars, Goods
    <2> QED
      BY <2>1, BrewUnchanged, BlockUnchanged, QuietGoods
  <1> QED
    BY <1>1, <1>2, <1>3, <1>4, <1>5, <1>6, <1>7, <1>8, <1>9, <1>10, <1>11, <1>12 DEF Next

(* Whatever players click, take, craft, brew, eat, drop by mining or pass on  *)
(* by hoppers, in any order and after any lifecycle step, what all slots,     *)
(* cursors and drops hold of an item is what the world began with and what    *)
(* recipes, fire, food and gifts made or used up: apply_stack_click, add_slot,*)
(* transfer_one and the drops of a broken container neither lose nor double.  *)
THEOREM ItemsAreConserved == Spec => []ItemsConserved
  <1>1. Goods => ItemsConserved
    BY DEF Goods
  <1>2. QED
    BY InitGoods, NextGoods, <1>1, PTL DEF Spec

(* A pending brew finds in its slots at least what it reserved: the requests  *)
(* that ask brew_locks_slot and preserves_brew_locks leave them alone, and    *)
(* the gifts that do not ask only add to them.                                *)
THEOREM ReservationsAreHeld == Spec => []ReservationHeld
  <1>1. Goods => ReservationHeld
    BY DEF Goods
  <1>2. QED
    BY InitGoods, NextGoods, <1>1, PTL DEF Spec

-----------------------------------------------------------------------------
\* The rest of the types.
Rest ==
  /\ closures \subseteq Players \X Positions
  /\ lit \in [Positions -> BOOLEAN]
  /\ requests \in 0..MaxRequests

LEMMA AskedRest ==
  ASSUME requests \in 0..MaxRequests, Asked
  PROVE  requests' \in 0..MaxRequests
  BY SizesAssumption DEF Asked

LEMMA NextRest == Inv /\ Rest /\ [Next]_vars => Rest'
  <1> SUFFICES ASSUME Inv, Rest, [Next]_vars PROVE Rest'
    OBVIOUS
  <1> USE DEF Rest
  <1>1. CASE \E p \in Players, k \in Slots, bottles \in SUBSET Slots : StartBrew(p, k, bottles)
    BY <1>1, AskedRest DEF StartBrew, views
  <1>2. CASE \E p \in Players : TickBrew(p) \/ TakeBrew(p) \/ CancelBrew(p) \/ Leave(p)
    BY <1>2 DEF TickBrew, TakeBrew, CancelBrew, Leave, views, ghosts
  <1>3. CASE \E p \in Players : Give(p)
    BY <1>3, AskedRest DEF Give, views
  <1>4. CASE \E p \in Players, pos \in Positions : Open(p, pos) \/ Close(p, pos)
    BY <1>4 DEF Open, Close, ghosts
  <1>5. CASE \E p \in Players, closed \in SUBSET Positions : WalkAway(p, closed)
    BY <1>5 DEF WalkAway, ghosts
  <1>6. CASE \E p \in Players, pos \in Positions : \E k \in DOMAIN block[pos].slots,
               isLeft \in BOOLEAN, from \in Slots \union {0} : Click(p, pos, k, isLeft, from)
    BY <1>6, AskedRest DEF Click
  <1>7. CASE \E p \in Players, pos \in Positions : \E n \in 1..Output(pos) : TakeOutput(p, pos, n)
    BY <1>7, AskedRest DEF TakeOutput, views
  <1>8. CASE \E p \in Players, k \in Slots, recipe \in Recipes : Craft(p, k, recipe)
    BY <1>8, AskedRest DEF Craft, views
  <1>9. CASE \E p \in Players, i \in Edible : Eat(p, i)
    BY <1>9, AskedRest DEF Eat, views
  <1>10. CASE \E pos \in Positions : Mine(pos)
    <2>1. PICK pos \in Positions : Mine(pos)
      BY <1>10
    <2>2. closures' = closures \union (viewers[pos] \X {pos}) /\ lit' = [lit EXCEPT ![pos] = FALSE]
      BY <2>1 DEF Mine
    <2>3. viewers[pos] \subseteq Players
      BY DEF Inv, Types
    <2>4. closures' \subseteq Players \X Positions
      BY <2>2, <2>3
    <2>5. lit' \in [Positions -> BOOLEAN]
      BY <2>2
    <2>6. QED
      BY <2>1, <2>4, <2>5, AskedRest DEF Mine
  <1>11. CASE \E pos \in Positions : Place(pos)
    BY <1>11, AskedRest DEF Place, views
  <1>12. CASE \E pos \in Positions : Hopper(pos)
    BY <1>12 DEF Hopper, views, ghosts
  <1>13. CASE CloseGone
    BY <1>13 DEF CloseGone, ghosts
  <1>14. CASE \E pos \in Positions, burns, done \in BOOLEAN : FurnaceTick(pos, burns, done)
    BY <1>14 DEF FurnaceTick, views
  <1>15. CASE UNCHANGED vars
    BY <1>15 DEF vars
  <1>16. QED
    BY <1>1, <1>2, <1>3, <1>4, <1>5, <1>6, <1>7, <1>8, <1>9, <1>10, <1>11, <1>12, <1>13,
       <1>14, <1>15 DEF Next

(* No slot, cursor or drop ever holds more than its item stacks to or an      *)
(* item with a count of zero, and a container has the slots of its kind and   *)
(* no other, however items and blocks move.                                   *)
THEOREM ContainerTypes == Spec => []TypeOK
  <1>1. Init => Rest
    BY SizesAssumption DEF Init, Rest
  <1>2. Goods /\ Inv /\ Rest => TypeOK
    BY DEF Goods, GoodsTypes, Inv, Types, Rest, TypeOK
  <1>3. QED
    BY InitGoods, NextGoods, InitInv, NextInv, <1>1, NextRest, <1>2, PTL DEF Spec

-----------------------------------------------------------------------------
(***************************************************************************)
(* Redstone.  The invariant of a circuit says of every component how far   *)
(* the tick, or the next one, is from bringing it up to date: either it    *)
(* shows what it should, or it is marked dirty, is still to be treated, or *)
(* has a tick coming.  Around an evicted column only the latches are kept  *)
(* up, and of what a full schedule or a restart dropped (lost) nothing is  *)
(* said.                                                                   *)
(***************************************************************************)
\* Positions a settling tick has still to look at, those it looks at or has looked at for
\* certain, and those it may treat.
Marked == dirty \cup current \cup next
ToDo(p) == p \in dirty \cup evaluated \/ (pass = 0 /\ p \in current)
Ticking(p) == \E e \in scheduled : e.pos = p
Treated(p) == p \in Marked \cup evaluated \cup due
Latching == {"dispenser"} \cup Pistons
TickKinds == {"release", "on", "off", "rise", "fall"}
Suits(kind, b) ==
  CASE kind = "release" -> b = "button"
    [] kind \in {"on", "off"} -> b = "repeater"
    [] OTHER -> b = "observer"

Views == [front : (BlockKinds \cup {"none", "bedrock"}) \X BOOLEAN, pending : 0 .. 2]
Ticks == [pos : Cells, kind : TickKinds, left : Nat \ {0}]

CircuitTypes ==
  /\ served \in BOOLEAN
  /\ blocks \in [Cells -> BlockKinds] /\ open \in [Cells -> BOOLEAN]
  /\ power \in [Cells -> 0 .. MaxPower] /\ level \in [Cells -> 0 .. MaxPower]
  /\ comps \subseteq Cells
  /\ scheduled \subseteq Ticks
  /\ watch \in [Cells -> Views]
  /\ shots \in [Cells -> 0 .. 2] /\ latched \subseteq Cells
  /\ pass \in 0 .. MaxPasses

\* Between ticks nothing of a tick is left over, and a tick takes all that is dirty.
PhaseInv ==
  /\ phase \in {"idle", "settle"}
  /\ phase = "idle" => current = {} /\ next = {} /\ evaluated = {} /\ due = {} /\ changed = {} /\ pass = 0
  /\ phase = "settle" => dirty = {} /\ synced
  /\ pass = MaxPasses => next = {}

\* The components of the loaded world are known, and no others once it is synced.
KnownInv ==
  /\ gone = {} => synced
  /\ AllComponents(blocks) \subseteq comps
  /\ synced => comps \subseteq AllComponents(blocks)

\* A latch shows the power its component had when it was last treated.
LatchInv ==
  \A p \in comps \ lost :
    blocks[p] \in Latching => ToDo(p) \/ (power[p] > 0 <=> p \in latched)

\* A dispenser has fired as often as it was latched.
ShotInv ==
  \A p \in comps \ lost :
    blocks[p] = "dispenser" => shots[p] = IF p \in latched THEN 1 ELSE 0

\* Power is what the surroundings call for, unless a change is still to be looked at.
PowerInv == \A p \in comps \ Marked : power[p] = DesiredPower(p)

\* Lamps and comparators show their power.
ScreenInv ==
  \A p \in comps : blocks[p] \in {"lamp", "comparator"} => ToDo(p) \/ open[p] = (power[p] > 0)

\* A plate shows whom the last tick saw on it.
PlateInv ==
  \A p \in comps : blocks[p] = "plate" => p \in dirty \/ open[p] = (p \in seen)

\* A scheduled tick is of a kind its component asks for.
TickInv == \A e \in scheduled : Suits(e.kind, blocks[e.pos])

\* A button that is in comes out.
ButtonInv ==
  \A p \in comps \ lost : blocks[p] = "button" /\ open[p] => Ticking(p)

\* A repeater shows its input or has a tick coming.
RepeaterInv ==
  \A p \in comps \ lost : blocks[p] = "repeater" =>
    Treated(p) \/ Ticking(p) \/ open[p] = Fed(Now, p)

\* A piston is out only while it is latched, and a save keeps that.
PistonInv ==
  \A p \in comps : blocks[p] \in Pistons /\ open[p] =>
    p \in latched /\ (Column(p) \in touched \/ p \in saved)

\* An observer has seen what is in front of it; a pulse it owes, and the end of one, is
\* scheduled.
ObserverInv ==
  \A p \in comps : blocks[p] = "observer" =>
    /\ p \in dirty \/ p + 1 \in changed \/ watch[p].front = Ahead(p)
    /\ p \in lost \/ watch[p].pending = 0 \/ Ticking(p)
    /\ p \in lost \/ power[p] = 0 \/ \E e \in scheduled : e.pos = p /\ e.kind = "fall"

\* A torch is never at rest: it blinks.
TorchInv ==
  \A p \in comps : blocks[p] = "torch" =>
    /\ phase = "idle" => p \in dirty
    /\ phase = "settle" =>
         IF open[p] THEN (p \in evaluated /\ power[p] = MaxPower) \/ (pass = 0 /\ p \in current)
         ELSE p \in current \cup next

Loaded == PowerInv /\ ScreenInv /\ PlateInv /\ TickInv /\ ButtonInv /\ RepeaterInv /\ PistonInv /\ ObserverInv /\ TorchInv
CircuitInv ==
  /\ CircuitTypes /\ PhaseInv /\ KnownInv /\ LatchInv /\ ShotInv
  /\ gone = {} => Loaded

-----------------------------------------------------------------------------
(* Power, as a function of the blocks, their open bits, the power of the     *)
(* components and which cells are components: what a signal depends on.      *)

EmitIn(b, o, pw, s, t) ==
  CASE b[s] \in Gates -> IF o[s] /\ s + 1 = t THEN pw[s] ELSE 0
    [] b[s] = "observer" -> IF s - 1 = t THEN pw[s] ELSE 0
    [] b[s] \in Sinks -> 0
    [] OTHER -> pw[s]
StrongIn(b, o, s) ==
  \/ b[s] \in Sources \cup Gates /\ o[s]
  \/ b[s] = "torch" /\ ~o[s]
StrongsIn(b, o, pw, cs, t) == {EmitIn(b, o, pw, s, t) : s \in {n \in Near(t) \cap cs : StrongIn(b, o, n)}}
SignalIn(b, o, pw, cs, s, t, attenuate) ==
  CASE s \notin Cells -> 0
    [] s \in cs ->
         LET strength == EmitIn(b, o, pw, s, t)
         IN IF attenuate /\ b[s] = "wire" /\ strength > 0 THEN strength - 1 ELSE strength
    [] OTHER -> IF IsSolid(b[s]) THEN Max({0} \cup StrongsIn(b, o, pw, cs, s)) ELSE 0
SignalsIn(b, o, pw, cs, p, attenuate) == {SignalIn(b, o, pw, cs, n, p, attenuate) : n \in Near(p)}
FillIn(lv, p) == IF p \in Cells THEN lv[p] ELSE 0
BehindIn(b, lv, p) ==
  CASE FillIn(lv, p - 1) > 0 -> FillIn(lv, p - 1)
    [] FillIn(lv, p - 1) = 0 /\ IsSolid(IF p - 1 \in Cells THEN b[p - 1] ELSE "bedrock") -> FillIn(lv, p - 2)
    [] OTHER -> 0
DesiredIn(b, o, pw, cs, lv, p) ==
  CASE b[p] \in Sources \cup {"repeater"} -> IF o[p] THEN MaxPower ELSE 0
    [] b[p] = "comparator" -> Max({SignalIn(b, o, pw, cs, p - 1, p, FALSE), BehindIn(b, lv, p)})
    [] b[p] = "observer" -> pw[p]
    [] b[p] = "torch" -> IF ~o[p] /\ pw[p] > 0 THEN 0 ELSE MaxPower
    [] b[p] = "wire" -> Max({0} \cup SignalsIn(b, o, pw, cs, p, TRUE))
    [] b[p] \in Sinks -> Max({0} \cup SignalsIn(b, o, pw, cs, p, FALSE))
    [] OTHER -> 0

LEMMA SignalIs ==
  ASSUME NEW w, NEW s, NEW t, NEW attenuate
  PROVE  Signal(w, s, t, attenuate) = SignalIn(w.block, w.open, power, comps, s, t, attenuate)
  BY DEF Signal, SignalIn, EmittedToward, EmitIn, StrongPowerInto, StrongsIn, IsStrongSource, StrongIn

LEMMA SignalNow ==
  ASSUME NEW s, NEW t, NEW attenuate
  PROVE  Signal(Now, s, t, attenuate) = SignalIn(blocks, open, power, comps, s, t, attenuate)
  <1>1. Now.block = blocks /\ Now.open = open
    BY DEF Now
  <1>2. QED
    BY <1>1, SignalIs

LEMMA SignalNext ==
  ASSUME NEW CONSTANT s, NEW CONSTANT t, NEW CONSTANT attenuate
  PROVE  Signal(Now, s, t, attenuate)' = SignalIn(blocks', open', power', comps', s, t, attenuate)
  <1>1. (Signal(Now, s, t, attenuate) = SignalIn(blocks, open, power, comps, s, t, attenuate))'
    BY SignalNow, PTL
  <1>2. QED
    BY <1>1 DEF SignalIn, EmitIn, StrongsIn, StrongIn, Near, Cells, Gates, Sources, Sinks, Pistons, IsSolid

LEMMA DesiredNow ==
  ASSUME NEW p
  PROVE  DesiredPower(p) = DesiredIn(blocks, open, power, comps, level, p)
  <1>1. \A n, attenuate : Signal(Now, n, p, attenuate) = SignalIn(blocks, open, power, comps, n, p, attenuate)
    BY SignalNow
  <1>2. \A attenuate : {Signal(Now, n, p, attenuate) : n \in Near(p)} = SignalsIn(blocks, open, power, comps, p, attenuate)
    BY <1>1 DEF SignalsIn
  <1>3. ContainerBehind(p) = BehindIn(blocks, level, p)
    BY DEF ContainerBehind, ContainerSignal, BehindIn, FillIn, At, Now
  <1>4. QED
    BY <1>1, <1>2, <1>3 DEF DesiredPower, IncomingPower, DesiredIn

LEMMA DesiredNext ==
  ASSUME NEW CONSTANT p
  PROVE  DesiredPower(p)' = DesiredIn(blocks', open', power', comps', level', p)
  <1>1. (DesiredPower(p) = DesiredIn(blocks, open, power, comps, level, p))'
    BY DesiredNow, PTL
  <1>2. QED
    BY <1>1 DEF DesiredIn, BehindIn, FillIn, SignalsIn, SignalIn, EmitIn, StrongsIn, StrongIn, Near, Cells,
                Gates, Sources, Sinks, Pistons, IsSolid

\* Two worlds that differ in the cells D alone, and a cell that no change in D reaches.
Unreached(D, b, p) == \A d \in D : p \notin Reach(b, d)
Alike(c, b, o, pw, cs, b2, o2, pw2, cs2) ==
  b2[c] = b[c] /\ o2[c] = o[c] /\ pw2[c] = pw[c] /\ (c \in cs2 <=> c \in cs)
AlikeBut(D, b, o, pw, cs, b2, o2, pw2, cs2) ==
  /\ cs \subseteq Cells /\ cs2 \subseteq Cells
  /\ \A c \in Cells \ D : Alike(c, b, o, pw, cs, b2, o2, pw2, cs2)

LEMMA CellTypes ==
  /\ Cells \subseteq Int /\ Length \in Nat \ {0}
  /\ \A c \in Int : c \in Cells <=> 1 <= c /\ c <= Length
  /\ \A c, d \in Cells : d \in Near(c) <=> d = c - 1 \/ d = c + 1
  /\ \A c \in Cells : Near(c) \subseteq Cells
  BY RedstoneAssumption DEF Cells, Near

\* A change in a cell reaches the cell, those next to it, and those next to a solid block
\* next to it.
LEMMA ReachIs ==
  ASSUME NEW b, NEW d, NEW n, NEW p
  PROVE  /\ d \in Reach(b, d)
         /\ n \in Near(d) => n \in Reach(b, d)
         /\ n \in Near(d) /\ IsSolid(b[n]) /\ p \in Near(n) => p \in Reach(b, d)
  BY DEF Reach

LEMMA EmitSame ==
  ASSUME NEW c, NEW t, NEW b, NEW o, NEW pw, NEW cs, NEW b2, NEW o2, NEW pw2, NEW cs2,
         Alike(c, b, o, pw, cs, b2, o2, pw2, cs2)
  PROVE  EmitIn(b2, o2, pw2, c, t) = EmitIn(b, o, pw, c, t) /\ (StrongIn(b2, o2, c) <=> StrongIn(b, o, c))
  BY DEF Alike, EmitIn, StrongIn

LEMMA SignalSame ==
  ASSUME NEW D, NEW b, NEW o, NEW pw, NEW cs, NEW b2, NEW o2, NEW pw2, NEW cs2,
         AlikeBut(D, b, o, pw, cs, b2, o2, pw2, cs2),
         NEW p \in Cells, Unreached(D, b2, p), NEW n \in {p - 1, p + 1}, NEW attenuate
  PROVE  SignalIn(b2, o2, pw2, cs2, n, p, attenuate) = SignalIn(b, o, pw, cs, n, p, attenuate)
  <1>1. CASE n \notin Cells
    <2>1. n \notin cs /\ n \notin cs2
      BY <1>1 DEF AlikeBut
    <2>2. QED
      BY <2>1, <1>1 DEF SignalIn
  <1>2. CASE n \in Cells
    <2>1. p \in Near(n)
      BY <1>2, CellTypes
    <2>2. n \notin D
      BY <2>1, ReachIs DEF Unreached
    <2>3. Alike(n, b, o, pw, cs, b2, o2, pw2, cs2)
      BY <1>2, <2>2 DEF AlikeBut
    <2>4. EmitIn(b2, o2, pw2, n, p) = EmitIn(b, o, pw, n, p)
      BY <2>3, EmitSame
    <2>5. ASSUME IsSolid(b2[n])
          PROVE  StrongsIn(b2, o2, pw2, cs2, n) = StrongsIn(b, o, pw, cs, n)
      <3>1. ASSUME NEW s \in Near(n)
            PROVE  /\ s \in cs2 <=> s \in cs
                   /\ EmitIn(b2, o2, pw2, s, n) = EmitIn(b, o, pw, s, n)
                   /\ StrongIn(b2, o2, s) <=> StrongIn(b, o, s)
        <4>1. s \in Cells
          BY <1>2, CellTypes
        <4>5. s = n - 1 \/ s = n + 1
          BY <1>2, <4>1, CellTypes
        <4>6. n = s - 1 \/ n = s + 1
          BY <1>2, <4>1, <4>5, CellTypes
        <4>7. n \in Near(s)
          BY <1>2, <4>1, <4>6, CellTypes
        <4>2. s \notin D
          BY <2>1, <2>5, <4>7, ReachIs DEF Unreached
        <4>3. Alike(s, b, o, pw, cs, b2, o2, pw2, cs2)
          BY <4>1, <4>2 DEF AlikeBut
        <4>4. QED
          BY <4>3, EmitSame DEF Alike
      <3>2. {s \in Near(n) \cap cs2 : StrongIn(b2, o2, s)} = {s \in Near(n) \cap cs : StrongIn(b, o, s)}
        BY <3>1
      <3>3. QED
        BY <3>1, <3>2 DEF StrongsIn
    <2>6. b2[n] = b[n] /\ (n \in cs2 <=> n \in cs)
      BY <2>3 DEF Alike
    <2>7. CASE n \in cs
      BY <1>2, <2>4, <2>6, <2>7 DEF SignalIn
    <2>8. CASE n \notin cs
      BY <1>2, <2>5, <2>6, <2>8 DEF SignalIn
    <2>9. QED
      BY <2>7, <2>8
  <1>3. QED
    BY <1>1, <1>2

\* What a cell is to have changes with what reaches it only.
LEMMA DesiredSame ==
  ASSUME NEW D, NEW b, NEW o, NEW pw, NEW cs, NEW lv, NEW b2, NEW o2, NEW pw2, NEW cs2, NEW lv2,
         AlikeBut(D, b, o, pw, cs, b2, o2, pw2, cs2), \A c \in Cells \ D : lv2[c] = lv[c],
         NEW p \in Cells, Unreached(D, b2, p)
  PROVE  DesiredIn(b2, o2, pw2, cs2, lv2, p) = DesiredIn(b, o, pw, cs, lv, p)
  <1>1. ASSUME NEW n \in {p - 1, p + 1}, NEW attenuate
        PROVE  SignalIn(b2, o2, pw2, cs2, n, p, attenuate) = SignalIn(b, o, pw, cs, n, p, attenuate)
    BY SignalSame
  <1>2. \A attenuate : SignalsIn(b2, o2, pw2, cs2, p, attenuate) = SignalsIn(b, o, pw, cs, p, attenuate)
    <2>1. Near(p) \subseteq {p - 1, p + 1}
      BY DEF Near
    <2>2. QED
      BY <1>1, <2>1 DEF SignalsIn
  <1>3. b2[p] = b[p] /\ o2[p] = o[p] /\ pw2[p] = pw[p]
    <2>1. p \notin D
      BY ReachIs DEF Unreached
    <2>2. QED
      BY <2>1 DEF Alike, AlikeBut
  <1>4. BehindIn(b2, lv2, p) = BehindIn(b, lv, p)
    <2>1. ASSUME p - 1 \in Cells
          PROVE  p - 1 \notin D /\ b2[p - 1] = b[p - 1] /\ lv2[p - 1] = lv[p - 1]
      <3>1. p \in Near(p - 1)
        BY <2>1, CellTypes
      <3>2. p - 1 \notin D
        BY <3>1, ReachIs DEF Unreached
      <3>3. QED
        BY <2>1, <3>2 DEF Alike, AlikeBut
    <2>2. ASSUME p - 1 \in Cells, p - 2 \in Cells, IsSolid(b2[p - 1])
          PROVE  lv2[p - 2] = lv[p - 2]
      <3>1. p \in Near(p - 1) /\ p - 1 \in Near(p - 2)
        BY <2>2, CellTypes
      <3>2. p - 2 \notin D
        BY <2>2, <3>1, ReachIs DEF Unreached
      <3>3. QED
        BY <2>2, <3>2
    <2>3. FillIn(lv2, p - 1) = FillIn(lv, p - 1)
      BY <2>1 DEF FillIn
    <2>4. CASE p - 1 \in Cells
      <3>1. ASSUME IsSolid(b2[p - 1]) PROVE FillIn(lv2, p - 2) = FillIn(lv, p - 2)
        BY <2>2, <2>4, <3>1 DEF FillIn
      <3>2. QED
        BY <2>1, <2>3, <2>4, <3>1 DEF BehindIn
    <2>5. CASE p - 1 \notin Cells
      <3>1. ~IsSolid("bedrock")
        BY DEF IsSolid, Sinks, Pistons
      <3>2. QED
        BY <2>3, <2>5, <3>1 DEF BehindIn
    <2>6. QED
      BY <2>4, <2>5
  <1>5. QED
    BY <1>1, <1>2, <1>3, <1>4 DEF DesiredIn

-----------------------------------------------------------------------------
(* Power is between 0 and MaxPower.                                          *)

\* A set of numbers up to a bound has a greatest one.
LEMMA GreatestIs ==
  ASSUME NEW N \in Nat, NEW S \in SUBSET (0 .. N), S # {}
  PROVE  Max(S) \in S /\ \A y \in S : y <= Max(S)
  <1> DEFINE T == {N - y : y \in S}
  <1>1. T \in SUBSET Nat /\ T # {}
    <2>1. \A y \in S : N - y \in Nat
      BY SMT
    <2>2. \A t \in T : t \in Nat
      BY <2>1
    <2>3. PICK y \in S : TRUE
      OBVIOUS
    <2>4. N - y \in T
      BY <2>3
    <2>5. T # {}
      BY <2>4
    <2>6. QED
      BY <2>2, <2>5
  <1> HIDE DEF T
  <1>2. PICK m \in T : \A k \in T : m <= k
    BY <1>1, LeastNatural
  <1>3. PICK x \in S : m = N - x
    BY <1>2 DEF T
  <1>4. \A y \in S : y <= x
    <2>1. TAKE y \in S
    <2>2. N - y \in T
      BY DEF T
    <2>3. m <= N - y
      BY <1>2, <2>2
    <2>4. QED
      BY <1>3, <2>3
  <1>5. \A y \in S : x >= y
    BY <1>4
  <1>6. Max(S) \in S /\ \A y \in S : Max(S) >= y
    BY <1>5 DEF Max
  <1>7. QED
    BY <1>6

\* The greatest of some powers is a power.
LEMMA GreatestPower ==
  ASSUME NEW S \in SUBSET (0 .. MaxPower)
  PROVE  LET x == Max({0} \cup S) IN
         /\ x \in 0 .. MaxPower /\ x \in {0} \cup S /\ \A y \in S : y <= x
  <1> DEFINE T == {0} \cup S
  <1>1. MaxPower \in Nat
    BY RedstoneAssumption
  <1>2. T \in SUBSET (0 .. MaxPower) /\ T # {} /\ \A y \in S : y \in T
    BY <1>1
  <1> HIDE DEF T
  <1>3. Max(T) \in T /\ \A y \in T : y <= Max(T)
    BY <1>1, <1>2, GreatestIs
  <1>4. QED
    BY <1>2, <1>3 DEF T

LEMMA EmitType ==
  ASSUME NEW b, NEW o, NEW pw \in [Cells -> 0 .. MaxPower], NEW s \in Cells, NEW t
  PROVE  EmitIn(b, o, pw, s, t) \in 0 .. MaxPower
  <1>1. 0 \in 0 .. MaxPower /\ pw[s] \in 0 .. MaxPower
    BY RedstoneAssumption
  <1>2. Gates \cap Sinks = {} /\ "observer" \notin Gates \cup Sinks
    BY DEF Gates, Sinks, Pistons
  <1>3. QED
    BY <1>1, <1>2 DEF EmitIn

LEMMA StrongsType ==
  ASSUME NEW b, NEW o, NEW pw \in [Cells -> 0 .. MaxPower], NEW cs \in SUBSET Cells, NEW t
  PROVE  StrongsIn(b, o, pw, cs, t) \in SUBSET (0 .. MaxPower)
  BY EmitType DEF StrongsIn

LEMMA SignalType ==
  ASSUME NEW b, NEW o, NEW pw \in [Cells -> 0 .. MaxPower], NEW cs \in SUBSET Cells,
         NEW s, NEW t, NEW attenuate
  PROVE  SignalIn(b, o, pw, cs, s, t, attenuate) \in 0 .. MaxPower
  <1>1. 0 \in 0 .. MaxPower /\ MaxPower \in Nat
    BY RedstoneAssumption
  <1>2. CASE s \in cs
    <2>1. EmitIn(b, o, pw, s, t) \in 0 .. MaxPower /\ s \in Cells
      BY <1>2, EmitType
    <2>2. QED
      BY <1>1, <1>2, <2>1 DEF SignalIn
  <1>3. CASE s \notin cs
    <2>1. Max({0} \cup StrongsIn(b, o, pw, cs, s)) \in 0 .. MaxPower
      BY StrongsType, GreatestPower
    <2>2. QED
      BY <1>1, <1>3, <2>1 DEF SignalIn
  <1>4. QED
    BY <1>2, <1>3

LEMMA SignalsType ==
  ASSUME NEW b, NEW o, NEW pw \in [Cells -> 0 .. MaxPower], NEW cs \in SUBSET Cells, NEW p, NEW attenuate
  PROVE  SignalsIn(b, o, pw, cs, p, attenuate) \in SUBSET (0 .. MaxPower)
  BY SignalType DEF SignalsIn

LEMMA KindFacts ==
  /\ \A k \in BlockKinds : k \in Components <=> k \notin {"air", "stone", "chest"}
  /\ Components = {"lever", "button", "plate", "lamp", "dispenser", "piston", "sticky", "repeater",
                   "comparator", "wire", "torch", "observer"}
  /\ BlockKinds = Components \cup {"air", "stone", "chest"}
  /\ Sources = {"lever", "button", "plate"} /\ Gates = {"repeater", "comparator"}
  /\ Sinks = {"lamp", "dispenser", "piston", "sticky"} /\ Pistons = {"piston", "sticky"}
  /\ Latching = {"dispenser", "piston", "sticky"}
  BY DEF Components, BlockKinds, Sources, Gates, Sinks, Pistons, Latching

LEMMA BehindType ==
  ASSUME NEW b, NEW lv \in [Cells -> 0 .. MaxPower], NEW p
  PROVE  BehindIn(b, lv, p) \in 0 .. MaxPower
  <1>1. 0 \in 0 .. MaxPower /\ MaxPower \in Nat
    BY RedstoneAssumption
  <1>2. \A c : FillIn(lv, c) \in 0 .. MaxPower
    BY <1>1 DEF FillIn
  <1>3. QED
    BY <1>1, <1>2 DEF BehindIn

LEMMA DesiredType ==
  ASSUME NEW b, NEW o, NEW pw \in [Cells -> 0 .. MaxPower], NEW cs \in SUBSET Cells,
         NEW lv \in [Cells -> 0 .. MaxPower], NEW p \in Cells
  PROVE  DesiredIn(b, o, pw, cs, lv, p) \in 0 .. MaxPower
  <1>1. 0 \in 0 .. MaxPower /\ MaxPower \in 0 .. MaxPower /\ MaxPower \in Nat /\ pw[p] \in 0 .. MaxPower
    BY RedstoneAssumption
  <1>2. \A attenuate : Max({0} \cup SignalsIn(b, o, pw, cs, p, attenuate)) \in 0 .. MaxPower
    BY SignalsType, GreatestPower
  <1>3. Max({SignalIn(b, o, pw, cs, p - 1, p, FALSE), BehindIn(b, lv, p)}) \in 0 .. MaxPower
    <2> DEFINE x == SignalIn(b, o, pw, cs, p - 1, p, FALSE)
               y == BehindIn(b, lv, p)
    <2>1. x \in 0 .. MaxPower /\ y \in 0 .. MaxPower
      BY SignalType, BehindType
    <2> HIDE DEF x, y
    <2>2. {x, y} \in SUBSET (0 .. MaxPower) /\ {x, y} # {}
      BY <2>1
    <2>3. Max({x, y}) \in {x, y}
      BY <1>1, <2>2, GreatestIs
    <2>4. QED
      BY <2>1, <2>3 DEF x, y
  <1>4. QED
    BY <1>1, <1>2, <1>3, KindFacts DEF DesiredIn

-----------------------------------------------------------------------------
(* The transitions of a tick, one position after the other: w is what they   *)
(* have made of the circuit, V are the positions treated so far, and P the   *)
(* pistons that may have moved something.                                    *)

Treats(V) == V \cap Candidates
FlagKinds == {"lamp", "comparator", "torch"} \cup Pistons
Affected(w, c) == \E q \in w.switched \cup w.moved : c \in Reach(w.block, q)

WorkTypes(w) ==
  /\ w = [block |-> w.block, open |-> w.open, scheduled |-> w.scheduled, switched |-> w.switched,
          moved |-> w.moved, fired |-> w.fired, dropped |-> w.dropped]
  /\ w.block \in [Cells -> BlockKinds] /\ w.open \in [Cells -> BOOLEAN]
  /\ w.switched \subseteq Cells /\ w.moved \subseteq Cells

\* A cell is moved by one piston at most, from or to the air, and no piston is moved.
MovesOnce(w, P) ==
  /\ \A c \in w.moved :
       /\ \E a \in P : blocks[a] \in Pistons /\ blocks[a + 1] \notin Pistons /\ c \in {a + 1, a + 2}
       /\ blocks[c] \notin Pistons /\ w.block[c] \notin Pistons
       /\ blocks[c] = "air" \/ w.block[c] = "air"
  /\ \A c \in Cells \ w.moved : w.block[c] = blocks[c]

SchedulesRepeaters(w) ==
  /\ scheduled \subseteq w.scheduled
  /\ \A e \in w.scheduled \ scheduled :
       e \in Ticks /\ e.kind \in {"on", "off"} /\ blocks[e.pos] = "repeater"

Fires(w, V) ==
  \A c \in Cells \ w.moved : blocks[c] = "dispenser" => (c \in w.fired <=> c \in Treats(V) /\ Risen(c))

Opens(w, V) ==
  /\ \A c \in w.moved : ~w.open[c]
  /\ \A c \in Cells \ w.moved :
       /\ w.open[c] = open[c] \/ (c \in w.switched /\ c \in Treats(V) /\ blocks[c] \in FlagKinds)
       /\ c \in Treats(V) /\ blocks[c] \in {"lamp", "comparator"} => w.open[c] = (power[c] > 0)
       /\ c \in Treats(V) /\ blocks[c] = "torch" => w.open[c] = (power[c] = 0)
       /\ c \in Treats(V) /\ blocks[c] \in Pistons /\ Fallen(c) => ~w.open[c]
       /\ blocks[c] \in Pistons /\ w.open[c] => open[c] \/ Risen(c)

Answers(w, V) ==
  \A c \in Treats(V) \ w.moved : blocks[c] = "repeater" =>
    \/ \E e \in w.scheduled : e.pos = c
    \/ c \in w.dropped \/ Affected(w, c)
    \/ open[c] = Fed(Now, c)

Those(b, k) == {p \in Cells : b[p] = k}
AsMany(b) == \A k \in BlockKinds \ {"air"} : Cardinality(Those(b, k)) = Cardinality(Those(blocks, k))

Treating(w, V, P) ==
  /\ WorkTypes(w) /\ MovesOnce(w, P) /\ SchedulesRepeaters(w) /\ Fires(w, V)
  /\ gone = {} => Opens(w, V) /\ Answers(w, V) /\ AsMany(w.block)

-----------------------------------------------------------------------------
\* What the operations of a transition do to w.
LEMMA SetOpenFlagIs ==
  ASSUME NEW w, WorkTypes(w), NEW p \in Cells, NEW bit \in BOOLEAN
  PROVE  LET v == SetOpenFlag(w, p, bit) IN
         /\ WorkTypes(v)
         /\ v.block = w.block /\ v.scheduled = w.scheduled /\ v.moved = w.moved /\ v.fired = w.fired
         /\ v.dropped = w.dropped
         /\ w.switched \subseteq v.switched
         /\ v.open[p] = bit /\ (v.open[p] = w.open[p] \/ p \in v.switched)
         /\ \A c \in Cells \ {p} : v.open[c] = w.open[c]
  <1>0. PICK v : v = SetOpenFlag(w, p, bit)
    OBVIOUS
  <1>1. CASE w.open[p] = bit
    <2>1. v = w
      BY <1>0, <1>1 DEF SetOpenFlag
    <2>2. QED
      BY <1>0, <1>1, <2>1
  <1>2. CASE w.open[p] # bit
    <2>1. v = [block |-> w.block, open |-> [w.open EXCEPT ![p] = bit], scheduled |-> w.scheduled,
               switched |-> w.switched \cup {p}, moved |-> w.moved, fired |-> w.fired, dropped |-> w.dropped]
      BY <1>0, <1>2 DEF SetOpenFlag, WorkTypes
    <2>2. QED
      BY <1>0, <2>1 DEF WorkTypes
  <1>3. QED
    BY <1>1, <1>2

LEMMA MovedIs ==
  ASSUME NEW w, WorkTypes(w), NEW from \in Cells, NEW to \in Cells, from # to, w.block[to] = "air"
  PROVE  LET v == Moved(w, from, to) IN
         /\ WorkTypes(v)
         /\ v.scheduled = w.scheduled /\ v.switched = w.switched /\ v.fired = w.fired
         /\ v.dropped = w.dropped
         /\ w.moved \subseteq v.moved /\ v.moved \subseteq w.moved \cup {from, to} /\ from \in v.moved
         /\ v.block[from] = "air" /\ ~v.open[from] /\ ~v.open[to]
         /\ v.block[to] = IF Column(to) \notin gone THEN w.block[from] ELSE "air"
         /\ Column(to) \notin gone => to \in v.moved
         /\ Column(to) \in gone => v.moved = w.moved \cup {from}
         /\ \A c \in Cells \ {from, to} : v.block[c] = w.block[c] /\ v.open[c] = w.open[c]
  <1>0. PICK v : v = Moved(w, from, to)
    OBVIOUS
  <1>1. PICK kind, there :
          /\ kind = IF Column(to) \notin gone THEN w.block[from] ELSE "air"
          /\ there = IF Column(to) \notin gone THEN {to} ELSE {}
    OBVIOUS
  <1>2. v = [block |-> [w.block EXCEPT ![to] = kind, ![from] = "air"],
             open |-> [w.open EXCEPT ![to] = FALSE, ![from] = FALSE],
             scheduled |-> w.scheduled, switched |-> w.switched,
             moved |-> w.moved \cup {from} \cup there, fired |-> w.fired, dropped |-> w.dropped]
    BY <1>0, <1>1 DEF Moved
  <1>3. kind \in BlockKinds
    BY <1>1 DEF WorkTypes, BlockKinds
  <1>4. "air" \in BlockKinds
    BY DEF BlockKinds
  <1>5. /\ v.block = [w.block EXCEPT ![to] = kind, ![from] = "air"]
        /\ v.open = [w.open EXCEPT ![to] = FALSE, ![from] = FALSE]
        /\ v.scheduled = w.scheduled /\ v.switched = w.switched
        /\ v.moved = w.moved \cup {from} \cup there /\ v.fired = w.fired /\ v.dropped = w.dropped
        /\ v = [block |-> v.block, open |-> v.open, scheduled |-> v.scheduled, switched |-> v.switched,
                moved |-> v.moved, fired |-> v.fired, dropped |-> v.dropped]
    BY <1>2
  <1>6. there \subseteq {to}
    BY <1>1
  <1>7. WorkTypes(v)
    BY <1>3, <1>4, <1>5, <1>6 DEF WorkTypes
  <1>8. /\ v.block[from] = "air" /\ ~v.open[from] /\ ~v.open[to] /\ v.block[to] = kind
        /\ \A c \in Cells \ {from, to} : v.block[c] = w.block[c] /\ v.open[c] = w.open[c]
    BY <1>5 DEF WorkTypes
  <1>9. QED
    BY <1>0, <1>1, <1>5, <1>6, <1>7, <1>8

LEMMA ScheduledIs ==
  ASSUME NEW w, WorkTypes(w), NEW p \in Cells
  PROVE  LET v == Scheduled(w, p) IN
         /\ WorkTypes(v)
         /\ v.block = w.block /\ v.open = w.open /\ v.switched = w.switched /\ v.moved = w.moved
         /\ v.fired = w.fired
         /\ w.scheduled \subseteq v.scheduled /\ w.dropped \subseteq v.dropped
         /\ \A e \in v.scheduled \ w.scheduled : e \in Ticks /\ e.kind \in {"on", "off"} /\ e.pos = p
         /\ p \in v.dropped \/ \E e \in v.scheduled : e.pos = p
  <1>0. PICK v : v = Scheduled(w, p)
    OBVIOUS
  <1>1. PICK tick : tick = [pos |-> p, left |-> Delay,
                            kind |-> IF Fed(w, p) THEN "on" ELSE "off"]
    OBVIOUS
  <1>2. tick \in Ticks /\ tick.kind \in {"on", "off"} /\ tick.pos = p
    BY <1>1, RedstoneAssumption DEF Ticks, TickKinds
  <1>3. CASE Cardinality(w.scheduled) < ScheduleCap
    <2>1. v = [block |-> w.block, open |-> w.open, scheduled |-> w.scheduled \cup {tick},
               switched |-> w.switched, moved |-> w.moved, fired |-> w.fired, dropped |-> w.dropped]
      BY <1>0, <1>1, <1>3 DEF Scheduled, WorkTypes
    <2>2. QED
      BY <1>0, <1>2, <2>1 DEF WorkTypes
  <1>4. CASE ~(Cardinality(w.scheduled) < ScheduleCap)
    <2>1. v = [block |-> w.block, open |-> w.open, scheduled |-> w.scheduled,
               switched |-> w.switched, moved |-> w.moved, fired |-> w.fired, dropped |-> w.dropped \cup {p}]
      BY <1>0, <1>4 DEF Scheduled, WorkTypes
    <2>2. QED
      BY <1>0, <2>1 DEF WorkTypes
  <1>5. QED
    BY <1>3, <1>4


\* What a change reached, it reaches when more has been moved and switched.
LEMMA AffectedGrows ==
  ASSUME NEW w, WorkTypes(w), NEW v, WorkTypes(v), NEW c,
         w.switched \subseteq v.switched, w.moved \subseteq v.moved,
         \A m \in Cells \ v.moved : v.block[m] = w.block[m], Affected(w, c)
  PROVE  Affected(v, c)
  <1>1. PICK q \in w.switched \cup w.moved : c \in Reach(w.block, q)
    BY DEF Affected
  <1>2. q \in v.switched \cup v.moved /\ q \in Cells
    BY <1>1 DEF WorkTypes
  <1>3. CASE c \in {q} \cup Near(q)
    BY <1>2, <1>3 DEF Affected, Reach
  <1>4. CASE c \notin {q} \cup Near(q)
    <2>1. PICK m \in Near(q) : IsSolid(w.block[m]) /\ c \in Near(m)
      BY <1>1, <1>4 DEF Reach
    <2>2. m \in Cells
      BY <2>1 DEF Near
    <2>3. CASE m \in v.moved
      BY <2>1, <2>3, ReachIs DEF Affected
    <2>4. CASE m \notin v.moved
      BY <1>2, <2>1, <2>2, <2>4, ReachIs DEF Affected
    <2>5. QED
      BY <2>3, <2>4
  <1>5. QED
    BY <1>3, <1>4

\* Where nothing has reached, a repeater sees what it saw.
LEMMA FedKept ==
  ASSUME CircuitTypes, NEW w, NEW V, NEW P, Treating(w, V, P), gone = {}, NEW c \in Cells, ~Affected(w, c)
  PROVE  Fed(w, c) <=> Fed(Now, c)
  <1>0. PICK D, b, o : D = w.switched \cup w.moved /\ b = w.block /\ o = w.open
    OBVIOUS
  <1>1. AlikeBut(D, blocks, open, power, comps, b, o, power, comps)
    BY <1>0 DEF Treating, Opens, MovesOnce, Alike, AlikeBut, CircuitTypes
  <1>2. Unreached(D, b, c)
    BY <1>0 DEF Unreached, Affected
  <1>3. ASSUME NEW n \in {c - 1, c + 1}, NEW attenuate
        PROVE  SignalIn(b, o, power, comps, n, c, attenuate) = SignalIn(blocks, open, power, comps, n, c, attenuate)
    BY <1>1, <1>2, SignalSame
  <1>4. SignalIn(b, o, power, comps, c - 1, c, FALSE) = SignalIn(blocks, open, power, comps, c - 1, c, FALSE)
    BY <1>3, Zenon
  <1>5. Signal(w, c - 1, c, FALSE) = SignalIn(b, o, power, comps, c - 1, c, FALSE)
    BY <1>0, SignalIs, Zenon
  <1>6. Signal(w, c - 1, c, FALSE) = Signal(Now, c - 1, c, FALSE)
    BY <1>4, <1>5, SignalNow, Zenon
  <1>7. QED
    BY <1>6, Zenon DEF Fed

\* Opens, when nothing is opened or closed and p is treated too.
LEMMA OpensStays ==
  ASSUME NEW w, NEW v, NEW V, Opens(w, V), v.open = w.open, v.moved = w.moved, w.switched \subseteq v.switched,
         NEW p,
         \/ p \notin Candidates \/ p \in w.moved
         \/ /\ blocks[p] \notin {"lamp", "comparator", "torch"}
            /\ blocks[p] \in Pistons /\ Fallen(p) => ~w.open[p]
  PROVE  Opens(v, V \cup {p})
  <1>1. SUFFICES ASSUME NEW c \in Cells \ w.moved
        PROVE  /\ w.open[c] = open[c] \/ (c \in v.switched /\ c \in Treats(V \cup {p}) /\ blocks[c] \in FlagKinds)
               /\ c \in Treats(V \cup {p}) /\ blocks[c] \in {"lamp", "comparator"} => w.open[c] = (power[c] > 0)
               /\ c \in Treats(V \cup {p}) /\ blocks[c] = "torch" => w.open[c] = (power[c] = 0)
               /\ c \in Treats(V \cup {p}) /\ blocks[c] \in Pistons /\ Fallen(c) => ~w.open[c]
               /\ blocks[c] \in Pistons /\ w.open[c] => open[c] \/ Risen(c)
    BY DEF Opens
  <1>2. /\ w.open[c] = open[c] \/ (c \in w.switched /\ c \in Treats(V) /\ blocks[c] \in FlagKinds)
        /\ blocks[c] \in Pistons /\ w.open[c] => open[c] \/ Risen(c)
    BY <1>1 DEF Opens
  <1>3. Treats(V) \subseteq Treats(V \cup {p})
    BY DEF Treats
  <1>4. CASE c \in Treats(V)
    BY <1>1, <1>2, <1>3, <1>4 DEF Opens
  <1>5. CASE c \notin Treats(V)
    <2>1. c \in Treats(V \cup {p}) => c = p /\ p \in Candidates
      BY <1>5 DEF Treats
    <2>2. c = p /\ p \in Candidates => blocks[c] \notin {"lamp", "comparator", "torch"}
      BY <1>1
    <2>3. c = p /\ p \in Candidates /\ blocks[c] \in Pistons /\ Fallen(c) => ~w.open[c]
      BY <1>1
    <2>4. QED
      BY <1>2, <1>3, <2>1, <2>2, <2>3
  <1>6. QED
    BY <1>4, <1>5

\* A lamp, a comparator, a torch or a piston takes the open bit it is to have.
LEMMA FlagStep ==
  ASSUME CircuitTypes, NEW w, NEW V, NEW P, Treating(w, V, P), NEW p \in Candidates, p \notin w.moved,
         blocks[p] \in FlagKinds, NEW bit \in BOOLEAN,
         blocks[p] \in {"lamp", "comparator"} => bit = (power[p] > 0),
         blocks[p] = "torch" => bit = (power[p] = 0),
         blocks[p] \in Pistons => IF bit THEN Risen(p) ELSE Fallen(p)
  PROVE  Treating(SetOpenFlag(w, p, bit), V \cup {p}, P)
  <1>1. PICK v : v = SetOpenFlag(w, p, bit)
    OBVIOUS
  <1>2. WorkTypes(w) /\ p \in Cells
    BY DEF Treating, Candidates, CircuitTypes
  <1>3. /\ WorkTypes(v)
        /\ v.block = w.block /\ v.scheduled = w.scheduled /\ v.moved = w.moved /\ v.fired = w.fired
        /\ v.dropped = w.dropped /\ w.switched \subseteq v.switched
        /\ v.open[p] = bit /\ (v.open[p] = w.open[p] \/ p \in v.switched)
        /\ \A c \in Cells \ {p} : v.open[c] = w.open[c]
    BY <1>1, <1>2, SetOpenFlagIs
  <1>4. Treats(V \cup {p}) = Treats(V) \cup {p}
    BY DEF Treats
  <1>5. MovesOnce(v, P) /\ SchedulesRepeaters(v)
    BY <1>3 DEF Treating, MovesOnce, SchedulesRepeaters
  <1>6. Fires(v, V \cup {p})
    BY <1>3, <1>4 DEF Treating, Fires, FlagKinds, Pistons
  <1>7. ASSUME gone = {}
        PROVE  Opens(v, V \cup {p}) /\ Answers(v, V \cup {p}) /\ AsMany(v.block)
    <2>1. Opens(w, V) /\ Answers(w, V) /\ AsMany(w.block)
      BY <1>7 DEF Treating
    <2>2. \A c \in v.moved : ~v.open[c]
      <3>1. v.moved \subseteq Cells
        BY <1>3 DEF WorkTypes
      <3>2. QED
        BY <1>3, <2>1, <3>1 DEF Opens
    <2>3. ASSUME NEW c \in Cells \ v.moved
          PROVE  /\ v.open[c] = open[c] \/ (c \in v.switched /\ c \in Treats(V \cup {p}) /\ blocks[c] \in FlagKinds)
                 /\ c \in Treats(V \cup {p}) /\ blocks[c] \in {"lamp", "comparator"} => v.open[c] = (power[c] > 0)
                 /\ c \in Treats(V \cup {p}) /\ blocks[c] = "torch" => v.open[c] = (power[c] = 0)
                 /\ c \in Treats(V \cup {p}) /\ blocks[c] \in Pistons /\ Fallen(c) => ~v.open[c]
                 /\ blocks[c] \in Pistons /\ v.open[c] => open[c] \/ Risen(c)
      <3>1. CASE c = p
        <4>1. w.open[c] = open[c] \/ (c \in w.switched /\ c \in Treats(V) /\ blocks[c] \in FlagKinds)
          BY <1>3, <2>1, <2>3 DEF Opens
        <4>2. v.open[c] = open[c] \/ (c \in v.switched /\ c \in Treats(V \cup {p}) /\ blocks[c] \in FlagKinds)
          BY <1>3, <1>4, <3>1, <4>1
        <4>3. ~(Risen(p) /\ Fallen(p))
          BY DEF Risen, Fallen
        <4>4. QED
          BY <1>3, <3>1, <4>2, <4>3, KindFacts
      <3>2. CASE c # p
        <4>1. v.open[c] = w.open[c] /\ (c \in Treats(V \cup {p}) <=> c \in Treats(V)) /\ c \in Cells \ w.moved
          BY <1>3, <1>4, <2>3, <3>2
        <4>2. QED
          BY <1>3, <2>1, <4>1 DEF Opens
      <3>3. QED
        BY <3>1, <3>2
    <2>4. Opens(v, V \cup {p})
      BY <2>2, <2>3 DEF Opens
    <2>5. Answers(v, V \cup {p})
      <3>1. SUFFICES ASSUME NEW c \in Treats(V \cup {p}) \ v.moved, blocks[c] = "repeater"
                     PROVE  \/ \E e \in v.scheduled : e.pos = c
                            \/ c \in v.dropped \/ Affected(v, c)
                            \/ open[c] = Fed(Now, c)
        BY DEF Answers
      <3>2. c \in Treats(V) \ w.moved
        BY <1>3, <1>4, <3>1, KindFacts DEF FlagKinds
      <3>3. Affected(w, c) => Affected(v, c)
        BY <1>2, <1>3, AffectedGrows
      <3>4. QED
        BY <1>3, <2>1, <3>1, <3>2, <3>3 DEF Answers
    <2>6. QED
      BY <1>3, <2>1, <2>4, <2>5
  <1>8. QED
    BY <1>1, <1>3, <1>5, <1>6, <1>7 DEF Treating

\* A repeater that shows something else than it gets asks for a tick.
LEMMA TickStep ==
  ASSUME CircuitTypes, NEW w, NEW V, NEW P, Treating(w, V, P), NEW p \in Candidates, p \notin w.moved,
         blocks[p] = "repeater"
  PROVE  Treating(Scheduled(w, p), V \cup {p}, P)
  <1>1. PICK v : v = Scheduled(w, p)
    OBVIOUS
  <1>2. WorkTypes(w) /\ p \in Cells
    BY DEF Treating, Candidates, CircuitTypes
  <1>3. /\ WorkTypes(v)
        /\ v.block = w.block /\ v.open = w.open /\ v.switched = w.switched /\ v.moved = w.moved
        /\ v.fired = w.fired
        /\ w.scheduled \subseteq v.scheduled /\ w.dropped \subseteq v.dropped
        /\ \A e \in v.scheduled \ w.scheduled : e \in Ticks /\ e.kind \in {"on", "off"} /\ e.pos = p
        /\ p \in v.dropped \/ \E e \in v.scheduled : e.pos = p
    BY <1>1, <1>2, ScheduledIs
  <1>4. Treats(V \cup {p}) = Treats(V) \cup {p}
    BY DEF Treats
  <1>5. MovesOnce(v, P) /\ SchedulesRepeaters(v)
    BY <1>3 DEF Treating, MovesOnce, SchedulesRepeaters
  <1>6. Fires(v, V \cup {p})
    BY <1>3, <1>4 DEF Treating, Fires
  <1>7. ASSUME gone = {}
        PROVE  Opens(v, V \cup {p}) /\ Answers(v, V \cup {p}) /\ AsMany(v.block)
    <2>1. Opens(w, V) /\ Answers(w, V) /\ AsMany(w.block)
      BY <1>7 DEF Treating
    <2>2. Opens(v, V \cup {p})
      BY <1>3, <2>1, OpensStays, KindFacts
    <2>3. ASSUME NEW c \in Treats(V \cup {p}) \ v.moved, blocks[c] = "repeater"
          PROVE  \/ \E e \in v.scheduled : e.pos = c
                 \/ c \in v.dropped \/ Affected(v, c)
                 \/ open[c] = Fed(Now, c)
      <3>1. CASE c = p
        BY <1>3, <3>1
      <3>2. CASE c # p
        <4>1. c \in Treats(V) \ w.moved
          BY <1>3, <1>4, <2>3, <3>2
        <4>2. Affected(w, c) => Affected(v, c)
          BY <1>2, <1>3, AffectedGrows
        <4>3. QED
          BY <1>3, <2>1, <2>3, <4>1, <4>2 DEF Answers
      <3>3. QED
        BY <3>1, <3>2
    <2>4. Answers(v, V \cup {p})
      BY <2>3 DEF Answers
    <2>5. QED
      BY <1>3, <2>1, <2>2, <2>4
  <1>8. QED
    BY <1>1, <1>3, <1>5, <1>6, <1>7 DEF Treating

\* A dispenser that gets power fires.
LEMMA FireStep ==
  ASSUME CircuitTypes, NEW w, NEW V, NEW P, Treating(w, V, P), NEW p \in Candidates, p \notin w.moved,
         blocks[p] = "dispenser", Risen(p)
  PROVE  Treating([w EXCEPT !.fired = @ \cup {p}], V \cup {p}, P)
  <1>1. PICK v : v = [w EXCEPT !.fired = @ \cup {p}]
    OBVIOUS
  <1>2. WorkTypes(w) /\ p \in Cells
    BY DEF Treating, Candidates, CircuitTypes
  <1>3. v = [block |-> w.block, open |-> w.open, scheduled |-> w.scheduled, switched |-> w.switched,
             moved |-> w.moved, fired |-> w.fired \cup {p}, dropped |-> w.dropped]
    BY <1>1, <1>2 DEF WorkTypes
  <1>4. /\ WorkTypes(v)
        /\ v.block = w.block /\ v.open = w.open /\ v.switched = w.switched /\ v.moved = w.moved
        /\ v.fired = w.fired \cup {p} /\ v.scheduled = w.scheduled /\ v.dropped = w.dropped
    BY <1>2, <1>3 DEF WorkTypes
  <1>5. Treats(V \cup {p}) = Treats(V) \cup {p}
    BY DEF Treats
  <1>6. MovesOnce(v, P) /\ SchedulesRepeaters(v)
    BY <1>4 DEF Treating, MovesOnce, SchedulesRepeaters
  <1>7. Fires(v, V \cup {p})
    BY <1>4, <1>5 DEF Treating, Fires
  <1>8. ASSUME gone = {}
        PROVE  Opens(v, V \cup {p}) /\ Answers(v, V \cup {p}) /\ AsMany(v.block)
    <2>1. Opens(w, V) /\ Answers(w, V) /\ AsMany(w.block)
      BY <1>8 DEF Treating
    <2>2. Opens(v, V \cup {p})
      BY <1>4, <2>1, OpensStays, KindFacts
    <2>3. ASSUME NEW c \in Treats(V \cup {p}) \ v.moved, blocks[c] = "repeater"
          PROVE  \/ \E e \in v.scheduled : e.pos = c
                 \/ c \in v.dropped \/ Affected(v, c)
                 \/ open[c] = Fed(Now, c)
      <3>1. c \in Treats(V) \ w.moved
        BY <1>4, <1>5, <2>3
      <3>2. Affected(w, c) => Affected(v, c)
        BY <1>4 DEF Affected
      <3>3. QED
        BY <1>4, <2>1, <2>3, <3>1, <3>2 DEF Answers
    <2>4. Answers(v, V \cup {p})
      BY <2>3 DEF Answers
    <2>5. QED
      BY <1>4, <2>1, <2>2, <2>4
  <1>9. QED
    BY <1>1, <1>4, <1>6, <1>7, <1>8 DEF Treating

MovesBlock(b, b2, from, to) ==
  /\ b[to] = "air" /\ b2[to] = b[from] /\ b2[from] = "air"
  /\ \A c \in Cells \ {from, to} : b2[c] = b[c]

\* A block that moves into the air leaves as many blocks of each kind.
LEMMA MoveConserves ==
  ASSUME NEW b, NEW b2, NEW from \in Cells, NEW to \in Cells, from # to,
         MovesBlock(b, b2, from, to),
         NEW k, k # "air"
  PROVE  Cardinality(Those(b2, k)) = Cardinality(Those(b, k))
  <1>1. IsFiniteSet(Cells)
    BY CellTypes, FS_Interval DEF Cells
  <1> DEFINE S == {p \in Cells : b[p] = k}
             S2 == {p \in Cells : b2[p] = k}
  <1>0. Those(b, k) = S /\ Those(b2, k) = S2
    BY DEF Those
  <1>2. IsFiniteSet(S)
    <2>1. S \subseteq Cells
      OBVIOUS
    <2>2. QED
      BY <1>1, <2>1, FS_Subset
  <1>3. CASE b[from] # k
    <2>1. S2 = S
      BY <1>3 DEF MovesBlock
    <2>2. QED
      BY <1>0, <2>1
  <1>4. CASE b[from] = k
    <2>1. S2 = (S \ {from}) \cup {to} /\ from \in S /\ to \notin S
      BY <1>4 DEF MovesBlock
    <2> HIDE DEF S, S2
    <2>2. /\ IsFiniteSet(S \ {from})
          /\ Cardinality(S \ {from}) = IF from \in S THEN Cardinality(S) - 1 ELSE Cardinality(S)
      BY <1>2, FS_RemoveElement
    <2>3. Cardinality((S \ {from}) \cup {to})
          = IF to \in S \ {from} THEN Cardinality(S \ {from}) ELSE Cardinality(S \ {from}) + 1
      BY <2>2, FS_AddElement
    <2>4. Cardinality(S) \in Nat
      BY <1>2, FS_CardinalityType
    <2>5. Cardinality(S2) = Cardinality(S)
      BY <2>1, <2>2, <2>3, <2>4
    <2>6. QED
      BY <1>0, <2>5 DEF S, S2
  <1>5. QED
    BY <1>0, <1>3, <1>4

\* A piston moves a block that is not one, to or from the cell it faces.
LEMMA MoveStep ==
  ASSUME CircuitTypes, NEW w, NEW V, NEW P, Treating(w, V, P), NEW a \in Cells, a \notin P, P \subseteq Cells,
         blocks[a] \in Pistons, NEW from \in Cells, NEW to \in Cells, {from, to} = {a + 1, a + 2},
         w.block[to] = "air", w.block[from] \notin Pistons \cup {"air"}
  PROVE  Treating(Moved(w, from, to), V, P \cup {a})
  <1>0. PICK v : v = Moved(w, from, to)
    OBVIOUS
  <1>1. WorkTypes(w) /\ MovesOnce(w, P)
    BY DEF Treating
  <1>2. a + 1 # a + 2 /\ a \in Int
    BY CellTypes
  <1>3. from # to
    BY <1>2
  <1>4. /\ WorkTypes(v)
        /\ v.scheduled = w.scheduled /\ v.switched = w.switched /\ v.fired = w.fired
        /\ v.dropped = w.dropped
        /\ w.moved \subseteq v.moved /\ v.moved \subseteq w.moved \cup {from, to} /\ from \in v.moved
        /\ v.block[from] = "air" /\ ~v.open[from] /\ ~v.open[to]
        /\ v.block[to] = IF Column(to) \notin gone THEN w.block[from] ELSE "air"
        /\ Column(to) \notin gone => to \in v.moved
        /\ Column(to) \in gone => v.moved = w.moved \cup {from}
        /\ \A c \in Cells \ {from, to} : v.block[c] = w.block[c] /\ v.open[c] = w.open[c]
    BY <1>0, <1>1, <1>3, MovedIs
  <1>5. a + 1 \in Cells /\ w.block[a + 1] \notin Pistons
    BY DEF Pistons
  <1>6. blocks[a + 1] \notin Pistons
    BY <1>1, <1>5 DEF MovesOnce
  <1>7. ASSUME NEW c \in {from, to} PROVE c \notin w.moved
    <2>1. SUFFICES ASSUME c \in w.moved PROVE FALSE
      OBVIOUS
    <2>2. PICK q \in P : blocks[q] \in Pistons /\ blocks[q + 1] \notin Pistons /\ c \in {q + 1, q + 2}
      BY <1>1, <2>1 DEF MovesOnce
    <2>3. q \in Int /\ q # a /\ c \in {a + 1, a + 2}
      BY <2>2, CellTypes
    <2>4. CASE q = a + 1
      BY <1>6, <2>2, <2>4
    <2>5. CASE q + 1 = a
      BY <2>2, <2>5
    <2>6. QED
      BY <1>2, <2>2, <2>3, <2>4, <2>5
  <1>8. blocks[from] = w.block[from] /\ blocks[to] = "air"
    BY <1>1, <1>7 DEF MovesOnce
  <1>9. MovesOnce(v, P \cup {a})
    <2>1. ASSUME NEW c \in v.moved
          PROVE  /\ \E q \in P \cup {a} : blocks[q] \in Pistons /\ blocks[q + 1] \notin Pistons /\ c \in {q + 1, q + 2}
                 /\ blocks[c] \notin Pistons /\ v.block[c] \notin Pistons
                 /\ blocks[c] = "air" \/ v.block[c] = "air"
      <3>1. CASE c \in w.moved
        <4>1. c \in Cells \ {from, to}
          BY <1>1, <1>7, <3>1 DEF WorkTypes
        <4>2. v.block[c] = w.block[c]
          BY <1>4, <4>1
        <4>3. QED
          BY <1>1, <3>1, <4>2 DEF MovesOnce
      <3>2. CASE c \in {from, to}
        <4>1. c \in {a + 1, a + 2}
          BY <3>2
        <4>2. /\ blocks[c] \notin Pistons /\ v.block[c] \notin Pistons
              /\ blocks[c] = "air" \/ v.block[c] = "air"
          BY <1>4, <1>8, <3>2 DEF Pistons
        <4>3. QED
          BY <1>6, <4>1, <4>2
      <3>3. QED
        BY <1>4, <2>1, <3>1, <3>2
    <2>2. ASSUME NEW c \in Cells \ v.moved PROVE v.block[c] = blocks[c]
      <3>1. CASE c = to
        BY <1>4, <1>8, <2>2, <3>1
      <3>2. CASE c # to
        BY <1>1, <1>4, <2>2, <3>2 DEF MovesOnce
      <3>3. QED
        BY <3>1, <3>2
    <2>3. QED
      BY <2>1, <2>2 DEF MovesOnce
  <1>10. SchedulesRepeaters(v) /\ Fires(v, V)
    BY <1>4 DEF Treating, SchedulesRepeaters, Fires
  <1>11. ASSUME gone = {}
         PROVE  Opens(v, V) /\ Answers(v, V) /\ AsMany(v.block)
    <2>1. Opens(w, V) /\ Answers(w, V) /\ AsMany(w.block)
      BY <1>11 DEF Treating
    <2>2. v.moved = w.moved \cup {from, to}
      BY <1>4, <1>11
    <2>3. Opens(v, V)
      <3>1. ASSUME NEW c \in v.moved PROVE ~v.open[c]
        <4>1. CASE c \in w.moved
          <5>1. c \in Cells \ {from, to}
            BY <1>1, <1>7, <4>1 DEF WorkTypes
          <5>2. QED
            BY <1>4, <2>1, <4>1, <5>1 DEF Opens
        <4>2. QED
          BY <1>4, <2>2, <3>1, <4>1
      <3>2. \A c \in Cells \ v.moved : v.open[c] = w.open[c] /\ c \in Cells \ w.moved
        BY <1>4, <2>2
      <3>3. QED
        BY <1>4, <2>1, <3>1, <3>2 DEF Opens
    <2>4. Answers(v, V)
      <3>1. SUFFICES ASSUME NEW c \in Treats(V) \ v.moved, blocks[c] = "repeater"
                     PROVE  \/ \E e \in v.scheduled : e.pos = c
                            \/ c \in v.dropped \/ Affected(v, c)
                            \/ open[c] = Fed(Now, c)
        BY DEF Answers
      <3>2. c \in Treats(V) \ w.moved
        BY <1>4, <3>1
      <3>3. \A m \in Cells \ v.moved : v.block[m] = w.block[m]
        BY <1>4, <2>2
      <3>4. Affected(w, c) => Affected(v, c)
        BY <1>1, <1>4, <3>3, AffectedGrows
      <3>5. QED
        BY <1>4, <2>1, <3>1, <3>2, <3>4 DEF Answers
    <2>5. AsMany(v.block)
      <3>1. SUFFICES ASSUME NEW k \in BlockKinds \ {"air"}
                     PROVE  Cardinality(Those(v.block, k)) = Cardinality(Those(blocks, k))
        BY DEF AsMany
      <3>2. v.block[to] = w.block[from]
        BY <1>4, <1>11
      <3>3. \A c \in Cells \ {from, to} : v.block[c] = w.block[c]
        BY <1>4
      <3>4. MovesBlock(w.block, v.block, from, to)
        BY <1>4, <3>2, <3>3 DEF MovesBlock
      <3>5. Cardinality(Those(v.block, k)) = Cardinality(Those(w.block, k))
        BY <1>3, <3>4, MoveConserves
      <3>6. QED
        BY <2>1, <3>5 DEF AsMany
    <2>6. QED
      BY <2>3, <2>4, <2>5
  <1>12. QED
    BY <1>0, <1>4, <1>9, <1>10, <1>11 DEF Treating

\* What a transition leaves alone it has treated too.
LEMMA StayStep ==
  ASSUME CircuitTypes, NEW w, NEW V, NEW P, Treating(w, V, P), NEW p,
         \/ p \notin Candidates \/ p \in w.moved
         \/ /\ blocks[p] \notin {"lamp", "comparator", "torch"}
            /\ blocks[p] = "repeater" => ~Asking(w, p)
            /\ blocks[p] = "dispenser" => ~Risen(p)
            /\ blocks[p] \in Pistons /\ Fallen(p) => ~w.open[p]
  PROVE  Treating(w, V \cup {p}, P)
  <1>1. WorkTypes(w) /\ MovesOnce(w, P) /\ SchedulesRepeaters(w) /\ Fires(w, V)
    BY DEF Treating
  <1>2. Treats(V \cup {p}) = IF p \in Candidates THEN Treats(V) \cup {p} ELSE Treats(V)
    BY DEF Treats
  <1>3. Fires(w, V \cup {p})
    BY <1>1, <1>2 DEF Fires
  <1>4. ASSUME gone = {}
        PROVE  Opens(w, V \cup {p}) /\ Answers(w, V \cup {p}) /\ AsMany(w.block)
    <2>1. Opens(w, V) /\ Answers(w, V) /\ AsMany(w.block)
      BY <1>4 DEF Treating
    <2>2. Opens(w, V \cup {p})
      BY <2>1, OpensStays
    <2>3. ASSUME NEW c \in Treats(V \cup {p}) \ w.moved, blocks[c] = "repeater"
          PROVE  \/ \E e \in w.scheduled : e.pos = c
                 \/ c \in w.dropped \/ Affected(w, c)
                 \/ open[c] = Fed(Now, c)
      <3>1. CASE c \in Treats(V)
        BY <2>1, <2>3, <3>1 DEF Answers
      <3>2. CASE c = p /\ p \in Candidates /\ ~Affected(w, c)
        <4>1. c \in Cells
          BY <3>2 DEF Candidates, CircuitTypes
        <4>2. w.open[c] = open[c]
          BY <2>1, <2>3, <4>1, KindFacts DEF Opens, FlagKinds
        <4>3. Fed(w, c) <=> Fed(Now, c)
          BY <1>4, <3>2, <4>1, FedKept
        <4>4. ~Asking(w, c)
          BY <2>3, <3>2
        <4>5. Fed(w, c) \in BOOLEAN /\ Fed(Now, c) \in BOOLEAN
          BY DEF Fed
        <4>6. QED
          BY <4>2, <4>3, <4>4, <4>5 DEF Asking
      <3>3. QED
        BY <1>2, <2>3, <3>1, <3>2
    <2>4. Answers(w, V \cup {p})
      BY <2>3 DEF Answers
    <2>5. QED
      BY <2>1, <2>2, <2>4
  <1>5. QED
    BY <1>1, <1>3, <1>4 DEF Treating

\* More pistons may have moved something.
LEMMA MoreMay ==
  ASSUME NEW w, NEW V, NEW P, Treating(w, V, P), NEW P2, P \subseteq P2
  PROVE  Treating(w, V, P2)
  <1>1. MovesOnce(w, P2)
    BY DEF Treating, MovesOnce
  <1>2. QED
    BY <1>1 DEF Treating

\* A piston that gets power.
LEMMA ExtendStep ==
  ASSUME CircuitTypes, NEW w, NEW V, NEW P, Treating(w, V, P), P \subseteq Cells, NEW p \in Candidates,
         p \notin P, p \notin w.moved, blocks[p] \in Pistons, Risen(p)
  PROVE  Treating(Extended(w, p), V \cup {p}, P \cup {p})
  <1>1. p \in Cells /\ p \in Int
    BY CellTypes DEF Candidates, CircuitTypes
  <1>2. ASSUME NEW v, NEW Q, Treating(v, V, Q), p \notin v.moved
        PROVE  Treating(SetOpenFlag(v, p, TRUE), V \cup {p}, Q)
    <2>1. blocks[p] \in FlagKinds /\ blocks[p] \notin {"lamp", "comparator", "torch"}
      BY KindFacts DEF FlagKinds
    <2>2. QED
      BY <1>2, <2>1, FlagStep
  <1>3. CASE At(w, p + 1) = "air"
    <2>1. Extended(w, p) = SetOpenFlag(w, p, TRUE)
      BY <1>3 DEF Extended, IsMovable
    <2>2. Treating(SetOpenFlag(w, p, TRUE), V \cup {p}, P)
      BY <1>2
    <2>3. QED
      BY <2>1, <2>2, MoreMay
  <1>4. CASE IsMovable(At(w, p + 1)) /\ At(w, p + 2) = "air"
    <2>1. PICK v : v = Moved(w, p + 1, p + 2)
      OBVIOUS
    <2>2. Extended(w, p) = SetOpenFlag(v, p, TRUE)
      BY <1>4, <2>1 DEF Extended, IsMovable
    <2>3. /\ p + 1 \in Cells /\ p + 2 \in Cells
          /\ w.block[p + 2] = "air" /\ w.block[p + 1] \notin Pistons \cup {"air"}
      BY <1>4 DEF At, IsMovable
    <2>4. Treating(v, V, P \cup {p})
      <3>1. PICK from, to : from = p + 1 /\ to = p + 2
        OBVIOUS
      <3>2. from \in Cells /\ to \in Cells /\ {from, to} = {p + 1, p + 2}
            /\ w.block[to] = "air" /\ w.block[from] \notin Pistons \cup {"air"}
        BY <2>3, <3>1
      <3>3. Treating(Moved(w, from, to), V, P \cup {p})
        BY <1>1, <3>2, MoveStep
      <3>4. QED
        BY <2>1, <3>1, <3>3
    <2>5. p \notin v.moved
      <3>1. WorkTypes(w)
        BY DEF Treating
      <3>2. v.moved \subseteq w.moved \cup {p + 1, p + 2}
        BY <1>1, <2>1, <2>3, <3>1, MovedIs
      <3>3. QED
        BY <1>1, <3>2
    <2>6. QED
      BY <1>2, <2>2, <2>4, <2>5
  <1>5. CASE At(w, p + 1) # "air" /\ ~(IsMovable(At(w, p + 1)) /\ At(w, p + 2) = "air")
    <2>1. Extended(w, p) = w
      BY <1>5 DEF Extended
    <2>2. ~Fallen(p)
      BY DEF Risen, Fallen
    <2>3. Treating(w, V \cup {p}, P)
      BY <2>2, StayStep, KindFacts
    <2>4. QED
      BY <2>1, <2>3, MoreMay
  <1>6. QED
    BY <1>3, <1>4, <1>5

\* A piston that loses power.
LEMMA RetractStep ==
  ASSUME CircuitTypes, NEW w, NEW V, NEW P, Treating(w, V, P), P \subseteq Cells, NEW p \in Candidates,
         p \notin P, p \notin w.moved, blocks[p] \in Pistons, Fallen(p)
  PROVE  Treating(Retracted(w, p), V \cup {p}, P \cup {p})
  <1>1. p \in Cells /\ p \in Int
    BY CellTypes DEF Candidates, CircuitTypes
  <1>2. ASSUME NEW v, NEW Q, Treating(v, V, Q), p \notin v.moved
        PROVE  Treating(SetOpenFlag(v, p, FALSE), V \cup {p}, Q)
    <2>1. blocks[p] \in FlagKinds /\ blocks[p] \notin {"lamp", "comparator", "torch"}
      BY KindFacts DEF FlagKinds
    <2>2. QED
      BY <1>2, <2>1, FlagStep
  <1> DEFINE pulls == w.block[p] = "sticky" /\ At(w, p + 1) = "air" /\ IsMovable(At(w, p + 2))
  <1>3. CASE ~pulls
    <2>1. Retracted(w, p) = SetOpenFlag(w, p, FALSE)
      BY <1>3 DEF Retracted
    <2>2. Treating(SetOpenFlag(w, p, FALSE), V \cup {p}, P)
      BY <1>2
    <2>3. QED
      BY <2>1, <2>2, MoreMay
  <1>4. CASE pulls
    <2>1. PICK v : v = Moved(w, p + 2, p + 1)
      OBVIOUS
    <2>2. Retracted(w, p) = SetOpenFlag(v, p, FALSE)
      BY <1>4, <2>1 DEF Retracted
    <2>3. /\ p + 1 \in Cells /\ p + 2 \in Cells
          /\ w.block[p + 1] = "air" /\ w.block[p + 2] \notin Pistons \cup {"air"}
      BY <1>4 DEF At, IsMovable
    <2>4. Treating(v, V, P \cup {p})
      <3>1. PICK from, to : from = p + 2 /\ to = p + 1
        OBVIOUS
      <3>2. from \in Cells /\ to \in Cells /\ {from, to} = {p + 1, p + 2}
            /\ w.block[to] = "air" /\ w.block[from] \notin Pistons \cup {"air"}
        BY <2>3, <3>1
      <3>3. Treating(Moved(w, from, to), V, P \cup {p})
        BY <1>1, <3>2, MoveStep
      <3>4. QED
        BY <2>1, <3>1, <3>3
    <2>5. p \notin v.moved
      <3>1. WorkTypes(w)
        BY DEF Treating
      <3>2. v.moved \subseteq w.moved \cup {p + 2, p + 1}
        BY <1>1, <2>1, <2>3, <3>1, MovedIs
      <3>3. QED
        BY <1>1, <3>2
    <2>6. QED
      BY <1>2, <2>2, <2>4, <2>5
  <1>5. QED
    BY <1>3, <1>4

\* One transition more.
LEMMA TransitionStep ==
  ASSUME CircuitTypes, NEW w, NEW V, Treating(w, V, V), V \subseteq Cells, NEW p \in Candidates, p \notin V
  PROVE  Treating(Transition(w, p), V \cup {p}, V \cup {p})
  <1>1. p \in Cells /\ IsTransitionCapable(blocks[p])
    BY DEF Candidates, CircuitTypes
  <1>2. blocks[p] \in {"lamp", "comparator", "torch", "repeater", "piston", "sticky", "dispenser"}
    BY <1>1, KindFacts DEF IsTransitionCapable
  <1>3. WorkTypes(w) /\ MovesOnce(w, V)
    BY DEF Treating
  <1>4. CASE p \in w.moved
    <2>1. w.block[p] = "air"
      BY <1>2, <1>3, <1>4 DEF MovesOnce
    <2>2. Transition(w, p) = w
      BY <2>1, KindFacts DEF Transition
    <2>3. Treating(w, V \cup {p}, V)
      BY <1>4, StayStep
    <2>4. QED
      BY <2>2, <2>3, MoreMay
  <1>5. CASE p \notin w.moved
    <2>0. w.block[p] = blocks[p]
      BY <1>1, <1>3, <1>5 DEF MovesOnce
    <2>1. CASE blocks[p] \in {"lamp", "comparator"}
      <3>1. Transition(w, p) = SetOpenFlag(w, p, power[p] > 0)
        BY <2>0, <2>1, KindFacts DEF Transition
      <3>2. PICK bit \in BOOLEAN : bit = (power[p] > 0)
        <4>1. power[p] \in 0 .. MaxPower
          BY <1>1 DEF CircuitTypes
        <4>2. (power[p] > 0) \in BOOLEAN
          BY <4>1
        <4>3. QED
          BY <4>2, Zenon
      <3>3. Treating(SetOpenFlag(w, p, bit), V \cup {p}, V)
        BY <1>5, <2>1, <3>2, FlagStep, KindFacts DEF FlagKinds
      <3>4. QED
        BY <3>1, <3>2, <3>3, MoreMay
    <2>2. CASE blocks[p] = "torch"
      <3>1. Transition(w, p) = SetOpenFlag(w, p, power[p] = 0)
        BY <2>0, <2>2, KindFacts DEF Transition
      <3>2. PICK bit \in BOOLEAN : bit = (power[p] = 0)
        OBVIOUS
      <3>3. Treating(SetOpenFlag(w, p, bit), V \cup {p}, V)
        BY <1>5, <2>2, <3>2, FlagStep, KindFacts DEF FlagKinds
      <3>4. QED
        BY <3>1, <3>2, <3>3, MoreMay
    <2>3. CASE blocks[p] = "repeater"
      <3>1. CASE Asking(w, p)
        <4>1. Transition(w, p) = Scheduled(w, p)
          BY <2>0, <2>3, <3>1, KindFacts DEF Transition
        <4>2. Treating(Scheduled(w, p), V \cup {p}, V)
          BY <1>5, <2>3, TickStep
        <4>3. QED
          BY <4>1, <4>2, MoreMay
      <3>2. CASE ~Asking(w, p)
        <4>1. Transition(w, p) = w
          BY <2>0, <2>3, <3>2, KindFacts DEF Transition
        <4>2. Treating(w, V \cup {p}, V)
          BY <2>3, <3>2, StayStep, KindFacts
        <4>3. QED
          BY <4>1, <4>2, MoreMay
      <3>3. QED
        BY <3>1, <3>2
    <2>4. CASE blocks[p] \in Pistons
      <3>0. ~(Risen(p) /\ Fallen(p))
        BY DEF Risen, Fallen
      <3>1. CASE Risen(p) /\ ~w.open[p]
        <4>1. Transition(w, p) = Extended(w, p)
          BY <2>0, <2>4, <3>0, <3>1, KindFacts DEF Transition
        <4>2. Treating(Extended(w, p), V \cup {p}, V \cup {p})
          BY <1>5, <2>4, <3>1, ExtendStep
        <4>3. QED
          BY <4>1, <4>2
      <3>2. CASE Fallen(p) /\ w.open[p]
        <4>1. Transition(w, p) = Retracted(w, p)
          BY <2>0, <2>4, <3>0, <3>2, KindFacts DEF Transition
        <4>2. Treating(Retracted(w, p), V \cup {p}, V \cup {p})
          BY <1>5, <2>4, <3>2, RetractStep
        <4>3. QED
          BY <4>1, <4>2
      <3>3. CASE ~(Risen(p) /\ ~w.open[p]) /\ ~(Fallen(p) /\ w.open[p])
        <4>1. Transition(w, p) = w
          BY <2>0, <2>4, <3>3, KindFacts DEF Transition
        <4>2. Treating(w, V \cup {p}, V)
          BY <2>4, <3>3, StayStep, KindFacts
        <4>3. QED
          BY <4>1, <4>2, MoreMay
      <3>4. QED
        BY <3>1, <3>2, <3>3
    <2>5. CASE blocks[p] = "dispenser"
      <3>1. CASE Risen(p)
        <4>1. PICK v : v = [w EXCEPT !.fired = @ \cup {p}]
          OBVIOUS
        <4>2. Transition(w, p) = v
          BY <2>0, <2>5, <3>1, <4>1, KindFacts DEF Transition
        <4>3. Treating(v, V \cup {p}, V)
          BY <1>5, <2>5, <3>1, <4>1, FireStep
        <4>4. QED
          BY <4>2, <4>3, MoreMay
      <3>2. CASE ~Risen(p)
        <4>1. Transition(w, p) = w
          BY <2>0, <2>5, <3>2, KindFacts DEF Transition
        <4>2. Treating(w, V \cup {p}, V)
          BY <2>5, <3>2, StayStep, KindFacts
        <4>3. QED
          BY <4>1, <4>2, MoreMay
      <3>3. QED
        BY <3>1, <3>2
    <2>6. QED
      BY <1>2, <2>1, <2>2, <2>3, <2>4, <2>5, KindFacts
  <1>6. QED
    BY <1>4, <1>5

-----------------------------------------------------------------------------
(* The transitions of a whole tick.                                          *)

Untouched == [block |-> blocks, open |-> open, scheduled |-> scheduled, switched |-> {}, moved |-> {},
              fired |-> {}, dropped |-> {}]
After(w, p) == IF p \in Candidates THEN Transition(w, p) ELSE w
Run(u, n) ==
  /\ u = [k \in 0 .. n |-> u[k]] /\ u[0] = Untouched
  /\ \A k \in 1 .. n : u[k] = After(u[k - 1], InOrder[k])

LEMMA CircuitRuns ==
  ASSUME NEW n \in Nat
  PROVE  \E u : Run(u, n)
  <1> DEFINE G == {m \in 0 .. n : \E u : Run(u, m)}
  <1>1. 0 \in G
    <2>1. Run([k \in 0 .. 0 |-> Untouched], 0)
      BY DEF Run
    <2>2. QED
      BY <2>1
  <1>2. ASSUME NEW m \in 1 .. n, m - 1 \in G PROVE m \in G
    <2>1. PICK u : Run(u, m - 1)
      BY <1>2
    <2> DEFINE step == After(u[m - 1], InOrder[m])
               v == [k \in 0 .. m |-> IF k = m THEN step ELSE u[k]]
    <2> HIDE DEF step
    <2>2. v = [k \in 0 .. m |-> v[k]] /\ v[0] = Untouched /\ v[m] = step
      BY <2>1 DEF Run
    <2>3. \A k \in 0 .. m - 1 : v[k] = u[k]
      OBVIOUS
    <2> HIDE DEF v
    <2>4. ASSUME NEW k \in 1 .. m PROVE v[k] = After(v[k - 1], InOrder[k])
      <3>1. k - 1 \in 0 .. m - 1 /\ v[k - 1] = u[k - 1]
        BY <2>3
      <3>2. CASE k = m
        BY <2>2, <3>1, <3>2 DEF step
      <3>3. CASE k # m
        <4>1. k \in 1 .. m - 1 /\ v[k] = u[k]
          BY <2>3, <3>3
        <4>2. u[k] = After(u[k - 1], InOrder[k])
          BY <2>1, <4>1 DEF Run
        <4>3. QED
          BY <3>1, <4>1, <4>2
      <3>4. QED
        BY <3>2, <3>3
    <2>5. Run(v, m)
      BY <2>2, <2>4 DEF Run
    <2>6. QED
      BY <2>5
  <1> HIDE DEF G
  <1>3. 0 .. n \subseteq G
    BY <1>1, <1>2, UpToInduction
  <1>4. n \in G
    BY <1>3
  <1>5. QED
    BY <1>4 DEF G

LEMMA TransitedRuns == \E u : Run(u, Length) /\ Transited = u[Length]
  <1> DEFINE Is(u) == u = [k \in 0 .. Length |->
                IF k = 0 THEN Untouched
                ELSE IF InOrder[k] \in Candidates THEN Transition(u[k - 1], InOrder[k]) ELSE u[k - 1]]
             run == CHOOSE u : Is(u)
  <1>1. Transited = run[Length]
    BY DEF Transited, Untouched
  <1>2. Length \in Nat
    BY CellTypes
  <1>3. PICK u : Run(u, Length)
    BY <1>2, CircuitRuns
  <1>4. Is(u)
    <2>1. u = [k \in 0 .. Length |-> u[k]]
      BY <1>3 DEF Run
    <2>2. ASSUME NEW k \in 0 .. Length
          PROVE  u[k] = IF k = 0 THEN Untouched
                ELSE IF InOrder[k] \in Candidates THEN Transition(u[k - 1], InOrder[k]) ELSE u[k - 1]
      <3>1. CASE k = 0
        BY <1>3, <3>1 DEF Run
      <3>2. CASE k # 0
        <4>1. k \in 1 .. Length
          BY <1>2, <3>2
        <4>2. QED
          BY <1>3, <3>2, <4>1 DEF Run, After
      <3>3. QED
        BY <3>1, <3>2
    <2>3. QED
      BY <2>1, <2>2, Zenon
  <1>5. Is(run)
    <2> HIDE DEF Is
    <2>1. QED
      BY <1>4
  <1> HIDE DEF run
  <1>6. Run(run, Length)
    <2>1. run = [k \in 0 .. Length |-> run[k]] /\ run[0] = Untouched
      BY <1>2, <1>5
    <2>2. ASSUME NEW k \in 1 .. Length PROVE run[k] = After(run[k - 1], InOrder[k])
      <3>1. k \in 0 .. Length /\ k # 0
        BY <1>2
      <3>2. QED
        BY <1>5, <3>1 DEF After
    <2>3. QED
      BY <2>1, <2>2 DEF Run
  <1>7. QED
    BY <1>1, <1>6

\* However long the run is: every cell has been treated, and what a tick promises of
\* the cells it treats holds of all.
LEMMA TransitedTreats ==
  ASSUME CircuitTypes
  PROVE  Treating(Transited, Cells, Cells)
  <1>1. Length \in Nat /\ Cells = 1 .. Length
    BY CellTypes DEF Cells
  <1>2. PICK u : Run(u, Length) /\ Transited = u[Length]
    BY TransitedRuns
  <1>3. /\ \A i \in 1 .. Length : InOrder[i] \in Cells
        /\ \A i, j \in 1 .. Length : i # j => InOrder[i] # InOrder[j]
        /\ \A c \in Cells : \E i \in 1 .. Length : InOrder[i] = c
    <2>1. CASE served
      <3>1. \A i \in 1 .. Length : InOrder[i] = Length + 1 - i
        BY <1>1, <2>1 DEF InOrder
      <3>2. \A c \in Cells : Length + 1 - c \in 1 .. Length /\ InOrder[Length + 1 - c] = c
        BY <1>1, <3>1
      <3>3. QED
        BY <1>1, <3>1, <3>2
    <2>2. CASE ~served
      <3>1. \A i \in 1 .. Length : InOrder[i] = i
        BY <1>1, <2>2 DEF InOrder
      <3>2. QED
        BY <1>1, <3>1
    <2>3. QED
      BY <2>1, <2>2
  <1> DEFINE V(m) == {InOrder[i] : i \in 1 .. m}
             G == {m \in 0 .. Length : Treating(u[m], V(m), V(m))}
  <1>4. 0 \in G
    <2>1. u[0] = Untouched /\ V(0) = {}
      BY <1>2 DEF Run
    <2> HIDE DEF V
    <2>2. WorkTypes(Untouched)
      BY DEF WorkTypes, Untouched, CircuitTypes
    <2>3. MovesOnce(Untouched, {}) /\ SchedulesRepeaters(Untouched)
      BY DEF MovesOnce, SchedulesRepeaters, Untouched
    <2>4. Fires(Untouched, {}) /\ Answers(Untouched, {}) /\ AsMany(Untouched.block)
      BY DEF Fires, Answers, AsMany, Untouched, Treats
    <2>5. Opens(Untouched, {})
      <3>1. Untouched.open = open /\ Untouched.moved = {}
        BY DEF Untouched
      <3>2. Treats({}) = {} /\ \A c \in Cells : open[c] \in BOOLEAN
        BY DEF Treats, CircuitTypes
      <3>3. PICK w : w = Untouched
        OBVIOUS
      <3>4. \A c : w.open[c] = open[c]
        BY <3>1, <3>3
      <3>5. w.moved = {}
        BY <3>1, <3>3
      <3>6. Opens(w, {})
        <4>1. ASSUME NEW c \in Cells PROVE w.open[c] = open[c] \/ (c \in w.switched /\ c \in Treats({}) /\ blocks[c] \in FlagKinds)
          BY <3>4
        <4>2. ASSUME NEW c \in Cells PROVE c \notin Treats({})
          BY <3>2
        <4>3. ASSUME NEW c \in Cells, blocks[c] \in Pistons, w.open[c] PROVE open[c] \/ Risen(c)
          <5>1. w.open[c] = open[c]
            BY <3>4
          <5>2. QED
            BY <4>3, <5>1
        <4>4. QED
          BY <3>5, <4>1, <4>2, <4>3 DEF Opens
      <3>7. QED
        BY <3>3, <3>6
    <2>6. Treating(Untouched, {}, {})
      BY <2>2, <2>3, <2>4, <2>5 DEF Treating
    <2>7. Treating(u[0], V(0), V(0))
      BY <2>1, <2>6
    <2>8. 0 \in 0 .. Length
      BY <1>1
    <2>9. QED
      BY <2>7, <2>8
  <1>5. ASSUME NEW m \in 1 .. Length, m - 1 \in G PROVE m \in G
    <2> DEFINE w == u[m - 1]
               p == InOrder[m]
               W == V(m - 1)
    <2>1. u[m] = After(w, p)
      BY <1>2 DEF Run
    <2>2. V(m) = W \cup {p}
      <3>1. 1 .. m = (1 .. m - 1) \cup {m}
        OBVIOUS
      <3>2. QED
        BY <3>1
    <2>3. p \notin W /\ W \subseteq Cells
      <3>1. \A i \in 1 .. m - 1 : i \in 1 .. Length /\ i # m
        BY <1>1
      <3>2. \A i \in 1 .. m - 1 : InOrder[i] \in Cells /\ InOrder[i] # p
        BY <1>3, <3>1
      <3> HIDE DEF p
      <3>3. QED
        BY <3>2
    <2>4. Treating(w, W, W)
      BY <1>5
    <2> HIDE DEF w, p, W, V
    <2>5. CASE p \in Candidates
      <3>1. Treating(Transition(w, p), W \cup {p}, W \cup {p})
        BY <2>3, <2>4, <2>5, TransitionStep
      <3>2. QED
        BY <2>1, <2>2, <2>5, <3>1 DEF After
    <2>6. CASE p \notin Candidates
      <3>1. Treating(w, W \cup {p}, W)
        BY <2>4, <2>6, StayStep
      <3>2. Treating(w, W \cup {p}, W \cup {p})
        BY <3>1, MoreMay
      <3>3. QED
        BY <2>1, <2>2, <2>6, <3>2 DEF After
    <2>7. QED
      BY <2>5, <2>6
  <1> HIDE DEF G
  <1>6. 0 .. Length \subseteq G
    BY <1>1, <1>4, <1>5, UpToInduction
  <1>7. Length \in G
    BY <1>1, <1>6
  <1>8. V(Length) = Cells
    BY <1>3
  <1>9. QED
    BY <1>2, <1>7, <1>8 DEF G

-----------------------------------------------------------------------------
(* What a step leaves alone.                                                 *)

\* A step changed the cells D alone.
ChangedIn(D) ==
  /\ AlikeBut(D, blocks, open, power, comps, blocks', open', power', comps')
  /\ \A c \in Cells \ D : level'[c] = level[c]

LEMMA DesiredKept ==
  ASSUME NEW CONSTANT D, ChangedIn(D), NEW CONSTANT p \in Cells, Unreached(D, blocks', p)
  PROVE  DesiredPower(p)' = DesiredPower(p)
  <1>1. PICK b, o, pw, cs, lv, b2, o2, pw2, cs2, lv2 :
          /\ b = blocks /\ o = open /\ pw = power /\ cs = comps /\ lv = level
          /\ b2 = blocks' /\ o2 = open' /\ pw2 = power' /\ cs2 = comps' /\ lv2 = level'
    OBVIOUS
  <1>2. AlikeBut(D, b, o, pw, cs, b2, o2, pw2, cs2) /\ \A c \in Cells \ D : lv2[c] = lv[c]
    BY <1>1 DEF ChangedIn
  <1>3. Unreached(D, b2, p)
    BY <1>1
  <1>4. DesiredIn(b2, o2, pw2, cs2, lv2, p) = DesiredIn(b, o, pw, cs, lv, p)
    BY <1>2, <1>3, DesiredSame
  <1>5. QED
    BY <1>1, <1>4, DesiredNow, DesiredNext

LEMMA FedStays ==
  ASSUME NEW CONSTANT D, ChangedIn(D), NEW CONSTANT p \in Cells, Unreached(D, blocks', p)
  PROVE  Fed(Now, p)' <=> Fed(Now, p)
  <1>1. PICK b, o, pw, cs, b2, o2, pw2, cs2 :
          /\ b = blocks /\ o = open /\ pw = power /\ cs = comps
          /\ b2 = blocks' /\ o2 = open' /\ pw2 = power' /\ cs2 = comps'
    OBVIOUS
  <1>2. AlikeBut(D, b, o, pw, cs, b2, o2, pw2, cs2)
    BY <1>1 DEF ChangedIn
  <1>3. Unreached(D, b2, p)
    BY <1>1
  <1>4. ASSUME NEW n \in {p - 1, p + 1}, NEW attenuate
        PROVE  SignalIn(b2, o2, pw2, cs2, n, p, attenuate) = SignalIn(b, o, pw, cs, n, p, attenuate)
    BY <1>2, <1>3, SignalSame
  <1>5. SignalIn(b2, o2, pw2, cs2, p - 1, p, FALSE) = SignalIn(b, o, pw, cs, p - 1, p, FALSE)
    BY <1>4, Zenon
  <1>6. Signal(Now, p - 1, p, FALSE)' = SignalIn(b2, o2, pw2, cs2, p - 1, p, FALSE)
    BY <1>1, SignalNext, Zenon
  <1>7. Signal(Now, p - 1, p, FALSE) = SignalIn(b, o, pw, cs, p - 1, p, FALSE)
    BY <1>1, SignalNow, Zenon
  <1>8. QED
    BY <1>5, <1>6, <1>7, Zenon DEF Fed

\* What a change wakes is marked, and what is not marked it has not reached.
LEMMA WokenIs ==
  ASSUME NEW b, NEW cs, NEW ps, NEW c \in cs
  PROVE  /\ c \in Woken(b, cs, ps) <=> ~Unreached(ps, b, c)
         /\ c \in ps => c \in Woken(b, cs, ps)
         /\ \A d \in ps : c \in Near(d) => c \in Woken(b, cs, ps)
  BY DEF Woken, Unreached, Reach

\* The power a step has not reached is still what it is to be.
LEMMA PowerStays ==
  ASSUME PowerInv, CircuitTypes', NEW CONSTANT D, ChangedIn(D),
         \A c \in comps' \ Marked' :
           Unreached(D, blocks', c) /\ c \in comps /\ power'[c] = power[c] /\ (c \notin Marked \/ power[c] = DesiredPower(c))
  PROVE  PowerInv'
  <1>1. SUFFICES ASSUME NEW CONSTANT c \in comps' \ Marked' PROVE power'[c] = DesiredPower(c)'
    BY DEF PowerInv
  <1>2. c \in Cells
    BY <1>1 DEF CircuitTypes
  <1>3. DesiredPower(c)' = DesiredPower(c)
    BY <1>1, <1>2, DesiredKept
  <1>4. power[c] = DesiredPower(c)
    BY <1>1 DEF PowerInv
  <1>5. QED
    BY <1>1, <1>3, <1>4

\* A repeater a step has not reached shows what it showed, and gets what it got.
LEMMA RepeatersStay ==
  ASSUME CircuitTypes', NEW CONSTANT D, ChangedIn(D),
         \A c \in comps' \ lost' : blocks'[c] = "repeater" =>
           \/ Treated(c)' \/ Ticking(c)'
           \/ Unreached(D, blocks', c) /\ open'[c] = open[c] /\ open[c] = Fed(Now, c)
  PROVE  RepeaterInv'
  <1>1. SUFFICES ASSUME NEW CONSTANT c \in comps' \ lost', blocks'[c] = "repeater"
                 PROVE  Treated(c)' \/ Ticking(c)' \/ open'[c] = Fed(Now, c)'
    BY DEF RepeaterInv
  <1>2. c \in Cells
    BY <1>1 DEF CircuitTypes
  <1>3. Unreached(D, blocks', c) => (Fed(Now, c)' <=> Fed(Now, c))
    BY <1>2, FedStays
  <1>4. Fed(Now, c) \in BOOLEAN /\ Fed(Now, c)' \in BOOLEAN
    BY DEF Fed
  <1>5. CASE Unreached(D, blocks', c) /\ open'[c] = open[c] /\ open[c] = Fed(Now, c)
    <2>1. Fed(Now, c)' = Fed(Now, c)
      BY <1>3, <1>4, <1>5
    <2>2. QED
      BY <1>5, <2>1
  <1>6. QED
    BY <1>1, <1>5

-----------------------------------------------------------------------------
(* What happens to the circuit between two ticks changes the cells D, wakes   *)
(* what that reaches, and leaves the rest of the circuit as it is.            *)

Disturbs(D) ==
  /\ phase = "idle" /\ UNCHANGED <<settling, gone, seen, saved>>
  /\ gone = {} => ChangedIn(D)
  /\ comps' \subseteq Cells
  /\ \A c \in comps' \ D :
       c \in comps /\ blocks'[c] = blocks[c] /\ open'[c] = open[c] /\ power'[c] = power[c]
  /\ \A c \in comps' : c \in dirty \/ ~Unreached(D, blocks', c) => c \in dirty'
  /\ touched \subseteq touched'
  /\ \A c \in comps' \ D :
       /\ (c \in lost' <=> c \in lost) /\ (c \in latched' <=> c \in latched)
       /\ shots'[c] = shots[c] /\ watch'[c] = watch[c]
       /\ \A e \in scheduled : e.pos = c => e \in scheduled'
  /\ \A c \in comps' \cap D :
       /\ blocks'[c] \in Pistons => ~open'[c]
       /\ blocks'[c] = "button" /\ open'[c] => c \in lost' \/ Ticking(c)'
       /\ blocks'[c] = "dispenser" => shots'[c] = 0 /\ c \notin latched'
       /\ blocks'[c] = "observer" => watch'[c].pending = 0 /\ power'[c] = 0

LEMMA NextTo ==
  ASSUME NEW c \in Cells, c + 1 \in Cells
  PROVE  c \in Near(c + 1) /\ c + 1 \in Near(c)
  BY CellTypes DEF Near

LEMMA IdleFacts ==
  ASSUME PhaseInv, phase = "idle"
  PROVE  /\ evaluated = {} /\ due = {} /\ changed = {} /\ pass = 0 /\ current = {} /\ next = {}
         /\ \A c : ToDo(c) <=> c \in dirty
         /\ \A c : Treated(c) <=> c \in dirty
         /\ \A c : c \in Marked <=> c \in dirty
  BY DEF PhaseInv, Marked, ToDo, Treated

\* Between ticks nothing is left of a tick, before or after.
LEMMA DisturbFacts ==
  ASSUME CircuitInv, NEW CONSTANT D, Disturbs(D)
  PROVE  /\ PhaseInv'
         /\ \A c : c \in dirty' => ToDo(c)' /\ Treated(c)' /\ c \in Marked'
         /\ \A c \in comps' \cap D : c \in dirty'
         /\ \A c \in comps' \ dirty' : c \notin D /\ c \notin dirty /\ Unreached(D, blocks', c)
         /\ \A c \in comps' \ D : /\ c \in comps /\ c \in Cells /\ blocks'[c] = blocks[c] /\ open'[c] = open[c]
                                  /\ power'[c] = power[c]
  <1>1. PhaseInv /\ phase = "idle"
    BY DEF CircuitInv, Disturbs
  <1>4. PhaseInv'
    BY <1>1, RedstoneAssumption DEF PhaseInv, Disturbs, settling
  <1>5. \A c : c \in dirty' => ToDo(c)' /\ Treated(c)' /\ c \in Marked'
    BY DEF ToDo, Treated, Marked
  <1>6. \A c \in comps' \cap D : ~Unreached(D, blocks', c)
    BY ReachIs DEF Unreached
  <1>7. QED
    BY <1>4, <1>5, <1>6 DEF Disturbs

\* What is not woken is as settled as it was.
LEMMA DisturbKeeps ==
  ASSUME CircuitInv, NEW CONSTANT D, Disturbs(D), CircuitTypes', KnownInv', gone = {} => TickInv'
  PROVE  CircuitInv'
  <1>1. /\ PhaseInv'
        /\ \A c : c \in dirty' => ToDo(c)' /\ Treated(c)' /\ c \in Marked'
        /\ \A c \in comps' \cap D : c \in dirty'
        /\ \A c \in comps' \ dirty' : c \notin D /\ c \notin dirty /\ Unreached(D, blocks', c)
        /\ \A c \in comps' \ D : /\ c \in comps /\ c \in Cells /\ blocks'[c] = blocks[c] /\ open'[c] = open[c]
                                 /\ power'[c] = power[c]
    BY DisturbFacts
  <1>2. PhaseInv /\ CircuitTypes /\ LatchInv /\ ShotInv /\ phase = "idle" /\ phase' = "idle"
    BY DEF CircuitInv, Disturbs, settling
  <1>3. \A c : (ToDo(c) <=> c \in dirty) /\ (Treated(c) <=> c \in dirty) /\ (c \in Marked <=> c \in dirty)
    BY <1>2, IdleFacts
  <1>4. \A c \in comps' \ D :
          /\ (c \in lost' <=> c \in lost) /\ (c \in latched' <=> c \in latched)
          /\ shots'[c] = shots[c] /\ watch'[c] = watch[c]
          /\ Ticking(c) => Ticking(c)'
    BY DEF Disturbs, Ticking
  <1>5. \A c \in comps' \cap D :
          /\ blocks'[c] \in Pistons => ~open'[c]
          /\ blocks'[c] = "button" /\ open'[c] => c \in lost' \/ Ticking(c)'
          /\ blocks'[c] = "dispenser" => shots'[c] = 0 /\ c \notin latched'
          /\ blocks'[c] = "observer" => watch'[c].pending = 0 /\ power'[c] = 0
    BY DEF Disturbs
  <1>6. LatchInv'
    <2>1. SUFFICES ASSUME NEW CONSTANT c \in comps' \ lost', blocks'[c] \in Latching
                   PROVE  ToDo(c)' \/ (power'[c] > 0 <=> c \in latched')
      BY DEF LatchInv
    <2>2. CASE c \in dirty'
      BY <1>1, <2>2
    <2>3. CASE c \notin dirty'
      <3>1. c \notin D /\ c \notin dirty
        BY <1>1, <2>1, <2>3
      <3>2. power[c] > 0 <=> c \in latched
        BY <1>1, <1>2, <1>3, <1>4, <2>1, <3>1 DEF LatchInv
      <3>3. power'[c] = power[c] /\ (c \in latched' <=> c \in latched)
        BY <1>1, <1>4, <2>1, <3>1
      <3>4. QED
        BY <3>2, <3>3
    <2>4. QED
      BY <2>2, <2>3
  <1>7. ShotInv'
    <2>1. SUFFICES ASSUME NEW CONSTANT c \in comps' \ lost', blocks'[c] = "dispenser"
                   PROVE  shots'[c] = IF c \in latched' THEN 1 ELSE 0
      BY DEF ShotInv
    <2>2. CASE c \in D
      BY <1>5, <2>1, <2>2
    <2>3. CASE c \notin D
      BY <1>1, <1>2, <1>4, <2>1, <2>3 DEF ShotInv
    <2>4. QED
      BY <2>2, <2>3
  <1>8. ASSUME gone' = {} PROVE Loaded'
    <2>1. gone = {} /\ Loaded
      BY <1>8 DEF Disturbs, CircuitInv
    <2>2. ChangedIn(D)
      BY <2>1 DEF Disturbs
    <2>3. PowerInv'
      <3>1. PowerInv
        BY <2>1 DEF Loaded
      <3>2. \A c \in comps' \ Marked' :
              Unreached(D, blocks', c) /\ c \in comps /\ power'[c] = power[c] /\ (c \notin Marked \/ power[c] = DesiredPower(c))
        BY <1>1, <1>3
      <3>3. QED
        BY <2>2, <3>1, <3>2, PowerStays
    <2>4. ScreenInv'
      BY <1>1, <1>3, <2>1 DEF Loaded, ScreenInv
    <2>5. PlateInv'
      BY <1>1, <1>3, <2>1 DEF Loaded, PlateInv, Disturbs
    <2>6. TickInv'
      BY <2>1
    <2>7. ButtonInv'
      BY <1>1, <1>4, <1>5, <2>1 DEF Loaded, ButtonInv
    <2>8. RepeaterInv'
      <3>1. ASSUME NEW CONSTANT c \in comps' \ lost', blocks'[c] = "repeater", c \notin dirty', ~Ticking(c)'
            PROVE  Unreached(D, blocks', c) /\ open'[c] = open[c] /\ open[c] = Fed(Now, c)
        <4>1. c \notin D /\ c \notin dirty /\ Unreached(D, blocks', c)
          BY <1>1, <3>1
        <4>2. c \in comps \ lost /\ blocks[c] = "repeater" /\ ~Ticking(c) /\ ~Treated(c) /\ open'[c] = open[c]
          BY <1>1, <1>3, <1>4, <3>1, <4>1
        <4>3. open[c] = Fed(Now, c)
          BY <2>1, <4>2 DEF Loaded, RepeaterInv
        <4>4. QED
          BY <4>1, <4>2, <4>3
      <3>2. QED
        BY <1>1, <2>2, <3>1, RepeatersStay
    <2>9. PistonInv'
      <3>1. SUFFICES ASSUME NEW CONSTANT c \in comps', blocks'[c] \in Pistons, open'[c]
                     PROVE  c \in latched' /\ (Column(c) \in touched' \/ c \in saved')
        BY DEF PistonInv, Column
      <3>2. c \notin D
        BY <1>5, <3>1, KindFacts
      <3>3. c \in latched /\ (Column(c) \in touched \/ c \in saved)
        BY <1>1, <2>1, <3>1, <3>2 DEF Loaded, PistonInv
      <3>4. QED
        BY <1>4, <3>1, <3>2, <3>3 DEF Disturbs
    <2>10. ObserverInv'
      <3>1. SUFFICES ASSUME NEW CONSTANT c \in comps', blocks'[c] = "observer"
                     PROVE  /\ c \in dirty' \/ c + 1 \in changed' \/ watch'[c].front = Ahead(c)'
                            /\ c \in lost' \/ watch'[c].pending = 0 \/ Ticking(c)'
                            /\ c \in lost' \/ power'[c] = 0 \/ \E e \in scheduled' : e.pos = c /\ e.kind = "fall"
        BY DEF ObserverInv, Ticking, Ahead, At, Now, Cells
      <3>2. CASE c \in D
        BY <1>1, <1>5, <3>1, <3>2
      <3>3. CASE c \notin D
        <4>1. /\ c \in dirty \/ c + 1 \in changed \/ watch[c].front = Ahead(c)
              /\ c \in lost \/ watch[c].pending = 0 \/ Ticking(c)
              /\ c \in lost \/ power[c] = 0 \/ \E e \in scheduled : e.pos = c /\ e.kind = "fall"
          BY <1>1, <2>1, <3>1, <3>3 DEF Loaded, ObserverInv
        <4>2. c \in lost' \/ watch'[c].pending = 0 \/ Ticking(c)'
          BY <1>4, <3>1, <3>3, <4>1
        <4>3. c \in lost' \/ power'[c] = 0 \/ \E e \in scheduled' : e.pos = c /\ e.kind = "fall"
          BY <1>1, <1>4, <3>1, <3>3, <4>1 DEF Disturbs
        <4>4. ASSUME c \notin dirty' PROVE watch'[c].front = Ahead(c)'
          <5>1. c \notin dirty /\ c + 1 \notin changed /\ Unreached(D, blocks', c)
            BY <1>1, <1>2, <3>1, <4>4 DEF PhaseInv
          <5>2. watch'[c].front = Ahead(c)
            BY <1>4, <3>1, <3>3, <4>1, <5>1
          <5>3. ASSUME c + 1 \in Cells PROVE c + 1 \notin D
            <6>1. c \in Near(c + 1)
              BY <1>1, <3>1, <3>3, <5>3, NextTo
            <6>2. QED
              BY <5>1, <6>1, ReachIs DEF Unreached
          <5>4. c + 1 \in Cells => blocks'[c + 1] = blocks[c + 1] /\ open'[c + 1] = open[c + 1]
            BY <2>2, <5>3 DEF ChangedIn, AlikeBut, Alike
          <5>5. Ahead(c)' = Ahead(c)
            BY <5>4 DEF Ahead, At, Now, Cells
          <5>6. QED
            BY <5>2, <5>5
        <4>5. QED
          BY <4>2, <4>3, <4>4
      <3>4. QED
        BY <3>2, <3>3
    <2>11. TorchInv'
      <3>1. \A c \in comps' : blocks'[c] = "torch" => c \in dirty'
        BY <1>1, <1>2, <2>1 DEF Loaded, TorchInv
      <3>2. QED
        BY <1>2, <3>1 DEF TorchInv
    <2>12. QED
      BY <2>3, <2>4, <2>5, <2>6, <2>7, <2>8, <2>9, <2>10, <2>11 DEF Loaded
  <1>9. QED
    BY <1>1, <1>6, <1>7, <1>8 DEF CircuitInv

LEMMA NothingSeenIs == NothingSeen \in Views /\ NothingSeen.pending = 0
  <1> DEFINE S == (BlockKinds \cup {"none", "bedrock"}) \X BOOLEAN
  <1>1. PICK f : f = <<"none", FALSE>>
    OBVIOUS
  <1>2. f \in S
    BY <1>1
  <1> HIDE DEF S
  <1>3. [front |-> f, pending |-> 0] \in [front : S, pending : 0 .. 2]
    BY <1>2
  <1>4. QED
    BY <1>1, <1>3 DEF NothingSeen, Views, S

\* A block that is placed or broken.
LEMMA SetBlockKeeps ==
  ASSUME CircuitInv, phase = "idle", NEW CONSTANT p \in Cells, NEW CONSTANT kind \in BlockKinds, SetBlock(p, kind),
         kind # "air" => blocks[p] = "air"
  PROVE  CircuitInv'
  <1>1. CircuitTypes /\ KnownInv
    BY DEF CircuitInv
  <1>2. /\ blocks'[p] = kind /\ ~open'[p] /\ power'[p] = Resting(kind) /\ p \notin latched'
        /\ shots'[p] = 0 /\ watch'[p] = NothingSeen
        /\ \A c \in Cells \ {p} :
             /\ blocks'[c] = blocks[c] /\ open'[c] = open[c] /\ power'[c] = power[c] /\ level'[c] = level[c]
             /\ shots'[c] = shots[c] /\ watch'[c] = watch[c]
             /\ c \in comps' <=> c \in comps
             /\ c \in latched' <=> c \in latched
             /\ c \in lost' <=> c \in lost
        /\ p \in comps' <=> kind \in Components
        /\ comps' \subseteq Cells
    BY <1>1 DEF SetBlock, CircuitTypes
  <1>3. UNCHANGED <<served, settling, gone, synced, seen, saved>> /\ touched \subseteq touched'
    BY DEF SetBlock
  <1>4. /\ kind \in Components => scheduled' = scheduled
        /\ scheduled' \subseteq scheduled
        /\ \A e \in scheduled : e.pos # p => e \in scheduled'
        /\ \A e \in scheduled' : e.pos = p => kind \in Components
    BY DEF SetBlock
  <1>5. /\ Resting(kind) \in 0 .. MaxPower /\ NothingSeen \in Views
        /\ kind = "observer" => Resting(kind) = 0
        /\ NothingSeen.pending = 0
    BY NothingSeenIs, RedstoneAssumption DEF Resting
  <1>6. CircuitTypes'
    <2>1. /\ blocks' \in [Cells -> BlockKinds] /\ open' \in [Cells -> BOOLEAN]
          /\ power' \in [Cells -> 0 .. MaxPower] /\ watch' \in [Cells -> Views]
      BY <1>1, <1>5 DEF CircuitTypes, SetBlock
    <2>2. level' \in [Cells -> 0 .. MaxPower] /\ shots' \in [Cells -> 0 .. 2]
      BY <1>1, RedstoneAssumption DEF CircuitTypes, SetBlock
    <2>3. QED
      BY <1>1, <1>2, <1>3, <1>4, <2>1, <2>2 DEF CircuitTypes, SetBlock, settling
  <1>7. KnownInv'
    BY <1>1, <1>2, <1>3 DEF KnownInv, AllComponents, Cells
  <1>8. ASSUME gone = {} PROVE TickInv'
    <2>1. TickInv
      BY <1>8 DEF CircuitInv, Loaded
    <2>2. \A e \in scheduled : e.kind \in TickKinds
      BY <1>1 DEF CircuitTypes, Ticks
    <2>3. \A e \in scheduled : blocks[e.pos] # "air"
      BY <2>1, <2>2 DEF TickInv, Suits, TickKinds
    <2>4. \A e \in scheduled' : e \in scheduled /\ e.pos # p
      BY <1>4, <2>3, KindFacts
    <2>5. \A e \in scheduled' : blocks'[e.pos] = blocks[e.pos]
      BY <1>1, <1>2, <2>4 DEF CircuitTypes, Ticks
    <2>6. QED
      BY <2>1, <2>4, <2>5 DEF TickInv, Suits
  <1>9. Disturbs({p})
    <2>1. ChangedIn({p})
      BY <1>1, <1>2 DEF ChangedIn, AlikeBut, Alike, CircuitTypes
    <2>2. dirty' = dirty \cup Woken(blocks', comps', {p})
      BY DEF SetBlock, Wake
    <2>3. \A c \in comps' : c \in dirty \/ ~Unreached({p}, blocks', c) => c \in dirty'
      BY <2>2, WokenIs
    <2>4. \A c \in comps' \cap {p} :
            /\ blocks'[c] \in Pistons => ~open'[c]
            /\ blocks'[c] = "button" /\ open'[c] => c \in lost' \/ Ticking(c)'
            /\ blocks'[c] = "dispenser" => shots'[c] = 0 /\ c \notin latched'
            /\ blocks'[c] = "observer" => watch'[c].pending = 0 /\ power'[c] = 0
      BY <1>2, <1>5
    <2>5. QED
      BY <1>2, <1>3, <1>4, <2>1, <2>3, <2>4 DEF Disturbs
  <1>10. QED
    BY <1>6, <1>7, <1>8, <1>9, DisturbKeeps

\* A lever that is pulled or a button that is pressed.
LEMMA InteractKeeps ==
  ASSUME CircuitInv, NEW CONSTANT p \in Cells, Interact(p)
  PROVE  CircuitInv'
  <1>1. CircuitTypes /\ KnownInv /\ phase = "idle"
    BY DEF CircuitInv, Interact, Acting
  <1>2. UNCHANGED <<served, blocks, level, gone, power, latched, seen, watch, settling, saved, shots>>
        /\ touched \subseteq touched'
    BY DEF Interact
  <1>3. comps' = AllComponents(blocks) /\ synced' = TRUE
    BY <1>1 DEF Interact, KnownInv
  <1>4. /\ blocks[p] \in {"lever", "button"} /\ open' \in [Cells -> BOOLEAN]
        /\ \A c \in Cells \ {p} : open'[c] = open[c] /\ (c \in lost' <=> c \in lost)
        /\ \A e \in scheduled : e.pos # p => e \in scheduled'
        /\ blocks[p] = "lever" => scheduled' = scheduled
    BY <1>1 DEF Interact, Pulled, Pressed, CircuitTypes
  <1>5. ASSUME blocks[p] = "button"
        PROVE  /\ p \in lost' \/ Ticking(p)'
               /\ \A e \in scheduled' : e \in scheduled \/ (e \in Ticks /\ e.pos = p /\ e.kind = "release")
    <2>1. Pressed(p)
      BY <1>5 DEF Interact, Pulled
    <2>2. PICK tick : tick = [pos |-> p, kind |-> "release", left |-> ButtonTicks]
      OBVIOUS
    <2>3. tick \in Ticks /\ tick.pos = p /\ tick.kind = "release"
      BY <2>2, RedstoneAssumption DEF Ticks, TickKinds
    <2>4. p \in lost' \/ tick \in scheduled'
      BY <2>1, <2>2 DEF Pressed
    <2>5. \A e \in scheduled' : e \in scheduled \/ e = tick
      BY <2>1, <2>2 DEF Pressed
    <2>6. QED
      BY <2>3, <2>4, <2>5 DEF Ticking
  <1>6. \A e \in scheduled' : e \in Ticks
    BY <1>1, <1>4, <1>5 DEF CircuitTypes
  <1>7. CircuitTypes'
    BY <1>1, <1>2, <1>3, <1>4, <1>6 DEF CircuitTypes, AllComponents, settling
  <1>8. KnownInv'
    BY <1>2, <1>3 DEF KnownInv, AllComponents, Cells
  <1>9. ASSUME gone = {} PROVE TickInv'
    <2>1. TickInv
      BY <1>9 DEF CircuitInv, Loaded
    <2>2. \A e \in scheduled' : e \in scheduled \/ (blocks[e.pos] = "button" /\ e.kind = "release")
      BY <1>4, <1>5
    <2>3. QED
      BY <1>2, <2>1, <2>2 DEF TickInv, Suits
  <1>10. Disturbs({p})
    <2>1. comps' \subseteq comps /\ comps' \subseteq Cells
      BY <1>1, <1>3 DEF KnownInv, CircuitTypes
    <2>2. gone = {} => comps' = comps
      BY <1>1, <1>3 DEF KnownInv
    <2>3. gone = {} => ChangedIn({p})
      BY <1>1, <1>2, <1>4, <2>1, <2>2 DEF ChangedIn, AlikeBut, Alike, CircuitTypes
    <2>4. dirty' = (dirty \cap comps') \cup Woken(blocks', comps', {p})
      BY <1>2 DEF Interact
    <2>5. \A c \in comps' : c \in dirty \/ ~Unreached({p}, blocks', c) => c \in dirty'
      BY <2>4, WokenIs
    <2>6. \A c \in comps' \cap {p} :
            /\ blocks'[c] \in Pistons => ~open'[c]
            /\ blocks'[c] = "button" /\ open'[c] => c \in lost' \/ Ticking(c)'
            /\ blocks'[c] = "dispenser" => shots'[c] = 0 /\ c \notin latched'
            /\ blocks'[c] = "observer" => watch'[c].pending = 0 /\ power'[c] = 0
      BY <1>2, <1>4, <1>5, KindFacts
    <2>7. QED
      BY <1>1, <1>2, <1>4, <2>1, <2>3, <2>5, <2>6 DEF Disturbs
  <1>11. QED
    BY <1>7, <1>8, <1>9, <1>10, DisturbKeeps

\* Goods in a chest.
LEMMA FillKeeps ==
  ASSUME CircuitInv, NEW CONSTANT p \in Cells, Fill(p)
  PROVE  CircuitInv'
  <1>1. CircuitTypes /\ KnownInv /\ phase = "idle"
    BY DEF CircuitInv, Fill, Acting
  <1>2. /\ UNCHANGED <<served, blocks, open, gone, comps, power, latched, scheduled, synced, seen, watch, settling,
                      saved, lost, shots>>
        /\ touched \subseteq touched'
    BY DEF Fill, history
  <1>3. level' \in [Cells -> 0 .. MaxPower] /\ blocks[p] = "chest" /\ \A c \in Cells \ {p} : level'[c] = level[c]
    BY <1>1 DEF Fill, CircuitTypes
  <1>4. CircuitTypes'
    BY <1>1, <1>2, <1>3 DEF CircuitTypes, settling
  <1>5. KnownInv'
    BY <1>1, <1>2 DEF KnownInv, AllComponents, Cells
  <1>6. ASSUME gone = {} PROVE TickInv'
    BY <1>2, <1>6 DEF CircuitInv, Loaded, TickInv
  <1>7. Disturbs({p})
    <2>1. ChangedIn({p})
      BY <1>1, <1>2, <1>3 DEF ChangedIn, AlikeBut, Alike, CircuitTypes
    <2>2. dirty' = dirty \cup Woken(blocks', comps', {p})
      BY <1>2 DEF Fill, Wake
    <2>3. \A c \in comps' : c \in dirty \/ ~Unreached({p}, blocks', c) => c \in dirty'
      BY <2>2, WokenIs
    <2>4. QED
      BY <1>1, <1>2, <1>3, <2>1, <2>3, KindFacts DEF Disturbs, CircuitTypes
  <1>8. QED
    BY <1>4, <1>5, <1>6, <1>7, DisturbKeeps

\* Steps that leave the blocks and the components alone: a save, and people on plates.
LEMMA UntouchedPower ==
  ASSUME CircuitTypes, UNCHANGED <<blocks, open, power, comps, level>>
  PROVE  ChangedIn({}) /\ \A c : Unreached({}, blocks', c)
  BY DEF ChangedIn, AlikeBut, Alike, CircuitTypes, Unreached

LEMMA WalkKeeps ==
  ASSUME CircuitInv, NEW CONSTANT p \in Cells, Walk(p)
  PROVE  CircuitInv'
  <1>1. CircuitTypes /\ KnownInv /\ phase = "idle"
    BY DEF CircuitInv, Walk, Acting
  <1>2. UNCHANGED <<served, blocks, open, level, gone, comps, power, latched, scheduled, dirty, sleeping, synced,
                    seen, watch, unread, settling, saved, touched, lost, shots>>
    BY DEF Walk, world, circuit, disk, history
  <1>3. CircuitTypes'
    BY <1>1, <1>2 DEF CircuitTypes, settling
  <1>4. KnownInv'
    BY <1>1, <1>2 DEF KnownInv, AllComponents, Cells
  <1>5. gone = {} => TickInv'
    BY <1>2 DEF CircuitInv, Loaded, TickInv
  <1>6. Disturbs({})
    <2>1. ChangedIn({}) /\ \A c : Unreached({}, blocks', c)
      BY <1>1, <1>2, UntouchedPower
    <2>2. QED
      BY <1>1, <1>2, <2>1 DEF Disturbs, CircuitTypes
  <1>7. QED
    BY <1>3, <1>4, <1>5, <1>6, DisturbKeeps

LEMMA SaveKeeps ==
  ASSUME CircuitInv, Save
  PROVE  CircuitInv'
  <1>1. CircuitTypes /\ KnownInv /\ PhaseInv /\ LatchInv /\ ShotInv /\ phase = "idle"
    BY DEF CircuitInv, Save
  <1>2. UNCHANGED <<served, blocks, open, level, gone, comps, power, latched, scheduled, dirty, sleeping, synced,
                    seen, watch, unread, phase, current, next, pass, evaluated, due, changed, lost, shots>>
    BY DEF Save, world, circuit, settling, history
  <1>3. CircuitTypes' /\ PhaseInv'
    BY <1>1, <1>2 DEF CircuitTypes, PhaseInv
  <1>4. KnownInv'
    BY <1>1, <1>2 DEF KnownInv, AllComponents, Cells
  <1>5. \A c : (ToDo(c)' <=> ToDo(c)) /\ (Treated(c)' <=> Treated(c)) /\ (c \in Marked' <=> c \in Marked)
               /\ (Ticking(c)' <=> Ticking(c))
    BY <1>2 DEF ToDo, Treated, Marked, Ticking
  <1>6. LatchInv' /\ ShotInv'
    BY <1>1, <1>2, <1>5 DEF LatchInv, ShotInv
  <1>7. ASSUME gone' = {} PROVE Loaded'
    <2>1. Loaded
      BY <1>2, <1>7 DEF CircuitInv
    <2>2. ChangedIn({}) /\ \A c : Unreached({}, blocks', c)
      BY <1>1, <1>2, UntouchedPower
    <2>3. PowerInv'
      <3>1. PowerInv
        BY <2>1 DEF Loaded
      <3>2. \A c \in comps' \ Marked' :
              Unreached({}, blocks', c) /\ c \in comps /\ power'[c] = power[c] /\ (c \notin Marked \/ power[c] = DesiredPower(c))
        BY <1>2, <1>5, <2>2
      <3>3. QED
        BY <1>3, <2>2, <3>1, <3>2, PowerStays
    <2>4. ScreenInv' /\ PlateInv' /\ TickInv' /\ ButtonInv' /\ TorchInv'
      BY <1>2, <1>5, <2>1 DEF Loaded, ScreenInv, PlateInv, TickInv, ButtonInv, TorchInv
    <2>5. RepeaterInv'
      <3>1. ASSUME NEW CONSTANT c \in comps' \ lost', blocks'[c] = "repeater", ~Treated(c)', ~Ticking(c)'
            PROVE  Unreached({}, blocks', c) /\ open'[c] = open[c] /\ open[c] = Fed(Now, c)
        BY <1>2, <1>5, <2>1, <2>2, <3>1 DEF Loaded, RepeaterInv
      <3>2. QED
        BY <1>3, <2>2, <3>1, RepeatersStay
    <2>6. PistonInv'
      <3>1. SUFFICES ASSUME NEW CONSTANT c \in comps', blocks'[c] \in Pistons, open'[c]
                     PROVE  c \in latched' /\ (Column(c) \in touched' \/ c \in saved')
        BY DEF PistonInv, Column
      <3>2. c \in Cells /\ c \in latched /\ (Column(c) \in touched \/ c \in saved)
        BY <1>1, <1>2, <2>1, <3>1 DEF Loaded, PistonInv, CircuitTypes
      <3>3. c \in saved'
        BY <3>2 DEF Save, Collected
      <3>4. QED
        BY <1>2, <3>2, <3>3
    <2>7. ObserverInv'
      <3>1. \A c : Ahead(c)' = Ahead(c)
        BY <1>2 DEF Ahead, At, Now, Cells
      <3>2. QED
        BY <1>2, <1>5, <2>1, <3>1 DEF Loaded, ObserverInv
    <2>8. QED
      BY <2>3, <2>4, <2>5, <2>6, <2>7 DEF Loaded
  <1>8. QED
    BY <1>3, <1>4, <1>6, <1>7 DEF CircuitInv

\* A column that is evicted: what it says of the loaded world is over.
LEMMA EvictKeeps ==
  ASSUME CircuitInv, NEW CONSTANT col \in {1, 2}, Evict(col)
  PROVE  CircuitInv'
  <1>1. CircuitTypes /\ KnownInv /\ PhaseInv /\ LatchInv /\ ShotInv /\ phase = "idle"
    BY DEF CircuitInv, Evict, Acting
  <1>2. /\ UNCHANGED <<served, comps, power, latched, scheduled, dirty, sleeping, seen, phase, current, next, pass,
                       evaluated, due, changed, lost, shots>>
        /\ col \in gone' /\ synced' = FALSE
    BY DEF Evict, settling
  <1>3. \A c \in Cells : blocks'[c] = blocks[c] \/ blocks'[c] = "air"
    BY DEF Evict
  <1>4. CircuitTypes'
    <2>1. NothingSeen \in Views
      BY NothingSeenIs
    <2>2. blocks' \in [Cells -> BlockKinds]
      BY <1>1, KindFacts DEF Evict, CircuitTypes
    <2>3. open' \in [Cells -> BOOLEAN] /\ level' \in [Cells -> 0 .. MaxPower] /\ watch' \in [Cells -> Views]
      BY <1>1, <2>1, RedstoneAssumption DEF Evict, CircuitTypes
    <2>4. QED
      BY <1>1, <1>2, <2>2, <2>3 DEF CircuitTypes
  <1>5. PhaseInv'
    BY <1>1, <1>2 DEF PhaseInv
  <1>6. KnownInv'
    BY <1>1, <1>2, <1>3, KindFacts DEF KnownInv, AllComponents, Cells
  <1>7. LatchInv' /\ ShotInv'
    <2>1. \A c \in comps : blocks'[c] = blocks[c] \/ blocks'[c] = "air"
      BY <1>1, <1>3 DEF CircuitTypes
    <2>2. \A c : ToDo(c)' <=> ToDo(c)
      BY <1>2 DEF ToDo
    <2>3. QED
      BY <1>1, <1>2, <2>1, <2>2, KindFacts DEF LatchInv, ShotInv
  <1>8. QED
    BY <1>2, <1>4, <1>5, <1>6, <1>7 DEF CircuitInv

\* A shutdown that saves, and a start.
LEMMA RestartKeeps ==
  ASSUME CircuitInv, Restart
  PROVE  CircuitInv'
  <1>1. CircuitTypes /\ KnownInv /\ PhaseInv /\ LatchInv /\ ShotInv /\ phase = "idle" /\ gone = {} /\ Loaded
    BY DEF CircuitInv, Restart, Acting
  <1>2. comps = AllComponents(blocks) /\ comps' = comps /\ dirty' = comps /\ synced' = TRUE
    BY <1>1 DEF KnownInv, Restart
  <1>3. /\ UNCHANGED <<served, blocks, open, level, gone, watch, phase, current, next, pass, evaluated, due, changed,
                       shots>>
        /\ scheduled' = {} /\ saved' = Collected /\ latched' = Collected \cap comps
        /\ power' = [p \in Cells |-> Resting(blocks[p])]
        /\ lost' = lost \cup {e.pos : e \in scheduled} \cup {p \in Cells : (p \in latched) # (p \in Collected)}
    BY <1>2 DEF Restart, world, settling
  <1>4. /\ power' \in [Cells -> 0 .. MaxPower]
        /\ \A p \in Cells : blocks[p] = "observer" => power'[p] = 0
    BY <1>3, RedstoneAssumption DEF Resting
  <1>5. CircuitTypes'
    BY <1>1, <1>2, <1>3, <1>4 DEF CircuitTypes
  <1>6. PhaseInv' /\ KnownInv'
    BY <1>1, <1>2, <1>3 DEF PhaseInv, KnownInv, AllComponents, Cells
  <1>7. \A c \in comps' : c \in dirty' /\ ToDo(c)' /\ Treated(c)' /\ c \in Marked' /\ c \in comps /\ c \in Cells
    BY <1>1, <1>2 DEF ToDo, Treated, Marked, CircuitTypes
  <1>8. \A c \in comps' \ lost' : c \notin lost /\ ~Ticking(c) /\ (c \in latched' <=> c \in latched)
    BY <1>3, <1>7 DEF Ticking
  <1>9. LatchInv' /\ ShotInv'
    <2>1. LatchInv'
      BY <1>7 DEF LatchInv
    <2>2. \A c \in comps' \ lost' : shots'[c] = shots[c] /\ blocks'[c] = blocks[c]
      BY <1>3
    <2>3. ShotInv'
      BY <1>1, <1>7, <1>8, <2>2 DEF ShotInv
    <2>4. QED
      BY <2>1, <2>3
  <1>10. PowerInv' /\ ScreenInv' /\ PlateInv' /\ RepeaterInv'
    BY <1>7 DEF PowerInv, ScreenInv, PlateInv, RepeaterInv
  <1>11. TickInv'
    BY <1>3 DEF TickInv
  <1>12. ButtonInv'
    BY <1>1, <1>3, <1>7, <1>8 DEF Loaded, ButtonInv
  <1>13. PistonInv'
    <2>1. SUFFICES ASSUME NEW CONSTANT c \in comps', blocks'[c] \in Pistons, open'[c]
                   PROVE  c \in latched' /\ c \in saved'
      BY DEF PistonInv
    <2>2. c \in comps /\ c \in Cells /\ c \in latched /\ (Column(c) \in touched \/ c \in saved)
      BY <1>1, <1>3, <1>7, <2>1 DEF Loaded, PistonInv
    <2>3. c \in Collected
      BY <2>2 DEF Collected
    <2>4. QED
      BY <1>3, <2>2, <2>3
  <1>14. ObserverInv'
    <2>1. SUFFICES ASSUME NEW CONSTANT c \in comps', blocks'[c] = "observer"
                   PROVE  /\ c \in dirty' /\ power'[c] = 0
                          /\ c \in lost' \/ watch'[c].pending = 0
      BY DEF ObserverInv
    <2>2. c \in lost' \/ watch[c].pending = 0
      BY <1>1, <1>3, <1>7, <1>8, <2>1 DEF Loaded, ObserverInv
    <2>3. QED
      BY <1>3, <1>4, <1>7, <2>1, <2>2
  <1>15. TorchInv'
    BY <1>1, <1>3, <1>7 DEF TorchInv
  <1>16. QED
    BY <1>5, <1>6, <1>9, <1>10, <1>11, <1>12, <1>13, <1>14, <1>15 DEF CircuitInv, Loaded

LEMMA CircuitInitInv == CircuitInit => CircuitInv
  <1> SUFFICES ASSUME CircuitInit PROVE CircuitInv
    OBVIOUS
  <1>1. PICK s \in Setups :
          /\ served = s.served
          /\ blocks = [p \in Cells |-> s.cells[p]]
          /\ open = [p \in Cells |-> p \in s.on]
          /\ comps = AllComponents(blocks) /\ dirty = AllComponents(blocks)
          /\ power = [p \in Cells |-> Resting(blocks[p])]
          /\ latched = {} /\ scheduled = {} /\ synced = TRUE /\ seen = {}
          /\ phase = "idle" /\ pass = 0
          /\ current = {} /\ next = {} /\ evaluated = {} /\ due = {} /\ changed = {}
          /\ level = [p \in Cells |-> 0] /\ watch = [p \in Cells |-> NothingSeen]
          /\ lost = {} /\ shots = [p \in Cells |-> 0]
    BY DEF CircuitInit
  <1>2. /\ s.served \in BOOLEAN
        /\ \A p \in Cells : s.cells[p] \in BlockKinds
        /\ \A p \in Cells : open[p] => blocks[p] = "lever"
    BY <1>1, SetupsAssumption
  <1>3. CircuitTypes
    <2>1. blocks \in [Cells -> BlockKinds] /\ open \in [Cells -> BOOLEAN]
      BY <1>1, <1>2
    <2>2. power \in [Cells -> 0 .. MaxPower] /\ level \in [Cells -> 0 .. MaxPower]
      BY <1>1, RedstoneAssumption DEF Resting
    <2>3. watch \in [Cells -> Views] /\ shots \in [Cells -> 0 .. 2]
      BY <1>1, NothingSeenIs
    <2>4. pass \in 0 .. MaxPasses /\ comps \subseteq Cells
      BY <1>1, RedstoneAssumption DEF AllComponents
    <2>5. QED
      BY <1>1, <1>2, <2>1, <2>2, <2>3, <2>4 DEF CircuitTypes
  <1>4. PhaseInv /\ KnownInv
    BY <1>1, RedstoneAssumption DEF PhaseInv, KnownInv
  <1>5. \A c \in comps : c \in dirty /\ ToDo(c) /\ Treated(c) /\ c \in Marked /\ c \in Cells
    BY <1>1 DEF ToDo, Treated, Marked, AllComponents
  <1>6. LatchInv /\ ShotInv
    BY <1>1, <1>5 DEF LatchInv, ShotInv
  <1>7. PowerInv /\ ScreenInv /\ PlateInv /\ RepeaterInv /\ TickInv
    BY <1>1, <1>5 DEF PowerInv, ScreenInv, PlateInv, RepeaterInv, TickInv
  <1>8. ButtonInv /\ PistonInv /\ TorchInv
    BY <1>1, <1>2, <1>5, KindFacts DEF ButtonInv, PistonInv, TorchInv
  <1>9. ObserverInv
    <2>1. \A c \in comps : watch[c].pending = 0 /\ (blocks[c] = "observer" => power[c] = 0)
      BY <1>1, <1>5, NothingSeenIs DEF Resting
    <2>2. QED
      BY <1>5, <2>1 DEF ObserverInv
  <1>10. QED
    BY <1>3, <1>4, <1>6, <1>7, <1>8, <1>9 DEF CircuitInv, Loaded

-----------------------------------------------------------------------------
(* Settling the power: one position, and one pass more.                      *)

LEMMA DesiredIsPower ==
  ASSUME CircuitTypes, NEW p \in Cells
  PROVE  DesiredPower(p) \in 0 .. MaxPower
  BY DesiredNow, DesiredType DEF CircuitTypes

\* What a component is to have that need not look around.
LEMMA DesiredFixed ==
  ASSUME NEW p
  PROVE  /\ blocks[p] = "observer" => DesiredPower(p) = power[p]
         /\ blocks[p] = "torch" => DesiredPower(p) = IF ~open[p] /\ power[p] > 0 THEN 0 ELSE MaxPower
         /\ blocks[p] \in Sources \cup {"repeater"} => DesiredPower(p) = IF open[p] THEN MaxPower ELSE 0
  BY KindFacts DEF DesiredPower

LEMMA EvaluateKeeps ==
  ASSUME CircuitInv, NEW CONSTANT q \in Cells, Evaluate(q)
  PROVE  CircuitInv'
  <1>1. CircuitTypes /\ KnownInv /\ PhaseInv /\ LatchInv /\ ShotInv /\ phase = "settle" /\ pass < MaxPasses
        /\ MaxPower \in Nat \ {0}
    BY RedstoneAssumption DEF CircuitInv, Evaluate
  <1>2. /\ UNCHANGED <<served, blocks, open, level, gone, comps, latched, scheduled, dirty, synced, seen, watch, phase,
                       pass, due, changed, saved, touched, lost, shots>>
        /\ q \in current /\ current' = current \ {q} /\ evaluated' = evaluated \cup {q}
    BY DEF Evaluate, world, disk, history
  <1>3. PICK D : D = IF q \in comps /\ DesiredPower(q) # power[q] THEN {q} ELSE {}
    OBVIOUS
  <1>4. /\ \A c \in Cells \ D : power'[c] = power[c]
        /\ \A c \in D : c = q /\ c \in comps /\ power'[c] = DesiredPower(c) /\ DesiredPower(c) # power[c]
        /\ next \subseteq next'
        /\ D # {} => next' = next \cup Woken(blocks, comps, D)
        /\ q \in comps => power'[q] = DesiredPower(q)
        /\ power' \in [Cells -> 0 .. MaxPower]
    BY <1>1, <1>3, DesiredIsPower DEF Evaluate, CircuitTypes
  <1>5. CircuitTypes'
    BY <1>1, <1>2, <1>4 DEF CircuitTypes
  <1>6. PhaseInv' /\ KnownInv'
    <2>1. pass # MaxPasses
      BY <1>1, RedstoneAssumption DEF CircuitTypes
    <2>2. PhaseInv'
      BY <1>1, <1>2, <2>1 DEF PhaseInv
    <2>3. KnownInv'
      BY <1>1, <1>2 DEF KnownInv, AllComponents, Cells
    <2>4. QED
      BY <2>2, <2>3
  <1>7. \A c \in comps : c \in Cells /\ (c # q => power'[c] = power[c])
    BY <1>1, <1>4 DEF CircuitTypes
  <1>8. /\ \A c : ToDo(c) => ToDo(c)'
        /\ \A c : Treated(c) => Treated(c)'
        /\ ToDo(q)' /\ Treated(q)'
        /\ \A c : c \in Marked /\ c # q => c \in Marked'
    BY <1>2, <1>4 DEF ToDo, Treated, Marked
  <1>9. \A c \in comps : ~Unreached(D, blocks', c) => c \in Marked' /\ Treated(c)'
    <2>1. TAKE c \in comps
    <2>2. D = {} => Unreached(D, blocks', c)
      BY DEF Unreached
    <2>3. ~Unreached(D, blocks', c) => c \in next'
      BY <1>2, <1>4, <2>2, WokenIs
    <2>4. QED
      BY <2>3 DEF Marked, Treated
  <1>10. LatchInv' /\ ShotInv'
    BY <1>1, <1>2, <1>7, <1>8 DEF LatchInv, ShotInv
  <1>11. ASSUME gone' = {} PROVE Loaded'
    <2>1. Loaded
      BY <1>2, <1>11 DEF CircuitInv
    <2>2. ChangedIn(D)
      BY <1>1, <1>2, <1>4 DEF ChangedIn, AlikeBut, Alike, CircuitTypes
    <2>3. PowerInv'
      <3>1. PowerInv
        BY <2>1 DEF Loaded
      <3>2. ASSUME NEW c \in comps' \ Marked'
            PROVE  Unreached(D, blocks', c) /\ c \in comps /\ power'[c] = power[c] /\ (c \notin Marked \/ power[c] = DesiredPower(c))
        <4>1. Unreached(D, blocks', c) /\ c \in comps /\ c \in Cells
          BY <1>2, <1>7, <1>9, <3>2
        <4>2. c \notin D
          BY <4>1, ReachIs DEF Unreached
        <4>3. power'[c] = power[c]
          BY <1>4, <4>1, <4>2
        <4>4. c # q => c \notin Marked
          BY <1>8, <3>2
        <4>5. c = q => power[c] = DesiredPower(c)
          BY <1>4, <4>1, <4>3
        <4>6. QED
          BY <4>1, <4>3, <4>4, <4>5
      <3>3. QED
        BY <1>5, <2>2, <3>1, <3>2, PowerStays
    <2>4. ScreenInv'
      BY <1>2, <1>7, <1>8, <2>1 DEF Loaded, ScreenInv
    <2>5. PlateInv' /\ TickInv' /\ ButtonInv' /\ PistonInv'
      BY <1>2, <2>1 DEF Loaded, PlateInv, TickInv, ButtonInv, PistonInv, Ticking, Column, Suits
    <2>6. RepeaterInv'
      <3>1. ASSUME NEW CONSTANT c \in comps' \ lost', blocks'[c] = "repeater", ~Treated(c)', ~Ticking(c)'
            PROVE  Unreached(D, blocks', c) /\ open'[c] = open[c] /\ open[c] = Fed(Now, c)
        <4>1. c \in comps \ lost /\ blocks[c] = "repeater" /\ ~Treated(c) /\ ~Ticking(c) /\ open'[c] = open[c]
          BY <1>2, <1>8, <3>1 DEF Ticking
        <4>2. open[c] = Fed(Now, c)
          BY <2>1, <4>1 DEF Loaded, RepeaterInv
        <4>3. QED
          BY <1>9, <3>1, <4>1, <4>2
      <3>2. QED
        BY <1>5, <2>2, <3>1, RepeatersStay
    <2>7. ObserverInv'
      <3>1. \A c : Ahead(c)' = Ahead(c) /\ (Ticking(c)' <=> Ticking(c))
        BY <1>2 DEF Ahead, At, Now, Cells, Ticking
      <3>2. \A c \in comps : blocks[c] = "observer" => power'[c] = power[c]
        BY <1>4, <1>7, DesiredFixed
      <3>3. QED
        BY <1>2, <2>1, <3>1, <3>2 DEF Loaded, ObserverInv
    <2>8. TorchInv'
      <3>1. SUFFICES ASSUME NEW CONSTANT c \in comps, blocks[c] = "torch"
                     PROVE  IF open[c] THEN (c \in evaluated' /\ power'[c] = MaxPower) \/ (pass' = 0 /\ c \in current')
                            ELSE c \in current' \cup next'
        BY <1>1, <1>2 DEF TorchInv
      <3>2. IF open[c] THEN (c \in evaluated /\ power[c] = MaxPower) \/ (pass = 0 /\ c \in current)
            ELSE c \in current \cup next
        BY <1>1, <2>1, <3>1 DEF Loaded, TorchInv
      <3>3. CASE c # q
        BY <1>2, <1>4, <1>7, <3>2, <3>3
      <3>4. CASE c = q /\ open[c]
        <4>1. power'[c] = MaxPower
          BY <1>4, <3>1, <3>4, DesiredFixed
        <4>2. QED
          BY <1>2, <3>4, <4>1
      <3>5. CASE c = q /\ ~open[c]
        <4>1. DesiredPower(c) = IF power[c] > 0 THEN 0 ELSE MaxPower
          BY <3>1, <3>5, DesiredFixed
        <4>2. power[c] \in 0 .. MaxPower
          BY <1>1, <1>7, <3>1 DEF CircuitTypes
        <4>3. DesiredPower(c) # power[c]
          BY <1>1, <4>1, <4>2
        <4>4. c \in D
          BY <1>3, <3>1, <3>5, <4>3
        <4>5. c \in Woken(blocks, comps, D)
          BY <3>1, <4>4, WokenIs
        <4>6. QED
          BY <1>4, <3>5, <4>4, <4>5
      <3>6. QED
        BY <3>3, <3>4, <3>5
    <2>9. QED
      BY <2>3, <2>4, <2>5, <2>6, <2>7, <2>8 DEF Loaded
  <1>12. QED
    BY <1>5, <1>6, <1>10, <1>11 DEF CircuitInv

LEMMA NextPassKeeps ==
  ASSUME CircuitInv, NextPass
  PROVE  CircuitInv'
  <1>1. CircuitTypes /\ KnownInv /\ PhaseInv /\ LatchInv /\ ShotInv /\ phase = "settle" /\ pass < MaxPasses
    BY DEF CircuitInv, NextPass
  <1>2. /\ UNCHANGED <<served, blocks, open, level, gone, comps, power, latched, scheduled, dirty, synced, seen, watch,
                       phase, evaluated, due, changed, saved, touched, lost, shots>>
        /\ current = {} /\ current' = next /\ next' = {} /\ pass' = pass + 1
    BY DEF NextPass, world, circuit, disk, history
  <1>3. CircuitTypes' /\ PhaseInv'
    BY <1>1, <1>2, RedstoneAssumption DEF CircuitTypes, PhaseInv
  <1>4. KnownInv'
    BY <1>1, <1>2 DEF KnownInv, AllComponents, Cells
  <1>5. /\ \A c : ToDo(c) => ToDo(c)'
        /\ \A c : (Treated(c)' <=> Treated(c)) /\ (c \in Marked' <=> c \in Marked) /\ (Ticking(c)' <=> Ticking(c))
    BY <1>2 DEF ToDo, Treated, Marked, Ticking
  <1>6. LatchInv' /\ ShotInv'
    BY <1>1, <1>2, <1>5 DEF LatchInv, ShotInv
  <1>7. ASSUME gone' = {} PROVE Loaded'
    <2>1. Loaded
      BY <1>2, <1>7 DEF CircuitInv
    <2>2. ChangedIn({}) /\ \A c : Unreached({}, blocks', c)
      BY <1>1, <1>2, UntouchedPower
    <2>3. PowerInv'
      <3>1. PowerInv
        BY <2>1 DEF Loaded
      <3>2. \A c \in comps' \ Marked' :
              Unreached({}, blocks', c) /\ c \in comps /\ power'[c] = power[c] /\ (c \notin Marked \/ power[c] = DesiredPower(c))
        BY <1>2, <1>5, <2>2
      <3>3. QED
        BY <1>3, <2>2, <3>1, <3>2, PowerStays
    <2>4. ScreenInv' /\ PlateInv' /\ TickInv' /\ ButtonInv' /\ PistonInv'
      BY <1>2, <1>5, <2>1 DEF Loaded, ScreenInv, PlateInv, TickInv, ButtonInv, PistonInv, Column, Suits
    <2>5. RepeaterInv'
      <3>1. ASSUME NEW CONSTANT c \in comps' \ lost', blocks'[c] = "repeater", ~Treated(c)', ~Ticking(c)'
            PROVE  Unreached({}, blocks', c) /\ open'[c] = open[c] /\ open[c] = Fed(Now, c)
        BY <1>2, <1>5, <2>1, <2>2, <3>1 DEF Loaded, RepeaterInv
      <3>2. QED
        BY <1>3, <2>2, <3>1, RepeatersStay
    <2>6. ObserverInv'
      <3>1. \A c : Ahead(c)' = Ahead(c)
        BY <1>2 DEF Ahead, At, Now, Cells
      <3>2. QED
        BY <1>2, <1>5, <2>1, <3>1 DEF Loaded, ObserverInv
    <2>7. TorchInv'
      BY <1>1, <1>2, <2>1 DEF Loaded, TorchInv
    <2>8. QED
      BY <2>3, <2>4, <2>5, <2>6, <2>7 DEF Loaded
  <1>8. QED
    BY <1>3, <1>4, <1>6, <1>7 DEF CircuitInv

-----------------------------------------------------------------------------
(* The start of a tick.                                                      *)

LEMMA OneLess ==
  ASSUME NEW v \in Nat
  PROVE  Max({0, v - 1}) \in 0 .. v
  <1>1. \E x \in {0, v - 1} : \A y \in {0, v - 1} : x >= y
    <2>1. CASE v = 0
      BY <2>1
    <2>2. CASE v # 0
      BY <2>2
    <2>3. QED
      BY <2>1, <2>2
  <1>2. Max({0, v - 1}) \in {0, v - 1} /\ \A y \in {0, v - 1} : Max({0, v - 1}) >= y
    BY <1>1 DEF Max
  <1>3. QED
    BY <1>2

\* A tick one step nearer.
Older(e) == [e EXCEPT !.left = @ - 1]

LEMMA TickAged ==
  ASSUME NEW e \in Ticks
  PROVE  LET a == Older(e) IN
         /\ a.pos = e.pos /\ a.kind = e.kind /\ a.left = e.left - 1
         /\ a.left = 0 \/ a \in Ticks
  <1>1. PICK pos \in Cells, kind \in TickKinds, left \in Nat \ {0} : e = [pos |-> pos, kind |-> kind, left |-> left]
    BY DEF Ticks
  <1>2. [e EXCEPT !.left = @ - 1] = [pos |-> pos, kind |-> kind, left |-> left - 1]
    BY <1>1
  <1>3. left - 1 = 0 \/ left - 1 \in Nat \ {0}
    OBVIOUS
  <1>4. QED
    BY <1>1, <1>2, <1>3 DEF Ticks, Older

LEMMA AgedIs ==
  ASSUME scheduled \subseteq Ticks
  PROVE  LET aged == {Older(e) : e \in scheduled} IN
         /\ \A a \in aged : \E e \in scheduled : a.pos = e.pos /\ a.kind = e.kind /\ (a.left = 0 \/ a \in Ticks)
         /\ \A e \in scheduled : \E a \in aged : a.pos = e.pos /\ a.kind = e.kind
  <1>1. \A e \in scheduled : /\ Older(e).pos = e.pos /\ Older(e).kind = e.kind
                             /\ Older(e).left = 0 \/ Older(e) \in Ticks
    BY TickAged
  <1>2. ASSUME NEW a, NEW e \in scheduled, a = Older(e)
        PROVE  a.pos = e.pos /\ a.kind = e.kind /\ (a.left = 0 \/ a \in Ticks)
    BY <1>1, <1>2, Zenon
  <1>3. \A a \in {Older(e) : e \in scheduled} : \E e \in scheduled : a.pos = e.pos /\ a.kind = e.kind /\ (a.left = 0 \/ a \in Ticks)
    BY <1>2, Zenon
  <1>4. \A e \in scheduled : \E a \in {Older(x) : x \in scheduled} : a.pos = e.pos /\ a.kind = e.kind
    BY <1>1, Zenon
  <1>5. QED
    BY <1>3, <1>4

\* What an observer remembers of what is in front of it.
LEMMA LookedIs ==
  ASSUME CircuitTypes, NEW known, NEW p \in Cells
  PROVE  /\ Looked(known)[p] \in Views
         /\ p \in known /\ blocks[p] = "observer" /\ gone = {} => Looked(known)[p].front = Ahead(p)
         /\ blocks[p] # "observer" => Looked(known)[p] = watch[p]
  <1> DEFINE S == (BlockKinds \cup {"none", "bedrock"}) \X BOOLEAN
  <1>1. watch[p] \in Views
    BY DEF CircuitTypes
  <1>2. Ahead(p) \in S
    BY DEF Ahead, At, Now, CircuitTypes
  <1>3. PICK n \in 0 .. 2 : n = IF p \in Startled(known) THEN 2 ELSE 0
    OBVIOUS
  <1>4. Looked(known)[p] = IF p \in Roused(known) THEN [front |-> Ahead(p), pending |-> n] ELSE watch[p]
    BY <1>3 DEF Looked
  <1>5. PICK f : f = Ahead(p)
    OBVIOUS
  <1>6. f \in S
    BY <1>2, <1>5
  <1> HIDE DEF S
  <1>7. [front |-> f, pending |-> n] \in [front : S, pending : 0 .. 2]
    BY <1>6
  <1>8. Looked(known)[p] \in Views
    BY <1>1, <1>4, <1>5, <1>7 DEF Views, S
  <1>9. ASSUME p \in known, blocks[p] = "observer", gone = {}
        PROVE  Looked(known)[p].front = Ahead(p)
    BY <1>4, <1>9 DEF Roused, Watching
  <1>10. ASSUME blocks[p] # "observer" PROVE Looked(known)[p] = watch[p]
    BY <1>4, <1>10 DEF Roused, Watching
  <1>11. QED
    BY <1>8, <1>9, <1>10

LEMMA UnreachedLess ==
  ASSUME NEW D, NEW E, D \subseteq E, NEW b, NEW c, Unreached(E, b, c)
  PROVE  Unreached(D, b, c)
  BY DEF Unreached

LEMMA BeginTickKeeps ==
  ASSUME CircuitInv, BeginTick
  PROVE  CircuitInv'
  <1> DEFINE known == IF synced THEN comps ELSE comps \cap AllComponents(blocks)
             aged == {[e EXCEPT !.left = @ - 1] : e \in scheduled}
             ripe == {e \in aged : e.left = 0}
             released == {p \in {e.pos : e \in {r \in ripe : r.kind = "release" /\ blocks[r.pos] = "button"}} : open[p]}
             opening == {e.pos : e \in {r \in ripe : r.kind = "on" /\ blocks[r.pos] = "repeater"}}
             closing == {e.pos : e \in {r \in ripe : r.kind = "off" /\ blocks[r.pos] = "repeater"}}
             rising == {e.pos : e \in {r \in ripe : r.kind = "rise" /\ blocks[r.pos] = "observer"}}
             falling == {e.pos : e \in {r \in ripe : r.kind = "fall" /\ blocks[r.pos] = "observer"}}
             pressed == {p \in known : blocks[p] = "plate" /\ open[p] # (p \in occupants)}
             flipped == released \cup {p \in opening : ~open[p]} \cup {p \in closing : open[p]} \cup pressed
             rung == IF Cardinality(scheduled) < ScheduleCap THEN Ringing(known) ELSE {}
             future == (aged \ ripe) \cup {[pos |-> p, kind |-> "rise", left |-> 1] : p \in rung}
             answered == IF Cardinality(future) < ScheduleCap THEN rising ELSE {}
             woke == (unread \cap known) \cup released \cup opening \cup closing \cup rising \cup falling \cup pressed
  <1>1. CircuitTypes /\ KnownInv /\ PhaseInv /\ LatchInv /\ ShotInv /\ phase = "idle"
    BY DEF CircuitInv, BeginTick
  <1>2. /\ comps' = known /\ synced' = TRUE /\ phase' = "settle" /\ pass' = 0
        /\ open' = [p \in Cells |-> open[p] # (p \in flipped)]
        /\ power' = [p \in Cells |-> CASE p \in rising -> MaxPower [] p \in falling -> 0 [] OTHER -> power[p]]
    BY DEF BeginTick
  <1>3. watch' = [p \in Cells |-> [Looked(known)[p] EXCEPT
                    !.pending = CASE p \in rising -> Max({0, @ - 1}) [] p \in falling -> 0 [] OTHER -> @]]
    BY DEF BeginTick
  <1>4. /\ scheduled' = future \cup {[pos |-> p, kind |-> "fall", left |-> 2] : p \in answered}
        /\ due' = {e.pos : e \in ripe} /\ changed' = flipped
        /\ current' = (dirty \cap known) \cup Roused(known) \cup Woken(blocks, known, woke)
    BY DEF BeginTick
  <1>5. /\ dirty' = {} /\ next' = {} /\ evaluated' = {}
        /\ lost' = (lost \ falling) \cup (Ringing(known) \ rung) \cup (rising \ answered)
        /\ seen' = Occupied(known) /\ touched \subseteq touched'
        /\ UNCHANGED <<served, blocks, level, gone, latched, occupants, saved, shots>>
    BY DEF BeginTick
  <1>6. known = AllComponents(blocks) /\ known \subseteq comps /\ (gone = {} => known = comps)
    BY <1>1 DEF KnownInv
  <1>7. /\ \A a \in aged : \E e \in scheduled : a.pos = e.pos /\ a.kind = e.kind /\ (a.left = 0 \/ a \in Ticks)
        /\ \A e \in scheduled : \E a \in aged : a.pos = e.pos /\ a.kind = e.kind
    BY <1>1, AgedIs DEF CircuitTypes, Older
  <1>8. /\ \A a \in ripe : a \in aged
        /\ \A a \in aged : a \in ripe \/ a \in Ticks
    BY <1>7
  <1> HIDE DEF aged
  <1>9. /\ \A p \in released : blocks[p] = "button" /\ open[p]
        /\ \A p \in opening \cup closing : blocks[p] = "repeater"
        /\ \A p \in rising \cup falling : blocks[p] = "observer"
        /\ \A p \in pressed : blocks[p] = "plate"
    OBVIOUS
  <1>10. \A a \in ripe :
           /\ a.kind = "release" /\ blocks[a.pos] = "button" /\ open[a.pos] => a.pos \in released
           /\ a.kind = "rise" /\ blocks[a.pos] = "observer" => a.pos \in rising
           /\ a.kind = "fall" /\ blocks[a.pos] = "observer" => a.pos \in falling
    OBVIOUS
  <1> HIDE DEF known, ripe, released, opening, closing, rising, falling, pressed, rung, answered
  <1>11. ASSUME NEW p \in Cells, blocks[p] \notin {"button", "repeater", "plate"} PROVE p \notin flipped
    BY <1>9, <1>11
  <1>12. /\ \A p : p \in flipped /\ blocks[p] = "plate" => p \in pressed
         /\ \A p \in Cells : blocks[p] = "button" => (p \in flipped <=> p \in released)
         /\ \A p \in flipped : p \in woke
         /\ released \subseteq flipped /\ pressed \subseteq flipped
    BY <1>9
  <1>13. /\ \A p \in Cells : p \notin flipped => open'[p] = open[p]
         /\ \A p \in Cells : p \in flipped => open'[p] = ~open[p]
         /\ \A p \in Cells : p \notin rising \cup falling => power'[p] = power[p]
         /\ \A p \in Cells : p \in falling => power'[p] = 0 \/ p \in rising
    BY <1>1, <1>2 DEF CircuitTypes
  <1>14. \A p \in Cells : blocks[p] # "observer" => power'[p] = power[p]
    BY <1>9, <1>13
  <1>15. \A c \in known : /\ c \in dirty => c \in current'
                          /\ c \in woke => c \in current'
                          /\ ~Unreached(woke, blocks, c) => c \in current'
    BY <1>4, WokenIs
  <1> DEFINE turned == flipped \cup rising \cup falling
  <1>16. turned \subseteq woke
    BY <1>12
  <1>17. \A c \in known : ~Unreached(turned, blocks, c) => c \in current'
    <2>1. SUFFICES ASSUME NEW c \in known, ~Unreached(turned, blocks, c) PROVE c \in current'
      OBVIOUS
    <2> HIDE DEF turned, woke, flipped
    <2>2. ~Unreached(woke, blocks, c)
      BY <1>16, <2>1, UnreachedLess
    <2>3. QED
      BY <1>15, <2>1, <2>2
  <1> HIDE DEF flipped, woke, turned
  <1>18. known \subseteq Cells
    BY <1>1, <1>6 DEF CircuitTypes
  <1>19. CircuitTypes'
    <2>1. power' \in [Cells -> 0 .. MaxPower]
      <3>1. \A p \in Cells : power[p] \in 0 .. MaxPower /\ 0 \in 0 .. MaxPower /\ MaxPower \in 0 .. MaxPower
        BY <1>1, RedstoneAssumption DEF CircuitTypes
      <3>2. QED
        BY <1>2, <3>1
    <2>2. watch' \in [Cells -> Views]
      <3>1. SUFFICES ASSUME NEW p \in Cells PROVE watch'[p] \in Views
        BY <1>3
      <3> DEFINE look == Looked(known)[p]
                 left == CASE p \in rising -> Max({0, look.pending - 1}) [] p \in falling -> 0 [] OTHER -> look.pending
      <3>2. look \in Views
        BY <1>1, LookedIs
      <3>3. watch'[p] = [look EXCEPT !.pending = left]
        BY <1>3
      <3> HIDE DEF look
      <3>4. look.pending \in 0 .. 2 /\ Max({0, look.pending - 1}) \in 0 .. look.pending
        BY <3>2, OneLess DEF Views
      <3>5. left \in 0 .. 2
        BY <3>4
      <3> HIDE DEF left
      <3>6. QED
        BY <3>2, <3>3, <3>5 DEF Views
    <2>3. scheduled' \subseteq Ticks
      <3>1. rung \subseteq Cells /\ answered \subseteq Cells
        <4>1. Ringing(known) \subseteq Cells
          BY <1>18 DEF Ringing, Watching
        <4>2. rising \subseteq Cells
          BY <1>1, <1>7, <1>8 DEF rising, CircuitTypes, Ticks
        <4>3. QED
          BY <4>1, <4>2 DEF rung, answered
      <3>2. \A p \in Cells : [pos |-> p, kind |-> "rise", left |-> 1] \in Ticks /\ [pos |-> p, kind |-> "fall", left |-> 2] \in Ticks
        BY DEF Ticks, TickKinds
      <3>3. QED
        BY <1>4, <1>8, <3>1, <3>2
    <2>4. QED
      BY <1>1, <1>2, <1>5, <1>18, <2>1, <2>2, <2>3, RedstoneAssumption DEF CircuitTypes
  <1>20. PhaseInv' /\ KnownInv'
    <2>1. PhaseInv'
      BY <1>2, <1>5, RedstoneAssumption DEF PhaseInv
    <2>2. KnownInv'
      BY <1>2, <1>5, <1>6 DEF KnownInv, AllComponents, Cells
    <2>3. QED
      BY <2>1, <2>2
  <1>21. /\ \A c \in known : blocks[c] # "observer" /\ c \notin lost' => c \notin lost
         /\ \A c \in lost \ falling : c \in lost'
         /\ \A c : c \in current' => ToDo(c)' /\ Treated(c)' /\ c \in Marked'
         /\ \A c \in known : ToDo(c) \/ Treated(c) \/ c \in Marked => c \in current'
    <2>1. \A c : (ToDo(c) <=> c \in dirty) /\ (Treated(c) <=> c \in dirty) /\ (c \in Marked <=> c \in dirty)
      BY <1>1, IdleFacts
    <2>2. \A c : c \in current' => ToDo(c)' /\ Treated(c)' /\ c \in Marked'
      BY <1>2 DEF ToDo, Treated, Marked
    <2>3. QED
      BY <1>5, <1>9, <1>15, <2>1, <2>2
  <1>22. LatchInv' /\ ShotInv'
    <2>1. "observer" \notin Latching /\ "dispenser" # "observer"
      BY KindFacts
    <2>2. LatchInv'
      BY <1>1, <1>2, <1>5, <1>6, <1>14, <1>18, <1>21, <2>1 DEF LatchInv
    <2>3. ShotInv'
      BY <1>1, <1>2, <1>5, <1>6, <1>18, <1>21, <2>1 DEF ShotInv
    <2>4. QED
      BY <2>2, <2>3
  <1>23. ASSUME gone' = {} PROVE Loaded'
    <2>1. gone = {} /\ Loaded /\ known = comps
      BY <1>5, <1>6, <1>23 DEF CircuitInv
    <2>2. ChangedIn(turned)
      <3>1. \A c \in Cells \ turned : open'[c] = open[c] /\ power'[c] = power[c]
        BY <1>13 DEF turned
      <3>2. QED
        BY <1>2, <1>5, <1>18, <2>1, <3>1 DEF ChangedIn, AlikeBut, Alike
    <2>3. \A c \in known : c \notin current' =>
            /\ Unreached(turned, blocks', c) /\ c \notin turned /\ power'[c] = power[c] /\ open'[c] = open[c]
            /\ c \in Cells
      <3>1. SUFFICES ASSUME NEW c \in known, c \notin current'
                     PROVE  /\ Unreached(turned, blocks', c) /\ c \notin turned
                            /\ power'[c] = power[c] /\ open'[c] = open[c] /\ c \in Cells
        OBVIOUS
      <3>2. Unreached(turned, blocks', c)
        BY <1>5, <1>17, <3>1
      <3>3. c \notin turned
        BY <3>2, ReachIs DEF Unreached
      <3>4. QED
        BY <1>13, <1>18, <3>1, <3>2, <3>3 DEF turned
    <2>4. PowerInv'
      <3>1. PowerInv
        BY <2>1 DEF Loaded
      <3>2. \A c \in comps' \ Marked' :
              /\ Unreached(turned, blocks', c) /\ c \in comps /\ power'[c] = power[c]
              /\ c \notin Marked \/ power[c] = DesiredPower(c)
        BY <1>2, <1>21, <2>1, <2>3
      <3>3. QED
        BY <1>19, <2>2, <3>1, <3>2, PowerStays
    <2>5. \A c \in Cells : blocks[c] \notin {"button", "repeater", "plate"} => open'[c] = open[c]
      BY <1>11, <1>13
    <2>6. ScreenInv'
      BY <1>2, <1>5, <1>14, <1>18, <1>21, <2>1, <2>5 DEF Loaded, ScreenInv
    <2>7. PlateInv'
      <3>1. SUFFICES ASSUME NEW c \in known, blocks[c] = "plate" PROVE open'[c] = (c \in seen')
        BY <1>2, <1>5 DEF PlateInv
      <3>2. c \in Cells /\ open[c] \in BOOLEAN
        BY <1>1, <1>18, <3>1 DEF CircuitTypes
      <3>3. c \in seen' <=> c \in occupants
        BY <1>5, <3>1 DEF Occupied
      <3>4. c \in flipped <=> c \in pressed
        BY <1>12, <3>1
      <3>5. c \in pressed <=> open[c] # (c \in occupants)
        BY <3>1 DEF pressed
      <3>6. open'[c] = (open[c] # (c \in flipped))
        BY <1>2, <3>2
      <3>7. QED
        BY <3>2, <3>3, <3>4, <3>5, <3>6
    <2>8. TickInv /\ TickInv'
      <3>1. TickInv
        BY <2>1 DEF Loaded
      <3>2. \A a \in aged : Suits(a.kind, blocks[a.pos])
        BY <1>7, <3>1 DEF TickInv
      <3>3. \A p \in rung : blocks[p] = "observer"
        BY DEF rung, Ringing, Watching
      <3>4. \A p \in answered : blocks[p] = "observer"
        BY <1>9 DEF answered
      <3>5. ASSUME NEW e \in scheduled' PROVE Suits(e.kind, blocks[e.pos])
        <4>1. CASE e \in aged
          BY <3>2, <4>1
        <4>2. CASE \E p \in rung : e = [pos |-> p, kind |-> "rise", left |-> 1]
          BY <3>3, <4>2 DEF Suits
        <4>3. CASE \E p \in answered : e = [pos |-> p, kind |-> "fall", left |-> 2]
          BY <3>4, <4>3 DEF Suits
        <4>4. QED
          BY <1>4, <3>5, <4>1, <4>2, <4>3
      <3>6. QED
        BY <1>5, <3>1, <3>5 DEF TickInv, Suits
    \* A tick that is not due stays.
    <2>9. \A e \in scheduled : \/ \E a \in ripe : a.pos = e.pos /\ a.kind = e.kind
                               \/ \E a \in scheduled' : a.pos = e.pos /\ a.kind = e.kind
      <3>1. SUFFICES ASSUME NEW e \in scheduled
                     PROVE  \/ \E a \in ripe : a.pos = e.pos /\ a.kind = e.kind
                            \/ \E a \in scheduled' : a.pos = e.pos /\ a.kind = e.kind
        OBVIOUS
      <3>2. PICK a \in aged : a.pos = e.pos /\ a.kind = e.kind
        BY <1>7
      <3>3. a \notin ripe => a \in scheduled'
        BY <1>4
      <3>4. QED
        BY <3>2, <3>3
    <2>10. ButtonInv'
      <3>1. SUFFICES ASSUME NEW c \in known, c \notin lost', blocks[c] = "button", open'[c] PROVE Ticking(c)'
        BY <1>2, <1>5 DEF ButtonInv, Ticking
      <3>2. c \notin released
        BY <1>9, <1>12, <1>13, <1>18, <3>1
      <3>3. open[c] /\ c \notin lost
        BY <1>12, <1>13, <1>18, <1>21, <3>1, <3>2
      <3>4. PICK e \in scheduled : e.pos = c
        BY <2>1, <3>1, <3>3 DEF Loaded, ButtonInv, Ticking
      <3>5. e.kind = "release"
        BY <2>8, <3>1, <3>4 DEF TickInv, Suits
      <3>6. ~\E a \in ripe : a.pos = e.pos /\ a.kind = e.kind
        BY <1>10, <3>1, <3>2, <3>3, <3>4, <3>5
      <3>7. PICK a \in scheduled' : a.pos = e.pos
        BY <2>9, <3>6
      <3>8. QED
        BY <3>4, <3>7 DEF Ticking
    <2>11. RepeaterInv'
      <3>1. ASSUME NEW CONSTANT c \in comps' \ lost', blocks'[c] = "repeater", ~Treated(c)', ~Ticking(c)'
            PROVE  Unreached(turned, blocks', c) /\ open'[c] = open[c] /\ open[c] = Fed(Now, c)
        <4>1. c \in known /\ c \notin current' /\ blocks[c] = "repeater" /\ c \notin lost
          BY <1>2, <1>5, <1>21, <3>1
        <4>2. ~Treated(c) /\ Unreached(turned, blocks', c) /\ open'[c] = open[c]
          BY <1>21, <2>3, <4>1
        <4>3. c \notin due'
          BY <3>1 DEF Treated
        <4>4. ~Ticking(c)
          BY <1>4, <2>9, <3>1, <4>3 DEF Ticking
        <4>5. open[c] = Fed(Now, c)
          BY <2>1, <4>1, <4>2, <4>4 DEF Loaded, RepeaterInv
        <4>6. QED
          BY <4>2, <4>5
      <3>2. QED
        BY <1>19, <2>2, <3>1, RepeatersStay
    <2>12. PistonInv'
      <3>1. \A c \in known : blocks[c] \in Pistons => open'[c] = open[c]
        BY <1>18, <2>5, KindFacts
      <3>2. QED
        BY <1>2, <1>5, <2>1, <3>1 DEF Loaded, PistonInv, Column
    <2>13. ObserverInv'
      <3>1. SUFFICES ASSUME NEW CONSTANT c \in known, blocks[c] = "observer"
                     PROVE  /\ c + 1 \in changed' \/ watch'[c].front = Ahead(c)'
                            /\ c \in lost' \/ watch'[c].pending = 0 \/ Ticking(c)'
                            /\ c \in lost' \/ power'[c] = 0 \/ \E e \in scheduled' : e.pos = c /\ e.kind = "fall"
        BY <1>2, <1>5 DEF ObserverInv, Ticking, Ahead, At, Now, Cells
      <3>2. c \in Cells /\ c \in comps
        BY <1>18, <2>1, <3>1
      <3>3. PICK look : look = Looked(known)[c]
        OBVIOUS
      <3>4. look \in Views /\ look.front = Ahead(c)
        BY <1>1, <2>1, <3>1, <3>2, <3>3, LookedIs
      <3>5. PICK left : left = CASE c \in rising -> Max({0, look.pending - 1}) [] c \in falling -> 0
                               [] OTHER -> look.pending
        OBVIOUS
      <3>6. watch'[c] = [look EXCEPT !.pending = left]
        BY <1>3, <3>2, <3>3, <3>5
      <3>7. watch'[c].front = look.front /\ watch'[c].pending = left
        BY <3>4, <3>6 DEF Views
      <3>8. c + 1 \in changed' \/ Ahead(c)' = Ahead(c)
        <4>1. c + 1 \in Cells /\ c + 1 \notin flipped => open'[c + 1] = open[c + 1]
          BY <1>13
        <4>2. QED
          BY <1>4, <1>5, <4>1 DEF Ahead, At, Now, Cells
      <3>9. CASE c \in rising
        <4>1. CASE c \in answered
          <5>1. [pos |-> c, kind |-> "fall", left |-> 2] \in scheduled'
            BY <1>4, <4>1
          <5>2. \E e \in scheduled' : e.pos = c /\ e.kind = "fall"
            BY <5>1
          <5>3. QED
            BY <3>4, <3>7, <3>8, <5>2 DEF Ticking
        <4>2. CASE c \notin answered
          BY <1>5, <3>4, <3>7, <3>8, <3>9, <4>2
        <4>3. QED
          BY <4>1, <4>2
      <3>10. CASE c \in falling /\ c \notin rising
        BY <1>13, <3>2, <3>4, <3>5, <3>7, <3>8, <3>10
      <3>11. CASE c \notin rising \cup falling
        <4>1. left = look.pending /\ power'[c] = power[c]
          BY <1>13, <3>2, <3>5, <3>11
        <4>2. \A e \in scheduled : e.pos = c => \E a \in scheduled' : a.pos = c /\ a.kind = e.kind
          <5>1. SUFFICES ASSUME NEW e \in scheduled, e.pos = c PROVE \E a \in scheduled' : a.pos = c /\ a.kind = e.kind
            OBVIOUS
          <5>2. e.kind \in TickKinds
            BY <1>1 DEF CircuitTypes, Ticks
          <5>3. e.kind \in {"rise", "fall"}
            BY <2>8, <3>1, <5>1, <5>2 DEF TickInv, Suits, TickKinds
          <5>4. ~\E a \in ripe : a.pos = e.pos /\ a.kind = e.kind
            BY <1>10, <3>1, <3>11, <5>1, <5>3
          <5>5. QED
            BY <2>9, <5>1, <5>4
        <4>3. c \in lost' \/ left = 0 \/ Ticking(c)'
          <5>1. CASE \E e \in scheduled : e.pos = c
            BY <4>2, <5>1 DEF Ticking
          <5>2. CASE look.pending > 0 /\ \A e \in scheduled : e.pos # c
            <6>1. c \in Ringing(known)
              BY <2>1, <3>1, <3>3, <5>2 DEF Ringing, Watching
            <6>2. CASE c \in rung
              <7>1. [pos |-> c, kind |-> "rise", left |-> 1] \in scheduled'
                BY <1>4, <6>2
              <7>2. QED
                BY <7>1 DEF Ticking
            <6>3. CASE c \notin rung
              BY <1>5, <6>1, <6>3
            <6>4. QED
              BY <6>2, <6>3
          <5>3. QED
            BY <3>4, <4>1, <5>1, <5>2 DEF Views
        <4>4. c \in lost' \/ power'[c] = 0 \/ \E e \in scheduled' : e.pos = c /\ e.kind = "fall"
          <5>1. c \in lost \/ power[c] = 0 \/ \E e \in scheduled : e.pos = c /\ e.kind = "fall"
            BY <2>1, <3>1, <3>2 DEF Loaded, ObserverInv
          <5>2. QED
            BY <1>21, <3>11, <4>1, <4>2, <5>1
        <4>5. QED
          BY <3>4, <3>7, <3>8, <4>3, <4>4
      <3>12. QED
        BY <3>9, <3>10, <3>11
    <2>14. TorchInv'
      <3>1. \A c \in known : blocks[c] = "torch" => c \in current'
        BY <1>1, <1>15, <2>1 DEF Loaded, TorchInv
      <3>2. QED
        BY <1>2, <1>5, <3>1 DEF TorchInv
    <2>15. QED
      BY <2>4, <2>6, <2>7, <2>8, <2>10, <2>11, <2>12, <2>13, <2>14 DEF Loaded
  <1>24. QED
    BY <1>19, <1>20, <1>22, <1>23 DEF CircuitInv

-----------------------------------------------------------------------------
(* The end of a tick.                                                        *)

LEMMA AtMostTwo ==
  ASSUME NEW n \in 0 .. 2
  PROVE  Min({2, n + 1}) \in 0 .. 2 /\ (n = 0 => Min({2, n + 1}) = 1)
  <1>1. \E x \in {2, n + 1} : \A y \in {2, n + 1} : x <= y
    <2>1. CASE n = 2
      BY <2>1
    <2>2. CASE n # 2
      BY <2>2
    <2>3. QED
      BY <2>1, <2>2
  <1>2. Min({2, n + 1}) \in {2, n + 1} /\ \A y \in {2, n + 1} : Min({2, n + 1}) <= y
    BY <1>1 DEF Min
  <1>3. QED
    BY <1>2

LEMMA FinishTickKeeps ==
  ASSUME CircuitInv, FinishTick
  PROVE  CircuitInv'
  <1>1. /\ CircuitTypes /\ KnownInv /\ PhaseInv /\ LatchInv /\ ShotInv /\ phase = "settle" /\ Settled
        /\ MaxPower \in Nat \ {0} /\ MaxPasses \in Nat \ {0}
    BY RedstoneAssumption DEF CircuitInv, FinishTick
  <1>2. PICK w : w = Transited
    OBVIOUS
  <1> DEFINE mutated == changed \cup w.switched \cup w.moved
             known == {p \in comps \cup w.moved : w.block[p] \in Components}
             latching == {p \in Candidates : blocks[p] \in {"dispenser"} \cup Pistons}
  <1>3. /\ blocks' = w.block
        /\ open' = [p \in Cells |-> w.open[p] /\ p \notin Folded(w.open, mutated)]
        /\ comps' = known
        /\ power' = [p \in Cells |-> IF p \in w.moved THEN Resting(w.block[p]) ELSE power[p]]
        /\ latched' = ((latched \ Candidates) \cup {p \in latching : power[p] > 0}) \ w.moved
        /\ scheduled' = {e \in w.scheduled : e.pos \notin w.moved \ known}
    BY <1>2 DEF FinishTick
  <1>4. /\ level' = [p \in Cells |-> IF p \in w.moved THEN 0 ELSE level[p]]
        /\ watch' = [p \in Cells |-> IF p \in w.moved THEN NothingSeen ELSE watch[p]]
        /\ dirty' = current \cup Woken(w.block, known, mutated)
        /\ touched' = touched \cup {Column(p) : p \in mutated}
        /\ lost' = ((lost \ {p \in Candidates : blocks[p] = "repeater" \/ power[p] = 0}) \cup w.dropped) \ w.moved
        /\ shots' = [p \in Cells |-> CASE power[p] = 0 \/ p \in w.moved -> 0
                                       [] p \in w.fired \ w.moved -> Min({2, shots[p] + 1})
                                       [] OTHER -> shots[p]]
    BY <1>2 DEF FinishTick
  <1>5. /\ current' = {} /\ next' = {} /\ evaluated' = {} /\ due' = {} /\ changed' = {} /\ pass' = 0
        /\ phase' = "idle" /\ UNCHANGED <<served, gone, synced, seen, saved>>
    BY DEF FinishTick
  <1>6. Treating(w, Cells, Cells)
    BY <1>1, <1>2, TransitedTreats
  <1>7. /\ WorkTypes(w) /\ MovesOnce(w, Cells) /\ SchedulesRepeaters(w) /\ Fires(w, Cells)
        /\ w.block \in [Cells -> BlockKinds] /\ w.open \in [Cells -> BOOLEAN] /\ w.moved \subseteq Cells
        /\ \A c \in w.moved : w.block[c] \notin Pistons /\ (blocks[c] = "air" \/ w.block[c] = "air")
        /\ \A c \in Cells \ w.moved : w.block[c] = blocks[c]
    BY <1>6 DEF Treating, WorkTypes, MovesOnce
  \* What the tick has settled before its transitions.
  <1>8. /\ dirty = {} /\ synced /\ next = {} /\ comps = AllComponents(blocks)
        /\ \A c : ToDo(c) <=> c \in evaluated
        /\ \A c : c \in Marked <=> c \in current
        /\ pass = 0 => current = {}
    <2>1. dirty = {} /\ synced /\ next = {}
      BY <1>1 DEF PhaseInv, Settled
    <2>2. pass = 0 => current = {}
      BY <1>1 DEF Settled
    <2>3. comps = AllComponents(blocks)
      BY <1>1, <2>1 DEF KnownInv
    <2>4. QED
      BY <2>1, <2>2, <2>3 DEF ToDo, Marked
  <1>9. /\ Candidates \subseteq comps /\ comps \subseteq Cells /\ Treats(Cells) = Candidates
        /\ \A c \in comps : IsTransitionCapable(blocks[c]) /\ c \in evaluated \cup due => c \in Candidates
        /\ \A c \in Candidates : IsTransitionCapable(blocks[c])
    BY <1>1 DEF Candidates, Treats, CircuitTypes
  <1>10. known = {p \in Cells : w.block[p] \in Components}
    BY <1>7, <1>8 DEF AllComponents
  <1> HIDE DEF known, mutated
  <1>11. /\ \A c \in known : c \in Cells /\ w.block[c] \in Components
         /\ \A c \in Cells : w.block[c] \in Components => c \in known
         /\ \A c \in w.moved : c \in mutated
         /\ \A c \in w.switched \cup changed : c \in mutated
         /\ \A c \in Folded(w.open, mutated) : c \in mutated
    BY <1>10 DEF mutated, Folded
  \* A component that is not where a block was moved is what it was.
  <1>12. \A c \in known : c \notin w.moved =>
           /\ c \in comps /\ c \in Cells /\ blocks'[c] = blocks[c] /\ power'[c] = power[c] /\ watch'[c] = watch[c]
           /\ c \in lost /\ c \notin Candidates => c \in lost'
    <2>1. TAKE c \in known
    <2>2. HAVE c \notin w.moved
    <2>3. c \in Cells /\ blocks'[c] = blocks[c] /\ c \in comps
      BY <1>3, <1>7, <1>8, <1>11, <2>2 DEF AllComponents
    <2>4. QED
      BY <1>3, <1>4, <2>2, <2>3
  <1>13. /\ \A c \in known : c \in mutated => c \in dirty'
         /\ \A c \in known : ~Unreached(mutated, blocks', c) => c \in dirty'
         /\ \A c : c \in current => c \in dirty'
         /\ \A c : c \in dirty' => ToDo(c)' /\ Treated(c)' /\ c \in Marked'
    <2>1. \A c : c \in dirty' => ToDo(c)' /\ Treated(c)' /\ c \in Marked'
      BY DEF ToDo, Treated, Marked
    <2>2. QED
      BY <1>3, <1>4, <2>1, WokenIs
  <1>14. /\ \A c \in Cells : power[c] \in 0 .. MaxPower /\ shots[c] \in 0 .. 2
         /\ \A c \in Cells : open[c] \in BOOLEAN
    BY <1>1 DEF CircuitTypes
  <1>15. CircuitTypes'
    <2>1. open' \in [Cells -> BOOLEAN]
      BY <1>3, <1>7
    <2>2. power' \in [Cells -> 0 .. MaxPower]
      <3>1. \A k : Resting(k) \in 0 .. MaxPower
        BY <1>1 DEF Resting
      <3>2. QED
        BY <1>3, <1>14, <3>1
    <2>3. level' \in [Cells -> 0 .. MaxPower]
      BY <1>1, <1>4 DEF CircuitTypes
    <2>4. watch' \in [Cells -> Views]
      <3>1. watch \in [Cells -> Views]
        BY <1>1 DEF CircuitTypes
      <3>2. QED
        BY <1>4, <3>1, NothingSeenIs
    <2>5. shots' \in [Cells -> 0 .. 2]
      <3>1. \A c \in Cells : Min({2, shots[c] + 1}) \in 0 .. 2
        BY <1>14, AtMostTwo
      <3>2. QED
        BY <1>4, <1>14, <3>1
    <2>6. scheduled' \subseteq Ticks
      BY <1>1, <1>3, <1>7 DEF SchedulesRepeaters, CircuitTypes
    <2>7. latched' \subseteq Cells
      BY <1>1, <1>3, <1>9 DEF CircuitTypes
    <2>8. QED
      BY <1>1, <1>3, <1>5, <1>7, <1>11, <2>1, <2>2, <2>3, <2>4, <2>5, <2>6, <2>7 DEF CircuitTypes
  <1>16. PhaseInv'
    BY <1>1, <1>5 DEF PhaseInv
  <1>17. KnownInv'
    BY <1>3, <1>5, <1>8, <1>10 DEF KnownInv, AllComponents, Cells
  <1>18. \A c \in comps : blocks[c] \in Latching =>
           /\ c \in evaluated \cup due => c \in Candidates
           /\ c \in Candidates => c \in latching
    BY <1>9, KindFacts DEF IsTransitionCapable
  <1>19. LatchInv'
    <2>1. SUFFICES ASSUME NEW CONSTANT c \in known \ lost', blocks'[c] \in Latching, c \notin dirty'
                   PROVE  power'[c] > 0 <=> c \in latched'
      BY <1>3, <1>13 DEF LatchInv
    <2>2. c \notin w.moved
      BY <1>11, <1>13, <2>1
    <2>3. c \in comps /\ blocks[c] \in Latching /\ power'[c] = power[c] /\ c \in Cells
      BY <1>12, <2>1, <2>2
    <2>4. CASE c \in Candidates
      <3>1. c \in latching
        BY <1>18, <2>3, <2>4
      <3> HIDE DEF latching
      <3>2. c \in latched' <=> power[c] > 0
        BY <1>3, <2>2, <2>4, <3>1
      <3>3. QED
        BY <2>3, <3>2
    <2>5. CASE c \notin Candidates
      <3>1. c \notin lost /\ ~ToDo(c)
        BY <1>8, <1>12, <1>18, <2>1, <2>2, <2>3, <2>5
      <3>2. power[c] > 0 <=> c \in latched
        BY <1>1, <2>3, <3>1 DEF LatchInv
      <3>3. QED
        BY <1>3, <1>9, <2>2, <2>3, <2>5, <3>2
    <2>6. QED
      BY <2>4, <2>5
  <1>20. ShotInv'
    <2>1. SUFFICES ASSUME NEW CONSTANT c \in known \ lost', blocks'[c] = "dispenser"
                   PROVE  shots'[c] = IF c \in latched' THEN 1 ELSE 0
      BY <1>3 DEF ShotInv
    <2>2. c \in Cells
      BY <1>11, <2>1
    <2>3. CASE c \in w.moved
      BY <1>3, <1>4, <2>2, <2>3
    <2>4. CASE c \notin w.moved
      <3>1. c \in comps /\ blocks[c] = "dispenser" /\ power[c] \in 0 .. MaxPower
        BY <1>12, <1>14, <2>1, <2>4
      <3>2. blocks[c] \in Latching
        BY <3>1, KindFacts
      <3>3. c \in w.fired <=> c \in Candidates /\ Risen(c)
        BY <1>7, <1>9, <2>2, <2>4, <3>1 DEF Fires
      <3>4. c \notin lost => shots[c] = IF c \in latched THEN 1 ELSE 0
        BY <1>1, <3>1 DEF ShotInv
      <3>5. CASE c \in Candidates /\ power[c] = 0
        <4>1. c \notin latched'
          BY <1>3, <3>5
        <4>2. shots'[c] = 0
          BY <1>4, <2>2, <3>3, <3>5 DEF Risen
        <4>3. QED
          BY <4>1, <4>2
      <3>6. CASE c \in Candidates /\ power[c] # 0
        <4>1. c \in latched' /\ power[c] > 0
          BY <1>3, <1>18, <2>4, <3>1, <3>2, <3>6
        <4>2. c \notin lost
          BY <1>4, <2>1, <2>4, <3>1, <3>6
        <4>3. CASE c \in latched
          <5>1. c \notin w.fired /\ shots[c] = 1
            BY <3>3, <3>4, <4>2, <4>3 DEF Risen
          <5>2. shots'[c] = shots[c]
            BY <1>4, <2>2, <2>4, <3>6, <5>1
          <5>3. QED
            BY <4>1, <5>1, <5>2
        <4>4. CASE c \notin latched
          <5>1. c \in w.fired /\ shots[c] = 0
            BY <3>3, <3>4, <3>6, <4>1, <4>2, <4>4 DEF Risen
          <5>2. shots'[c] = Min({2, shots[c] + 1})
            BY <1>4, <2>2, <2>4, <3>6, <5>1
          <5>3. QED
            BY <1>14, <2>2, <4>1, <5>1, <5>2, AtMostTwo
        <4>5. QED
          BY <4>3, <4>4
      <3>7. CASE c \notin Candidates
        <4>1. c \notin lost /\ ~ToDo(c) /\ c \notin w.fired
          BY <1>8, <1>12, <1>18, <2>1, <2>4, <3>1, <3>2, <3>3, <3>7
        <4>2. power[c] > 0 <=> c \in latched
          BY <1>1, <3>1, <3>2, <4>1 DEF LatchInv
        <4>3. c \in latched' <=> c \in latched
          BY <1>3, <2>4, <3>7
        <4>4. power[c] = 0 => shots'[c] = 0
          BY <1>4, <2>2, <4>1
        <4>5. power[c] # 0 => shots'[c] = shots[c]
          BY <1>4, <2>2, <2>4, <4>1
        <4>6. power[c] = 0 => c \notin latched'
          BY <4>2, <4>3
        <4>7. power[c] # 0 => c \in latched'
          BY <3>1, <4>2, <4>3
        <4>8. QED
          BY <3>4, <4>1, <4>3, <4>4, <4>5, <4>6, <4>7
      <3>8. QED
        BY <3>5, <3>6, <3>7
    <2>5. QED
      BY <2>3, <2>4
  <1>21. ASSUME gone' = {} PROVE Loaded'
    <2>1. gone = {} /\ Loaded /\ Opens(w, Cells) /\ Answers(w, Cells)
      BY <1>5, <1>6, <1>21 DEF CircuitInv, Treating
    <2>2. /\ \A c \in w.moved : ~w.open[c]
          /\ \A c \in Cells \ w.moved :
               /\ w.open[c] = open[c] \/ (c \in w.switched /\ c \in Candidates /\ blocks[c] \in FlagKinds)
               /\ c \in Candidates /\ blocks[c] \in {"lamp", "comparator"} => w.open[c] = (power[c] > 0)
               /\ c \in Candidates /\ blocks[c] = "torch" => w.open[c] = (power[c] = 0)
               /\ c \in Candidates /\ blocks[c] \in Pistons /\ Fallen(c) => ~w.open[c]
               /\ blocks[c] \in Pistons /\ w.open[c] => open[c] \/ Risen(c)
      BY <1>9, <2>1 DEF Opens
    <2>3. /\ \A c \in Cells \ mutated : open'[c] = w.open[c] /\ w.open[c] = open[c]
          /\ \A c \in Cells : open'[c] => w.open[c]
      BY <1>3, <1>7, <1>11, <2>2
    <2>4. ChangedIn(mutated)
      <3>1. \A c \in Cells \ mutated : /\ blocks'[c] = blocks[c] /\ power'[c] = power[c] /\ level'[c] = level[c]
                                       /\ c \in known <=> c \in comps
        BY <1>3, <1>4, <1>7, <1>8, <1>10, <1>11 DEF AllComponents
      <3>2. known \subseteq Cells
        BY <1>11
      <3>3. QED
        BY <1>3, <1>9, <2>3, <3>1, <3>2 DEF ChangedIn, AlikeBut, Alike
    <2>5. \A c \in known : c \notin dirty' =>
            /\ Unreached(mutated, blocks', c) /\ c \notin mutated /\ c \notin w.moved /\ c \notin w.switched
            /\ c \in Cells /\ c \in comps /\ c \notin current
            /\ blocks'[c] = blocks[c] /\ open'[c] = open[c] /\ w.open[c] = open[c] /\ power'[c] = power[c]
      <3>1. TAKE c \in known
      <3>2. HAVE c \notin dirty'
      <3>3. Unreached(mutated, blocks', c) /\ c \notin mutated /\ c \notin w.moved /\ c \notin w.switched
            /\ c \notin current
        BY <1>11, <1>13, <3>2
      <3>4. QED
        BY <1>12, <2>3, <3>3
    <2>6. PowerInv'
      <3>1. PowerInv
        BY <2>1 DEF Loaded
      <3>2. \A c \in comps' \ Marked' :
              /\ Unreached(mutated, blocks', c) /\ c \in comps /\ power'[c] = power[c]
              /\ c \notin Marked \/ power[c] = DesiredPower(c)
        BY <1>3, <1>8, <1>13, <2>5
      <3>3. QED
        BY <1>15, <2>4, <3>1, <3>2, PowerStays
    <2>7. ScreenInv'
      <3>1. SUFFICES ASSUME NEW CONSTANT c \in known, blocks'[c] \in {"lamp", "comparator"}, c \notin dirty'
                     PROVE  open'[c] = (power'[c] > 0)
        BY <1>3, <1>13 DEF ScreenInv
      <3>2. /\ c \in Cells /\ c \in comps /\ blocks[c] \in {"lamp", "comparator"} /\ c \notin w.moved
            /\ open'[c] = open[c] /\ w.open[c] = open[c] /\ power'[c] = power[c]
        BY <2>5, <3>1
      <3>3. CASE c \in Candidates
        BY <2>2, <3>2, <3>3
      <3>4. CASE c \notin Candidates
        <4>1. IsTransitionCapable(blocks[c])
          BY <3>2, KindFacts DEF IsTransitionCapable
        <4>2. ~ToDo(c)
          BY <1>8, <1>9, <3>2, <3>4, <4>1
        <4>3. QED
          BY <2>1, <3>2, <4>2 DEF Loaded, ScreenInv
      <3>5. QED
        BY <3>3, <3>4
    <2>8. PlateInv'
      BY <1>3, <1>5, <1>8, <2>1, <2>5 DEF Loaded, PlateInv
    <2>9. TickInv /\ \A e \in w.scheduled : e.pos \in Cells /\ (e.pos \in known => e.pos \notin w.moved)
      <3>1. TickInv
        BY <2>1 DEF Loaded
      <3>2. \A e \in w.scheduled : e.pos \in Cells
        BY <1>1, <1>7 DEF SchedulesRepeaters, CircuitTypes, Ticks
      <3>3. ASSUME NEW e \in w.scheduled, e.pos \in known PROVE e.pos \notin w.moved
        <4>1. blocks[e.pos] # "air"
          <5>1. CASE e \in scheduled
            BY <3>1, <5>1 DEF TickInv, Suits
          <5>2. CASE e \notin scheduled
            BY <1>7, <3>3, <5>2 DEF SchedulesRepeaters
          <5>3. QED
            BY <5>1, <5>2
        <4>2. w.block[e.pos] # "air"
          BY <1>11, <3>3, KindFacts
        <4>3. QED
          BY <1>7, <4>1, <4>2
      <3>4. QED
        BY <3>1, <3>2, <3>3
    <2>10. /\ \A e \in scheduled' : e \in w.scheduled /\ e.pos \notin w.moved
           /\ \A e \in w.scheduled : e.pos \notin w.moved => e \in scheduled'
           /\ \A c : Ticking(c) /\ c \notin w.moved => Ticking(c)'
      <3>1. /\ \A e \in scheduled' : e \in w.scheduled /\ e.pos \notin w.moved
            /\ \A e \in w.scheduled : e.pos \notin w.moved => e \in scheduled'
        BY <1>3, <2>9
      <3>2. scheduled \subseteq w.scheduled
        BY <1>7 DEF SchedulesRepeaters
      <3>3. QED
        BY <3>1, <3>2 DEF Ticking
    <2>11. TickInv'
      <3>1. SUFFICES ASSUME NEW e \in scheduled' PROVE Suits(e.kind, w.block[e.pos])
        BY <1>3 DEF TickInv, Suits
      <3>2. e \in w.scheduled /\ w.block[e.pos] = blocks[e.pos]
        BY <1>7, <2>9, <2>10
      <3>3. CASE e \in scheduled
        BY <2>9, <3>2, <3>3 DEF TickInv
      <3>4. CASE e \notin scheduled
        BY <1>7, <3>2, <3>4 DEF SchedulesRepeaters, Suits
      <3>5. QED
        BY <3>3, <3>4
    <2>12. ButtonInv'
      <3>1. SUFFICES ASSUME NEW CONSTANT c \in known, c \notin lost', blocks'[c] = "button", open'[c] PROVE Ticking(c)'
        BY <1>3 DEF ButtonInv, Ticking
      <3>2. c \in Cells /\ w.open[c] /\ c \notin w.moved
        BY <1>11, <2>2, <2>3, <3>1
      <3>3. c \in comps /\ blocks[c] = "button"
        BY <1>12, <3>1, <3>2
      <3>4. "button" \notin FlagKinds /\ ~IsTransitionCapable("button")
        BY KindFacts DEF FlagKinds, IsTransitionCapable
      <3>5. open[c] /\ c \notin lost
        BY <1>9, <1>12, <2>2, <3>1, <3>2, <3>3, <3>4
      <3>6. Ticking(c)
        BY <2>1, <3>3, <3>5 DEF Loaded, ButtonInv
      <3>7. QED
        BY <2>10, <3>2, <3>6
    <2>13. RepeaterInv'
      <3>1. ASSUME NEW CONSTANT c \in comps' \ lost', blocks'[c] = "repeater", ~Treated(c)', ~Ticking(c)'
            PROVE  Unreached(mutated, blocks', c) /\ open'[c] = open[c] /\ open[c] = Fed(Now, c)
        <4>1. c \in known /\ c \notin dirty'
          BY <1>3, <1>13, <3>1
        <4>2. /\ Unreached(mutated, blocks', c) /\ open'[c] = open[c] /\ c \notin w.moved /\ c \in comps /\ c \in Cells
              /\ blocks[c] = "repeater" /\ c \notin current
          BY <2>5, <3>1, <4>1
        <4>3. IsTransitionCapable(blocks[c])
          BY <4>2, KindFacts DEF IsTransitionCapable
        <4>4. CASE c \in Candidates
          <5>1. ~\E e \in w.scheduled : e.pos = c
            BY <2>10, <3>1, <4>2 DEF Ticking
          <5>2. c \notin w.dropped
            BY <1>4, <3>1, <4>2
          <5>3. ~Affected(w, c)
            BY <1>3, <1>11, <4>2 DEF Affected, Unreached
          <5>4. QED
            BY <1>9, <2>1, <4>2, <4>4, <5>1, <5>2, <5>3 DEF Answers
        <4>5. CASE c \notin Candidates
          <5>1. c \notin lost
            BY <1>12, <3>1, <4>1, <4>2, <4>5
          <5>2. ~Treated(c)
            BY <1>8, <1>9, <4>2, <4>3, <4>5 DEF Treated
          <5>3. ~Ticking(c)
            BY <2>10, <3>1, <4>2
          <5>4. QED
            BY <2>1, <4>2, <5>1, <5>2, <5>3 DEF Loaded, RepeaterInv
        <4>6. QED
          BY <4>4, <4>5
      <3>2. QED
        BY <1>15, <2>4, <3>1, RepeatersStay
    <2>14. PistonInv'
      <3>1. SUFFICES ASSUME NEW CONSTANT c \in known, blocks'[c] \in Pistons, open'[c]
                     PROVE  c \in latched' /\ (Column(c) \in touched' \/ c \in saved')
        BY <1>3 DEF PistonInv, Column
      <3>2. c \in Cells /\ w.open[c] /\ c \notin w.moved
        BY <1>3, <1>7, <1>11, <2>3, <3>1
      <3>3. c \in comps /\ blocks[c] \in Pistons /\ blocks[c] \in Latching /\ power[c] \in 0 .. MaxPower
        BY <1>12, <1>14, <3>1, <3>2, KindFacts
      <3>4. open[c] => c \in latched /\ (Column(c) \in touched \/ c \in saved)
        BY <2>1, <3>3 DEF Loaded, PistonInv
      <3>5. Column(c) \in touched' \/ c \in saved'
        <4>1. CASE open[c]
          BY <1>4, <1>5, <3>4, <4>1
        <4>2. CASE ~open[c]
          <5>1. c \in mutated
            BY <1>11, <2>2, <3>2, <4>2
          <5>2. QED
            BY <1>4, <5>1
        <4>3. QED
          BY <4>1, <4>2
      <3>6. c \in latched'
        <4>1. CASE c \in Candidates
          <5>1. ~Fallen(c) /\ (open[c] \/ Risen(c))
            BY <2>2, <3>2, <3>3, <4>1
          <5>2. power[c] > 0
            BY <3>3, <3>4, <5>1 DEF Fallen, Risen
          <5>3. QED
            BY <1>3, <1>18, <3>2, <3>3, <4>1, <5>2
        <4>2. CASE c \notin Candidates
          <5>1. open[c]
            BY <2>2, <3>2, <4>2
          <5>2. QED
            BY <1>3, <3>2, <3>4, <4>2, <5>1
        <4>3. QED
          BY <4>1, <4>2
      <3>7. QED
        BY <3>5, <3>6
    <2>15. ObserverInv'
      <3>1. SUFFICES ASSUME NEW CONSTANT c \in known, blocks'[c] = "observer"
                     PROVE  /\ c \in dirty' \/ watch'[c].front = Ahead(c)'
                            /\ c \in lost' \/ watch'[c].pending = 0 \/ Ticking(c)'
                            /\ c \in lost' \/ power'[c] = 0 \/ \E e \in scheduled' : e.pos = c /\ e.kind = "fall"
        BY <1>3 DEF ObserverInv, Ticking, Ahead, At, Now, Cells
      <3>2. CASE c \in w.moved
        <4>1. c \in dirty' /\ c \in Cells
          BY <1>11, <1>13, <3>1, <3>2
        <4>2. watch'[c].pending = 0
          BY <1>4, <3>2, <4>1, NothingSeenIs
        <4>3. power'[c] = 0
          BY <1>3, <3>1, <3>2, <4>1 DEF Resting
        <4>4. QED
          BY <4>1, <4>2, <4>3
      <3>3. CASE c \notin w.moved
        <4>1. c \in comps /\ c \in Cells /\ blocks[c] = "observer" /\ power'[c] = power[c] /\ watch'[c] = watch[c]
          BY <1>12, <3>1, <3>3
        <4>2. ~IsTransitionCapable("observer")
          BY KindFacts DEF IsTransitionCapable
        <4>3. c \in lost => c \in lost'
          BY <1>9, <1>12, <3>1, <3>3, <4>1, <4>2
        <4>4. /\ c + 1 \in changed \/ watch[c].front = Ahead(c)
              /\ c \in lost \/ watch[c].pending = 0 \/ Ticking(c)
              /\ c \in lost \/ power[c] = 0 \/ \E e \in scheduled : e.pos = c /\ e.kind = "fall"
          BY <1>8, <2>1, <4>1 DEF Loaded, ObserverInv
        <4>5. c \in lost' \/ watch'[c].pending = 0 \/ Ticking(c)'
          BY <2>10, <3>3, <4>1, <4>3, <4>4
        <4>6. c \in lost' \/ power'[c] = 0 \/ \E e \in scheduled' : e.pos = c /\ e.kind = "fall"
          BY <1>7, <2>10, <3>3, <4>1, <4>3, <4>4 DEF SchedulesRepeaters
        <4>7. ASSUME c \notin dirty' PROVE watch'[c].front = Ahead(c)'
          <5>1. Unreached(mutated, blocks', c)
            BY <2>5, <3>1, <4>7
          <5>2. c \in Near(c + 1)
            BY <4>1, CellTypes DEF Near
          <5>3. c + 1 \notin mutated
            BY <5>1, <5>2, ReachIs DEF Unreached
          <5>4. watch'[c].front = Ahead(c)
            BY <1>11, <4>1, <4>4, <5>3
          <5>5. c + 1 \in Cells => blocks'[c + 1] = blocks[c + 1] /\ open'[c + 1] = open[c + 1]
            BY <2>4, <5>3 DEF ChangedIn, AlikeBut, Alike
          <5>6. Ahead(c)' = Ahead(c)
            BY <5>5 DEF Ahead, At, Now, Cells
          <5>7. QED
            BY <5>4, <5>6
        <4>8. QED
          BY <4>5, <4>6, <4>7
      <3>4. QED
        BY <3>2, <3>3
    <2>16. TorchInv'
      <3>1. ASSUME NEW CONSTANT c \in known, blocks'[c] = "torch" PROVE c \in dirty'
        <4>1. SUFFICES ASSUME c \notin dirty' PROVE FALSE
          OBVIOUS
        <4>2. /\ c \in Cells /\ c \in comps /\ blocks[c] = "torch" /\ c \notin w.moved /\ c \notin current
              /\ w.open[c] = open[c] /\ power[c] \in 0 .. MaxPower
          BY <1>14, <2>5, <3>1, <4>1
        <4>3. open[c] /\ c \in evaluated /\ power[c] = MaxPower
          BY <1>1, <1>8, <2>1, <4>2 DEF Loaded, TorchInv
        <4>4. c \in Candidates
          BY <1>9, <4>2, <4>3 DEF IsTransitionCapable
        <4>5. QED
          BY <1>1, <2>2, <4>2, <4>3, <4>4
      <3>2. QED
        BY <1>3, <1>5, <3>1 DEF TorchInv
    <2>17. QED
      BY <2>6, <2>7, <2>8, <2>11, <2>12, <2>13, <2>14, <2>15, <2>16 DEF Loaded
  <1>22. QED
    BY <1>15, <1>16, <1>17, <1>19, <1>20, <1>21 DEF CircuitInv

-----------------------------------------------------------------------------
(* Every step.                                                               *)

LEMMA CircuitUnchanged ==
  ASSUME CircuitInv, UNCHANGED circuitVars
  PROVE  CircuitInv'
  <1>1. UNCHANGED <<served, blocks, open, level, gone, comps, power, latched, scheduled, dirty, synced, seen, watch,
                    phase, current, next, pass, evaluated, due, changed, saved, touched, lost, shots>>
    BY DEF circuitVars, world, circuit, settling, disk, history
  <1>2. CircuitTypes /\ PhaseInv /\ KnownInv /\ LatchInv /\ ShotInv
    BY DEF CircuitInv
  <1>3. CircuitTypes' /\ PhaseInv'
    BY <1>1, <1>2 DEF CircuitTypes, PhaseInv
  <1>4. KnownInv'
    BY <1>1, <1>2 DEF KnownInv, AllComponents, Cells
  <1>5. \A c : (ToDo(c)' <=> ToDo(c)) /\ (Treated(c)' <=> Treated(c)) /\ (c \in Marked' <=> c \in Marked)
               /\ (Ticking(c)' <=> Ticking(c))
    BY <1>1 DEF ToDo, Treated, Marked, Ticking
  <1>6. LatchInv' /\ ShotInv'
    BY <1>1, <1>2, <1>5 DEF LatchInv, ShotInv
  <1>7. ASSUME gone' = {} PROVE Loaded'
    <2>1. Loaded
      BY <1>1, <1>7 DEF CircuitInv
    <2>2. ChangedIn({}) /\ \A c : Unreached({}, blocks', c)
      BY <1>1, <1>2, UntouchedPower
    <2>3. PowerInv'
      <3>1. PowerInv
        BY <2>1 DEF Loaded
      <3>2. \A c \in comps' \ Marked' :
              Unreached({}, blocks', c) /\ c \in comps /\ power'[c] = power[c] /\ (c \notin Marked \/ power[c] = DesiredPower(c))
        BY <1>1, <1>5, <2>2
      <3>3. QED
        BY <1>3, <2>2, <3>1, <3>2, PowerStays
    <2>4. ScreenInv' /\ PlateInv' /\ TickInv' /\ ButtonInv' /\ PistonInv'
      BY <1>1, <1>5, <2>1 DEF Loaded, ScreenInv, PlateInv, TickInv, ButtonInv, PistonInv, Column, Suits
    <2>5. RepeaterInv'
      <3>1. ASSUME NEW CONSTANT c \in comps' \ lost', blocks'[c] = "repeater", ~Treated(c)', ~Ticking(c)'
            PROVE  Unreached({}, blocks', c) /\ open'[c] = open[c] /\ open[c] = Fed(Now, c)
        BY <1>1, <1>5, <2>1, <2>2, <3>1 DEF Loaded, RepeaterInv
      <3>2. QED
        BY <1>3, <2>2, <3>1, RepeatersStay
    <2>6. ObserverInv'
      <3>1. \A c : Ahead(c)' = Ahead(c)
        BY <1>1 DEF Ahead, At, Now, Cells
      <3>2. QED
        BY <1>1, <1>5, <2>1, <3>1 DEF Loaded, ObserverInv
    <2>7. TorchInv'
      BY <1>1, <1>2, <2>1 DEF Loaded, TorchInv
    <2>8. QED
      BY <2>3, <2>4, <2>5, <2>6, <2>7 DEF Loaded
  <1>8. QED
    BY <1>3, <1>4, <1>6, <1>7 DEF CircuitInv

LEMMA CircuitStep ==
  ASSUME CircuitInv, [CircuitNext]_circuitVars
  PROVE  CircuitInv'
  <1>1. ASSUME NEW p \in Cells, NEW kind \in Placeable, PlaceBlock(p, kind) PROVE CircuitInv'
    <2>1. phase = "idle" /\ blocks[p] = "air" /\ SetBlock(p, kind) /\ kind \in BlockKinds
      BY <1>1, SetupsAssumption DEF PlaceBlock, Acting
    <2>2. QED
      BY <2>1, SetBlockKeeps
  <1>2. ASSUME NEW p \in Cells, Break(p) PROVE CircuitInv'
    <2>1. phase = "idle" /\ SetBlock(p, "air") /\ "air" \in BlockKinds
      BY <1>2, KindFacts DEF Break, Acting
    <2>2. QED
      BY <2>1, SetBlockKeeps
  <1>3. ASSUME NEW p \in Cells, Interact(p) PROVE CircuitInv'
    BY <1>3, InteractKeeps
  <1>4. ASSUME NEW p \in Cells, Fill(p) PROVE CircuitInv'
    BY <1>4, FillKeeps
  <1>5. ASSUME NEW p \in Cells, Walk(p) PROVE CircuitInv'
    BY <1>5, WalkKeeps
  <1>6. ASSUME NEW c \in {1, 2}, Evict(c) PROVE CircuitInv'
    BY <1>6, EvictKeeps
  <1>7. CASE Save
    BY <1>7, SaveKeeps
  <1>8. CASE Restart
    BY <1>8, RestartKeeps
  <1>9. CASE BeginTick
    BY <1>9, BeginTickKeeps
  <1>10. ASSUME NEW p \in Cells, Evaluate(p) PROVE CircuitInv'
    BY <1>10, EvaluateKeeps
  <1>11. CASE NextPass
    BY <1>11, NextPassKeeps
  <1>12. CASE FinishTick
    BY <1>12, FinishTickKeeps
  <1>13. CASE UNCHANGED circuitVars
    BY <1>13, CircuitUnchanged
  <1>14. QED
    BY <1>1, <1>2, <1>3, <1>4, <1>5, <1>6, <1>7, <1>8, <1>9, <1>10, <1>11, <1>12, <1>13
       DEF CircuitNext, Act, Tick

(* What a circuit is to show and what the ticks still have to do stay        *)
(* together, whatever players, saves, evictions and restarts do in between.  *)
THEOREM CircuitInvariant == CircuitSpec => []CircuitInv
  <1>1. CircuitInit => CircuitInv
    BY CircuitInitInv
  <1>2. CircuitInv /\ [CircuitNext]_circuitVars => CircuitInv'
    BY CircuitStep
  <1>3. QED
    BY <1>1, <1>2, PTL DEF CircuitSpec

(* A dispenser fires once for each time it gets power: not again while the   *)
(* power lasts, through ticks, changes nearby and restarts, and not never.   *)
THEOREM DispensersFireOnce == CircuitSpec => []FiresOncePerPulse
  <1>1. CircuitInv => FiresOncePerPulse
    <2>1. SUFFICES ASSUME CircuitInv, phase = "idle", NEW p \in comps \ (lost \cup dirty),
                          blocks[p] = "dispenser", power[p] > 0
                   PROVE  shots[p] = 1
      BY DEF FiresOncePerPulse
    <2>2. PhaseInv /\ LatchInv /\ ShotInv
      BY <2>1 DEF CircuitInv
    <2>3. ~ToDo(p)
      BY <2>1, <2>2, IdleFacts
    <2>4. p \in latched
      BY <2>1, <2>2, <2>3, KindFacts DEF LatchInv
    <2>5. QED
      BY <2>1, <2>2, <2>4 DEF ShotInv
  <1>2. QED
    BY <1>1, CircuitInvariant, PTL

(* A tick moves blocks and never makes or destroys one, however many pistons *)
(* push and pull in it, one after the other.                                 *)
THEOREM CircuitConserves == CircuitSpec => PushesConserve
  <1>1. ASSUME CircuitInv, [CircuitNext]_circuitVars, phase = "settle", gone = {}
        PROVE  Census(blocks') = Census(blocks)
    <2>1. CASE blocks' = blocks
      BY <2>1
    <2>2. CASE FinishTick
      <3>1. blocks' = Transited.block
        BY <2>2 DEF FinishTick
      <3>2. AsMany(Transited.block)
        BY <1>1, TransitedTreats DEF CircuitInv, Treating
      <3>3. \A k \in BlockKinds \ {"air"} : Cardinality(Those(blocks', k)) = Cardinality(Those(blocks, k))
        BY <3>1, <3>2 DEF AsMany
      <3>4. QED
        BY <3>3 DEF Census, Those
    <2>3. QED
      BY <1>1, <2>1, <2>2 DEF CircuitNext, Act, Tick, PlaceBlock, Break, Interact, Fill, Walk, Evict, Save, Restart,
         Acting, BeginTick, Evaluate, NextPass, circuitVars, world
  <1>2. QED
    BY <1>1, CircuitInvariant, PTL DEF CircuitSpec, PushesConserve

-----------------------------------------------------------------------------
(* A circuit at rest: every component has the power it is to have, and no    *)
(* torch is left that would blink.                                           *)

AtRest ==
  /\ CircuitTypes /\ comps = AllComponents(blocks)
  /\ \A p \in comps : power[p] = DesiredPower(p) /\ blocks[p] # "torch"

LEMMA TwoIs ==
  ASSUME NEW a \in Int, NEW b \in Int
  PROVE  /\ Max({a, b}) = IF a >= b THEN a ELSE b
         /\ Min({a, b}) = IF a <= b THEN a ELSE b
  <1>1. \E x \in {a, b} : \A y \in {a, b} : x >= y
    <2>1. CASE a >= b
      BY <2>1
    <2>2. CASE ~(a >= b)
      BY <2>2
    <2>3. QED
      BY <2>1, <2>2
  <1>2. Max({a, b}) \in {a, b} /\ \A y \in {a, b} : Max({a, b}) >= y
    BY <1>1 DEF Max
  <1>3. \E x \in {a, b} : \A y \in {a, b} : x <= y
    <2>1. CASE a <= b
      BY <2>1
    <2>2. CASE ~(a <= b)
      BY <2>2
    <2>3. QED
      BY <2>1, <2>2
  <1>4. Min({a, b}) \in {a, b} /\ \A y \in {a, b} : Min({a, b}) <= y
    BY <1>3 DEF Min
  <1>5. QED
    BY <1>2, <1>4

\* Wire all the way from a to b, and how far that is.
Between(a, b) == {p \in Int : (a <= p /\ p <= b) \/ (b <= p /\ p <= a)}
Span(a, b) == IF a >= b THEN a - b ELSE b - a

LEMMA RunIs ==
  ASSUME NEW a \in Int, NEW b \in Int
  PROVE  /\ WireRun(a, b) <=> \A p \in Between(a, b) : blocks[p] = "wire"
         /\ Max({a - b, b - a}) = Span(a, b)
  <1>1. Min({a, b}) .. Max({a, b}) = Between(a, b)
    <2>1. Max({a, b}) = IF a >= b THEN a ELSE b
      BY TwoIs
    <2>2. Min({a, b}) = IF a <= b THEN a ELSE b
      BY TwoIs
    <2>3. PICK hi, lo : hi = Max({a, b}) /\ lo = Min({a, b})
      OBVIOUS
    <2>4. hi \in Int /\ lo \in Int /\ (a >= b => hi = a /\ lo = b) /\ (a < b => hi = b /\ lo = a)
      BY <2>1, <2>2, <2>3
    <2>5. \A p \in Int : p \in lo .. hi <=> p \in Between(a, b)
      <3>1. TAKE p \in Int
      <3>2. CASE a >= b
        BY <2>4, <3>2 DEF Between
      <3>3. CASE a < b
        BY <2>4, <3>3 DEF Between
      <3>4. QED
        BY <3>2, <3>3
    <2>6. lo .. hi = Between(a, b)
      BY <2>4, <2>5 DEF Between
    <2>7. QED
      BY <2>3, <2>6
  <1>2. Max({a - b, b - a}) = Span(a, b)
    <2>1. a - b \in Int /\ b - a \in Int
      OBVIOUS
    <2>2. Max({a - b, b - a}) = IF a - b >= b - a THEN a - b ELSE b - a
      BY <2>1, TwoIs
    <2>3. QED
      BY <2>2 DEF Span
  <1>3. QED
    BY <1>1, <1>2 DEF WireRun

\* What a strong source gives is what it emits.
LEMMA StrengthIs ==
  ASSUME AtRest, NEW s \in Cells, NEW t
  PROVE  /\ Strength(s, t) \in 0 .. MaxPower
         /\ s \in comps /\ IsStrongSource(Now, s) => Strength(s, t) = EmittedToward(Now, s, t)
         /\ s \notin comps \/ ~IsStrongSource(Now, s) => Strength(s, t) = 0
  <1>1. /\ blocks[s] \in BlockKinds /\ open[s] \in BOOLEAN /\ power[s] \in 0 .. MaxPower /\ MaxPower \in Nat
        /\ s \in comps <=> blocks[s] \in Components
        /\ Now.block = blocks /\ Now.open = open
    BY RedstoneAssumption DEF AtRest, CircuitTypes, AllComponents, Now
  <1>2. s \in comps => power[s] = DesiredPower(s) /\ blocks[s] # "torch"
    BY DEF AtRest
  <1>3. s \in comps /\ blocks[s] \in Sources \cup {"repeater"} => power[s] = IF open[s] THEN MaxPower ELSE 0
    BY <1>2, DesiredFixed
  <1>4. IsStrongSource(Now, s) <=> (blocks[s] \in Sources \cup Gates /\ open[s]) \/ (blocks[s] = "torch" /\ ~open[s])
    BY <1>1 DEF IsStrongSource
  <1>5. EmittedToward(Now, s, t) =
          CASE blocks[s] \in Gates -> IF open[s] /\ s + 1 = t THEN power[s] ELSE 0
            [] blocks[s] = "observer" -> IF s - 1 = t THEN power[s] ELSE 0
            [] blocks[s] \in Sinks -> 0
            [] OTHER -> power[s]
    BY <1>1 DEF EmittedToward
  <1>6. CASE s \notin comps
    <2>1. blocks[s] \in {"air", "stone", "chest"}
      BY <1>1, <1>6, KindFacts
    <2>2. Strength(s, t) = 0
      BY <2>1, KindFacts DEF Strength
    <2>3. QED
      BY <1>1, <1>6, <2>2
  <1>7. CASE s \in comps /\ blocks[s] \in Sources
    BY <1>1, <1>3, <1>4, <1>5, <1>7, KindFacts DEF Strength
  <1>8. CASE s \in comps /\ blocks[s] = "repeater"
    BY <1>1, <1>3, <1>4, <1>5, <1>8, KindFacts DEF Strength
  <1>9. CASE s \in comps /\ blocks[s] = "comparator"
    BY <1>1, <1>4, <1>5, <1>9, KindFacts DEF Strength
  <1>10. CASE s \in comps /\ blocks[s] \notin Sources \cup {"repeater", "comparator"}
    <2>1. blocks[s] # "torch" /\ blocks[s] \notin Gates
      BY <1>2, <1>10, KindFacts
    <2>2. Strength(s, t) = 0 /\ ~IsStrongSource(Now, s)
      BY <1>4, <1>10, <2>1, KindFacts DEF Strength
    <2>3. QED
      BY <1>1, <2>2
  <1>11. QED
    BY <1>6, <1>7, <1>8, <1>9, <1>10

\* What a block gives is the signal it sends, unless it is a wire.
LEMMA GivesIs ==
  ASSUME AtRest, NEW n \in Cells, NEW t
  PROVE  /\ Gives(n, t) \in 0 .. MaxPower
         /\ blocks[n] # "wire" => \A attenuate : Signal(Now, n, t, attenuate) = Gives(n, t)
         /\ blocks[n] = "wire" => /\ n \in comps /\ Gives(n, t) = 0 /\ Signal(Now, n, t, FALSE) = power[n]
                                  /\ Signal(Now, n, t, TRUE) = IF power[n] > 0 THEN power[n] - 1 ELSE 0
  <1>1. /\ blocks[n] \in BlockKinds /\ open[n] \in BOOLEAN /\ power[n] \in 0 .. MaxPower /\ MaxPower \in Nat
        /\ n \in comps <=> blocks[n] \in Components
        /\ Now.block = blocks /\ Now.open = open
    BY RedstoneAssumption DEF AtRest, CircuitTypes, AllComponents, Now
  <1>2. EmittedToward(Now, n, t) =
          CASE blocks[n] \in Gates -> IF open[n] /\ n + 1 = t THEN power[n] ELSE 0
            [] blocks[n] = "observer" -> IF n - 1 = t THEN power[n] ELSE 0
            [] blocks[n] \in Sinks -> 0
            [] OTHER -> power[n]
    BY <1>1 DEF EmittedToward
  <1>3. /\ Strength(n, t) \in 0 .. MaxPower
        /\ n \in comps /\ IsStrongSource(Now, n) => Strength(n, t) = EmittedToward(Now, n, t)
        /\ n \notin comps \/ ~IsStrongSource(Now, n) => Strength(n, t) = 0
    BY StrengthIs
  <1>4. IsStrongSource(Now, n) <=> (blocks[n] \in Sources \cup Gates /\ open[n]) \/ (blocks[n] = "torch" /\ ~open[n])
    BY <1>1 DEF IsStrongSource
  <1>5. CASE blocks[n] = "wire"
    <2>1. n \in comps /\ ~IsStrongSource(Now, n)
      BY <1>1, <1>4, <1>5, KindFacts
    <2>2. Gives(n, t) = 0
      BY <1>3, <1>5, <2>1 DEF Gives
    <2>3. EmittedToward(Now, n, t) = power[n]
      BY <1>2, <1>5, KindFacts
    <2>4. Signal(Now, n, t, FALSE) = power[n]
      BY <2>1, <2>3, Zenon DEF Signal
    <2>5. Signal(Now, n, t, TRUE) = IF power[n] > 0 THEN power[n] - 1 ELSE power[n]
      BY <1>1, <1>5, <2>1, <2>3 DEF Signal
    <2>6. (IF power[n] > 0 THEN power[n] - 1 ELSE power[n]) = IF power[n] > 0 THEN power[n] - 1 ELSE 0
      BY <1>1
    <2>7. Signal(Now, n, t, TRUE) = IF power[n] > 0 THEN power[n] - 1 ELSE 0
      BY <2>5, <2>6, Zenon
    <2>8. 0 \in 0 .. MaxPower
      BY <1>1
    <2>9. QED
      BY <1>5, <2>1, <2>2, <2>4, <2>7, <2>8, Zenon
  <1>6. CASE n \in comps /\ blocks[n] # "wire"
    <2>1. ASSUME NEW attenuate PROVE Signal(Now, n, t, attenuate) = EmittedToward(Now, n, t)
      BY <1>1, <1>6 DEF Signal
    <2>2. blocks[n] \notin {"stone", "chest", "air"}
      BY <1>1, <1>6, KindFacts
    <2>3. Gives(n, t) = EmittedToward(Now, n, t)
      <3>1. CASE blocks[n] = "observer"
        BY <1>2, <3>1, KindFacts DEF Gives
      <3>2. CASE blocks[n] \in Sinks
        <4>1. ~IsStrongSource(Now, n) /\ EmittedToward(Now, n, t) = 0
          BY <1>2, <1>4, <3>2, KindFacts
        <4>2. QED
          BY <1>3, <3>2, <4>1, KindFacts DEF Gives
      <3>3. CASE blocks[n] \in Gates \cup Sources
        <4>1. ASSUME ~IsStrongSource(Now, n) PROVE EmittedToward(Now, n, t) = 0
          <5>1. ~open[n]
            BY <1>4, <3>3, <4>1
          <5>2. CASE blocks[n] \in Gates
            BY <1>1, <1>2, <5>1, <5>2, KindFacts
          <5>3. CASE blocks[n] \in Sources
            <6>1. power[n] = 0
              BY <1>6, <5>1, <5>3, DesiredFixed DEF AtRest
            <6>2. QED
              BY <1>2, <5>3, <6>1, KindFacts
          <5>4. QED
            BY <3>3, <5>2, <5>3
        <4>2. Gives(n, t) = Strength(n, t)
          BY <3>3, KindFacts DEF Gives
        <4>3. QED
          BY <1>3, <1>6, <4>1, <4>2
      <3>4. QED
        BY <1>1, <1>6, <2>2, <3>1, <3>2, <3>3, KindFacts DEF AtRest
    <2>4. Gives(n, t) \in 0 .. MaxPower
      <3>1. CASE blocks[n] = "observer"
        BY <1>1, <3>1, KindFacts DEF Gives
      <3>2. CASE blocks[n] # "observer"
        BY <1>3, <2>2, <3>2 DEF Gives
      <3>3. QED
        BY <3>1, <3>2
    <2>5. QED
      BY <1>6, <2>1, <2>3, <2>4
  <1>7. CASE n \notin comps
    <2>1. blocks[n] \in {"air", "stone", "chest"}
      BY <1>1, <1>7, KindFacts
    <2> DEFINE given == {Strength(s, n) : s \in Near(n)}
               sent == {EmittedToward(Now, s, n) : s \in {m \in Near(n) \cap comps : IsStrongSource(Now, m)}}
    <2>2. Near(n) \subseteq Cells
      BY CellTypes
    <2>3. \A s \in Near(n) :
            /\ Strength(s, n) \in 0 .. MaxPower
            /\ s \in comps /\ IsStrongSource(Now, s) => Strength(s, n) = EmittedToward(Now, s, n)
            /\ s \notin comps \/ ~IsStrongSource(Now, s) => Strength(s, n) = 0
      BY <2>2, StrengthIs
    <2>4. {0} \cup given = {0} \cup sent
      BY <2>3
    <2>5. given \in SUBSET (0 .. MaxPower)
      BY <2>3
    <2>6. StrongPowerInto(Now, n) = Max({0} \cup given)
      BY <2>4 DEF StrongPowerInto
    <2> HIDE DEF given, sent
    <2>7. Max({0} \cup given) \in 0 .. MaxPower
      BY <2>5, GreatestPower
    <2>8. ASSUME NEW attenuate PROVE Signal(Now, n, t, attenuate) = IF IsSolid(blocks[n]) THEN Max({0} \cup given) ELSE 0
      BY <1>1, <1>7, <2>6 DEF Signal
    <2>9. CASE blocks[n] = "air"
      <3>1. ~IsSolid(blocks[n]) /\ Gives(n, t) = 0
        BY <1>3, <1>7, <2>9, KindFacts DEF IsSolid, Gives
      <3>2. QED
        BY <1>1, <2>8, <2>9, <3>1
    <2>10. CASE blocks[n] \in {"stone", "chest"}
      <3>1. IsSolid(blocks[n]) /\ Gives(n, t) = Max({0} \cup given)
        BY <2>10 DEF IsSolid, Gives, given
      <3>2. QED
        BY <2>7, <2>8, <2>10, <3>1
    <2>11. QED
      BY <2>1, <2>9, <2>10
  <1>8. QED
    BY <1>5, <1>6, <1>7

\* The power of a wire at rest: the most that is given to it, one less from a wire.
Heard(n, w) == Signal(Now, n, w, TRUE)

LEMMA WireIs ==
  ASSUME AtRest, NEW w \in Cells, blocks[w] = "wire"
  PROVE  /\ power[w] \in 0 .. MaxPower
         /\ \A n \in Near(w) : power[w] >= Gives(n, w) /\ (blocks[n] = "wire" => power[w] >= power[n] - 1)
         /\ \/ power[w] = 0
            \/ \E n \in Near(w) : \/ power[w] = Gives(n, w)
                                  \/ blocks[n] = "wire" /\ power[w] = power[n] - 1
  <1> DEFINE heard == {Heard(n, w) : n \in Near(w)}
  <1>1. /\ \A c \in Cells : power[c] \in 0 .. MaxPower
        /\ w \in comps /\ Near(w) \subseteq Cells /\ MaxPower \in Nat
    BY CellTypes, KindFacts, RedstoneAssumption DEF AtRest, CircuitTypes, AllComponents
  <1>2. power[w] = Max({0} \cup heard)
    <2>1. power[w] = DesiredPower(w)
      BY <1>1 DEF AtRest
    <2>2. DesiredPower(w) = IncomingPower(w, TRUE)
      BY KindFacts DEF DesiredPower
    <2>3. QED
      BY <2>1, <2>2, Zenon DEF IncomingPower, Heard
  <1>3. ASSUME NEW n \in Near(w)
        PROVE  /\ Gives(n, w) \in 0 .. MaxPower
               /\ blocks[n] # "wire" => Heard(n, w) = Gives(n, w)
               /\ blocks[n] = "wire" => /\ Gives(n, w) = 0
                                        /\ Heard(n, w) = IF power[n] > 0 THEN power[n] - 1 ELSE 0
    <2>1. n \in Cells
      BY <1>1
    <2>2. /\ Gives(n, w) \in 0 .. MaxPower
          /\ blocks[n] # "wire" => \A attenuate : Signal(Now, n, w, attenuate) = Gives(n, w)
          /\ blocks[n] = "wire" => /\ Gives(n, w) = 0
                                   /\ Heard(n, w) = IF power[n] > 0 THEN power[n] - 1 ELSE 0
      BY <2>1, GivesIs, Zenon DEF Heard
    <2>3. blocks[n] # "wire" => Heard(n, w) = Gives(n, w)
      BY <2>2, Zenon DEF Heard
    <2>4. QED
      BY <2>2, <2>3
  <1>4. ASSUME NEW n \in Near(w)
        PROVE  /\ Heard(n, w) \in 0 .. MaxPower
               /\ Heard(n, w) >= Gives(n, w)
               /\ blocks[n] = "wire" => Heard(n, w) >= power[n] - 1
               /\ \/ Heard(n, w) = 0 \/ Heard(n, w) = Gives(n, w)
                  \/ blocks[n] = "wire" /\ Heard(n, w) = power[n] - 1
    <2>1. power[n] \in 0 .. MaxPower
      BY <1>1
    <2>2. CASE blocks[n] = "wire"
      BY <1>1, <1>3, <2>1, <2>2
    <2>3. CASE blocks[n] # "wire"
      BY <1>1, <1>3, <2>3
    <2>4. QED
      BY <2>2, <2>3
  <1>5. heard \in SUBSET (0 .. MaxPower)
    BY <1>4
  <1>6. \A n \in Near(w) : Heard(n, w) \in heard
    OBVIOUS
  <1>7. \A x \in heard : \E n \in Near(w) : x = Heard(n, w)
    OBVIOUS
  <1> HIDE DEF heard
  <1>8. /\ power[w] \in 0 .. MaxPower /\ power[w] \in {0} \cup heard
        /\ \A y \in heard : y <= power[w]
    BY <1>2, <1>5, GreatestPower
  <1>9. ASSUME NEW n \in Near(w)
        PROVE  power[w] >= Gives(n, w) /\ (blocks[n] = "wire" => power[w] >= power[n] - 1)
    <2>1. power[n] \in 0 .. MaxPower /\ Gives(n, w) \in 0 .. MaxPower
      BY <1>1, <1>3
    <2>2. Heard(n, w) <= power[w]
      BY <1>6, <1>8
    <2>3. QED
      BY <1>1, <1>4, <1>8, <2>1, <2>2
  <1>10. ASSUME power[w] # 0
         PROVE  \E n \in Near(w) : \/ power[w] = Gives(n, w)
                                   \/ blocks[n] = "wire" /\ power[w] = power[n] - 1
    <2>1. PICK n \in Near(w) : power[w] = Heard(n, w)
      BY <1>7, <1>8, <1>10
    <2>2. QED
      BY <1>4, <1>10, <2>1
  <1>11. QED
    BY <1>8, <1>9, <1>10

\* Wire one step nearer, or one step farther.
LEMMA StepAlong ==
  ASSUME NEW w \in Cells, NEW c \in Cells, WireRun(w, c), w # c
  PROVE  \E v \in Near(w) : blocks[v] = "wire" /\ WireRun(v, c) /\ Span(w, c) = Span(v, c) + 1
  <1>1. w \in Int /\ c \in Int
    BY CellTypes
  <1>2. PICK v \in Int : v = IF w < c THEN w + 1 ELSE w - 1
    BY <1>1
  <1>3. v \in Cells /\ v \in Near(w)
    BY <1>1, <1>2, CellTypes
  <1>4. Between(v, c) \subseteq Between(w, c) /\ v \in Between(w, c) /\ Span(w, c) = Span(v, c) + 1
    BY <1>1, <1>2 DEF Between, Span
  <1>5. \A p \in Between(w, c) : blocks[p] = "wire"
    BY <1>1, RunIs
  <1>6. WireRun(v, c)
    BY <1>1, <1>2, <1>4, <1>5, RunIs
  <1>7. QED
    BY <1>3, <1>4, <1>5, <1>6

LEMMA StepBack ==
  ASSUME NEW w \in Cells, NEW v \in Near(w), NEW c \in Cells, WireRun(v, c), blocks[w] = "wire"
  PROVE  WireRun(w, c) /\ Span(w, c) <= Span(v, c) + 1 /\ Span(w, c) \in Int /\ Span(v, c) \in Int
  <1>1. w \in Int /\ c \in Int /\ v \in Int /\ (v = w - 1 \/ v = w + 1)
    BY CellTypes
  <1>2. \A p \in Between(w, c) : p = w \/ p \in Between(v, c)
    BY <1>1 DEF Between
  <1>3. \A p \in Between(v, c) : blocks[p] = "wire"
    BY <1>1, RunIs
  <1>4. WireRun(w, c)
    BY <1>1, <1>2, <1>3, RunIs
  <1>5. Span(w, c) <= Span(v, c) + 1 /\ Span(w, c) \in Int /\ Span(v, c) \in Int
    BY <1>1 DEF Span
  <1>6. QED
    BY <1>4, <1>5

\* A wire has at least what reaches it along the run, by induction on the distance.
LEMMA LevelAtMost ==
  ASSUME AtRest, NEW n \in Nat
  PROVE  \A w \in Cells, c \in Cells : \A s \in Near(c) :
           WireRun(w, c) /\ Span(w, c) = n => power[w] >= Gives(s, c) - n
  <1> DEFINE G == {k \in 0 .. n : \A w \in Cells, c \in Cells : \A s \in Near(c) :
                     WireRun(w, c) /\ Span(w, c) = k => power[w] >= Gives(s, c) - k}
  <1>1. \A w \in Cells, c \in Cells : WireRun(w, c) => blocks[w] = "wire" /\ blocks[c] = "wire" /\ w \in Int /\ c \in Int
    <2>1. SUFFICES ASSUME NEW w \in Cells, NEW c \in Cells, WireRun(w, c)
                   PROVE  blocks[w] = "wire" /\ blocks[c] = "wire" /\ w \in Int /\ c \in Int
      OBVIOUS
    <2>2. w \in Int /\ c \in Int
      BY CellTypes
    <2>3. \A p \in Between(w, c) : blocks[p] = "wire"
      BY <2>1, <2>2, RunIs
    <2>4. w \in Between(w, c) /\ c \in Between(w, c)
      BY <2>2 DEF Between
    <2>5. QED
      BY <2>2, <2>3, <2>4
  <1>2. \A c \in Cells : \A s \in Near(c) : Gives(s, c) \in 0 .. MaxPower
    BY CellTypes, GivesIs
  <1>3. 0 \in G
    <2>1. SUFFICES ASSUME NEW w \in Cells, NEW c \in Cells, NEW s \in Near(c), WireRun(w, c), Span(w, c) = 0
                   PROVE  power[w] >= Gives(s, c) - 0
      OBVIOUS
    <2>2. w = c /\ blocks[w] = "wire"
      BY <1>1, <2>1 DEF Span
    <2>3. power[w] >= Gives(s, c) /\ Gives(s, c) \in Int
      BY <1>2, <2>2, WireIs
    <2>4. QED
      BY <2>3
  <1>4. ASSUME NEW k \in 1 .. n, k - 1 \in G PROVE k \in G
    <2>1. SUFFICES ASSUME NEW w \in Cells, NEW c \in Cells, NEW s \in Near(c), WireRun(w, c), Span(w, c) = k
                   PROVE  power[w] >= Gives(s, c) - k
      OBVIOUS
    <2>2. w # c /\ blocks[w] = "wire"
      BY <1>1, <2>1 DEF Span
    <2>3. PICK v \in Near(w) : blocks[v] = "wire" /\ WireRun(v, c) /\ Span(w, c) = Span(v, c) + 1
      BY <2>1, <2>2, StepAlong
    <2>4. v \in Cells /\ v \in Int /\ c \in Int
      BY CellTypes
    <2>5. Span(v, c) = k - 1
      BY <2>1, <2>3, <2>4 DEF Span
    <2>6. power[v] >= Gives(s, c) - (k - 1)
      BY <1>4, <2>3, <2>4, <2>5
    <2>7. power[w] >= power[v] - 1 /\ power[w] \in Int
      BY <2>2, <2>3, WireIs
    <2>8. power[v] \in Int /\ Gives(s, c) \in Int
      BY <1>2, <2>3, <2>4, WireIs
    <2>9. QED
      BY <2>6, <2>7, <2>8
  <1> HIDE DEF G
  <1>5. 0 .. n \subseteq G
    BY <1>3, <1>4, UpToInduction
  <1>6. n \in G
    BY <1>5
  <1>7. QED
    BY <1>6 DEF G

\* And no more, by induction on what it lacks of the most.
Reaches(w, s, c) == s \in Near(c) /\ WireRun(w, c) /\ Gives(s, c) - Span(w, c) >= power[w]

LEMMA LevelAtLeast ==
  ASSUME AtRest, NEW w \in Cells, blocks[w] = "wire", power[w] > 0
  PROVE  \E c \in Cells, s \in Cells : Reaches(w, s, c)
  <1> DEFINE G == {k \in 0 .. MaxPower : \A v \in Cells :
                     blocks[v] = "wire" /\ power[v] > 0 /\ power[v] = MaxPower - k =>
                       \E c \in Cells, s \in Cells : Reaches(v, s, c)}
  <1>1. MaxPower \in Nat
    BY RedstoneAssumption
  <1>2. ASSUME NEW v \in Cells, blocks[v] = "wire", power[v] > 0, NEW n \in Near(v), power[v] = Gives(n, v)
        PROVE  \E c \in Cells, s \in Cells : Reaches(v, s, c)
    <2>1. v \in Int /\ n \in Cells
      BY CellTypes
    <2>2. WireRun(v, v) /\ Span(v, v) = 0
      <3>1. \A p \in Between(v, v) : p = v
        BY <2>1 DEF Between
      <3>2. WireRun(v, v)
        BY <1>2, <2>1, <3>1, RunIs
      <3>3. Span(v, v) = 0
        BY <2>1 DEF Span
      <3>4. QED
        BY <3>2, <3>3
    <2>3. power[v] \in Int
      BY <1>2, WireIs
    <2>4. Reaches(v, n, v)
      BY <1>2, <2>2, <2>3 DEF Reaches
    <2>5. QED
      BY <2>1, <2>4
  <1>3. 0 \in G
    <2>1. SUFFICES ASSUME NEW v \in Cells, blocks[v] = "wire", power[v] > 0, power[v] = MaxPower
                   PROVE  \E c \in Cells, s \in Cells : Reaches(v, s, c)
      BY <1>1
    <2>2. PICK n \in Near(v) : \/ power[v] = Gives(n, v)
                               \/ blocks[n] = "wire" /\ power[v] = power[n] - 1
      BY <1>1, <2>1, WireIs
    <2>3. n \in Cells
      BY CellTypes
    <2>4. blocks[n] = "wire" => power[n] \in 0 .. MaxPower
      BY <2>3, WireIs
    <2>5. power[v] = Gives(n, v)
      BY <1>1, <2>1, <2>2, <2>4
    <2>6. QED
      BY <1>2, <2>1, <2>5
  <1>4. ASSUME NEW k \in 1 .. MaxPower, k - 1 \in G PROVE k \in G
    <2>1. SUFFICES ASSUME NEW v \in Cells, blocks[v] = "wire", power[v] > 0, power[v] = MaxPower - k
                   PROVE  \E c \in Cells, s \in Cells : Reaches(v, s, c)
      OBVIOUS
    <2>2. PICK n \in Near(v) : \/ power[v] = Gives(n, v)
                               \/ blocks[n] = "wire" /\ power[v] = power[n] - 1
      BY <1>1, <2>1, WireIs
    <2>3. CASE power[v] = Gives(n, v)
      BY <1>2, <2>1, <2>3
    <2>4. CASE blocks[n] = "wire" /\ power[v] = power[n] - 1
      <3>1. n \in Cells
        BY CellTypes
      <3>2. power[n] \in 0 .. MaxPower
        BY <2>4, <3>1, WireIs
      <3>3. power[n] > 0 /\ power[n] = MaxPower - (k - 1)
        BY <1>1, <2>1, <2>4, <3>2
      <3>4. PICK c \in Cells, s \in Cells : Reaches(n, s, c)
        BY <1>4, <2>4, <3>1, <3>3
      <3>5. /\ WireRun(v, c) /\ Span(v, c) <= Span(n, c) + 1 /\ Span(v, c) \in Int /\ Span(n, c) \in Int
        BY <2>1, <3>4, StepBack DEF Reaches
      <3>6. Gives(s, c) \in 0 .. MaxPower
        BY GivesIs
      <3>7. Reaches(v, s, c)
        BY <1>1, <2>4, <3>2, <3>4, <3>5, <3>6 DEF Reaches
      <3>8. QED
        BY <3>7
    <2>5. QED
      BY <2>2, <2>3, <2>4
  <1> HIDE DEF G
  <1>5. 0 .. MaxPower \subseteq G
    BY <1>1, <1>3, <1>4, UpToInduction
  <1>6. power[w] \in 0 .. MaxPower
    BY WireIs
  <1>7. MaxPower - power[w] \in G /\ power[w] = MaxPower - (MaxPower - power[w])
    BY <1>1, <1>5, <1>6
  <1>8. QED
    BY <1>7 DEF G

\* So a wire has what its run brings it.
LEMMA LevelIs ==
  ASSUME AtRest, NEW w \in Cells, blocks[w] = "wire"
  PROVE  Level(w) = power[w]
  <1> DEFINE ways == {d \in Cells \X Cells : d[2] \in Near(d[1]) /\ WireRun(w, d[1])}
             brought == {Gives(c[2], c[1]) - Max({w - c[1], c[1] - w}) : c \in ways}
  <1>1. power[w] \in 0 .. MaxPower /\ MaxPower \in Nat /\ w \in Int
    BY WireIs, CellTypes, RedstoneAssumption
  <1>2. \A c \in Cells : c \in Int /\ Max({w - c, c - w}) = Span(w, c) /\ Span(w, c) \in Nat
    <2>1. TAKE c \in Cells
    <2>2. c \in Int
      BY CellTypes
    <2>3. Max({w - c, c - w}) = Span(w, c)
      BY <1>1, <2>2, RunIs
    <2>4. QED
      BY <1>1, <2>2, <2>3 DEF Span
  <1>3. ASSUME NEW x \in brought PROVE x \in Int /\ power[w] >= x
    <2>1. PICK d \in ways : x = Gives(d[2], d[1]) - Max({w - d[1], d[1] - w})
      OBVIOUS
    <2>2. PICK c \in Cells, s \in Cells : d = <<c, s>>
      OBVIOUS
    <2>3. s \in Near(c) /\ WireRun(w, c) /\ x = Gives(s, c) - Span(w, c) /\ Span(w, c) \in Nat
      BY <1>2, <2>1, <2>2
    <2>4. power[w] >= Gives(s, c) - Span(w, c)
      BY <2>3, LevelAtMost
    <2>5. Gives(s, c) \in 0 .. MaxPower
      BY GivesIs
    <2>6. QED
      BY <2>3, <2>4, <2>5
  <1>4. power[w] \in {0} \cup brought
    <2>1. CASE power[w] = 0
      BY <2>1
    <2>2. CASE power[w] > 0
      <3>1. PICK c \in Cells, s \in Cells : Reaches(w, s, c)
        BY <2>2, LevelAtLeast
      <3>2. <<c, s>> \in ways
        BY <3>1 DEF Reaches
      <3>3. Gives(s, c) - Max({w - c, c - w}) \in brought
        BY <3>2
      <3>4. Gives(s, c) - Span(w, c) \in brought
        BY <1>2, <3>3
      <3> HIDE DEF ways, brought
      <3>5. Gives(s, c) - Span(w, c) = power[w]
        BY <1>1, <1>3, <3>1, <3>4 DEF Reaches
      <3>6. QED
        BY <3>4, <3>5
    <2>3. power[w] = 0 \/ power[w] > 0
      BY <1>1
    <2> HIDE DEF brought
    <2>4. QED
      BY <2>1, <2>2, <2>3
  <1>5. Level(w) = Max({0} \cup brought)
    BY DEF Level
  <1> HIDE DEF brought
  <1>6. \A y \in {0} \cup brought : power[w] >= y /\ y \in Int
    BY <1>1, <1>3
  <1>7. Max({0} \cup brought) \in {0} \cup brought /\ \A y \in {0} \cup brought : Max({0} \cup brought) >= y
    BY <1>4, <1>6 DEF Max
  <1>8. Max({0} \cup brought) >= power[w] /\ power[w] >= Max({0} \cup brought) /\ Max({0} \cup brought) \in Int
    BY <1>4, <1>6, <1>7
  <1>9. QED
    BY <1>1, <1>5, <1>8

LEMMA InputIs ==
  ASSUME AtRest, NEW p \in Cells, NEW n \in {p - 1, p + 1}
  PROVE  Input(n, p) = Signal(Now, n, p, FALSE)
  <1>1. CASE n \notin Cells
    <2>1. n \notin comps
      BY <1>1 DEF AtRest, AllComponents
    <2>2. Signal(Now, n, p, FALSE) = 0
      BY <1>1, <2>1, SignalNow DEF SignalIn
    <2>3. Input(n, p) = 0
      BY <1>1 DEF Input
    <2>4. QED
      BY <2>2, <2>3
  <1>2. CASE n \in Cells /\ blocks[n] = "wire"
    <2>1. Signal(Now, n, p, FALSE) = power[n]
      BY <1>2, GivesIs, Zenon
    <2>2. Input(n, p) = Level(n)
      BY <1>2 DEF Input
    <2>3. QED
      BY <1>2, <2>1, <2>2, LevelIs, Zenon
  <1>3. CASE n \in Cells /\ blocks[n] # "wire"
    <2>1. Signal(Now, n, p, FALSE) = Gives(n, p)
      BY <1>3, GivesIs, Zenon
    <2>2. Input(n, p) = Gives(n, p)
      BY <1>3 DEF Input
    <2>3. QED
      BY <2>1, <2>2
  <1>4. QED
    BY <1>1, <1>2, <1>3

\* A sleeping circuit is at rest, and nothing is left to do.
LEMMA SleepsAtRest ==
  ASSUME CircuitInv, Quiet, gone = {}
  PROVE  /\ AtRest
         /\ \A c : ~ToDo(c) /\ ~Treated(c) /\ ~Ticking(c)
  <1>1. CircuitTypes /\ PhaseInv /\ KnownInv /\ Loaded /\ phase = "idle" /\ synced /\ dirty = {} /\ scheduled = {}
    BY DEF CircuitInv, Quiet
  <1>2. \A c : ~ToDo(c) /\ ~Treated(c) /\ ~Ticking(c) /\ c \notin Marked
    BY <1>1, IdleFacts DEF Ticking
  <1>3. comps = AllComponents(blocks)
    BY <1>1 DEF KnownInv
  <1>4. \A p \in comps : power[p] = DesiredPower(p)
    BY <1>1, <1>2 DEF Loaded, PowerInv
  <1>5. \A p \in comps : blocks[p] # "torch"
    BY <1>1 DEF Loaded, TorchInv
  <1>6. QED
    BY <1>1, <1>2, <1>3, <1>4, <1>5 DEF AtRest

\* The power of a circuit at rest is the reference.
LEMMA ReferenceIs ==
  ASSUME AtRest, NEW p \in comps, blocks[p] = "observer" => power[p] = 0
  PROVE  power[p] = Reference(p)
  <1>1. /\ power[p] = DesiredPower(p) /\ blocks[p] # "torch" /\ p \in Cells /\ blocks[p] \in Components
    BY DEF AtRest, AllComponents
  <1>2. \A n \in {p - 1, p + 1} : Input(n, p) = Signal(Now, n, p, FALSE)
    BY <1>1, InputIs
  <1>3. CASE blocks[p] \in Sources \cup {"repeater"}
    BY <1>1, <1>3, DesiredFixed, KindFacts DEF Reference
  <1>4. CASE blocks[p] = "observer"
    BY <1>4, KindFacts DEF Reference
  <1>5. CASE blocks[p] = "wire"
    <2>1. Reference(p) = Level(p)
      BY <1>5, KindFacts DEF Reference
    <2>2. QED
      BY <1>1, <1>5, <2>1, LevelIs
  <1>6. CASE blocks[p] = "comparator"
    <2>1. Reference(p) = Max({Input(p - 1, p), ContainerBehind(p)})
      BY <1>6, KindFacts DEF Reference
    <2>2. DesiredPower(p) = Max({Signal(Now, p - 1, p, FALSE), ContainerBehind(p)})
      BY <1>6, KindFacts DEF DesiredPower
    <2>3. Input(p - 1, p) = Signal(Now, p - 1, p, FALSE)
      BY <1>2, Zenon
    <2>4. QED
      BY <1>1, <2>1, <2>2, <2>3, Zenon
  <1>7. CASE blocks[p] \in Sinks
    <2>1. Reference(p) = Max({0} \cup {Input(n, p) : n \in Near(p)})
      BY <1>7, KindFacts DEF Reference
    <2>2. DesiredPower(p) = Max({0} \cup {Signal(Now, n, p, FALSE) : n \in Near(p)})
      BY <1>7, KindFacts DEF DesiredPower, IncomingPower
    <2>3. \A n \in Near(p) : Input(n, p) = Signal(Now, n, p, FALSE)
      BY <1>2, Zenon DEF Near
    <2>4. {Input(n, p) : n \in Near(p)} = {Signal(Now, n, p, FALSE) : n \in Near(p)}
      BY <2>3, Zenon
    <2>5. QED
      BY <1>1, <2>1, <2>2, <2>4, Zenon
  <1>8. QED
    BY <1>1, <1>3, <1>4, <1>5, <1>6, <1>7, KindFacts

(* A circuit that sleeps, so that ticks return at once, is settled: exactly  *)
(* the components of the world are known, and each has the power, the open   *)
(* bit and the output that the blocks and containers around it call for, by  *)
(* distance along its wires.                                                 *)
THEOREM SleepingIsSettled == CircuitSpec => []AsleepIsSettled
  <1>1. CircuitInv => AsleepIsSettled
    <2>1. SUFFICES ASSUME CircuitInv, Quiet
                   PROVE  /\ comps = AllComponents(blocks)
                          /\ gone # {} \/ \A p \in comps \ lost : Agrees(p)
      BY DEF AsleepIsSettled
    <2>2. CircuitTypes /\ KnownInv /\ LatchInv /\ synced /\ scheduled = {} /\ dirty = {} /\ phase = "idle"
          /\ Occupied(comps) = seen /\ PhaseInv
      BY <2>1 DEF CircuitInv, Quiet
    <2>3. comps = AllComponents(blocks)
      BY <2>2 DEF KnownInv
    <2>4. ASSUME gone = {}, NEW p \in comps \ lost PROVE Agrees(p)
      <3>1. AtRest /\ ~ToDo(p) /\ ~Treated(p) /\ ~Ticking(p) /\ Loaded
        BY <2>1, <2>4, SleepsAtRest DEF CircuitInv
      <3>2. p \in Cells /\ open[p] \in BOOLEAN /\ watch[p] \in Views
        BY <2>2 DEF CircuitTypes
      <3>3. blocks[p] = "observer" =>
              /\ watch[p].front = Ahead(p) /\ watch[p].pending = 0 /\ power[p] = 0
        BY <2>2, <2>4, <3>1 DEF Loaded, ObserverInv, PhaseInv
      <3>4. power[p] = Reference(p)
        BY <2>4, <3>1, <3>3, ReferenceIs
      <3>5. blocks[p] \in {"lamp", "comparator"} => open[p] = (power[p] > 0)
        BY <3>1 DEF Loaded, ScreenInv
      <3>6. blocks[p] = "plate" => open[p] = (p \in occupants)
        <4>1. blocks[p] = "plate" => open[p] = (p \in seen)
          BY <2>2, <3>1 DEF Loaded, PlateInv
        <4>2. blocks[p] = "plate" => (p \in seen <=> p \in occupants)
          BY <2>2 DEF Occupied
        <4>3. QED
          BY <4>1, <4>2
      <3>7. blocks[p] = "button" => ~open[p]
        BY <3>1 DEF Loaded, ButtonInv
      <3>8. blocks[p] = "repeater" => open[p] = (Input(p - 1, p) > 0)
        <4>1. blocks[p] = "repeater" => open[p] = Fed(Now, p)
          BY <2>4, <3>1 DEF Loaded, RepeaterInv
        <4>2. Input(p - 1, p) = Signal(Now, p - 1, p, FALSE)
          BY <3>1, <3>2, InputIs
        <4>3. QED
          BY <4>1, <4>2, Zenon DEF Fed
      <3>9. blocks[p] \in Pistons /\ open[p] => power[p] > 0
        BY <2>2, <2>4, <3>1, KindFacts DEF Loaded, PistonInv, LatchInv
      <3>10. blocks[p] = "observer" => watch[p] = [front |-> Ahead(p), pending |-> 0]
        BY <3>2, <3>3 DEF Views
      <3>11. QED
        BY <3>4, <3>5, <3>6, <3>7, <3>8, <3>9, <3>10 DEF Agrees
    <2>5. QED
      BY <2>3, <2>4
  <1>2. QED
    BY <1>1, CircuitInvariant, PTL
================================================================================
