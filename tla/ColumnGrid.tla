------------------------------ MODULE ColumnGrid ------------------------------
(***************************************************************************)
(* DenseColumnGrid: resident columns in a square window that slides with   *)
(* the player, and the few that fall outside it in an overflow map.  Both  *)
(* the authority (which covers all its sessions) and the client (which     *)
(* follows its camera) keep their columns in one.  A cell is addressed by  *)
(* its offset from the window's origin; how offsets are packed into a      *)
(* vector is left out.                                                     *)
(***************************************************************************)
EXTENDS Integers, FiniteSets

CONSTANTS
  Keys,        \* chunk coordinates, pairs of integers
  Chunks, Absent,
  ViewDistance, \* configured view or simulation distance
  Hysteresis   \* RESIDENCY_HYSTERESIS

ASSUME ColumnGridAssumption ==
  /\ Keys \subseteq Int \X Int
  /\ IsFiniteSet(Keys)
  /\ {ViewDistance, Hysteresis} \subseteq Nat
  /\ Absent \notin Chunks

VARIABLES
  origin,    \* key of the window's first cell
  side,
  slots,     \* [Cells(side) -> chunk or Absent]
  occupied,  \* columns the window holds
  overflow   \* columns outside the window

gridVars == <<origin, side, slots, occupied, overflow>>

radius == ViewDistance + Hysteresis

Cells(s) == (0 .. s - 1) \X (0 .. s - 1)
CellOf(o, k) == <<k[1] - o[1], k[2] - o[2]>>
KeyOf(o, c) == <<o[1] + c[1], o[2] + c[2]>>
InWindow(o, s, k) == CellOf(o, k) \in Cells(s)

(* get *)
Get(k) ==
  IF InWindow(origin, side, k) THEN slots[CellOf(origin, k)]
  ELSE IF k \in DOMAIN overflow THEN overflow[k] ELSE Absent

GridInit ==
  /\ origin = <<-radius, -radius>>
  /\ side = 2 * radius + 1
  /\ slots = [c \in Cells(2 * radius + 1) |-> Absent]
  /\ occupied = 0
  /\ overflow = [k \in {} |-> Absent]

InsertInWindowCounted(k, chunk) ==
  /\ InWindow(origin, side, k)
  /\ slots' = [slots EXCEPT ![CellOf(origin, k)] = chunk]
  /\ occupied' = occupied + 1
  /\ UNCHANGED <<origin, side, overflow>>
InsertInWindow(k, chunk) ==
  /\ InWindow(origin, side, k)
  /\ slots' = [slots EXCEPT ![CellOf(origin, k)] = chunk]
  /\ occupied' = IF slots[CellOf(origin, k)] = Absent THEN occupied + 1 ELSE occupied
  /\ UNCHANGED <<origin, side, overflow>>

InsertOutside(k, chunk) ==
  /\ ~InWindow(origin, side, k)
  /\ overflow' = [x \in DOMAIN overflow \union {k} |-> IF x = k THEN chunk ELSE overflow[x]]
  /\ UNCHANGED <<origin, side, slots, occupied>>

Insert(k, chunk) == InsertInWindow(k, chunk) \/ InsertOutside(k, chunk)

RemoveInWindow(k) ==
  /\ InWindow(origin, side, k)
  /\ slots' = [slots EXCEPT ![CellOf(origin, k)] = Absent]
  /\ occupied' = IF slots[CellOf(origin, k)] # Absent THEN occupied - 1 ELSE occupied
  /\ UNCHANGED <<origin, side, overflow>>

RemoveOutside(k) ==
  /\ ~InWindow(origin, side, k)
  /\ overflow' = [x \in DOMAIN overflow \ {k} |-> overflow[x]]
  /\ UNCHANGED <<origin, side, slots, occupied>>

Remove(k) == RemoveInWindow(k) \/ RemoveOutside(k)

Clear ==
  /\ slots' = [c \in Cells(side) |-> Absent]
  /\ occupied' = 0
  /\ overflow' = [k \in {} |-> Absent]
  /\ UNCHANGED <<origin, side>>

(* The columns of the window, by their keys. *)
FilledShort == {KeyOf(origin, c) : c \in {d \in Cells(side - 1) : slots[d] # Absent}}
Filled == {KeyOf(origin, c) : c \in {d \in Cells(side) : slots[d] # Absent}}

(* Moves every column, those of the window first, to a window with origin  *)
(* o and side s; what does not fit goes to the overflow map.               *)
Migrate(o, s) ==
  LET staying  == {k \in Filled : InWindow(o, s, k)}
      entering == {k \in DOMAIN overflow : InWindow(o, s, k)}
  IN /\ origin' = o
     /\ side' = s
     /\ slots' = [c \in Cells(s) |->
                    LET k == KeyOf(o, c) IN
                    IF k \in DOMAIN overflow THEN overflow[k]
                    ELSE IF InWindow(origin, side, k) THEN slots[CellOf(origin, k)]
                    ELSE Absent]
     /\ occupied' = Cardinality(staying) + Cardinality(entering \ staying)
     /\ overflow' = [k \in (Filled \ staying) \union (DOMAIN overflow \ entering) |->
                       IF k \in DOMAIN overflow THEN overflow[k]
                       ELSE slots[CellOf(origin, k)]]

(* recenter: around one player, with the side the window has *)
Recenter(center) ==
  LET o == <<center[1] - radius, center[2] - radius>>
  IN  o # origin /\ Migrate(o, side)

(* cover_centers: the smallest square window around every center *)
Cover(centers) ==
  \E west  \in {c \in centers : \A d \in centers : c[1] <= d[1]},
     east  \in {c \in centers : \A d \in centers : d[1] <= c[1]},
     north \in {c \in centers : \A d \in centers : c[2] <= d[2]},
     south \in {c \in centers : \A d \in centers : d[2] <= c[2]} :
    LET o == <<west[1] - radius, north[2] - radius>>
        w == east[1] - west[1] + 2 * radius + 1
        h == south[2] - north[2] + 2 * radius + 1
        s == IF w >= h THEN w ELSE h
    IN  <<o, s>> # <<origin, side>> /\ Migrate(o, s)

GridNext ==
  \/ \E k \in Keys, chunk \in Chunks : Insert(k, chunk)
  \/ \E k \in Keys : Remove(k)
  \/ Clear
  \/ \E k \in Keys : Recenter(k)
  \/ \E centers \in (SUBSET Keys) \ {{}} : Cover(centers)

GridSpec == GridInit /\ [][GridNext]_gridVars
-------------------------------------------------------------------------------
(* Types, and the counter: occupied says how many cells of the window hold *)
(* a column; len and is_empty answer from it.                              *)
GridTypeOK ==
  /\ origin \in Int \X Int
  /\ side \in Nat \ {0}
  /\ slots \in [Cells(side) -> Chunks \union {Absent}]
  /\ DOMAIN overflow \subseteq Keys
  /\ overflow \in [DOMAIN overflow -> Chunks]
  /\ occupied = Cardinality({c \in Cells(side) : slots[c] # Absent})

(* No column of the overflow map lies under the window, where get would    *)
(* not look for it and a later move of the window would bring back an old  *)
(* chunk over the one that replaced it.                                    *)
OverflowOutside == \A k \in DOMAIN overflow : ~InWindow(origin, side, k)

columnMap == [k \in Keys |-> Get(k)]
Map == INSTANCE ColumnMap WITH columns <- columnMap
WindowMoves == <<origin, side>>' # <<origin, side>>

(* Moving the window never loses, revives or swaps a column: the grid is a *)
(* map from coordinates to chunks (DenseColumnGrid against the HashMap it  *)
(* stands for), and a move of its window is invisible.                     *)
ImplementsColumnMap ==
  /\ Map!Spec
  /\ [][WindowMoves => UNCHANGED columnMap]_gridVars
===============================================================================
