------------------------------ MODULE ColumnProofs ------------------------------
(***************************************************************************)
(* Columns: how the missing ones come into a world and where the resident  *)
(* ones are kept.                                                          *)
(*                                                                         *)
(* For any dimensions, columns, players, views and budgets: a column is    *)
(* never generated by two jobs at once, and late results of the pool do to *)
(* the worlds no more than ColumnDemand allows.  The budgets play no part, *)
(* and neither does the order of the queues.  And for any coordinates,     *)
(* distances and moves of its window, the grid of columns implements the   *)
(* map of columns.                                                         *)
(***************************************************************************)
EXTENDS WorldgenLifecycle, ColumnGrid, TLAPS

\* Only what is missing and can be made is demanded, and what is not there has no
\* edits: this is why a result that is applied overwrites nothing.
WorldInv ==
  /\ resident \subseteq Columns \ Broken
  /\ demanded \subseteq Columns \ (resident \union Broken)
  /\ edits \in [Columns -> Nat]
  /\ \A c \in Columns \ resident : edits[c] = 0

Inv == WorldInv /\ OneJobEach

-----------------------------------------------------------------------------

LEMMA InitInv == Init => Inv
  <1> SUFFICES ASSUME Init PROVE Inv
    OBVIOUS
  <1>1. resident = Loaded /\ demanded = {} /\ edits = [c \in Columns |-> 0]
    BY DEF Init
  <1>2. WorldInv
    BY <1>1, WorldgenAssumption DEF WorldInv
  <1>3. OneJobEach
    BY DEF Init, OneJobEach
  <1>4. QED
    BY <1>2, <1>3 DEF Inv

\* A demand is handed to the pool only if no job has it and no result waits for it.
LEMMA ScheduleInv == Inv /\ Schedule => Inv'
  <1> SUFFICES ASSUME Inv, Schedule PROVE Inv'
    OBVIOUS
  <1>1. Accepted \intersect (backlog \union inFlight) = {}
    BY DEF Accepted, Missing
  <1>2. OneJobEach'
    BY <1>1 DEF Inv, OneJobEach, Schedule
  <1>3. WorldInv'
    BY DEF Inv, WorldInv, Schedule, worldVars
  <1>4. QED
    BY <1>2, <1>3 DEF Inv

LEMMA FinishInv == ASSUME Inv, NEW c \in Columns, Finish(c) PROVE Inv'
  <1>1. OneJobEach'
    BY DEF Inv, OneJobEach, Finish
  <1>2. WorldInv'
    BY DEF Inv, WorldInv, Finish, worldVars
  <1>3. QED
    BY <1>1, <1>2 DEF Inv

\* What leaves the channel leaves the worker's set and enters the backlog.
LEMMA CollectInv == Inv /\ Collect => Inv'
  <1> SUFFICES ASSUME Inv, Collect PROVE Inv'
    OBVIOUS
  <1>1. OneJobEach'
    BY DEF Inv, OneJobEach, Collect, StillInFlight
  <1>2. WorldInv'
    BY DEF Inv, WorldInv, Collect, worldVars
  <1>3. QED
    BY <1>1, <1>2 DEF Inv

\* Steps of the players.
LEMMA PlayersInv == Inv /\ UNCHANGED <<worldVars, poolVars>> => Inv'
  BY DEF Inv, WorldInv, OneJobEach, worldVars, poolVars

LEMMA MaterializeInv == ASSUME Inv, NEW c \in Columns, Materialize(c) PROVE Inv'
  <1>1. OneJobEach'
    BY DEF Inv, OneJobEach, Materialize, poolVars
  <1>2. WorldInv'
    BY DEF Inv, WorldInv, Materialize, MayMutate
  <1>3. QED
    BY <1>1, <1>2 DEF Inv

LEMMA SetBlockInv == ASSUME Inv, NEW c \in Columns, SetBlock(c) PROVE Inv'
  <1>1. OneJobEach'
    BY DEF Inv, OneJobEach, SetBlock, poolVars
  <1>2. WorldInv'
    BY DEF Inv, WorldInv, SetBlock, MayMutate
  <1>3. QED
    BY <1>1, <1>2 DEF Inv

\* A column a result is applied to had no edits, so setting them to none changes nothing.
LEMMA AppliesToFresh ==
  ASSUME WorldInv, Apply
  PROVE  edits' = edits /\ demanded' = demanded \ {c \in Taken : Applicable(c)}
  <1>1. \A c \in Columns : Applicable(c) => edits[c] = 0
    BY DEF WorldInv, Applicable
  <1>2. edits' = edits
    BY <1>1 DEF WorldInv, Apply
  <1>3. \A c \in Taken : c \in demanded => Applicable(c)
    BY DEF WorldInv, Applicable
  <1>4. QED
    BY <1>2, <1>3 DEF Apply, Applicable

LEMMA ApplyInv == Inv /\ Apply => Inv'
  <1> SUFFICES ASSUME Inv, Apply PROVE Inv'
    OBVIOUS
  <1>1. OneJobEach'
    BY DEF Inv, OneJobEach, Apply
  <1>2. WorldInv'
    <2>1. \A c \in Taken : Applicable(c) => c \in Columns \ Broken
      BY DEF Inv, WorldInv, Applicable
    <2>2. resident' \subseteq Columns \ Broken
      BY <2>1 DEF Inv, WorldInv, Apply
    <2>3. demanded' \subseteq Columns \ (resident' \union Broken)
      BY DEF Inv, WorldInv, Apply
    <2>4. edits' = edits /\ resident \subseteq resident'
      BY AppliesToFresh DEF Inv, Apply
    <2>5. QED
      BY <2>2, <2>3, <2>4 DEF Inv, WorldInv
  <1>3. QED
    BY <1>1, <1>2 DEF Inv

LEMMA RouteInv == Inv /\ Route => Inv'
  <1> SUFFICES ASSUME Inv, Route PROVE Inv'
    OBVIOUS
  <1>1. OneJobEach'
    BY DEF Inv, OneJobEach, Route, poolVars
  <1>2. WorldInv'
    BY DEF Inv, WorldInv, Route
  <1>3. QED
    BY <1>1, <1>2 DEF Inv

\* Whatever stays because its flush failed, only columns that leave lose their edits.
LEMMA EvictKeeps ==
  ASSUME Evict
  PROVE  /\ resident' \subseteq resident
         /\ demanded' \subseteq demanded
         /\ edits' = [c \in Columns |-> IF c \in resident' THEN edits[c] ELSE 0]
  BY DEF Evict

LEMMA EvictInv == Inv /\ Evict => Inv'
  <1> SUFFICES ASSUME Inv, Evict PROVE Inv'
    OBVIOUS
  <1>1. OneJobEach'
    BY DEF Inv, OneJobEach, Evict, poolVars
  <1>2. WorldInv'
    BY EvictKeeps DEF Inv, WorldInv
  <1>3. QED
    BY <1>1, <1>2 DEF Inv

LEMMA NextInv == Inv /\ [Next]_vars => Inv'
  <1> SUFFICES ASSUME Inv, [Next]_vars PROVE Inv'
    OBVIOUS
  <1>1. CASE Tick
    BY <1>1, ScheduleInv, CollectInv, ApplyInv, RouteInv, EvictInv DEF Tick
  <1>2. CASE \E c \in Columns : Finish(c) \/ Materialize(c) \/ SetBlock(c)
    BY <1>2, FinishInv, MaterializeInv, SetBlockInv
  <1>3. CASE \E p \in Players, pos \in Coords : Move(p, pos)
    BY <1>3, PlayersInv DEF Move
  <1>4. CASE \E p \in Players, d \in Dimensions, pos \in Coords : Transfer(p, d, pos)
    BY <1>4, PlayersInv DEF Transfer
  <1>5. CASE UNCHANGED vars
    BY <1>5, PlayersInv DEF vars
  <1>6. QED
    BY <1>1, <1>2, <1>3, <1>4, <1>5 DEF Next

\* However demands are withdrawn and made again while jobs run, a column is in the
\* pool, in the channel or in the backlog, in one of them only, and the worker's set
\* of columns in flight is exact: schedule, poll_completed and is_worldgen_pending
\* leave no gap between them.
THEOREM NeverTwoJobs == Spec => []OneJobEach
  <1>1. Inv => OneJobEach
    BY DEF Inv
  <1>2. QED
    BY InitInv, NextInv, <1>1, PTL DEF Spec

-----------------------------------------------------------------------------
(* What the worlds see of it.                                               *)

LEMMA InitDemands == Init => World!Init
  BY WorldgenAssumption DEF Init, World!Init

LEMMA ApplyGenerates == Inv /\ Apply => World!Next
  <1> SUFFICES ASSUME Inv, Apply PROVE World!Next
    OBVIOUS
  <1> DEFINE C == {c \in Taken : Applicable(c)}
  <1>1. C \in SUBSET demanded
    BY DEF Applicable
  <1>2. resident' = resident \union C
    BY DEF Apply
  <1>3. World!Generate(C)
    BY <1>2, AppliesToFresh DEF Inv, World!Generate
  <1>4. QED
    BY <1>1, <1>3 DEF World!Next

LEMMA RouteDemands == Route => World!Next
  <1> SUFFICES ASSUME Route PROVE World!Next
    OBVIOUS
  <1> DEFINE C == {c \in Columns \ (resident \union Broken) :
                     \E e \in Inspected : queued[e[2]][e[1]] = c}
  <1>1. C \in SUBSET (Columns \ (resident \union Broken))
    OBVIOUS
  <1>2. World!Demand(C)
    BY DEF Route, World!Demand
  <1>3. QED
    BY <1>1, <1>2 DEF World!Next

LEMMA WorldStep == Inv /\ [Next]_vars => [World!Next]_(World!vars)
  <1> SUFFICES ASSUME Inv, [Next]_vars PROVE [World!Next]_(World!vars)
    OBVIOUS
  <1>1. ASSUME UNCHANGED worldVars PROVE UNCHANGED World!vars
    BY <1>1 DEF worldVars, World!vars
  <1>2. CASE Tick
    <2>1. CASE Schedule \/ Collect
      BY <1>1, <2>1 DEF Schedule, Collect
    <2>2. CASE Apply
      BY <2>2, ApplyGenerates
    <2>3. CASE Route
      BY <2>3, RouteDemands
    <2>4. CASE Evict
      BY <2>4, EvictKeeps DEF World!Leave, World!Next
    <2>5. QED
      BY <1>2, <2>1, <2>2, <2>3, <2>4 DEF Tick
  <1>3. ASSUME NEW c \in Columns, Finish(c) PROVE UNCHANGED World!vars
    BY <1>1, <1>3 DEF Finish
  <1>4. ASSUME NEW c \in Columns, Materialize(c) PROVE World!Next
    <2>1. World!Make(c)
      BY <1>4 DEF Materialize, MayMutate, World!Make
    <2>2. QED
      BY <2>1 DEF World!Next
  <1>5. ASSUME NEW c \in Columns, SetBlock(c) PROVE World!Next
    <2>1. World!Edit(c)
      BY <1>5 DEF SetBlock, MayMutate, World!Edit
    <2>2. QED
      BY <2>1 DEF World!Next
  <1>6. ASSUME NEW p \in Players, NEW pos \in Coords, Move(p, pos) PROVE UNCHANGED World!vars
    BY <1>1, <1>6 DEF Move
  <1>7. ASSUME NEW p \in Players, NEW d \in Dimensions, NEW pos \in Coords,
               Transfer(p, d, pos)
        PROVE  UNCHANGED World!vars
    BY <1>1, <1>7 DEF Transfer
  <1>8. CASE UNCHANGED vars
    BY <1>1, <1>8 DEF vars
  <1>9. QED
    BY <1>2, <1>3, <1>4, <1>5, <1>6, <1>7, <1>8 DEF Next

\* A late result never replaces a column that was made or edited without it, never
\* brings back one whose demand was withdrawn, and never makes one that did not
\* decode: the safety part of ImplementsColumnDemand (apply_generated_chunk,
\* prune_unkept_demands, materialize_chunk).
THEOREM LateResultsAreHarmless == Spec => World!Spec
  BY InitDemands, InitInv, NextInv, WorldStep, PTL DEF Spec, World!Spec

-----------------------------------------------------------------------------
(* The grid the resident columns are kept in.                               *)

Contents == Chunks \union {Absent}

(* The strengthening: types, a key for every filled cell, and no overflow  *)
(* under the window.                                                       *)
GridInv ==
  /\ origin \in Int \X Int
  /\ side \in Nat
  /\ slots \in [Cells(side) -> Contents]
  /\ DOMAIN overflow \subseteq Keys
  /\ overflow \in [DOMAIN overflow -> Chunks]
  /\ \A c \in Cells(side) : slots[c] # Absent => KeyOf(origin, c) \in Keys
  /\ OverflowOutside

(* A cell and its key determine each other.                                *)
LEMMA CellsAndKeys ==
  ASSUME NEW o \in Int \X Int, NEW s \in Nat
  PROVE  /\ \A k \in Int \X Int : KeyOf(o, CellOf(o, k)) = k
         /\ \A c \in Cells(s) : KeyOf(o, c) \in Int \X Int /\ CellOf(o, KeyOf(o, c)) = c
  BY DEF KeyOf, CellOf, Cells

(* What a move of the window keeps: the column of every key.               *)
LEMMA MigrateKeepsColumns ==
  ASSUME GridInv, NEW o \in Int \X Int, NEW s \in Nat, Migrate(o, s)
  PROVE  GridInv' /\ \A k \in Keys : Get(k)' = Get(k)
<1> USE DEF Contents
<1>1. /\ origin' = o /\ side' = s
      /\ slots' = [c \in Cells(s) |->
                    LET k == KeyOf(o, c) IN
                    IF k \in DOMAIN overflow THEN overflow[k]
                    ELSE IF InWindow(origin, side, k) THEN slots[CellOf(origin, k)]
                    ELSE Absent]
  BY DEF Migrate
<1>2. DOMAIN overflow' = {k \in Filled \union DOMAIN overflow : ~InWindow(o, s, k)}
  BY DEF Migrate
<1>3. \A k \in DOMAIN overflow' :
        overflow'[k] = IF k \in DOMAIN overflow THEN overflow[k] ELSE slots[CellOf(origin, k)]
  BY <1>2 DEF Migrate
<1>4. \A k \in Keys : k \in Filled <=> InWindow(origin, side, k) /\ slots[CellOf(origin, k)] # Absent
  <2>1. SUFFICES ASSUME NEW k \in Keys
                 PROVE  k \in Filled <=> InWindow(origin, side, k) /\ slots[CellOf(origin, k)] # Absent
    OBVIOUS
  <2>2. k \in Int \X Int
    BY ColumnGridAssumption
  <2> QED BY <2>2, CellsAndKeys DEF Filled, InWindow, GridInv
<1>5. Filled \subseteq Keys
  BY DEF Filled, GridInv
<1>6. GridInv'
  <2>1. slots' \in [Cells(s) -> Contents]
    BY <1>1 DEF GridInv, InWindow
  <2>2. DOMAIN overflow' \subseteq Keys
    BY <1>2, <1>5 DEF GridInv
  <2>3. overflow' = [k \in DOMAIN overflow' |-> overflow'[k]]
    BY <1>2 DEF Migrate
  <2>4. \A k \in DOMAIN overflow' : overflow'[k] \in Chunks
    BY <1>2, <1>3, <1>4, <1>5 DEF GridInv, InWindow
  <2>5. \A c \in Cells(s) : slots'[c] # Absent => KeyOf(o, c) \in Keys
    <3>1. SUFFICES ASSUME NEW c \in Cells(s), slots'[c] # Absent, KeyOf(o, c) \notin DOMAIN overflow
                   PROVE  KeyOf(o, c) \in Keys
      BY DEF GridInv
    <3>2. /\ InWindow(origin, side, KeyOf(o, c))
          /\ slots[CellOf(origin, KeyOf(o, c))] # Absent
      BY <1>1, <3>1
    <3>3. KeyOf(origin, CellOf(origin, KeyOf(o, c))) = KeyOf(o, c)
      BY CellsAndKeys DEF GridInv
    <3> QED BY <3>2, <3>3 DEF GridInv, InWindow
  <2>6. OverflowOutside'
    BY <1>1, <1>2 DEF OverflowOutside
  <2> QED BY <1>1, <2>1, <2>2, <2>3, <2>4, <2>5, <2>6 DEF GridInv
<1>7. ASSUME NEW k \in Keys PROVE Get(k)' = Get(k)
  <2>1. k \in Int \X Int
    BY ColumnGridAssumption
  <2>2. Get(k)' = IF InWindow(o, s, k) THEN slots'[CellOf(o, k)]
                  ELSE IF k \in DOMAIN overflow' THEN overflow'[k] ELSE Absent
    BY <1>1 DEF Get
  <2>3. CASE InWindow(o, s, k)
    <3>1. CellOf(o, k) \in Cells(s) /\ KeyOf(o, CellOf(o, k)) = k
      BY <2>1, <2>3, CellsAndKeys DEF InWindow
    <3>2. slots'[CellOf(o, k)] = IF k \in DOMAIN overflow THEN overflow[k]
                                 ELSE IF InWindow(origin, side, k) THEN slots[CellOf(origin, k)]
                                 ELSE Absent
      BY <1>1, <3>1
    <3> QED BY <2>2, <2>3, <3>2 DEF Get, GridInv, OverflowOutside
  <2>4. CASE ~InWindow(o, s, k)
    BY <1>2, <1>3, <1>4, <2>2, <2>4 DEF Get, GridInv, OverflowOutside
  <2> QED BY <2>3, <2>4
<1> QED BY <1>6, <1>7

LEMMA InsertIsInsert ==
  ASSUME GridInv, NEW k \in Keys, NEW chunk \in Chunks, Insert(k, chunk)
  PROVE  GridInv' /\ \A x \in Keys : Get(x)' = IF x = k THEN chunk ELSE Get(x)
<1> USE DEF Contents
<1>0. Keys \subseteq Int \X Int
  BY ColumnGridAssumption
<1>1. CASE InsertInWindow(k, chunk)
  <2>1. /\ KeyOf(origin, CellOf(origin, k)) = k
        /\ CellOf(origin, k) \in Cells(side)
        /\ UNCHANGED <<origin, side, overflow>>
        /\ slots' = [slots EXCEPT ![CellOf(origin, k)] = chunk]
    BY <1>0, <1>1, CellsAndKeys DEF InsertInWindow, InWindow, GridInv
  <2>2. GridInv'
    BY <2>1 DEF GridInv, OverflowOutside, InWindow
  <2>3. ASSUME NEW x \in Keys PROVE Get(x)' = IF x = k THEN chunk ELSE Get(x)
    <3>1. KeyOf(origin, CellOf(origin, x)) = x
      BY <1>0, CellsAndKeys DEF GridInv
    <3> QED BY <2>1, <3>1 DEF Get, InWindow, GridInv
  <2> QED BY <2>2, <2>3
<1>2. CASE InsertOutside(k, chunk)
  <2>1. GridInv'
    BY <1>2 DEF InsertOutside, GridInv, OverflowOutside, InWindow
  <2>2. ASSUME NEW x \in Keys PROVE Get(x)' = IF x = k THEN chunk ELSE Get(x)
    BY <1>2 DEF InsertOutside, Get, InWindow
  <2> QED BY <2>1, <2>2
<1> QED BY <1>1, <1>2 DEF Insert

LEMMA RemoveIsRemove ==
  ASSUME GridInv, NEW k \in Keys, Remove(k)
  PROVE  GridInv' /\ \A x \in Keys : Get(x)' = IF x = k THEN Absent ELSE Get(x)
<1> USE DEF Contents
<1>0. Keys \subseteq Int \X Int
  BY ColumnGridAssumption
<1>1. CASE RemoveInWindow(k)
  <2>1. /\ CellOf(origin, k) \in Cells(side)
        /\ UNCHANGED <<origin, side, overflow>>
        /\ slots' = [slots EXCEPT ![CellOf(origin, k)] = Absent]
    BY <1>1 DEF RemoveInWindow, InWindow
  <2>2. GridInv'
    BY <2>1 DEF GridInv, OverflowOutside, InWindow
  <2>3. ASSUME NEW x \in Keys PROVE Get(x)' = IF x = k THEN Absent ELSE Get(x)
    <3>1. /\ KeyOf(origin, CellOf(origin, x)) = x
          /\ KeyOf(origin, CellOf(origin, k)) = k
      BY <1>0, CellsAndKeys DEF GridInv
    <3> QED BY <2>1, <3>1 DEF Get, InWindow, GridInv
  <2> QED BY <2>2, <2>3
<1>2. CASE RemoveOutside(k)
  <2>1. GridInv'
    BY <1>2 DEF RemoveOutside, GridInv, OverflowOutside, InWindow
  <2>2. ASSUME NEW x \in Keys PROVE Get(x)' = IF x = k THEN Absent ELSE Get(x)
    BY <1>2 DEF RemoveOutside, Get, InWindow
  <2> QED BY <2>1, <2>2
<1> QED BY <1>1, <1>2 DEF Remove

LEMMA ClearIsClear ==
  ASSUME GridInv, Clear
  PROVE  GridInv' /\ \A x \in Keys : Get(x)' = Absent
BY DEF GridInv, Contents, Clear, Get, InWindow, OverflowOutside

LEMMA GridInvInit ==
  ASSUME GridInit
  PROVE  GridInv /\ \A x \in Keys : Get(x) = Absent
<1>1. radius \in Nat
  BY ColumnGridAssumption DEF radius
<1> QED BY <1>1 DEF GridInit, GridInv, Contents, Get, InWindow, OverflowOutside

(* Both moves of the window are migrations to an integer origin and a side.*)
LEMMA MovesMigrate ==
  ASSUME GridInv,
         \/ \E k \in Keys : Recenter(k)
         \/ \E centers \in (SUBSET Keys) \ {{}} : Cover(centers)
  PROVE  \E o \in Int \X Int, s \in Nat : Migrate(o, s)
<1>1. radius \in Nat /\ Keys \subseteq Int \X Int
  BY ColumnGridAssumption DEF radius
<1>2. CASE \E k \in Keys : Recenter(k)
  BY <1>1, <1>2 DEF Recenter, GridInv
<1>3. CASE \E centers \in (SUBSET Keys) \ {{}} : Cover(centers)
  <2>1. PICK centers \in (SUBSET Keys) \ {{}} : Cover(centers)
    BY <1>3
  <2>2. PICK west \in {c \in centers : \A d \in centers : c[1] <= d[1]},
             east \in {c \in centers : \A d \in centers : d[1] <= c[1]},
             north \in {c \in centers : \A d \in centers : c[2] <= d[2]},
             south \in {c \in centers : \A d \in centers : d[2] <= c[2]} :
          Migrate(<<west[1] - radius, north[2] - radius>>,
                  IF east[1] - west[1] + 2 * radius + 1 >= south[2] - north[2] + 2 * radius + 1
                  THEN east[1] - west[1] + 2 * radius + 1
                  ELSE south[2] - north[2] + 2 * radius + 1)
    BY <2>1 DEF Cover
  <2>3. /\ {west[1], west[2], east[1], east[2], north[1], north[2], south[1], south[2]} \subseteq Int
        /\ west[1] <= east[1]
    BY <1>1
  <2> QED BY <1>1, <2>2, <2>3
<1> QED BY <1>2, <1>3

LEMMA StepRefines ==
  ASSUME GridInv, [GridNext]_gridVars
  PROVE  /\ GridInv'
         /\ [Map!Next]_columnMap
         /\ WindowMoves => UNCHANGED columnMap
<1>1. ASSUME NEW k \in Keys, NEW chunk \in Chunks, Insert(k, chunk)
      PROVE  GridInv' /\ Map!Insert(k, chunk) /\ ~WindowMoves
  BY <1>1, InsertIsInsert DEF Map!Insert, columnMap, WindowMoves, Insert, InsertInWindow, InsertOutside
<1>2. ASSUME NEW k \in Keys, Remove(k)
      PROVE  GridInv' /\ Map!Remove(k) /\ ~WindowMoves
  BY <1>2, RemoveIsRemove DEF Map!Remove, columnMap, WindowMoves, Remove, RemoveInWindow, RemoveOutside
<1>3. ASSUME Clear
      PROVE  GridInv' /\ Map!Clear /\ ~WindowMoves
  BY <1>3, ClearIsClear DEF Map!Clear, columnMap, WindowMoves, Clear
<1>4. ASSUME \/ \E k \in Keys : Recenter(k)
             \/ \E centers \in (SUBSET Keys) \ {{}} : Cover(centers)
      PROVE  GridInv' /\ UNCHANGED columnMap
  BY <1>4, MovesMigrate, MigrateKeepsColumns DEF columnMap
<1>5. ASSUME UNCHANGED gridVars
      PROVE  GridInv' /\ UNCHANGED columnMap
  BY <1>5 DEF gridVars, GridInv, Get, InWindow, OverflowOutside, columnMap
<1> QED BY <1>1, <1>2, <1>3, <1>4, <1>5 DEF GridNext, Map!Next

(* The grid is a map from coordinates to chunks: whatever window it has    *)
(* and however the window moves, get returns what was last inserted, and   *)
(* no move changes what get returns.                                       *)
THEOREM GridImplementsMap == GridSpec => ImplementsColumnMap
<1>1. GridInit => GridInv /\ Map!Init
  BY GridInvInit DEF Map!Init, columnMap
<1>2. GridInv /\ [GridNext]_gridVars => /\ GridInv' /\ [Map!Next]_columnMap
                                /\ [WindowMoves => UNCHANGED columnMap]_gridVars
  BY StepRefines
<1> QED BY <1>1, <1>2, PTL DEF GridSpec, ImplementsColumnMap, Map!Spec
===============================================================================
