-------------------------------- MODULE Redstone --------------------------------
(***************************************************************************)
(* Redstone: the components of a world, the set of them that must be       *)
(* looked at again, the ticks they have asked for, and a tick that settles *)
(* the power, lets lamps, repeaters and dispensers react and goes to sleep *)
(* when nothing is left to do.                                             *)
(*                                                                         *)
(* The world is a straight run of cells on a solid floor, in the direction *)
(* repeaters face, with air around it.  MaxPower stands for 15, MaxPasses  *)
(* for the 64 passes, ScheduleCap for the 4096 scheduled ticks.  A lamp    *)
(* stands for doors and trapdoors too, a dispenser for droppers and note   *)
(* blocks.  A circuit is ticked alone, as the tests do, or by ServerWorld  *)
(* ("served"), which writes the blocks redstone changed once more.         *)
(*                                                                         *)
(* The charge of a component follows from its block and its power, except  *)
(* that of a torch or comparator, which is evaluated again in any case.    *)
(* No setup has two observers, an observer that faces a block with an      *)
(* entity, or a piston that could push a component that faces somewhere:   *)
(* pushed components face north, out of a run that is ticked alone.        *)
(***************************************************************************)
EXTENDS Integers, FiniteSets, SequencesExt

CONSTANTS
  Length,       \* of the run of cells
  Edge,         \* last cell of the first column
  Setups,       \* worlds to load: [cells : Seq of kinds, on : cells with the open
                \* bit, served : BOOLEAN]
  Placeable,    \* kinds a player may put into an empty cell
  MaxPower, MaxPasses, ScheduleCap,
  ButtonTicks,  \* a button stays in (20)
  Delay,        \* repeater_delay
  MaxActs       \* bound on what players and the server do to the circuit

ASSUME RedstoneAssumption ==
  /\ {Length, MaxPower, MaxPasses, ScheduleCap, ButtonTicks, Delay} \subseteq Nat \ {0}
  /\ Edge \in Nat /\ MaxActs \in Nat

VARIABLES
  served,     \* is ServerWorld driving?
  blocks,      \* WorldColumns: [Cells -> kind]
  open,       \* the open bit of the block state
  comps,      \* positions with a ComponentState
  power,      \* signal.power
  latched,    \* dispensers and pistons with last_powered
  scheduled,  \* ScheduledTick, with the ticks left until it is due
  dirty, sleeping,
  synced,     \* known_load_generation is the world's
  level,      \* comparator signal of what is in a chest
  watch,      \* observers: what they saw in front of them, pending_pulse
  unread,     \* comparators with a container_revision that has changed
  gone,       \* evicted columns
  occupants,  \* plates with somebody in the cell above
  seen,       \* previous_plate_occupants
  phase,      \* between ticks or in settle_power
  current, next, pass, evaluated, \* locals of settle_power
  due,        \* due_positions_scratch
  changed,    \* positions in update.mutations
  saved,      \* latches in the newest save of each column
  touched,    \* columns in dirty_chunks
  lost,       \* a scheduled tick or a latch of theirs was dropped
  shots,      \* times a dispenser has fired since it was last unpowered
  acts

world == <<served, blocks, open, level, gone>>
circuit == <<comps, power, latched, scheduled, dirty, sleeping, synced, seen, watch,
             unread>>
settling == <<phase, current, next, pass, evaluated, due, changed>>
disk == <<saved, touched>>
history == <<lost, shots>>
circuitVars == <<world, circuit, occupants, settling, disk, history, acts>>

Cells == 1 .. Length
Pistons == {"piston", "sticky"}
Sinks == {"lamp", "dispenser"} \cup Pistons
Sources == {"lever", "button", "plate"}
Gates == {"repeater", "comparator"}
Components == Sources \cup Sinks \cup Gates \cup {"wire", "torch", "observer"}
BlockKinds == Components \cup {"air", "stone", "chest"}

IsSolid(kind) == kind \in Sinks \cup {"stone", "chest", "observer"}
IsTransitionCapable(kind) == kind \in Sinks \cup Gates \cup {"torch"}
IsMovable(kind) == kind \notin Pistons \cup {"air", "bedrock"}
Resting(kind) == IF kind = "torch" THEN MaxPower ELSE 0
Near(p) == {p - 1, p + 1} \cap Cells
Column(p) == IF p <= Edge THEN 1 ELSE 2
AllComponents(bl) == {p \in Cells : bl[p] \in Components}

(* A world is loaded with its levers as they were left; what else is open  *)
(* is the work of the circuit.                                             *)
ASSUME SetupsAssumption ==
  /\ Placeable \subseteq BlockKinds
  /\ \A s \in Setups :
       /\ s.served \in BOOLEAN
       /\ \A p \in Cells : s.cells[p] \in BlockKinds
       /\ \A p \in Cells : p \in s.on => s.cells[p] = "lever"

-----------------------------------------------------------------------------
(* Power, as power.rs computes it.  The blocks change while transitions    *)
(* are applied: w has the blocks and the open bits to look at.             *)
Now == [block |-> blocks, open |-> open]
At(w, p) == IF p \in Cells THEN w.block[p] ELSE "bedrock"

EmittedToward(w, source, target) ==
  CASE w.block[source] \in Gates -> IF w.open[source] /\ source + 1 = target
                                    THEN power[source] ELSE 0
    [] w.block[source] = "observer" -> IF source - 1 = target THEN power[source] ELSE 0
    [] w.block[source] \in Sinks -> 0
    [] OTHER -> power[source]

IsStrongSource(w, p) ==
  \/ w.block[p] \in Sources \cup Gates /\ w.open[p]
  \/ w.block[p] = "torch" /\ ~w.open[p]

StrongPowerInto(w, target) ==
  Max({0} \cup {EmittedToward(w, s, target) :
                  s \in {n \in Near(target) \cap comps : IsStrongSource(w, n)}})

(* Mutant: wire passes power on to wire undiminished. *)
SignalUndiminished(w, source, target, attenuate) ==
  CASE source \notin Cells -> 0
    [] source \in comps -> EmittedToward(w, source, target)
    [] OTHER -> IF IsSolid(w.block[source]) THEN StrongPowerInto(w, source) ELSE 0

Signal(w, source, target, attenuate) ==
  CASE source \notin Cells -> 0
    [] source \in comps ->
         LET strength == EmittedToward(w, source, target)
         IN IF attenuate /\ w.block[source] = "wire" /\ strength > 0
            THEN strength - 1 ELSE strength
    [] OTHER -> IF IsSolid(w.block[source]) THEN StrongPowerInto(w, source) ELSE 0

IncomingPower(p, attenuate) ==
  Max({0} \cup {Signal(Now, n, p, attenuate) : n \in Near(p)})

(* A comparator reads the container behind it, or the one behind a block.  *)
ContainerSignal(p) == IF p \in Cells THEN level[p] ELSE 0
ContainerBehind(p) ==
  CASE ContainerSignal(p - 1) > 0 -> ContainerSignal(p - 1)
    [] ContainerSignal(p - 1) = 0 /\ IsSolid(At(Now, p - 1)) -> ContainerSignal(p - 2)
    [] OTHER -> 0

(* The floor below a torch takes strong power from the torch alone.        *)
DesiredPower(p) ==
  CASE blocks[p] \in Sources \cup {"repeater"} -> IF open[p] THEN MaxPower ELSE 0
    [] blocks[p] = "comparator" -> Max({Signal(Now, p - 1, p, FALSE), ContainerBehind(p)})
    [] blocks[p] = "observer" -> power[p]
    [] blocks[p] = "torch" -> IF ~open[p] /\ power[p] > 0 THEN 0 ELSE MaxPower
    [] blocks[p] = "wire" -> IncomingPower(p, TRUE)
    [] blocks[p] \in Sinks -> IncomingPower(p, FALSE)
    [] OTHER -> 0

(* Mutant: a change wakes what touches it, not what is behind a block. *)
ReachTouching(bl, p) == {p} \cup Near(p)

(* What a change at p wakes: mark_neighbors_dirty.                          *)
Reach(bl, p) ==
  {p} \cup Near(p) \cup UNION {Near(n) : n \in {m \in Near(p) : IsSolid(bl[m])}}
Woken(bl, cs, ps) == cs \cap UNION {Reach(bl, p) : p \in ps}

-----------------------------------------------------------------------------
(* What happens to the circuit between two ticks.                          *)

Acting == phase = "idle" /\ acts < MaxActs /\ acts' = acts + 1

Wake(bl, cs, marks, ps) ==
  /\ dirty' = marks \cup Woken(bl, cs, ps)
  /\ sleeping' = (sleeping /\ Woken(bl, cs, ps) = {})

(* Comparators whose rear container is in one of the cells.                *)
Readers(ps) ==
  {p \in comps : blocks[p] = "comparator" /\ p - 1 \in ps /\ blocks[p - 1] = "chest"}

NothingSeen == [front |-> <<"none", FALSE>>, pending |-> 0]

(* ServerWorld::set_block with state 0, and on_block_changed               *)
SetBlock(p, kind) ==
  LET placed == [blocks EXCEPT ![p] = kind]
      known == IF kind \in Components THEN comps \cup {p} ELSE comps \ {p}
  IN /\ blocks' = placed
     /\ open' = [open EXCEPT ![p] = FALSE]
     /\ comps' = known
     /\ power' = [power EXCEPT ![p] = Resting(kind)]
     /\ latched' = latched \ {p}
     /\ scheduled' = IF kind \in Components THEN scheduled
                     ELSE {e \in scheduled : e.pos # p}
     /\ touched' = touched \cup {Column(p)}
     /\ lost' = lost \ {p}
     /\ shots' = [shots EXCEPT ![p] = 0]
     /\ level' = [level EXCEPT ![p] = 0]
     /\ watch' = [watch EXCEPT ![p] = NothingSeen]
     /\ unread' = unread \cup Readers({p})
     /\ Wake(placed, known, dirty, {p})
     /\ UNCHANGED <<served, gone, synced, seen, occupants, settling, saved>>

(* A column that was evicted is not built on again.                        *)
PlaceBlock(p, kind) ==
  /\ Acting /\ gone = {}
  /\ blocks[p] = "air" /\ kind # "air"
  /\ SetBlock(p, kind)

Break(p) ==
  /\ Acting
  /\ blocks[p] # "air"
  /\ SetBlock(p, "air")

(* RedstoneSystem::interact, which only the tests call                     *)
Pulled(p) ==
  /\ blocks[p] = "lever"
  /\ open' = [open EXCEPT ![p] = ~open[p]]
  /\ UNCHANGED <<scheduled, lost>>

Pressed(p) ==
  LET others == {e \in scheduled : e.pos # p}
      room == Cardinality(others) < ScheduleCap
      release == {[pos |-> p, kind |-> "release", left |-> ButtonTicks]}
  IN /\ blocks[p] = "button"
     /\ open' = [open EXCEPT ![p] = TRUE]
     /\ scheduled' = IF room THEN others \cup release ELSE others
     /\ lost' = IF room THEN lost \ {p} ELSE lost \cup {p}

Interact(p) ==
  LET known == comps \cap AllComponents(blocks)
      woken == Woken(blocks, known, {p})
  IN /\ Acting /\ ~served
     /\ Pulled(p) \/ Pressed(p)
     /\ comps' = known /\ synced' = TRUE
     /\ dirty' = (dirty \cap known) \cup woken
     /\ sleeping' = (sleeping /\ synced /\ blocks[p] # "button" /\ woken = {})
     /\ touched' = IF open'[p] # open[p] THEN touched \cup {Column(p)} ELSE touched
     /\ UNCHANGED <<served, blocks, level, gone, power, latched, seen, watch, unread,
                    occupants, settling, saved, shots>>

(* A container transaction, and mark_container_changed                     *)
Fill(p) ==
  /\ Acting
  /\ blocks[p] = "chest"
  /\ \E v \in 0 .. MaxPower : v # level[p] /\ level' = [level EXCEPT ![p] = v]
  /\ unread' = unread \cup Readers({p})
  /\ touched' = touched \cup {Column(p)}
  /\ Wake(blocks, comps, dirty, {p})
  /\ UNCHANGED <<served, blocks, open, gone, comps, power, latched, scheduled, synced,
                 seen, watch, occupants, settling, saved, history>>

(* A player enters the cell above a plate or leaves it.                    *)
Walk(p) ==
  /\ Acting
  /\ blocks[p] = "plate"
  /\ occupants' = IF p \in occupants THEN occupants \ {p} ELSE occupants \cup {p}
  /\ UNCHANGED <<world, circuit, settling, disk, history>>

(* remove_resident_chunk: the cells read as air from now on.  The column   *)
(* was flushed if it was dirty.                                            *)
Evict(c) ==
  LET away == {p \in Cells : Column(p) = c}
  IN /\ Acting
     /\ \E p \in away : blocks[p] # "air"
     /\ blocks' = [p \in Cells |-> IF p \in away THEN "air" ELSE blocks[p]]
     /\ open' = [p \in Cells |-> p \notin away /\ open[p]]
     /\ level' = [p \in Cells |-> IF p \in away THEN 0 ELSE level[p]]
     /\ watch' = [p \in Cells |-> IF p \in away THEN NothingSeen ELSE watch[p]]
     /\ unread' = unread \cup Readers(away)
     /\ saved' = IF c \in touched THEN (saved \ away) \cup (latched \cap away) ELSE saved
     /\ touched' = touched \ {c}
     /\ occupants' = occupants \ away
     /\ synced' = FALSE /\ gone' = gone \cup {c}
     /\ UNCHANGED <<served, comps, power, latched, scheduled, dirty, sleeping, seen,
                    settling, lost, shots>>

(* The latches a save takes: collect_chunk_metadata of the dirty columns.  *)
Collected == {p \in Cells : p \in IF Column(p) \in touched THEN latched ELSE saved}

Save ==
  /\ phase = "idle" /\ touched # {}
  /\ saved' = Collected /\ touched' = {}
  /\ UNCHANGED <<world, circuit, occupants, settling, history, acts>>

(* Mutant: what an observer has seen does not outlive a restart. *)
RestartUnseen ==
  /\ Acting /\ gone = {}
  /\ saved' = Collected /\ touched' = {}
  /\ comps' = AllComponents(blocks) /\ dirty' = AllComponents(blocks)
  /\ power' = [p \in Cells |-> Resting(blocks[p])]
  /\ latched' = Collected \cap AllComponents(blocks)
  /\ scheduled' = {} /\ sleeping' = FALSE /\ synced' = TRUE
  /\ occupants' = {} /\ seen' = {} /\ unread' = {}
  /\ lost' = lost \cup {e.pos : e \in scheduled}
                  \cup {p \in Cells : (p \in latched) # (p \in Collected)}
  /\ watch' = [p \in Cells |-> NothingSeen]
  /\ UNCHANGED <<world, settling, shots>>

(* A shutdown, which saves, and a start up to the first sync.  A history   *)
(* with a restart evicts only after it.                                    *)
Restart ==
  /\ Acting /\ gone = {}
  /\ saved' = Collected /\ touched' = {}
  /\ comps' = AllComponents(blocks) /\ dirty' = AllComponents(blocks)
  /\ power' = [p \in Cells |-> Resting(blocks[p])]
  /\ latched' = Collected \cap AllComponents(blocks)
  /\ scheduled' = {} /\ sleeping' = FALSE /\ synced' = TRUE
  /\ occupants' = {} /\ seen' = {} /\ unread' = {}
  /\ lost' = lost \cup {e.pos : e \in scheduled}
                  \cup {p \in Cells : (p \in latched) # (p \in Collected)}
  /\ UNCHANGED <<world, watch, settling, shots>>

-----------------------------------------------------------------------------
(* A tick: sync, due ticks and plates, settle_power, transitions.          *)

Occupied(known) == {p \in occupants \cap known : blocks[p] = "plate"}

(* The early return of a sleeping system.                                  *)
Quiet ==
  /\ phase = "idle" /\ sleeping /\ synced
  /\ dirty = {} /\ scheduled = {}
  /\ Occupied(comps) = seen

(* update_observers: an observer looks at what is in front of it, unless   *)
(* that is not loaded, and asks for a pulse when it is not what it was.    *)
Ahead(p) == <<At(Now, p + 1), p + 1 \in Cells /\ open[p + 1]>>
Watching(known) == {p \in known : blocks[p] = "observer" /\ Column(p + 1) \notin gone}
Roused(known) == {p \in Watching(known) : watch[p].front # Ahead(p)}
Startled(known) == {p \in Roused(known) : watch[p] # NothingSeen}

Looked(known) ==
  [p \in Cells |->
     IF p \in Roused(known)
     THEN [front |-> Ahead(p), pending |-> IF p \in Startled(known) THEN 2 ELSE 0]
     ELSE watch[p]]

Ringing(known) ==
  {p \in Watching(known) : Looked(known)[p].pending > 0 /\ \A e \in scheduled : e.pos # p}

BeginTick ==
  LET known == IF synced THEN comps ELSE comps \cap AllComponents(blocks)
      aged == {[e EXCEPT !.left = @ - 1] : e \in scheduled}
      ripe == {e \in aged : e.left = 0}
      Due(kind, b) == {e.pos : e \in {r \in ripe : r.kind = kind /\ blocks[r.pos] = b}}
      released == {p \in Due("release", "button") : open[p]}
      opening == Due("on", "repeater")
      closing == Due("off", "repeater")
      rising == Due("rise", "observer")
      falling == Due("fall", "observer")
      pressed == {p \in known : blocks[p] = "plate" /\ open[p] # (p \in occupants)}
      flipped == released \cup {p \in opening : ~open[p]} \cup {p \in closing : open[p]}
                 \cup pressed
      rung == IF Cardinality(scheduled) < ScheduleCap THEN Ringing(known) ELSE {}
      future == (aged \ ripe) \cup {[pos |-> p, kind |-> "rise", left |-> 1] : p \in rung}
      answered == IF Cardinality(future) < ScheduleCap THEN rising ELSE {}
  IN /\ phase = "idle" /\ ~Quiet
     /\ phase' = "settle"
     /\ comps' = known /\ synced' = TRUE
     /\ open' = [p \in Cells |-> open[p] # (p \in flipped)]
     /\ power' = [p \in Cells |-> CASE p \in rising -> MaxPower
                                    [] p \in falling -> 0
                                    [] OTHER -> power[p]]
     /\ watch' = [p \in Cells |-> [Looked(known)[p] EXCEPT
                    !.pending = CASE p \in rising -> Max({0, @ - 1})
                                  [] p \in falling -> 0
                                  [] OTHER -> @]]
     /\ scheduled' = future \cup {[pos |-> p, kind |-> "fall", left |-> 2] : p \in answered}
     /\ due' = {e.pos : e \in ripe}
     /\ changed' = flipped
     /\ current' = (dirty \cap known) \cup Roused(known)
                   \cup Woken(blocks, known, (unread \cap known) \cup released \cup opening
                              \cup closing \cup rising \cup falling \cup pressed)
     /\ dirty' = {} /\ next' = {} /\ evaluated' = {} /\ pass' = 0
     /\ unread' = {} /\ sleeping' = FALSE
     /\ seen' = Occupied(known)
     /\ touched' = touched \cup {Column(p) : p \in Roused(known) \cup rising \cup falling}
     /\ lost' = (lost \ falling) \cup (Ringing(known) \ rung) \cup (rising \ answered)
     /\ UNCHANGED <<served, blocks, level, gone, latched, occupants, saved, shots, acts>>

(* The dirty positions of a pass are drained from a hash set, in any order. *)
(* max_evaluations is left out: it allows for every component once in each  *)
(* pass, and only components are ever dirty.                                *)
Evaluate(p) ==
  LET differs == p \in comps /\ DesiredPower(p) # power[p]
  IN /\ phase = "settle" /\ pass < MaxPasses
     /\ p \in current
     /\ current' = current \ {p}
     /\ evaluated' = evaluated \cup {p}
     /\ power' = IF differs THEN [power EXCEPT ![p] = DesiredPower(p)] ELSE power
     /\ next' = IF differs THEN next \cup Woken(blocks, comps, {p}) ELSE next
     /\ UNCHANGED <<world, comps, latched, scheduled, dirty, sleeping, synced, seen,
                    watch, unread, occupants, phase, pass, due, changed, disk, history,
                    acts>>

NextPass ==
  /\ phase = "settle" /\ pass < MaxPasses
  /\ current = {} /\ next # {}
  /\ current' = next /\ next' = {} /\ pass' = pass + 1
  /\ UNCHANGED <<world, circuit, occupants, phase, evaluated, due, changed, disk, history,
                 acts>>

Settled == (current = {} /\ next = {}) \/ pass = MaxPasses

(* apply_component_transitions: the positions settle_power looked at and   *)
(* those that were due, in order.                                          *)
Candidates == {p \in (evaluated \cup due) \cap comps : IsTransitionCapable(blocks[p])}

SetOpenFlag(w, p, bit) ==
  IF w.open[p] = bit THEN w ELSE [w EXCEPT !.open[p] = bit, !.switched = @ \cup {p}]

(* A block is written into its new cell, where that is loaded, and leaves  *)
(* the old one; its state and its entity are lost.                         *)
Moved(w, from, to) ==
  LET there == Column(to) \notin gone
      arriving == IF there THEN w.block[from] ELSE "air"
  IN [block |-> [w.block EXCEPT ![to] = arriving, ![from] = "air"],
      open |-> [w.open EXCEPT ![to] = FALSE, ![from] = FALSE],
      moved |-> w.moved \cup {from} \cup (IF there THEN {to} ELSE {}),
      switched |-> w.switched, scheduled |-> w.scheduled, fired |-> w.fired,
      dropped |-> w.dropped]

(* Mutant: a piston does not look where it pushes. *)
ExtendedBlindly(w, p) ==
  IF At(w, p + 1) = "air" THEN SetOpenFlag(w, p, TRUE)
  ELSE IF IsMovable(At(w, p + 1)) /\ p + 2 \in Cells
       THEN SetOpenFlag(Moved(w, p + 1, p + 2), p, TRUE)
       ELSE w

Extended(w, p) ==
  CASE At(w, p + 1) = "air" -> SetOpenFlag(w, p, TRUE)
    [] IsMovable(At(w, p + 1)) /\ At(w, p + 2) = "air" ->
         SetOpenFlag(Moved(w, p + 1, p + 2), p, TRUE)
    [] OTHER -> w

Retracted(w, p) ==
  LET pulls == w.block[p] = "sticky" /\ At(w, p + 1) = "air" /\ IsMovable(At(w, p + 2))
  IN SetOpenFlag(IF pulls THEN Moved(w, p + 2, p + 1) ELSE w, p, FALSE)

(* Does a repeater get power from behind?                                  *)
Fed(w, p) == Signal(w, p - 1, p, FALSE) > 0

(* Mutant: a repeater asks for a tick whatever it shows already. *)
AskingAlways(w, p) == \A e \in w.scheduled : e.pos # p

Asking(w, p) ==
  /\ w.open[p] # Fed(w, p)
  /\ \A e \in w.scheduled : e.pos # p

(* schedule_tick, while there is room.                                     *)
Scheduled(w, p) ==
  LET tick == [pos |-> p, left |-> Delay,
               kind |-> IF Fed(w, p) THEN "on" ELSE "off"]
  IN IF Cardinality(w.scheduled) < ScheduleCap
     THEN [w EXCEPT !.scheduled = @ \cup {tick}]
     ELSE [w EXCEPT !.dropped = @ \cup {p}]

(* Mutant: any look at a powered dispenser fires it. *)
RisenAlways(p) == power[p] > 0

Risen(p) == power[p] > 0 /\ p \notin latched
Fallen(p) == power[p] = 0 /\ p \in latched

Transition(w, p) ==
  LET kind == w.block[p]
  IN CASE kind \in {"lamp", "comparator"} -> SetOpenFlag(w, p, power[p] > 0)
       [] kind = "torch" -> SetOpenFlag(w, p, power[p] = 0)
       [] kind = "repeater" /\ Asking(w, p) -> Scheduled(w, p)
       [] kind \in Pistons /\ Risen(p) /\ ~w.open[p] -> Extended(w, p)
       [] kind \in Pistons /\ Fallen(p) /\ w.open[p] -> Retracted(w, p)
       [] kind = "dispenser" /\ Risen(p) -> [w EXCEPT !.fired = @ \cup {p}]
       [] OTHER -> w

(* Positions are ordered by their coordinates: the way a circuit faces     *)
(* that is ticked alone, against it on the server, where all face north.   *)
InOrder == [i \in Cells |-> IF served THEN Length + 1 - i ELSE i]

Transited ==
  LET upTo[n \in 0 .. Length] ==
        IF n = 0
        THEN [block |-> blocks, open |-> open, scheduled |-> scheduled,
              switched |-> {}, moved |-> {}, fired |-> {}, dropped |-> {}]
        ELSE IF InOrder[n] \in Candidates THEN Transition(upTo[n - 1], InOrder[n])
        ELSE upTo[n - 1]
  IN upTo[Length]

(* What ServerWorld::tick writes again: a block that is open gets state 0. *)
Folded(bits, positions) == IF served THEN {p \in positions : bits[p]} ELSE {}

FinishTick ==
  /\ phase = "settle" /\ Settled
  /\ phase' = "idle"
  /\ \E w \in {Transited} :
       LET mutated == changed \cup w.switched \cup w.moved
           known == {p \in comps \cup w.moved : w.block[p] \in Components}
           latching == {p \in Candidates : blocks[p] \in {"dispenser"} \cup Pistons}
       IN /\ blocks' = w.block
          /\ open' = [p \in Cells |-> w.open[p] /\ p \notin Folded(w.open, mutated)]
          /\ comps' = known
          /\ power' = [p \in Cells |-> IF p \in w.moved THEN Resting(w.block[p])
                                       ELSE power[p]]
          /\ latched' = ((latched \ Candidates) \cup {p \in latching : power[p] > 0}) \ w.moved
          /\ scheduled' = {e \in w.scheduled : e.pos \notin w.moved \ known}
          /\ level' = [p \in Cells |-> IF p \in w.moved THEN 0 ELSE level[p]]
          /\ watch' = [p \in Cells |-> IF p \in w.moved THEN NothingSeen ELSE watch[p]]
          /\ unread' = Readers(w.moved)
          /\ dirty' = current \cup Woken(w.block, known, mutated)
          /\ sleeping' = (dirty' = {} /\ scheduled' = {})
          /\ touched' = touched \cup {Column(p) : p \in mutated}
          /\ lost' = ((lost \ {p \in Candidates : blocks[p] = "repeater" \/ power[p] = 0})
                      \cup w.dropped) \ w.moved
          /\ shots' = [p \in Cells |-> CASE power[p] = 0 \/ p \in w.moved -> 0
                                         [] p \in w.fired \ w.moved -> Min({2, shots[p] + 1})
                                         [] OTHER -> shots[p]]
  /\ current' = {} /\ next' = {} /\ evaluated' = {} /\ due' = {} /\ changed' = {}
  /\ pass' = 0
  /\ UNCHANGED <<served, gone, synced, seen, occupants, saved, acts>>

-----------------------------------------------------------------------------
CircuitInit ==
  \E s \in Setups :
    /\ served = s.served
    /\ blocks = [p \in Cells |-> s.cells[p]]
    /\ open = [p \in Cells |-> p \in s.on]
    /\ comps = AllComponents(blocks) /\ dirty = AllComponents(blocks)
    /\ power = [p \in Cells |-> Resting(blocks[p])]
    /\ latched = {} /\ scheduled = {} /\ sleeping = FALSE /\ synced = TRUE
    /\ occupants = {} /\ seen = {}
    /\ phase = "idle" /\ pass = 0
    /\ current = {} /\ next = {} /\ evaluated = {} /\ due = {} /\ changed = {}
    /\ level = [p \in Cells |-> 0] /\ watch = [p \in Cells |-> NothingSeen]
    /\ unread = {} /\ gone = {}
    /\ saved = {} /\ touched = {}
    /\ lost = {} /\ shots = [p \in Cells |-> 0]
    /\ acts = 0

Act ==
  \/ \E p \in Cells : \/ \E kind \in Placeable : PlaceBlock(p, kind)
                      \/ Break(p)
                      \/ Interact(p)
                      \/ Fill(p)
                      \/ Walk(p)
  \/ \E c \in {1, 2} : Evict(c)
  \/ Save
  \/ Restart

Tick ==
  \/ BeginTick
  \/ \E p \in Cells : Evaluate(p)
  \/ NextPass
  \/ FinishTick

CircuitNext == Act \/ Tick

CircuitSpec == CircuitInit /\ [][CircuitNext]_circuitVars

(* The server ticks at 20 Hz whatever the players do.                       *)
FairSpec == CircuitSpec /\ WF_circuitVars(Tick)

-----------------------------------------------------------------------------
(* What the blocks say a cell should get, by distance: the reference power *)
(* is compared with.  Of component state it knows the output of comparators *)
(* and observers alone.                                                    *)
Strength(s, t) ==
  CASE blocks[s] \in Sources /\ open[s] -> MaxPower
    [] blocks[s] = "torch" /\ ~open[s] -> MaxPower
    [] blocks[s] = "repeater" /\ open[s] /\ s + 1 = t -> MaxPower
    [] blocks[s] = "comparator" /\ open[s] /\ s + 1 = t -> power[s]
    [] OTHER -> 0
Gives(n, t) ==
  CASE blocks[n] \in {"stone", "chest"} -> Max({0} \cup {Strength(s, n) : s \in Near(n)})
    [] blocks[n] = "observer" -> IF n - 1 = t THEN power[n] ELSE 0
    [] OTHER -> Strength(n, t)
WireRun(a, b) == \A p \in Min({a, b}) .. Max({a, b}) : blocks[p] = "wire"
Level(w) ==
  Max({0} \cup {Gives(c[2], c[1]) - Max({w - c[1], c[1] - w}) :
        c \in {d \in Cells \X Cells : d[2] \in Near(d[1]) /\ WireRun(w, d[1])}})
Input(n, t) ==
  CASE n \notin Cells -> 0
    [] n \in Cells /\ blocks[n] = "wire" -> Level(n)
    [] OTHER -> Gives(n, t)
Reference(p) ==
  CASE blocks[p] \in Sources \cup {"repeater"} -> IF open[p] THEN MaxPower ELSE 0
    [] blocks[p] = "observer" -> 0
    [] blocks[p] = "wire" -> Level(p)
    [] blocks[p] = "comparator" -> Max({Input(p - 1, p), ContainerBehind(p)})
    [] OTHER -> Max({0} \cup {Input(n, p) : n \in Near(p)})

Agrees(p) ==
  /\ power[p] = Reference(p)
  /\ blocks[p] \in {"lamp", "comparator"} => open[p] = (power[p] > 0)
  /\ blocks[p] = "plate" => open[p] = (p \in occupants)
  /\ blocks[p] = "button" => ~open[p]
  /\ blocks[p] = "repeater" => open[p] = (Input(p - 1, p) > 0)
  /\ blocks[p] \in Pistons /\ open[p] => power[p] > 0
  /\ blocks[p] = "observer" => watch[p] = [front |-> Ahead(p), pending |-> 0]

(* The tick returns at once only when there is nothing to do: exactly the  *)
(* components of the loaded world are known, each has the power, the open  *)
(* bit and the output its surroundings and containers call for, and an     *)
(* observer has seen what is in front of it, except where the full         *)
(* schedule or a restart dropped a tick.  (Around an evicted column stale  *)
(* power stays.)                                                           *)
AsleepIsSettled ==
  Quiet => /\ comps = AllComponents(blocks)
           /\ gone # {} \/ \A p \in comps \ lost : Agrees(p)

(* A dispenser fires once for each time it gets power: not again while the *)
(* power lasts, through whatever ticks, changes nearby and restarts, and   *)
(* not never.  (A latch that no save took, its column being untouched, is  *)
(* forgotten by a restart: that dispenser is in lost, and fires again.)    *)
FiresOncePerPulse ==
  phase = "idle" =>
    \A p \in comps \ (lost \cup dirty) :
      blocks[p] = "dispenser" /\ power[p] > 0 => shots[p] = 1

(* A repeater that has been seen to have input opens, even if the input is *)
(* gone before its delay is over, and an observer that saw a change in     *)
(* front of it gives its pulse.  A restart forgets the scheduled tick and  *)
(* not the pulse: the observer asks again, for what its entity remembers,  *)
(* and so does the repeater, whose input is still there.  A repeater may   *)
(* miss a pulse that was over when its tick was dropped, or whose tick the *)
(* full schedule refused.  (Of two observers one might be refused as well; *)
(* no setup has two.)                                                      *)
SawPulse(p) ==
  /\ phase = "idle" /\ gone = {} /\ p \in comps
  /\ \/ /\ blocks[p] = "repeater" /\ ~open[p] /\ Fed(Now, p)
        /\ p \notin dirty \cup lost
     \/ blocks[p] = "observer" /\ watch[p].pending > 0
Passed(p) ==
  CASE blocks[p] = "repeater" -> open[p]
    [] blocks[p] = "observer" -> power[p] > 0
    [] OTHER -> TRUE
Missed(p) ==
  /\ blocks[p] = "repeater" /\ p \in lost
  /\ \/ Input(p - 1, p) = 0
     \/ Cardinality(scheduled) = ScheduleCap /\ \A e \in scheduled : e.pos # p
PulsesPass == \A p \in Cells : SawPulse(p) ~> (Passed(p) \/ Missed(p) \/ gone # {})

(* A tick moves blocks and never makes or destroys one, whatever else the  *)
(* pistons, lamps and repeaters of the circuit do in it.  (Into an evicted *)
(* column a block is pushed for good.)                                     *)
Census(w) == [k \in BlockKinds \ {"air"} |-> Cardinality({p \in Cells : w[p] = k})]
PushesConserve == [][phase = "settle" /\ gone = {} => Census(blocks') = Census(blocks)]_circuitVars

(* Without torches a circuit ticked alone comes to rest.                   *)
QuietsDown == <>[](served \/ (\E p \in Cells : blocks[p] = "torch") \/ Quiet)

=================================================================================
