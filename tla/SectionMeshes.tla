----------------------------- MODULE SectionMeshes -----------------------------
(***************************************************************************)
(* The client's section meshes: columns and block changes arrive, mark     *)
(* sections stale and queue them; a frame integrates what the workers      *)
(* finished, unloads what the player left behind and hands the nearest     *)
(* stale sections, with a snapshot of their surroundings, to the worker    *)
(* pool; a result is shown only if nothing it depends on changed since.    *)
(*                                                                         *)
(* The world has one horizontal axis.  A cell is a pair <<x, y>>, marked   *)
(* or not: block, state, fluid and light in one.  The opaque and the       *)
(* transparent layer, and the vertex and the index arena, get the same     *)
(* sequence of calls, so one of each stands for both; an allocation takes  *)
(* one unit of its arena.                                                  *)
(***************************************************************************)
EXTENDS Integers, FiniteSets, SequencesExt

CONSTANTS
  Columns,        \* chunk coordinates in reach
  SectionYs,      \* sections of a column
  Width, Height,  \* of a section, in cells
  Payloads,       \* sets of cells a ChunkColumn may mark
  EditCells,      \* cells block changes hit
  LightCells,     \* cells whose light a new column may change
  Lods,           \* levels of detail, 0 is the finest
  NearLod,        \* columns this near are drawn with level 0
  ViewDistance, UnloadHysteresis, RegionSize,
  MaxJobs,        \* MAX_CHUNK_MESH_JOBS
  QueueLimit,     \* MAX_DIRTY_MESH_QUEUE
  InitialCapacity,
  Start,          \* player's first chunk
  Absent,         \* no column, no mesh, no handle
  MaxEvents       \* bound on the events that reach the main thread

Cells == (UNION Payloads) \union EditCells \union LightCells
Handle == [instance : Nat, token : Nat]
Level == [data : SUBSET Cells, handle : Handle \union {Absent}]
SectionMesh == [revision : Nat, meshed : Nat \union {Absent},
                levels : [Lods -> Level] \union {Absent}, built : SUBSET Lods]

ASSUME SectionMeshesAssumption ==
  /\ Columns \subseteq Int /\ IsFiniteSet(Columns)
  /\ SectionYs \subseteq Int /\ IsFiniteSet(SectionYs)
  /\ IsFiniteSet(Lods) /\ Lods # {} /\ Lods = 0 .. Cardinality(Lods) - 1
  /\ {Width, Height} \subseteq Nat \ {0, 1}
  /\ {RegionSize, MaxJobs, QueueLimit, InitialCapacity} \subseteq Nat \ {0}
  /\ Cells \subseteq Int \X Int
  /\ \A p \in EditCells : p[1] \div Width \in Columns
  /\ Absent \notin Int /\ Absent \notin Handle /\ \A cells \in SUBSET Cells : Absent # cells
  /\ Absent \notin [Lods -> Level] /\ Absent \notin [SectionYs -> SectionMesh]

VARIABLES
  columns,      \* chunk_manager.chunks: [Columns -> marked cells or Absent]
  unreported,   \* pending_section_mesh_invalidations
  lifetimes,    \* chunk_lifetimes, 0 for none
  nextLifetime,
  meshes,       \* chunk_meshes: [Columns -> [SectionYs -> section] or Absent]
  pending,      \* SectionMeshScheduler.pending: key -> identity and distance
  dropped,      \* sections the full queue threw out since they were last queued
  inFlight,     \* SectionMeshScheduler.in_flight: key -> identity
  jobs,         \* running on the worker pool
  results,      \* pending_worker_results and the channel behind it
  generation,   \* terrain_generation
  regions,      \* render_regions: coordinate -> region
  nextInstance,
  compacting,   \* compaction_pending_region
  player, target, \* player's chunk; scheduler.last_player_chunk
  ready,        \* network_ready
  phase,        \* where the main thread is in its frame
  events        \* how many events have arrived

world == <<columns, unreported>>
owners == <<lifetimes, nextLifetime>>
queues == <<pending, dropped>>
work == <<inFlight, jobs, results>>
arenas == <<regions, nextInstance, compacting>>
vars == <<columns, unreported, lifetimes, nextLifetime, meshes, pending, dropped,
          inFlight, jobs, results, generation, regions, nextInstance, compacting,
          player, target, ready, phase, events>>

Keys == Columns \X SectionYs
KeysOf(cs) == cs \X SectionYs
Dist(c, d) == IF c >= d THEN c - d ELSE d - c
Without(f, S) == [k \in DOMAIN f \ S |-> f[k]]

OwnCells(k) == {<<x, y>> : x \in Width * k[1] .. Width * k[1] + Width - 1,
                           y \in Height * k[2] .. Height * k[2] + Height - 1}

(* capture_section_halo: the section and one cell around it; a column that *)
(* is not resident contributes nothing                                     *)
Halo(k) == {<<x, y>> : x \in Width * k[1] - 1 .. Width * k[1] + Width,
                       y \in Height * k[2] - 1 .. Height * k[2] + Height}
Snapshot(k) == Halo(k) \intersect UNION {columns[c] : c \in {d \in Columns : columns[d] # Absent}}

(* mark_section_mesh_dependencies *)
Steps(local, size) ==
  IF local = 0 THEN {-1, 0} ELSE IF local = size - 1 THEN {0, 1} ELSE {0}
DependentsOwnSection(p) == {<<p[1] \div Width, p[2] \div Height>>}
Dependents(p) ==
  {<<p[1] \div Width + dx, p[2] \div Height + dy>> :
     dx \in Steps(p[1] % Width, Width), dy \in Steps(p[2] % Height, Height)}
AllDependents(cells) == UNION {Dependents(p) : p \in cells}

ColumnOf(p) == p[1] \div Width
RegionOf(c) == c \div RegionSize
Surrounding(c) == {c - 1, c + 1}
WithinHysteresis(c) == Dist(c, player) <= ViewDistance + UnloadHysteresis

(* section_selected_lod *)
Selected(k) == IF Dist(k[1], player) <= NearLod THEN 0 ELSE Max(Lods)
-------------------------------------------------------------------------------
(* sections *)
NoLevel == [data |-> {}, handle |-> Absent]
NewSection == [revision |-> 0, meshed |-> Absent, levels |-> Absent, built |-> {}]
NeedsRebuild(s) == s.levels = Absent \/ s.meshed # s.revision
Handles(s) == IF s.levels = Absent THEN {}
              ELSE {s.levels[l].handle : l \in Lods} \ {Absent}

HasResidentSection(m) == \E y \in SectionYs : m[y].levels # Absent
MeshHandles(m) == UNION {Handles(m[y]) : y \in SectionYs}
Matching(m, instance) == \E h \in MeshHandles(m) : h.instance = instance

(* current_section_identity *)
Known(k, ms, lt) == k \in Keys /\ lt[k[1]] # 0 /\ ms[k[1]] # Absent
Identity(k, ms, lt) == [revision |-> ms[k[1]][k[2]].revision, lifetime |-> lt[k[1]]]
IsCurrent(k, id) == Known(k, meshes, lifetimes) /\ Identity(k, meshes, lifetimes) = id
(* chunk_mesh_is_registered_with_region, for a region that exists *)
RegisteredByHandle(m, region) == HasResidentSection(m) /\ Matching(m, region.instance)
Registered(m, region) ==
  /\ HasResidentSection(m)
  /\ MeshHandles(m) = {} \/ Matching(m, region.instance)
-------------------------------------------------------------------------------
(* the queue: nearest first, ties by coordinates; latest wins per section *)
Before(q, j, k) ==
  \/ q[j].distance < q[k].distance
  \/ q[j].distance = q[k].distance /\ (j[1] < k[1] \/ (j[1] = k[1] /\ j[2] < k[2]))

QueuedWork(id, k) == [id |-> id, distance |-> Dist(k[1], player)]

EnqueueFirstWins(q, k, id) ==
  [j \in DOMAIN q \union {k} |-> IF j \in DOMAIN q THEN q[j] ELSE QueuedWork(id, k)]
Enqueue(q, k, id) ==
  LET added == [j \in DOMAIN q \union {k} |-> IF j = k THEN QueuedWork(id, k) ELSE q[j]]
      last  == {j \in DOMAIN added : \A i \in DOMAIN added : i = j \/ Before(added, i, j)}
  IN  IF Cardinality(DOMAIN added) > QueueLimit THEN Without(added, last) ELSE added

EnqueueAll(q, S, ms, lt) ==  \* one after the other, in some order
  LET order == SetToSeq(S)
      upTo[n \in 0 .. Len(order)] ==
        IF n = 0 THEN q ELSE Enqueue(upTo[n - 1], order[n], Identity(order[n], ms, lt))
  IN  upTo[Len(order)]

(* invalidate_section_mesh for a set of sections.  A section that one      *)
(* handler invalidates twice counts once: revisions are only compared for  *)
(* equality.                                                               *)
InvalidatedMeshes(ms, S) ==
  [c \in Columns |->
     IF ms[c] = Absent THEN Absent
     ELSE [y \in SectionYs |->
             IF <<c, y>> \in S THEN [ms[c][y] EXCEPT !.revision = @ + 1] ELSE ms[c][y]]]

Invalidate(S, q, ms, lt) ==
  LET known == {k \in S : Known(k, ms, lt)}
      newer == InvalidatedMeshes(ms, known)
      queue == EnqueueAll(q, known, newer, lt)
  IN /\ meshes' = newer
     /\ pending' = queue
     /\ dropped' = (dropped \union DOMAIN q \union known) \ DOMAIN queue
-------------------------------------------------------------------------------
(* the arena of a region *)
NewRegion(instance) ==
  [instance |-> instance, active |-> 0, capacity |-> InitialCapacity, live |-> {}]

IsLive(region, h) == h.instance = region.instance /\ h.token \in region.live

(* deallocate_handle: a handle that is not live here is reported, no more *)
Freed(region, hs) ==
  [region EXCEPT !.live = @ \ {h.token : h \in {g \in hs : IsLive(region, g)}}]

(* ensure_capacity and allocate_owned *)
FreeToken(region) == Min((0 .. region.capacity) \ region.live)
Allocated(region) ==
  [region EXCEPT !.live = @ \union {FreeToken(region)},
                 !.capacity = IF FreeToken(region) < @ THEN @ ELSE 2 * @]

WorthRebuildingLive(region) == region.capacity > InitialCapacity
WorthRebuilding(region) == region.live = {} /\ region.capacity > InitialCapacity

(* free_chunk_mesh_allocations for the meshes of a set of columns *)
ReleaseMesh(rs, c) ==
  IF RegionOf(c) \notin DOMAIN rs THEN rs ELSE
  LET region  == rs[RegionOf(c)]
      m       == meshes[c]
      left    == [Freed(region, MeshHandles(m)) EXCEPT
                    !.active = IF Registered(m, region) /\ @ > 0 THEN @ - 1 ELSE @]
  IN  IF left.active = 0 /\ left.live = {} THEN Without(rs, {RegionOf(c)})
      ELSE [rs EXCEPT ![RegionOf(c)] = left]
ReleaseMeshes(cs) ==
  LET order == SetToSeq(cs)
      upTo[n \in 0 .. Len(order)] ==
        IF n = 0 THEN regions ELSE ReleaseMesh(upTo[n - 1], order[n])
  IN  upTo[Len(order)]
-------------------------------------------------------------------------------
Init ==
  /\ columns = [c \in Columns |-> Absent]
  /\ unreported = {}
  /\ lifetimes = [c \in Columns |-> 0] /\ nextLifetime = 1
  /\ meshes = [c \in Columns |-> Absent]
  /\ pending = [k \in {} |-> 0] /\ dropped = {}
  /\ inFlight = [k \in {} |-> 0] /\ jobs = {} /\ results = <<>>
  /\ generation = 0
  /\ regions = [r \in {} |-> 0] /\ nextInstance = 1 /\ compacting = Absent
  /\ player = Start /\ target = Absent
  /\ ready = TRUE
  /\ phase = "events"
  /\ events = 0

Arrives ==
  /\ phase = "events"
  /\ events < MaxEvents
  /\ events' = events + 1

Marked(cs, cells) ==  \* toggles cells of resident columns
  [c \in Columns |->
     LET own == {p \in cells : ColumnOf(p) = c} IN
     IF cs[c] = Absent THEN Absent ELSE (cs[c] \ own) \union (own \ cs[c])]

(* commit_projected_chunk_column; lit are the cells whose light the joining *)
(* client's boundary relighting changes, none when the authority is local   *)
Commit(c, payload, lit) ==
  LET isNew  == columns[c] = Absent
      placed == [columns EXCEPT ![c] = {p \in payload : ColumnOf(p) = c}]
      shone  == {p \in lit : ColumnOf(p) \in Columns /\ placed[ColumnOf(p)] # Absent}
      lt     == [lifetimes EXCEPT ![c] = IF isNew \/ @ = 0 THEN nextLifetime ELSE @]
      ms     == [meshes EXCEPT ![c] = IF isNew \/ @ = Absent
                                      THEN [y \in SectionYs |-> NewSection] ELSE @]
      stale  == {c} \union {d \in Surrounding(c) \intersect Columns : placed[d] # Absent}
                    \union {ColumnOf(p) : p \in shone}
  IN /\ Arrives
     /\ columns' = Marked(placed, shone)
     /\ lifetimes' = lt
     /\ nextLifetime' = nextLifetime + 1
     /\ Invalidate(KeysOf(stale), pending, ms, lt)
     /\ unreported' = (unreported \union (AllDependents(shone) \intersect (Int \X SectionYs)))
                         \ {k \in KeysOf(stale) : Known(k, ms, lt)}
     /\ UNCHANGED <<work, generation, arenas, player, target, ready, phase>>

(* apply_remote_block_change and project_authority_mutations, with the     *)
(* relighting of apply_synced_block_change, which drains every             *)
(* invalidation that was still unreported                                  *)
Edit(p, lit) ==
  LET shone == {q \in lit : ColumnOf(q) \in Columns /\ columns[ColumnOf(q)] # Absent}
  IN /\ Arrives
     /\ columns[ColumnOf(p)] # Absent
     /\ columns' = Marked(columns, {p} \union shone)
     /\ Invalidate(unreported \union AllDependents({p} \union shone), pending, meshes, lifetimes)
     /\ unreported' = {}
     /\ UNCHANGED <<owners, work, generation, arenas, player, target, ready, phase>>

Move(c) ==
  /\ Arrives
  /\ c # player
  /\ player' = c
  /\ UNCHANGED <<world, owners, meshes, queues, work, generation, arenas, target, ready, phase>>

(* teardown_terrain_runtime: running jobs and the channel live on *)
Teardown ==
  /\ generation' = generation + 1
  /\ lifetimes' = [c \in Columns |-> 0]
  /\ meshes' = [c \in Columns |-> Absent]
  /\ pending' = [k \in {} |-> 0] /\ dropped' = {}
  /\ inFlight' = [k \in {} |-> 0]
  /\ regions' = [r \in {} |-> 0]
  /\ compacting' = Absent
  /\ target' = Absent
  /\ UNCHANGED <<nextLifetime, jobs, results, nextInstance, player, phase>>

(* LoginSuccess: the columns go, what they left unreported does not *)
Login ==
  /\ Arrives
  /\ Teardown
  /\ columns' = [c \in Columns |-> Absent]
  /\ ready' = TRUE
  /\ UNCHANGED unreported

(* Disconnect: the columns stay, without meshes *)
Disconnect ==
  /\ Arrives
  /\ Teardown
  /\ ready' = FALSE
  /\ UNCHANGED world

(* reset_presented_dimension: a fresh chunk manager *)
SwitchDimension ==
  /\ Arrives
  /\ Teardown
  /\ columns' = [c \in Columns |-> Absent]
  /\ unreported' = {}
  /\ UNCHANGED ready
-------------------------------------------------------------------------------
(* A frame: update_chunks, then the draw. *)
BeginFrame ==
  /\ phase = "events"
  /\ IF ready
     THEN /\ Invalidate(unreported, pending, meshes, lifetimes)
          /\ unreported' = {}
          /\ phase' = "integrate"
     ELSE /\ phase' = "draw"
          /\ UNCHANGED <<unreported, meshes, queues>>
  /\ UNCHANGED <<columns, owners, work, generation, arenas, player, target, ready, events>>

(* section_mesh_result_is_current *)
ShowsWanted(r) ==
  /\ r.key \in DOMAIN inFlight /\ inFlight[r.key] = r.id
  /\ r.generation = generation
  /\ IsCurrent(r.key, r.id)

(* upload_section_mesh_bundle and the registration of the column with its region *)
Upload(r) ==
  LET c         == r.key[1]
      coord     == RegionOf(c)
      m         == meshes[c]
      section   == m[r.key[2]]
      exists    == coord \in DOMAIN regions
      found     == IF exists THEN regions[coord] ELSE NewRegion(nextInstance)
      registered == exists /\ Registered(m, found)
      full      == NeedsRebuild(section)
      old       == IF full \/ section.levels = Absent THEN [l \in Lods |-> NoLevel]
                   ELSE section.levels
      replaced  == IF full THEN Handles(section) ELSE {old[r.lod].handle} \ {Absent}
      freed     == Freed([found EXCEPT !.active = IF registered THEN @ ELSE @ + 1], replaced)
      isEmpty   == r.data \intersect OwnCells(r.key) = {}
      level     == [data |-> r.data,
                    handle |-> IF isEmpty THEN Absent
                               ELSE [instance |-> found.instance, token |-> FreeToken(freed)]]
  IN /\ regions' = [x \in DOMAIN regions \union {coord} |->
                      IF x # coord THEN regions[x]
                      ELSE IF isEmpty THEN freed ELSE Allocated(freed)]
     /\ nextInstance' = IF exists THEN nextInstance ELSE nextInstance + 1
     /\ meshes' = [meshes EXCEPT ![c][r.key[2]] =
          [revision |-> section.revision, meshed |-> r.id.revision,
           levels |-> [old EXCEPT ![r.lod] = level],
           built |-> IF full THEN {r.lod} ELSE section.built \union {r.lod}]]

RetiredWhenShown(r) == IF ShowsWanted(r) THEN Without(inFlight, {r.key}) ELSE inFlight
Retired(r) ==
  IF r.key \in DOMAIN inFlight /\ inFlight[r.key] = r.id
  THEN Without(inFlight, {r.key}) ELSE inFlight

(* one turn of process_terrain_worker_results *)
Integrate ==
  /\ phase \in {"integrate", "integrating"}
  /\ results # <<>>
  /\ LET r == Head(results) IN
     /\ results' = Tail(results)
     /\ inFlight' = Retired(r)
     /\ IF ShowsWanted(r) THEN Upload(r) ELSE UNCHANGED <<meshes, regions, nextInstance>>
  /\ phase' = "integrating"
  /\ UNCHANGED <<world, owners, queues, jobs, generation, compacting, player, target, ready, events>>

(* The budget of a frame (4 meshes, 2 MiB, 3 ms) may end it after any      *)
(* result but the first; process_terrain_compaction, then                  *)
(* schedule_terrain_compaction.                                            *)
Compact ==
  /\ phase = "integrating" \/ (phase = "integrate" /\ results = <<>>)
  /\ LET rebuild == compacting \in DOMAIN regions /\ WorthRebuilding(regions[compacting])
         rs == IF rebuild
               THEN [regions EXCEPT ![compacting] =
                       [NewRegion(nextInstance) EXCEPT !.active = regions[compacting].active]]
               ELSE regions
         worth == {x \in DOMAIN rs : WorthRebuilding(rs[x])}
     IN /\ regions' = rs
        /\ nextInstance' = IF rebuild THEN nextInstance + 1 ELSE nextInstance
        /\ IF worth = {} THEN compacting' = Absent ELSE compacting' \in worth
  /\ phase' = "unload"
  /\ UNCHANGED <<world, owners, meshes, queues, work, generation, player, target, ready, events>>

(* update_chunks, when the player has changed columns *)
Unload ==
  /\ phase = "unload"
  /\ phase' = "dispatch"
  /\ target' = player
  /\ UNCHANGED <<unreported, nextLifetime, jobs, results, generation,
                 nextInstance, compacting, player, ready, events>>
  /\ IF target = player
     THEN UNCHANGED <<columns, lifetimes, meshes, queues, inFlight, regions>>
     ELSE LET gone    == {c \in Columns : columns[c] # Absent /\ ~WithinHysteresis(c)}
              stays   == {c \in Columns : columns[c] # Absent} \ gone
              stale   == {k \in KeysOf(stays \intersect UNION {Surrounding(c) : c \in gone}) :
                            Known(k, meshes, lifetimes)}
              newer   == InvalidatedMeshes(meshes, stale)
              cleared == {c \in Columns : newer[c] # Absent /\ ~WithinHysteresis(c)}
              kept    == Without(EnqueueAll(pending, stale, newer, lifetimes), KeysOf(gone))
          IN /\ columns' = [c \in Columns |-> IF c \in gone THEN Absent ELSE columns[c]]
             /\ lifetimes' = [c \in Columns |-> IF c \in gone THEN 0 ELSE lifetimes[c]]
             /\ meshes' = [c \in Columns |-> IF c \in cleared THEN Absent ELSE newer[c]]
             /\ regions' = ReleaseMeshes(cleared)
             /\ inFlight' = Without(inFlight, KeysOf(gone))
             /\ pending' = [k \in DOMAIN kept |-> QueuedWork(kept[k].id, k)]
             /\ dropped' = (dropped \union DOMAIN pending \union stale)
                              \ (DOMAIN kept \union KeysOf(gone))

(* schedule_section_mesh: what is worth a job *)
Wanted(k) ==
  /\ columns[k[1]] # Absent
  /\ IsCurrent(k, pending[k].id)
  /\ LET s == meshes[k[1]][k[2]] IN NeedsRebuild(s) \/ Selected(k) \notin s.built

FreeSlotsIgnoringJobs == MaxJobs
FreeSlots == MaxJobs - Cardinality(DOMAIN inFlight)

(* The nearest sections in view get the free slots; sections already in    *)
(* flight wait; work that has become needless is forgotten on the way.     *)
Dispatch ==
  LET inView == {k \in DOMAIN pending : Dist(k[1], player) <= ViewDistance}
      open   == inView \ DOMAIN inFlight
      wanted == {k \in open : Wanted(k)}
      ahead(k) == {j \in wanted : Before(pending, j, k)}
      taken  == {k \in wanted : Cardinality(ahead(k)) < FreeSlots}
      passed == {k \in open \ wanted : Cardinality(ahead(k)) < FreeSlots}
      seen   == taken \union passed
      deferred == {k \in inView \intersect DOMAIN inFlight : Cardinality(ahead(k)) < FreeSlots}
  IN /\ phase = "dispatch"
     /\ phase' = "draw"
     /\ pending' = [k \in DOMAIN pending \ seen |->
                      IF k \in deferred THEN QueuedWork(pending[k].id, k) ELSE pending[k]]
     /\ inFlight' = [k \in DOMAIN inFlight \union taken |->
                       IF k \in taken THEN pending[k].id ELSE inFlight[k]]
     /\ jobs' = jobs \union
          {[key |-> k, id |-> pending[k].id, generation |-> generation,
            lod |-> Selected(k), data |-> Snapshot(k)] : k \in taken}
     /\ UNCHANGED <<world, owners, meshes, dropped, results, generation, arenas,
                    player, target, ready, events>>

(* The draw asks for a level it would rather show.  It measures the        *)
(* distance to the mesh, the scheduler to the section, so it may ask for a *)
(* coarser level than the scheduler selects; which sections are visible is *)
(* left open.                                                              *)
HasBounds(k) ==
  /\ meshes[k[1]] # Absent
  /\ \E h \in Handles(meshes[k[1]][k[2]]) : TRUE
Missing(k) ==
  HasBounds(k) /\ \E l \in Lods \ meshes[k[1]][k[2]].built : l >= Selected(k)

Draw(fills) ==
  LET asked == {k \in fills \ DOMAIN inFlight : Known(k, meshes, lifetimes)}
      queue == EnqueueAll(pending, asked, meshes, lifetimes)
  IN /\ phase = "draw"
     /\ \A k \in fills : Missing(k)
     /\ phase' = "events"
     /\ pending' = queue
     /\ dropped' = (dropped \union DOMAIN pending \union asked) \ DOMAIN queue
     /\ UNCHANGED <<world, owners, meshes, work, generation, arenas, player, target, ready, events>>

(* the worker pool finishes its jobs in any order *)
Finish(j) ==
  /\ jobs' = jobs \ {j}
  /\ results' = Append(results, j)
  /\ UNCHANGED <<world, owners, meshes, queues, inFlight, generation, arenas,
                 player, target, ready, phase, events>>

Event ==
  \/ \E c \in Columns, payload \in Payloads, lit \in SUBSET LightCells : Commit(c, payload, lit)
  \/ \E p \in EditCells, lit \in SUBSET LightCells : Edit(p, lit)
  \/ \E c \in Columns : Move(c)
  \/ Login \/ Disconnect \/ SwitchDimension
Frame == BeginFrame \/ Integrate \/ Compact \/ Unload \/ Dispatch
         \/ (\E fills \in SUBSET Keys : Draw(fills))
Next == Event \/ Frame \/ (\E j \in jobs : Finish(j))

Spec == Init /\ [][Next]_vars

(* The main loop keeps drawing and the pool keeps working; nothing says    *)
(* that columns, edits or moves arrive.                                    *)
FairSpec == Spec /\ WF_vars(Frame) /\ WF_vars(\E j \in jobs : Finish(j))
-------------------------------------------------------------------------------
Sections == {k \in Keys : meshes[k[1]] # Absent}
Section(k) == meshes[k[1]][k[2]]

(* Types, and the bounds the code puts on its queues. *)
TypeOK ==
  /\ \A c \in Columns : columns[c] # Absent => \A p \in columns[c] : ColumnOf(p) = c
  /\ unreported \subseteq Int \X SectionYs
  /\ lifetimes \in [Columns -> 0 .. nextLifetime - 1]
  /\ DOMAIN pending \subseteq Keys /\ Cardinality(DOMAIN pending) <= QueueLimit
  /\ DOMAIN inFlight \subseteq Keys /\ Cardinality(DOMAIN inFlight) <= MaxJobs
  /\ dropped \subseteq Keys \ DOMAIN pending
  /\ \A j \in jobs : j.generation <= generation /\ j.lod \in Lods
  /\ \A c \in Columns : meshes[c] # Absent => lifetimes[c] # 0 /\ columns[c] # Absent
  /\ phase \in {"events", "integrate", "integrating", "unload", "dispatch", "draw"}

(* What a fresh section shows, at every level it has built, is what is in  *)
(* the world now, its neighbours' border included: no snapshot taken       *)
(* before a change, in an earlier life of the column or in another         *)
(* dimension is ever taken for current.  Only a change that the chunk      *)
(* manager has still to report may be outstanding.                         *)
ShowsCurrent ==
  \A k \in Sections \ unreported :
    ~NeedsRebuild(Section(k)) =>
      \A l \in Section(k).built : Section(k).levels[l].data = Snapshot(k)

(* A stale section is never forgotten: it is queued or in flight under its *)
(* current identity, with a job or a result under way, unless the full     *)
(* queue threw it out.                                                     *)
NeverForgotten ==
  \A k \in Sections \ dropped :
    NeedsRebuild(Section(k)) =>
      LET id == Identity(k, meshes, lifetimes) IN
      \/ k \in DOMAIN pending /\ pending[k].id = id
      \/ /\ k \in DOMAIN inFlight /\ inFlight[k] = id
         /\ \E j \in jobs \union {results[i] : i \in DOMAIN results} :
              j.key = k /\ j.id = id /\ j.generation = generation

(* Every unit a region has given out belongs to exactly one level of one   *)
(* of its meshes, and every handle of a mesh is live: no leak, no double   *)
(* free, no handle into an arena that was rebuilt or dropped.              *)
HeldIn(r) == {h \in Sections \X Lods :
                /\ RegionOf(h[1][1]) = r
                /\ Section(h[1]).levels # Absent
                /\ Section(h[1]).levels[h[2]].handle # Absent}
HandleOf(h) == Section(h[1]).levels[h[2]].handle
ArenaAccounted ==
  /\ \A k \in Sections : Handles(Section(k)) # {} => RegionOf(k[1]) \in DOMAIN regions
  /\ \A r \in DOMAIN regions :
       /\ \A h \in HeldIn(r) : IsLive(regions[r], HandleOf(h))
       /\ Cardinality(HeldIn(r)) = Cardinality(regions[r].live)

(* A region counts the columns that have something resident in it, and     *)
(* goes with the last of them.                                             *)
ActiveCounted ==
  \A r \in {RegionOf(c) : c \in Columns} :
    LET resident == {c \in Columns : /\ RegionOf(c) = r /\ meshes[c] # Absent
                                     /\ HasResidentSection(meshes[c])}
    IN  IF r \in DOMAIN regions
        THEN regions[r].active = Cardinality(resident) /\ resident # {}
        ELSE resident = {}

(* A stale section in view gets its mesh, unless it goes, the player turns *)
(* away, the connection is lost, or the full queue threw it out.           *)
MeshArrives ==
  \A k \in Keys :
    (k \in Sections /\ NeedsRebuild(Section(k)))
      ~> \/ k \notin Sections \/ ~NeedsRebuild(Section(k))
         \/ Dist(k[1], player) > ViewDistance \/ k \in dropped \/ ~ready
================================================================================
