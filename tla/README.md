# TLA+ verification of the iCraft server

iCraft is a voxel game in Rust whose world is owned by one authority. A server process runs
`ServerRuntime::tick_with_output` 20 times a second; presentation clients, one embedded in the
process or many remote, show projections of what the authority decided. This project models
the parts of that program where threads, bounded queues, caches, failing writes, restarts or
long sequences of player actions meet: how an edit reaches the disk and a client's screen, how
columns come into being and go, how requests and sessions begin and end, how items and signals
move through the world, and how the client keeps its meshes up to date.

| module | what it is |
| --- | --- |
| `RegionStore` | region files and the `SaveManager` instances that rewrite them |
| `DurableColumns` | what a caller of `save_chunks_in` may rely on, without files or caches |
| `RegionPromise` | `RegionStore` with a history variable, its properties, and the refinement of `DurableColumns` |
| `ChunkSave` | tick thread and save thread: dirty revisions, eviction, autosave, save-all, shutdown, restart; uses `RegionStore` as `Store` |
| `WorldgenLifecycle` | demand for columns, the pool that generates them, late results, apply budget, initial columns, eviction |
| `ColumnDemand` | columns on demand without a pool: wanted, made, edited, dropped |
| `ChunkReplication` | interest, projection, network queues and the client: how a column and its changes reach a remote presentation |
| `GameplayRequests` | one session's requests from the client through transport and authority to the answer |
| `SessionLifecycle` | connections: slots, handshake, join, leave, slow clients, lost events, player files |
| `Containers` | inventories, cursors, chests, furnaces, hoppers, brewing, views and breaking |
| `ColumnGrid`, `ColumnMap` | the sliding window with an overflow map, and the plain map it stands for |
| `SectionMeshes` | the client's section meshes: staleness, jobs, arenas, level of detail |
| `Redstone` | power, sleep, scheduled ticks, transitions and their reload |
| `*Proofs` | TLAPS proofs about `RegionPromise`, `ChunkSave`, `WorldgenLifecycle`, `ChunkReplication`, `GameplayRequests`, `SessionLifecycle`, `Containers`, `Redstone`, `ColumnGrid` and `SectionMeshes`; `BlockProofs` and `ColumnProofs` hold two components each |
| `MC*` | constants and initial states for TLC |

## 1. Inventory

### Components

**Region files and `SaveManager`** (`src/save/mod.rs`, `src/save/region.rs`). State: one file
per 32x32 columns, rewritten whole through a temporary file and a rename; an LRU cache of
decoded regions; a write-generation stamp per cached region. Operations: `save_chunks_in`,
`save_chunk_in`, `load_chunk_in`, eviction from the cache, `atomic_write`,
`atomic_write_group`. Hard: a write may fail before or after the rename; a failed write is
undone in the cached image only; a file that does not decode must not be replaced. Two
managers exist over one directory (one on the tick thread for eviction, one on the save
thread), and neither looks at the file while its cache entry is stamped. Correct when a column
reads back as its last successful save.

**Dirty revisions** (`src/save/index.rs`, `DirtyChunkSet`). State: per column `Dirty(r)`,
`InFlight(r)` or `Persisted(r)`. Operations: `mark_dirty`, `begin_save`,
`acknowledge_persisted`, `acknowledge_failed`, `remove`. Hard: acks are late. Correct when a
revision is cleared only if the file holds what memory holds, and no revision stays in flight
without a job that will settle it.

**Save worker** (`src/server_runtime/save_worker.rs`). A thread with a bounded job channel (64)
and a bounded ack channel (128). Jobs: chunks of one dimension, an entity dump, a group of
sidecar files, a barrier. Correct when the two channels do not block each other and a barrier
covers everything before it.

**Runtime** (`src/server_runtime.rs`). The tick: apply acks, schedule and collect worldgen,
drain at most 512 events, tick the authority, apply transfers, route projections, evict columns
nobody is near, autosave every 6000 ticks. `save_all` and `shutdown` wait for the worker.

**Resident columns** (`src/server_world/columns.rs`, `mutation.rs`). State: resident columns,
columns demanded from worldgen, columns that failed to restore, revisions. Correct when a
column that did not decode is never generated over, and a column that left memory comes back
as it was.

**Worldgen worker** (`src/server_runtime/worldgen_worker.rs`, `src/authority/tick.rs`). A Rayon
pool; at most 32 columns in flight, at most 16 applied per tick, a backlog in between. Demands
come from several players, are withdrawn when the views move away, and their results arrive in
any order and possibly after the column was made in another way. Correct when no column is
generated twice at once, nothing made or edited is replaced by a late result, and what a player
waits for is made and sent.

**Interest and projection** (`src/server_runtime/projection.rs`, `ingress.rs`,
`src/authority/interest.rs`). State: per session an interest set (columns around the player)
and the queue of columns still to send. Columns go out whole, nearest first and a batch per
tick; mutations go out one by one as `BlockChange` and `BlockEntityDelta`. Everything is handed
to the network thread through a bounded channel with `try_send`.

**Network egress** (`src/network/egress.rs`, `session.rs`, `ingress.rs`). Per session: a
reliable queue, and mailboxes for poses (latest wins), state, and catch-up columns (bounded).
A writer task takes the reliable queue first. Correct when what is dropped is counted and what
is reliable is delivered in order or the client is disconnected.

**Client connection and remote presentation** (`src/network/client.rs`, `src/state.rs`,
`src/presentation/authority_projection.rs`). `RevisionGate` puts columns and changes in order;
the presentation keeps the columns near the player in one dimension. Correct when a presented
column has no hole and, once nothing is under way, equals the authority's.

**Gameplay requests** (`src/authority/contract.rs`, `src/authority/dispatch/`,
`src/network/ingress.rs`). State: client sequences, request ids in flight and completed at the
transport, the authority's response cache of 128 entries and last sequence per session, the
response gate at the client. Hard: every one of these forgets or refuses at its own limit, and
the same request may be on its way twice. Correct when a request is applied at most once, every
answer tells the truth about it, and a request sent is answered.

**Session lifecycle** (`src/network/ingress.rs`, `server.rs`, `session.rs`,
`src/server_runtime/ingress.rs`). State: the map of sessions, slots, the roster, the runtime's
players and their files. Hard: an accept task, the command loop and the tick thread each hold a
part of what a session is, and tell each other through queues that drop; who plays on the machine
itself is known to the tick thread alone. Correct when there are never more players than slots,
nobody plays without a session, a login is turned away for a reason, and progress survives leaving.

**Containers and transactions** (`src/server_world/containers.rs`,
`src/authority/transactions.rs`, `src/authority/dispatch/container.rs`, `workstation.rs`). State:
inventories, cursors, the slots reserved for a brew, chests, furnaces and hoppers, who views what. Hard: several players and two block
ticks move the same stacks, and blocks may be broken under them. Correct when items are
conserved, what a brew has reserved stays there, and views are of containers that exist.

**Column grid** (`src/chunk_manager/grid.rs`). A dense window around the player and an overflow map
for what lies outside; both sides of the program keep their columns in it. Correct when it is
a map, whatever order of inserts, removals, window moves and growths.

**Section meshes** (`src/chunk_schedule.rs`, `src/chunk_render.rs`, `src/presentation/`,
`src/world/chunk.rs` and the frame in `src/state.rs`). State: per section the
generation of its blocks and light, the mesh built for it, its place in a region's arena, jobs on worker threads and their bounded result queue.
Hard: a job works on a copy while the section changes, its column unloads or returns, its level
of detail changes, or the world is left. Correct when what is drawn is current or known to be
stale, stale sections are built again in the end, and arenas hold exactly what is drawn.

**Redstone** (`src/redstone/`, `src/server_world/tick.rs`). State: components, power, scheduled
ticks, wake set, latches of dispensers. Signals are computed in passes over a hash set, so the
order is arbitrary; a tick ends with transitions in position order. Correct when a sleeping
circuit is settled, a dispenser fires once for each rising edge, a pulse passes a repeater, and
a circuit that nobody touches falls asleep.

**Not modelled**, and why:

* *Lighting* (`src/lighting.rs`): a sequential flood fill whose result is a matter of the data.
  Reading it showed that it is not exact: `remove_light` zeroes weaker emitters without seeding
  them again; a weaker emitter lowers a brighter cell, and its later removal leaves light
  without a source; propagation after a removal uses the 3x3 columns around the first queued
  node; block light is not updated when opacity changes. A model of it would state properties
  the code is not meant to have to the letter.
* *Fluids, random ticks, entities, mobs, combat, bosses*: sequential, on the tick thread, with
  no queue or failure of their own; mostly floating point or random numbers.
* *World generation*: a pure function of the seed, noise arithmetic.
* *Rendering, audio, menus, item and block tables*: pixels, sound, layout and data.

### Interactions

```
 client            network thread                    tick thread              save thread
 poses, requests -> ingress -> event queue --------> handle_event
 presentation   <- writer <- out queue  <-- egress <- host queue <- routing
   |                      <- mailboxes <-/                 |
 mesh jobs                                         worldgen demand -> Rayon -> results
                                                   dirty columns -> job queue -> SaveManager 2
                                                   acks <----------- ack queue <-/
                                                   eviction -> SaveManager 1 -> region files
```

Shared state is confined to the two channels between tick and save thread, the worldgen result
channel, the host and event queues, the session map of the network thread, the mesh result
queue, and, through the two managers, the region files. Everything in a world (containers,
redstone, mutations) is touched by the tick thread alone; there the difficulty is the order of
players' actions and of ticks.

### What is hard to test

`PROJECT.json` lists the hazards at their lines. The main groups: acks that arrive for a
revision that has moved on; a full save queue in the middle of a save; a save in flight while
its column is evicted; two caches of one file; a crash or an error between rename and ack;
a change that overtakes its column; bounded mailboxes and `try_send` queues that drop; a
transfer that clears the client while its interest set survives; a save that waits for a thread
that waits for it; a demand withdrawn while its job runs; a request that is retried after it
was applied and forgotten; a session whose leave event is lost; a container broken while it is
viewed or ticking; a mesh that returns for a column that is gone or has come again; a scheduled
tick dropped at a full schedule.

## 2. How the modules correspond to the code

### RegionStore, DurableColumns, RegionPromise

A column's payload is a value; a file is the map of the columns of its region. A write takes
two steps because another manager may write between them: `Take` (`take_region_for_write`: from
the cache if stamped, from disk otherwise, the cache entry being moved out) and `Replace` or
`ReplaceFails` (`atomic_write`, then the image goes back into the cache, with the batch undone
if the write failed). `ReplaceFails(m, TRUE)` is the error of the directory sync, after the
rename. `Load` is `load_chunk_in`, `Restart` a new process: files stay, caches go. The cache
limit of 64 MiB counts bytes the model has not, so eviction may drop any region beyond
`CacheLimit`, or fewer.

`DurableColumns` is the contract without files: each column has the payloads a reader may see,
a successful save leaves exactly one, a failed one adds one. `RegionPromise` adds that map to
`RegionStore` as a history variable, and implements the contract for `OwnedColumns`, the columns of
the files one manager writes; other managers may write the files beside them.

Left out: formats, compression, `.bak` copies, and `serialize` errors, which leave the same
state as a failed write before the rename.

### ChunkSave

A column is the set of edits in it, so "saved" can be told from "saved but older". The tick
thread walks through phases (`drain`, `events`, `evict`, `flush`, then `chunks`, `entities` and
so on when it saves); within a phase the actions follow the functions one to one:
`DrainAck` (`drain_save_acks`, `apply_save_acks`), `Mutate`, `Materialize`, `Move`,
`EntityChange` (what a tick may do to the world), `EvictClean`, `EvictDirty`, `FlushTake`,
`FlushReplace`, `FlushFails`, `FlushDone` (`evict_uninteresting_chunks` with its batch and then
its one-by-one attempt), `SaveChunks`, `SaveEntities`, `SaveSidecars` (`save_authority_state`,
with the rollback when the queue is full), `EnqueueBarrier`, `WaitAck`, `WaitTimeout`
(`save_all_inner`), `DiscardAck`, `Close` (`shutdown`). The save thread is `Receive`,
`WorkerTake`, `WorkerReplace`, `WorkerFails`, `SendAck`. `Restart` kills both at any step and
boots from the files (`restore_authority_state`).

The cached residency keep set skips eviction only when every resident column is inside it, so
skipping has the effect of `EvictClean` on nothing. Player files and `level.dat` are written
synchronously and carry no revision; they are left out. A sidecar group is one step. Every column
encodes: one whose `chunk_save_payload` failed would be skipped by `save_all` (`columns.rs:338`,
`server_runtime.rs:506`), stay dirty, and not keep it from answering ok.

`Pinned` are the columns of regions no column of which can be evicted: there only the worker
writes the file. For the other regions defects are recorded (section 5), and the properties
about files speak of pinned columns.

### WorldgenLifecycle, ColumnDemand

Several players, dimensions and columns. The tick thread walks through `Schedule` (prune, then
submit up to `InFlightLimit`), `Collect` (results become backlog), the events of the tick
(`Move`, `Materialize`, `SetBlock`), `Apply` (dimension by dimension, a budget of `Batch`),
transfers and mutations, `Route` (initial columns of each player) and `Evict`. `Finish(c)` is a
Rayon job that ends, in any order. The pool, the results and the backlog are sets, because only
which of them is taken next depends on the order; the second look a tick takes at the same queue
is left out. An evicted column comes back fresh, as in the code, which does not load single
columns; a failed flush keeps an edited column. All worlds exist from the start and players do
not leave: both only add or remove demand, which `Move` and `Transfer` do as well.

`ColumnDemand` is the same without a pool: columns are wanted, made, edited and dropped. That
`WorldgenLifecycle` implements it, under fairness of the tick and of the jobs, is what justifies
the strong fairness of `Generate` in `ChunkReplication`. Its liveness part is a statement about
worlds that come to rest: submission and application go through dimensions in a fixed order
(`src/authority/mod.rs:179`), so an Overworld that never stops asking postpones the others for
as long as it does; the bound `MaxActs` hides that.

### ChunkReplication

One session. A mutation takes the next revision of its dimension and changes a block of its
own, so a column is the set of its revisions. The tick thread fills `outbox` in `Route`
(`route_authority_snapshot`: queued columns first, then the tick's deltas) and `Send`s it packet
by packet into the bounded host queue, where a full queue loses the packet and counts it. The
network thread moves packets to the mailbox or the reliable queue (`deliver_projection`), the
writer task prefers the reliable queue and pops the mailbox in two steps, `ChooseCatchup` and
`PopCatchup`, since between them it may sleep and both queues may change. `Receive` is the
client: the revision gate and the presentation in one step, because the queue between them only
delays and keeps the order.

Assumptions about the environment, stated in the module where they are used:

* `Move` waits until the server knows the last place: poses are sent every tick, far more often
  than the hysteresis band between view and unload ring can be crossed.
* A pose of the dimension just left is rejected: it is too far from the transfer's target.
* Columns stay resident on the server while the session wants them (the keep set contains every
  interest set), so eviction is left to `ChunkSave` and `WorldgenLifecycle`.
* Slow clients are not evicted: the reliable queue blocks the command loop instead, for at most
  250 ms in the code. Eviction ends the session, and with it what the properties speak of; it is
  in `SessionLifecycle`.

Entities, containers, chat, inventory, pose and state mailboxes are left out.

### GameplayRequests

One player; request `k` has id `k` and client sequence `k`. The client: `Submit` and `Resend`
(`prepare_gameplay_request`), `Learn`, `ReceiveResponse` (with its gate), `ReceiveTransfer`. The
transport: `IgnoreInFlight`, `ForwardRetransmit`, `RejectOutOfOrder`, `ForwardFresh`,
`RejectRateLimited`, one per outcome of `ingest_gameplay_request`, and `SendReply`. The
authority: `ReplayCached`, `RejectMalformed`, `RejectPreflight`, `RejectOperation`, `Accept`, one
per outcome of the dispatcher. `WorldMutation` and `Transfer` are what else raises the revisions a
request is checked against. `Deliver` is `normalize_host_response` and its queues, a full one
dropping the response. What an operation does to the world is whether it was applied, and how
often. `repeated`, a history variable, has the requests whose envelope was sent again.

### SessionLifecycle

A connection goes through `Accept` or `Refuse`, `Check`, `Reserve`, `Welcome`, `QueueRoster`,
`Join` or `Abandon`, and `Leave`, the stages of `run_client`, each a step of its own since the
task awaits between them. `Stall` and `Recover` are a client that stops reading and comes back;
`TakeOut`, `TellHost` and `Announce` are `remove_client` and `evict_slow_clients`, which take the
session out of the map first and tell the others afterwards. `Command` is the command loop;
`HandleJoined`, `HandleLeft` are the tick thread's events, `Play` changes what a player has and
`Say` broadcasts. `Rejects` has the three reasons of `handle_join` and `register_session_with_limit`: the
name plays already, the player file cannot be read (`Spoil` and `Mend` are a disk that fails and
recovers, or a file that does not decode), or the server is full. `Hosts` are those who may play on
the machine itself: one of them is a player from the start, or none is, and the session table
knows of neither. `ghosts`, a history variable, names players whose `ClientLeft` was lost at a
full queue. Packet authentication, heartbeats and the server's shutdown are left out.

### Containers

Per player: inventory, cursor, the slots a brew has reserved; per block: what it holds and
whether it stands open; `viewers`, `tracked` (the projection's open containers) and `closures`
still to be told. Actions: `StartBrew`, `TickBrew`, `TakeBrew`, `CancelBrew`; `Open`, `Close`,
`WalkAway`, `Leave`; `Click`, `TakeOutput`, `Craft`, `Eat`, `Give`, `Mine`, `Place`; `CloseGone`,
`Hopper`, `FurnaceTick`. Stacks are scaled to 2, chest and hopper to one slot, and a log makes one
plank; "carrot" stands for an ingredient that can be both eaten and brewed. As in the code, a
player may click any item into a furnace's output slot. Left out: experience, redstone locks,
cooldowns, the item a broken block gives for itself, enchanting, anvils, trading, dispensers and
buckets. Double chests cannot arise on the server, which places chests with state 0.

### ColumnGrid, ColumnMap

`Insert`, `Remove`, `Clear`, `Recenter` (move or grow the window) and `Cover` against a plain map
from coordinates to chunks. The refinement mapping looks a coordinate up as `get` does.

### SectionMeshes

`Commit`, `Edit`, `Move`, `Login`, `Disconnect` and `SwitchDimension` are what happens to the
presentation between frames; a frame is `BeginFrame`, `Integrate` (results of jobs), `Compact`,
`Unload`, `Dispatch`, `Draw`; `Finish` is a worker. One horizontal axis, one layer and one arena
stand for both of each; a section's blocks are a small function, of which a mesh shows those on
its faces and its neighbours' borders, so that a neighbour's edit matters exactly at the border.
Sections are enqueued, and meshes released, one after the other in some order (`EnqueueAll`,
`ReleaseMeshes`: recursive functions over `SetToSeq`, so that they can be proved about).

### Redstone

A straight run of `Length` cells on a solid floor, in the direction components face (so a
torch's support takes strong power only from the torch itself), in two columns that meet at
`Edge`. `PlaceBlock` and `Break` are `set_block` and `on_block_changed`; `Walk` puts the player into
the cell above a plate; `Interact` is the lever and the button, on circuits that tick alone,
because only tests call it; `Fill` is a container transaction. `Evict` takes a column away (its cells read as air), `Save` and
`Restart` are a shutdown that saves and the start after it. A tick is `BeginTick` (sync,
containers behind comparators, observers, due ticks, plates), `Evaluate(p)` in any order until
the pass is done, `NextPass`, and `FinishTick`, which folds `Transition` over the positions in
their order (`Transited`, a recursive function over the run: each sees the blocks the pistons before
it have moved, and the schedule the repeaters before it have filled) and reconciles components, ticks and marks with what came of
it. `served` tells whether the tick runs under `ServerWorld`, which writes changed blocks again.
History variables: `shots` counts dispensers' shots, `lost` remembers ticks and latches dropped
at a full schedule or a restart. A world is loaded with its levers as they were left and nothing
else open (`SetupsAssumption`): whatever else is open is the work of the circuit.

A piston moves one block (`Moved`): component, latch, ticks, state and entity are lost, and
into a column that is not loaded the block is written to nowhere. An observer keeps in its entity
what it saw last and the pulse it owes; it compares at the start of a tick, asks for a tick that
raises its power and then for one that drops it. A comparator passes on what is behind it or the
fill level of a chest there, or of one behind a block; its mode makes no difference where nothing
is at its sides.

Scaled: 3 for a power of 15, 8 passes for 64 (both even, which decides how an unstable loop
ends), a schedule of 1 for 4096. A lamp stands for doors and trapdoors, a dispenser for droppers
and note blocks. Left out: `max_evaluations`, which allows for every component in every pass and so
never ends one, TNT, charge, the sides of comparators, observers of blocks with
entities, pistons that push components that face somewhere else afterwards, and the filter by
simulated column.

## 3. Runs

| run | question | bounds |
| --- | --- | --- |
| `region_promise` | does a column of a file with one writer read back as saved, whatever fails and whoever writes the other file? | 2 managers, one file with one writer and one with two, 3 columns, 1 payload beside none, caches of 1 region |
| `saves` | are dirty revisions, eviction and save-all honest about the disk? | 2 columns of one file and an evictable one in another dimension, 2 edits, 1 failure, 1 save-all, queue of 1 |
| `save_live` | does every edit reach the disk, does a wait end, do restarts fail closed? | 1 column, 1 edit, 2 entity epochs, 1 failure, 1 restart, 1 save-all, queue of 1, barrier timeouts |
| `worldgen` | is a column made once, never made over, and sent to who waits? | 2 dimensions, 3 coordinates, 2 players, 2 jobs in flight, budget of 1, 3 moves, edits or transfers, one undecodable column |
| `replication` | is a presented column free of holes, current in the end, and does it arrive? | 2 dimensions, 2 columns each; a walk or a transfer with 2 mutations, a walk and a transfer, or a transfer there and back; all queues 1 or 2 |
| `requests` | is a request applied once, answered, and answered truly? | 2 requests, 2 resends or 1 and a transfer, caches and queues of 1, revisions up to 2 and 1 |
| `sessions` | do slots, players and progress survive joins, leaves and losses? | 3 connections, two under one name, 2 slots, event queue of 2, host queue of 1, nobody, a stranger or a namesake at the machine itself, 1 edit; 1 stall, broadcast and save failure, or 1 unreadable file |
| `containers` | are items conserved, reservations held and views real? | 2 players, chest over hopper over furnace, a brewing stand, 3 loaded worlds, 3 requests |
| `grid` | is the window with its overflow a map? | 5 columns, 2 chunks, distance 0, hysteresis 1 |
| `meshes` | is what is drawn current or known to be stale? | 3 columns in 2 regions, sections of 2x2 cells, 2 levels of detail, 1 job, queue of 2, 4 events |
| `redstone` | does a circuit settle, fire once, pass pulses and sleep? | 18 circuits of 5 cells, 2 acts of players |
| `bug_no_reload` | the disagreement of section 5 | 1 column, 1 edit |

Why these are enough. `region_promise`: a stale or undone payload needs a sibling in the same
file (a, b) and a second region that pushes the first out of a cache of one, and that the second
manager writes too. `saves`: two edits
are needed for an ack to arrive after its column changed again; a queue of one makes the
rollback happen in every position of a save (columns, entities, sidecars); one failure at each
possible write, before and after the rename, covers every error path. The ack channel must hold
what an unattended worker can produce: the code has 128 for a queue of 64 plus what one save
adds, and the model needs `AckCapacity >= QueueCapacity + 2 * |Dimensions| + 3`; below that the
model blocks where the code would not. `worldgen`: two players far apart in two dimensions
compete for two jobs; a walk and back withdraws a demand while its job runs and asks again.
`replication`: two mutations put one before and one after the column they belong to; a mailbox
of one makes it refuse; a host queue of two makes `try_send` fail; the way back brings a player
to columns it left. `requests`: a cache of one
forgets the first request while a copy of it is under way; queues of one drop an event and a
response; with two resends the copy of an accepted request comes again after a rejected request has
set the session's last sequence back. `sessions`: two connections under one name race for it, the
third finds the slots full; a host queue of one loses a leave. With two slots and somebody at the
machine itself one login takes the last; that player has a name of its own or shares one. `containers`: stacks of two make every merge fill up or
overflow. `meshes`: a region of two columns is shared and left; one job leaves others waiting.
`redstone`: each circuit is the smallest with the feature it is there for (a torch loop, a
repeater after a plate, a dispenser on the border of a column, a sticky piston with a block to
push over that border, an observer of a lamp, two pistons at one lever that one of them may push, a
comparator that reads a chest through a block).

`requests` and `sessions` start with part of their bounds used up (`MCInit`): what is the interesting
part of one run, two resends, an unreadable file or a broadcast with a save that fails, is not
multiplied with the others.

`save_live` alone switches `BarrierTimeouts` on: with the 120 s timeout `save_all` reports ok
although jobs are still queued, so `SaveAllOkMeansSaved` is checked without it.

`CHECK_DEADLOCK FALSE` is in `saves`, `save_live` (a server that has shut down has stopped),
`requests`, `sessions`, `containers` (the bounds leave nothing else to do) and `redstone` (a
circuit asleep that nobody touches). The others check deadlock.

### Properties

* `region_promise`: `PromiseKept`: a column reads back as its last successful save or a failed one
  since (that caches keep the promise as well, `CacheKeepsPromise`, is proved with it);
  `CorruptFileStays`; `ImplementsDurableColumns`. The first and the last speak of columns whose file
  has one writer.
* `saves`: `CleanIsOnDisk`: a revision is clear only if the file holds the column; a late ack must
  not clear a newer revision. `InFlightTracked`: a revision in flight has a job or ack that
  settles it, also after the queue was full. `DirtyIsResident`: eviction leaves no revision
  behind. `SaveAllOkMeansSaved`: ok from `save_all` means on disk. `TypeOK`.
* `save_live`: `EntitiesOnDisk`, the same for entity dumps. `FailClosed`: an undecodable column is
  never written over. `EditReachesDisk`, `WaitEnds`: liveness.
* `worldgen`: `OneJobEach`: the set of columns in flight is exactly what the pool and its results
  hold. `ImplementsColumnDemand`: late results replace nothing, and what is wanted is made.
  `QueuedIsSent`: an initial column a player waits for is sent unless it leaves the view.
* `replication`: `GapFree`: a presented column shows every change up to its revision. `CaughtUp`:
  once nothing is on its way, what is wanted is presented. `ColumnArrives`: a wanted column is
  presented in the end. All three speak of a session in which the host queue never refused a
  packet and no column was queued a second time (`Undisturbed`): re-queued columns are where the
  code is known not to work, because the client's gate remembers a column it no longer shows.
* `requests`: `AtMostOnce`; `AnswersAreTrue`: an acceptance, wherever it is, names the revision at
  which the request took effect, and a rejected request has no effect and will have none (but a
  copy of an envelope sent again may be rejected after another was applied); `InFlightAccounted`:
  an id in flight at the transport has a request, a response or a counted drop behind it;
  `Answered`: a request that was sent is answered, unless its answer was dropped at the full host
  queue.
* `sessions`: `SlotsReserved`; `PlayersArePresent`: who plays has a session, a leave event under
  way, or lost one; `ProgressKept`: what a player did is in memory or in the file it is loaded
  from; `RejectionsExplained`: a login the session table let in is turned away because its
  file cannot be read, because its name or the last slot is held by somebody who has left without
  the tick thread knowing, or because of the player on the machine itself (section 5).
* `containers`: `ItemsConserved`, `ReservationHeld`, `ViewsAreReal`.
* `grid`: `ImplementsColumnMap`.
* `meshes`: `ShowsCurrent`: a section marked clean shows its blocks; `NeverForgotten`: a stale
  section has a job, or will be found by the next frame's scan; `ArenaAccounted`,
  `ActiveCounted`: arenas and the job counter are exact; `MeshArrives`: liveness.
* `redstone`: `AsleepIsSettled`: a circuit that sleeps holds the power its sources and chests
  give, its observers have seen what they face, and no piston is out without power;
  `FiresOncePerPulse`; `PulsesPass`: what an observer saw, and input a repeater has seen, passes in
  the end, also when a restart forgets the tick that was to do it, since the observer's entity
  remembers and the repeater's input is still there; `QuietsDown`;
  `PushesConserve`: transitions move blocks and neither make nor destroy one. Where
  the code falls short (section 5) they are exempt: around an evicted column `AsleepIsSettled`
  speaks of the set of components only, and `PulsesPass` and `PushesConserve` of nothing; components
  in `lost` are exempt from `AsleepIsSettled` and `FiresOncePerPulse`; and a repeater misses a pulse
  whose tick the full schedule refused, or that was over when its tick was dropped.

Every property has a mutant, a plausible bug in one definition under which the run fails.

Some definitions are in no run. `TypeOK` of `RegionStore` and `Containers` are proved; those of
`ChunkReplication`, `WorldgenLifecycle`, `GameplayRequests`, `SessionLifecycle`, `ColumnGrid` and `SectionMeshes` document
the state and were checked when their modules were written. `FirstAnswerSurfaces` and `NotAhead`
(`GameplayRequests`), `NoGhost` and `LoginComesFirst` (`SessionLifecycle`), `TransferRepopulates`
and `BlockEntitiesFollow` (`ChunkReplication`), `FailedSaveKeepsEdits` and `PersistedIsOnDisk`
(`ChunkSave`) state what one would expect and the code does not keep: section 5 has each.

### Fairness

`ChunkSave`: weak fairness of the tick thread's own steps and of the worker, which are loops
that nothing blocks but the channels, and strong fairness of `Autosave`, which is enabled again
at the end of every tick and taken every `AUTOSAVE_INTERVAL_TICKS`. Mutations, moves, failures,
timeouts, restarts and console commands get none. `WorldgenLifecycle`: weak fairness of the tick
and of each job's end. `ChunkReplication`: weak fairness of routing, network task, writer and
client; of `PoseArrives`, since poses are sent every tick; strong fairness of `Generate`, because
worldgen results are collected once a tick, in the gap between two routings. The writer's
preference for the reliable queue could starve the mailbox under an endless stream of changes;
the bound on mutations hides that, so `ColumnArrives` is a statement about a world that comes to
rest. `GameplayRequests`: weak fairness of the client's receiving, the ingress, the authority,
and both directions of delivery; nobody has to send. `SectionMeshes`: weak fairness of the
frame's steps and of a worker that has a job. `Redstone`: weak fairness of the tick, which the
server runs 20 times a second; players need not act.

## 4. Proofs

Checked by TLAPS with SMT, Zenon and LS4. Assumptions on constants are named in the modules that
declare them and evaluated by every run.

`RegionPromiseProofs`, for every set of managers, regions, columns and payloads:

* `RegionStoreTypes`: `Spec => []TypeOK`.
* `PromiseIsKept`: `PSpec => [](PromiseKept /\ CacheKeepsPromise)`. Neither is inductive: a file
  is replaced by an image taken earlier. The invariant is
  `PInv == PTypeOK /\ PromiseKept /\ CacheKeepsPromise /\ HeldKeepsPromise`; the last conjunct
  says that a region image held for writing, in the region's only writer, holds nothing a
  restart may not read. One lemma per action (`TakePromise`, `ReplacePromise`, `FailPromise`,
  `LoadPromise`) preserves it; the type of images comes from `NewImageType` and `CacheType`.
* `FilesImplementDurableColumns`: `PSpec => ImplementsDurableColumns`, which is `DurableColumns!Spec`
  of the columns with one writer, whoever writes the other files: a successful write of one of
  their regions maps to `Commit`, one that failed after the rename to `Abort`, everything else,
  what other managers write included, stutters (`BatchIsOwned`, `DurableStep`).
* `CorruptFilesStay`: `PSpec => CorruptFileStays`, with no premise on writers. The step that
  replaces a file does not look at it, so the invariant follows the file to where it is looked
  at: `CorruptIsShunned` says that no cache holds, and no manager is writing, a region whose
  file does not decode.

Of a file two managers write, the first two say nothing: in the running server these are the files
of columns that eviction and the save thread both write (section 5, the two managers). One writer
for the file of a column is all its promise needs.

`ChunkSaveProofs`, for every set of dimensions, regions and columns and every value of the
capacities and bounds under `ChunkSaveAssumption` (which also says that the markers for absent
and undecodable data are not sets of edits):

* `DirtyColumnsAreResident`: `Spec => []DirtyIsResident`.
* `UndecodableColumnsStay`: `Spec => FailClosed`. `FailClosed` speaks of the file alone, but the
  file is replaced by an image taken from one of two caches, with a batch a job brought along.
  The invariant `Inv` therefore follows the damaged columns everywhere:
  - `StoreInv`: in the files, in every cached region and in every image held for writing, a
    slot does not decode exactly when its column is in `failedRestore`, and no batch held for
    writing names such a column;
  - `WorkerInv`: no chunk job in the queue or in the worker names one;
  - `WorldInv`: no such column is resident (and dirty columns are resident);
  - `TickInv`: what eviction still has to flush is resident.

  `TakeKeeps` and `ReplaceKeeps` carry `StoreInv` over the steps of either manager,
  `AppendKeeps` and `TailKeeps` carry the jobs through the queue, and `TickThreadInv`,
  `WorkerInductive`, `EnvironmentInv` and `BootInv` take the actions one by one. Dropping the
  guard `c \notin failedRestore` from `Mutate` makes `EnvironmentInv` unprovable.

* `EntityFilesAreKnown`: `Spec => []EntitiesOnDisk`. The invariant is `EpochOrder`: for every
  dimension persisted epoch <= epoch in the file <= epochs of the queued dumps, in their order
  <= present epoch, and no dump at the worker or in an ack that says ok is newer than the file.
  Then `persisted = epoch` leaves no room for another file. An ack settles only the epoch that is
  still present, and without that guard (`EpochPersisted`) `EpochsTaking` fails.
* `InFlightIsTracked`: `Spec => []InFlightTracked`, given that the marker `Idle` is not a job in
  progress (`IdleIsNoJob`; it is a model value of the runs). It is inductive with the types of
  jobs, acks and worker (`JobTypes`): a job moves from queue to worker to acks
  (`JobsReceived`, `JobsWorking`, `JobsTaken`), and the one that leaves with an ack settles
  exactly the revisions it carries (`TrackedTaking`).

  `LeastIsMember` says that a set of numbers that is not empty has the least member the model
  chooses, by well-founded induction from the library.

* `ClearedMeansSaved`: `Spec => []CleanIsOnDisk`. The file agrees with memory when a revision is
  cleared, but the ack that clears it was written long before, by a thread that works on its own
  images. `DurableInv` follows every column that eviction cannot reach:
  - `Ordered`: the jobs that save the column, from acks through worker to queue, carry ascending
    revisions;
  - `Current`: none of them is newer than the column's revision; the one that is as new has the
    column's contents, and a settled revision has no job left;
  - `Written => Settled`: from the moment the present revision is written, whether or not its ack
    has arrived, the file, the worker's cached region and the image it holds for the next write
    agree with memory. The image matters because a later job for a sibling in the same file
    writes the whole region back;
  - `TickStaysAway`, `WorkerHolds`: the tick thread's manager writes regions of evictable columns
    only, and the worker writes what its job says.
* `OkFromSaveAll`: `Spec => SaveAllOkMeansSaved`, given `~BarrierTimeouts`, since with the timeout
  the code answers ok too early (section 5), and `IdleIsNoJob`. By `BarrierIsLast` nothing is
  enqueued behind the barrier and every ack is in front of it; by `Collected` a column the save
  has passed is clean, in flight or in an ack that failed. When the barrier's ack is taken
  nothing is left to be in flight.
* `ChunkSaveTypes`: `Spec => []TypeOK`. Not inductive alone: a revision is within bounds because
  it never counts more than the edits made (`RevisionsCounted`), an epoch read back from a file
  because the file is never ahead of its dimension (`EpochOrder`), and a batch names at least one
  column because the worker has only regions of its job left to write (`TodoOfJob`).

`SessionLifecycleProofs`, for any connections, hosts, names, slots, tasks and queue lengths, with or
without a player on the machine itself, and whatever files cannot be read when:

* `SlotsAreReserved`: `Spec => []SlotsReserved`; `NoPlayerForgotten`: `Spec => []PlayersArePresent`;
  `RejectionsHaveReasons`: `Spec => RejectionsExplained`, from one invariant. `WayIn`: whoever is
  on its way in has a session, is a ghost, or somebody is about to tell the tick thread that it
  left. `AfterJoin` and `Once`: a `ClientJoined` is sent once, when the way in is over.
  `LeavesAfter`: a `ClientJoined` still in the queue is accounted for in the same three ways or has
  its `ClientLeft` behind it. With these, a player that appears when the event is handled is
  either present or on its way out; and a login rejected for want of a slot finds a player on its
  way out, or the host and a full table, because those present have slots of their own.
* `ProgressIsKept`: `Spec => []ProgressKept`. `ProgressInv` adds that one player at most plays under a
  name and that it holds the furthest the name has come (`PlayersHoldProgress`): while somebody
  plays, the file may be behind, and a leave writes what memory holds. A second session that read
  the file meanwhile would break it (`ProgressRead`).

`ColumnProofs`, for any dimensions, coordinates, players, views and limits:

* `NeverTwoJobs`: `Spec => []OneJobEach`.
* `LateResultsAreHarmless`: `Spec => World!Spec`, the safety part of `ImplementsColumnDemand`: a
  result maps to `Make` if its column is still missing and to a stutter otherwise. The invariant
  `Inv == WorldInv /\ OneJobEach` says that what is demanded is neither resident nor broken and
  that a column that is not resident has no edits, so that nothing `Make` writes is lost.

* `GridImplementsMap`: `GridSpec => ImplementsColumnMap`, for any set of columns, distance and
  hysteresis. `GridInv` says among others that the overflow holds nothing inside the window
  (`OverflowOutside`): otherwise an insert would hide a chunk there and a later move of the window
  bring it back.

`GameplayRequestsProofs`, for any number of requests, copies, caches and queues:

* `AppliedAtMostOnce`: `Spec => AtMostOnce`. The invariant is `Inv`, among it `Baseline`: a request
  that was applied lies behind the last sequence the authority has seen, which survives every cache;
  a copy that is no longer in the cache is therefore rejected.
* `AnswersStayTrue`: `Spec => []AnswersAreTrue`. That an acceptance is true is part of `Inv`. That a
  rejection is, and stays so, needs `Fresh`: a request whose envelope was sent once is under way once;
  while it is, it has had no effect and no answer; and once it was applied there is no rejection of
  it anywhere.

* `InFlightIsOwed`: `Spec => []InFlightAccounted`. That an id in flight has something behind it is
  not inductive, since it says nothing of how often. By `Placed` a request in flight is in exactly
  one place: an event on its way to the authority, one answer on its way back, or the count of
  what was lost.

`ChunkReplicationProofs`, for any dimensions, columns, views, capacities, mutations, walks and
transfers, in a session that is `Undisturbed`:

* `PresentedWithoutGaps`: `Spec => []GapFree`. `GapFreeInv` says of every column (`ColumnInv`):
  - `InOrder`: its changes are ascending along the whole way, from the tick's list through
    outbox, host queue, reliable queue and wire to what the client has buffered, a block entity
    behind its block (`Rank`);
  - `Genuine`: what is on its way was done; a `ChunkData` has exactly the changes up to its
    revision, although the column went on changing behind it;
  - `Once`: one `ChunkData` at most, in one queue; none before the column was queued or after the
    client has applied it; and what the client shows is current up to what it applied;
  - `NoGap`: above the revision of the `ChunkData` on its way, or of the column applied, every
    change is known: on its way or buffered. Without it the client would apply a change and take
    its revision for the column's, with the one before still missing.

  Two lemmas carry this through the network: a queue that hands its head to the next keeps the
  order (`LanesMoved`, from `Embedded`: the packets after the step were in the queues before it,
  in the same order), and a mailbox may be overtaken because order is only asked of changes.
  `BlockComesEarly`, `BlockIsApplied`, `BlockIsStale`, `ChunkComes` and `EntityIsStale` are the
  client's cases.
* `NothingIsForgotten`: `Spec => []CaughtUp`. `CaughtUpInv` adds to the above where a wanted column is
  (`InReach`): still queued, refused by the mailbox, on its way, or applied; and that no
  transfer on its way will clear it: behind a transfer in every queue it can be overtaken in
  (`Trails`), where the writer's two steps matter, for a column at the head of the mailbox when
  the writer has chosen it may be passed by nothing any more. `Heading`: the last transfer on its
  way leads to where the session is, so that the client is in the column's dimension when it
  arrives. The walk keeps what the session wants inside the unload ring.

The proof of `GapFree` corrected the model. `Undisturbed` at first counted only columns queued a
second time; a session that is transferred away and back before its interest set has changed is
sent nothing at all (coordinates are compared without the dimension, `projection.rs:999`), so its
columns are not queued again and yet miss what changed meanwhile. One transfer, the bound of the
run until then, could not show it. `visits` now counts such returns as well and the run has the
way back; the behaviour itself is the one of section 5, `TransferRepopulates`.

`BlockProofs`, for any players, positions, items, stack sizes and recipes:

* `ViewsStayReal`: `Spec => []ViewsAreReal`, inductive with the types of the few variables it
  speaks of (`Inv == Types /\ ViewsAreReal`).
* `ItemsAreConserved`: `Spec => []ItemsConserved`, and `ReservationsAreHeld`:
  `Spec => []ReservationHeld`. The invariant is `Goods == GoodsTypes /\ ItemsConserved /\
  ReservationHeld`. The types are part of it because `Room` of a slot that holds more than its limit would
  be negative and pouring into it would take units out; the reservations are part of the types' induction, because a brew
  that ends writes into the slots it reserved. The sums run over any number of players, positions
  and slots:
  - `UpToInduction` is induction up to a number, for a set instead of a formula, from the least
    element of a set of naturals (`LeastNatural`, by `WFMin` of the library); `Repeats` builds the
    function a recursive definition names, step by step, so that `TotalIs`, `PouredIs` and
    `LooseIs` may use what the definitions say;
  - `AddUpChange` and `CountWritten`: changing what one element adds changes the sum by as much,
    whatever order `SetToSeq` chose (`OrderVisitsAll`);
  - `ClickedIs`, `AddSlotIs`, `OneMoreIs` and `LooseIs` say what each operation of the code moves;
    `AddSlotIs` also that no slot loses what it held, which is why a gift cannot spend what a
    brew reserved;
  - `BalanceOne`, `BalancePlayer`, `BalancePosition`, `BalanceTwo` and `BalanceNone` reduce the
    invariant to what a step does to one player and to one or two positions; one lemma per action
    (`ClickGoods`, `TakeOutputGoods`, `TransferGoods`, ...) uses one of them.

  A click that adds to a full stack (`ClickedOver`) fails in `ClickedIs`, a hopper that takes the
  whole drop (`PickUpWhole`) in `PickUpGoods`.
* `ContainerTypes`: `Spec => []TypeOK`.

Their assumptions say that sizes are numbers, that there are finitely many players and positions,
that a hopper faces another block than itself, that what recipes make fits a slot, and that a
brewed item stacks at least as high as what it was brewed from (`SizesAssumption`,
`PlacesAssumption`, `ItemsAssumption`, `StartsAssumption`).

`BlockProofs` also, for runs of any length with the columns meeting anywhere, any setups, powers,
passes, schedules and delays and any acts of players and of the server:

* `CircuitInvariant`: `CircuitSpec => []CircuitInv`. What the properties say of a circuit at rest is
  not inductive, because nearly always a circuit is not at rest. `CircuitInv` says of each component
  how far the tick, or the next one, is from bringing it up to date: it shows what it should, or it
  is marked (`Marked`) and will be evaluated, or it is still to be treated (`ToDo`), or a tick of its
  own is scheduled (`Ticking`). There is one conjunct for each way the code has of forgetting:
  - at all times `PhaseInv` (between ticks nothing of a tick is left over; a tick takes every mark),
    `KnownInv` (the components of the loaded world are known, and no others once it is synced),
    `LatchInv` and `ShotInv` (a latch shows the power its component had when last treated, and a
    dispenser has fired as often as it was latched);
  - while no column has been evicted, `PowerInv` (the power of what is not marked is what the code
    would compute for it), `ScreenInv`, `PlateInv`, `ButtonInv`, `RepeaterInv`, `PistonInv`, `ObserverInv`
    and `TorchInv` for what each kind shows and owes, and `TickInv`: a scheduled tick is of the kind
    its component asks for.

  What players, saves, evictions and restarts do between ticks is one argument
  (`DisturbKeeps`: marks are added around every cell that changes, as far as a signal reaches).
  In a tick, `PowerStays` says which changes cannot alter what a component would compute;
  `EvaluateKeeps` and `NextPassKeeps` use it for the passes. `FinishTickKeeps` is the longest:
  `TransitedTreats` says by induction over the positions what the transitions before a cell have
  made of it (`FlagStep`, `TickStep`, `FireStep`, `MoveStep`, `StayStep`, one for each thing a transition
  may do), and that each component is treated, or was moved and is marked.
* `SleepingIsSettled`: `CircuitSpec => []AsleepIsSettled`. When the tick returns at once nothing is
  marked or scheduled, so by `CircuitInv` the power of each component is what the code computes from
  its neighbours' powers (`SleepsAtRest`). The property compares it with a reference that knows no
  passes: the sources, less the length of wire between. That these agree is `LevelIs`: power is
  at least that, by induction on the distance from the source (`LevelAtLeast`), and at most that, by
  induction on how far the power is from the highest (`LevelAtMost`): a wire that is bright has a
  neighbour that is brighter by one, or a source, so a loop of wires cannot feed itself.
* `DispensersFireOnce`: `CircuitSpec => []FiresOncePerPulse`, from `LatchInv` and `ShotInv`, which hold
  around evicted columns too.
* `CircuitConserves`: `CircuitSpec => PushesConserve`, for any number of pistons after one another in
  a tick (`MoveConserves` for each push and pull, `TransitedTreats` for all).

TLC checked `CircuitInv` on the circuits of the run before it was proved. For the proof `Transited`,
which was a fold, became a recursive function, and the cases of `shots` in `FinishTick` became
disjoint; the model behaves as before.

`SectionMeshesProofs`, for any world, sizes of sections, regions and queues, levels of detail and
number of workers:

* `FreshSectionsShowTheWorld`: `Spec => []ShowsCurrent`. `ShowInv` adds to it the types (`TypeInv`: a
  column has a lifetime below the next one, a section a revision no older than the one it was
  meshed at) and `WorkInv`: a job or result of the column's present lifetime was started since the
  last reset (`generation`) and for no newer revision than the section has; if it is for that
  revision, its snapshot is what the section is to show. `ShowsCurrent` alone is not inductive: a
  result is integrated long after its snapshot was taken. An edit keeps `WorkInv` because
  every section whose halo holds the cell is among the cell's `Dependents` (`HaloDepends`), which
  are invalidated, and an unload because a column that comes back has another lifetime.
* `NoStaleSectionForgotten`: `Spec => []NeverForgotten`. `KnowInv` adds that what the full queue threw
  out is not queued. `Waiting` and `Requeued` are the two things a step may do to a section
  without forgetting it; `QueueKeeps` says of `EnqueueAll`, for any number of sections and any
  order, that each of them ends up queued under its identity or thrown out.
* `NoUnitLeaks`: `Spec => []ArenaAccounted`, and `RegionsCountTheirColumns`: `Spec => []ActiveCounted`.
  Equal counts are not inductive: freeing a unit would have to know that it is this level's and
  no other's. `ArenaInv` therefore says of every region that holders and live units are paired one
  to one (`HoldsExactly`), that `active` counts the columns with something resident, and that a
  column with something resident has its region. It says so of the levels meshes hold
  (`LevelsOf`) rather than of `meshes`, so that `Upload`, `ReleaseMesh` and `Compact` are each one
  change of a function, and unloading many columns is `ReleaseMesh` one after the other.

The assumptions (`SectionMeshesAssumption`) make the sets of columns, sections and levels finite
and levels `0 .. n - 1`, cells pairs of integers, block changes happen in columns that exist in
the model, and keep `Absent` apart from the values it stands beside.

Only model-checked: all liveness (fairness and `ENABLED` are out of this prover's reach), among it
`Answered`, `QueuedIsSent`, `ColumnArrives`, `MeshArrives`, `EditReachesDisk`, `WaitEnds` and the
fairness of `ColumnDemand`, and `PulsesPass` and `QuietsDown` of `Redstone`; and the bounds in the type
invariant of `SectionMeshes`.

## 5. Where code and documentation disagree

With a run:

* `bug_no_reload`: a column saved, evicted and demanded again is generated from the seed;
  nothing in the runtime loads a single column after startup (`columns.rs:291`).

Found while modelling, recorded in `hazards` with their lines, and kept out of the passing
properties by the exemptions named there. Saving:

* A column evicted while its save is in flight is dropped unsaved; when the job fails, the edit is
  lost, against `columns.rs:343` (`server_runtime.rs:1077`; `FailedSaveKeepsEdits`).
* The two managers of one directory write back each other's old columns (`save/mod.rs:461`;
  `PersistedIsOnDisk`).
* A barrier that times out after 120 s makes `save_all` report ok.

Projection and requests:

* After a transfer, columns at coordinates common to both views are not queued, while the client
  has cleared its presentation (`state.rs:549`; `TransferRepopulates`).
* A `BlockEntityDelta` carries the revision of the `BlockChange` before it, and the client drops
  it (`state.rs:4364`; `BlockEntitiesFollow`).
* The client's response gate drops a first answer whose sequence is not above the last one
  (`client.rs:313`; `FirstAnswerSurfaces`).
* A change of the old dimension that arrives after a transfer sets the client's known revision
  ahead of the new dimension's (`client.rs:659`; `NotAhead`).
* On a listen server the session table does not count the player on the machine itself
  (`server_runtime.rs:306`, `network/ingress.rs:417`): a login that takes the last slot or bears that
  player's name is welcomed and then disconnected, which `RejectionsExplained` lists as a reason.
* A `ClientLeft` lost at a full event queue leaves a player without a session
  (`network/ingress.rs:654`; `NoGhost`).

Containers: a furnace's output disappears when the slots a brew has locked refuse it
(`workstation.rs:148`, against `ARCHITECTURE.md:221`); a gift that merges into a reserved stack
makes `take_brew` refuse until the brew is cancelled.

Meshes: drawing and scheduling do not always agree about a section's level of detail
(`frame.rs:177`).

Redstone, most of it hidden from the tests because they tick circuits alone:

* `ServerWorld::tick` writes changed blocks again with state 0 (`tick.rs:30-43`), which clears the
  open bit and the facing. Plates, doors, lamps and repeaters therefore never stay on, and a
  circuit with one does not sleep, against `ARCHITECTURE.md:421-426`. A change whose own state is
  0 is no change to `set_block` and reaches neither revisions nor clients.
* `strong_power_into` does not ask whether a support is solid or excludes the torch on it: a lit
  torch turns itself off and on within a tick until 64 passes are used up.
* `interact` has no caller outside tests: levers and buttons do nothing on a server.
* A plate needs somebody one cell above it, although a plate can be stood in.
* A full schedule drops a repeater's tick for good; a button pressed at a restart stays pressed;
  power stays at the border of an evicted column; the latch of a dispenser is saved with a dirty
  column only, so that it may fire again after a restart (`system.rs:198-201`).
* A piston that pushes into a column that is not loaded destroys the block: an absent column reads
  as air and takes no write (`piston.rs:17-21`, `chunk_manager/mod.rs:489`). On the server a push
  reaches neither revisions nor clients, because the blocks it wrote are in place already when
  they are written again, and a piston's open bit is gone before it could retract. A pushed chest
  loses its items.
* A change that an observer sees while its pulse lasts is forgotten when the pulse ends
  (`system.rs:1108`); one it cannot schedule is tried again only while something keeps the
  circuit awake.
* On the server a comparator is closed again before anything reads it.
* Explosions are filtered from what a tick returns (`tick.rs:23-27`): TNT vanishes.

## 6. Plan

Done: every module of the table above, with its run and, for ten components, proofs.

Left, in order of use:

1. Proofs of the types of `ChunkReplication`.
2. `Redstone`: the sides of comparators and TNT, which need a second axis.
3. `Containers`: anvil, enchanting, trading, dispensers.
4. `ChunkReplication`: pose and state mailboxes, entities; sidecar groups in `RegionStore`.

Not planned: lighting, fluids, random ticks, entities, world generation and rendering (see the
inventory), exact file formats, the Rust memory model and Tokio's scheduler beyond task
interleaving.
