------------------------------ MODULE ChunkSave ------------------------------
(***************************************************************************)
(* Persistence of chunk columns and entities by ServerRuntime.             *)
(*                                                                         *)
(* Two threads.  The tick thread owns the resident columns and their dirty *)
(* revisions.  Each tick it applies the acks of the save worker, lets the  *)
(* world change, evicts the columns nobody is near (writing the dirty ones *)
(* itself, with its own SaveManager), and from time to time enqueues the   *)
(* dirty columns for the worker.  The save thread takes the jobs in order, *)
(* writes them with a second SaveManager and acks them.  The process may   *)
(* die at any step.                                                        *)
(*                                                                         *)
(* What a column holds is the set of edits in it: {} is the column as      *)
(* generated from the seed.                                                *)
(***************************************************************************)
EXTENDS Naturals, FiniteSets, Sequences

CONSTANTS
  Dimensions,       \* a set of numbers, saved in their order
  Regions,          \* region files; numbers, written in their order
  Columns,
  DimensionOf,      \* [Regions -> Dimensions]
  RegionOf,         \* [Columns -> Regions]
  Evictable,        \* columns every player may be far from
  QueueCapacity,    \* SAVE_QUEUE_CAPACITY
  AckCapacity,      \* twice that
  CacheLimit,       \* region images a SaveManager caches
  MaxEdits,         \* bound: edits of columns
  MaxEpoch,         \* bound: changes of the entities of a dimension
  MaxFailures,      \* bound: failed writes
  MaxRestarts,      \* bound: process lifetimes after the first
  MaxSaveAlls,      \* bound: save_all calls that wait for the worker
  BarrierTimeouts,  \* whether the 120 s wait for the worker may time out
  NotResident, NoData, BadPayload, NoWrite, Idle

Least(S) == CHOOSE n \in S : \A k \in S : n <= k

ASSUME ChunkSaveAssumption ==
  /\ Dimensions \subseteq Nat /\ Regions \subseteq Nat
  /\ DimensionOf \in [Regions -> Dimensions]
  /\ RegionOf \in [Columns -> Regions]
  /\ Evictable \subseteq Columns
  /\ QueueCapacity \in Nat \ {0} /\ AckCapacity \in Nat \ {0}
  /\ {MaxEdits, MaxEpoch, MaxFailures, MaxRestarts, MaxSaveAlls} \subseteq Nat
  /\ BarrierTimeouts \in BOOLEAN
  /\ \A p \in SUBSET (1 .. MaxEdits) : p # NotResident /\ p # BadPayload
  /\ BadPayload # NoData

VARIABLES
  \* the region files and the two managers (module RegionStore)
  disk, corrupt, cached, stamped, image, held, result,
  \* tick thread: the world
  content,        \* [Columns -> SUBSET Edit or NotResident]
  failedRestore,  \* columns whose saved payload did not decode
  dirty,          \* [Columns -> dirty revision and its state] (DirtyChunkSet)
  keep,           \* columns some player is near
  epoch,          \* [Dimensions -> entity checksum epoch]
  persisted,      \* [Dimensions -> entities_persisted_epoch]
  \* tick thread: where it is
  tick,
  \* save thread and its two channels
  queue, acks, worker,
  entityFile,     \* [Dimensions -> epoch the entity file was written at]
  edits, failures, restarts, saveAlls

storeVars == <<disk, corrupt, cached, stamped, image, held, result>>
worldVars == <<content, failedRestore, dirty, keep, epoch, persisted>>
workerVars == <<queue, acks, worker, entityFile>>
counters == <<edits, failures, restarts, saveAlls>>
vars == <<storeVars, worldVars, tick, workerVars, counters>>

Edit == 1 .. MaxEdits
Payloads == (SUBSET Edit) \union {BadPayload}
Managers == {"tick", "worker"}

Store == INSTANCE RegionStore WITH Writes <- [m \in Managers |-> Regions]

ColumnsOf(d) == {c \in Columns : DimensionOf[RegionOf[c]] = d}
Resident(c) == content[c] # NotResident
IsDirty(c) == dirty[c].state = "dirty"

\* chunk_revision: the newest mutation recorded in a column.
Revision(p) == IF p = {} THEN 0 ELSE CHOOSE e \in p : \A k \in p : k <= e

Clean == [state |-> "none", rev |-> 0]
ChunkJob(d, entries) == [kind |-> "chunks", dim |-> d, entries |-> entries]
EntityJob(d) == [kind |-> "entities", dim |-> d, epoch |-> epoch[d]]
SidecarJob == [kind |-> "sidecars"]
BarrierJob(n) == [kind |-> "barrier", id |-> n]

\* A new runtime over the files as they are: every saved column is restored and
\* the ones that do not decode fail closed (restore_authority_state).
Restored(c) ==
  IF disk[c] \in {NoData, BadPayload} THEN NotResident ELSE disk[c]

\* Mutant: a column that does not decode is only skipped.
NoneFailed == {}

FailedToRestore == {c \in Columns : disk[c] = BadPayload}

Booted ==
  /\ content' = [c \in Columns |-> Restored(c)]
  /\ failedRestore' = FailedToRestore
  /\ dirty' = [c \in Columns |-> Clean]
  /\ keep' = Columns
  /\ epoch' = entityFile
  /\ persisted' = entityFile
  /\ tick' = [phase |-> "events", dims |-> {}, todo |-> {}, single |-> FALSE,
              kind |-> "tick", failed |-> FALSE, result |-> "none",
              flushed |-> FALSE, alive |-> TRUE]
  /\ queue' = << >>
  /\ acks' = << >>
  /\ worker' = Idle

Init ==
  /\ disk \in [Columns -> {NoData, BadPayload}]
  /\ corrupt = {}
  /\ Store!Init
  /\ content = [c \in Columns |-> Restored(c)]
  /\ failedRestore = FailedToRestore
  /\ dirty = [c \in Columns |-> Clean]
  /\ keep = Columns
  /\ epoch = [d \in Dimensions |-> 0]
  /\ persisted = epoch
  /\ tick = [phase |-> "events", dims |-> {}, todo |-> {}, single |-> FALSE,
             kind |-> "tick", failed |-> FALSE, result |-> "none",
             flushed |-> FALSE, alive |-> TRUE]
  /\ queue = << >>
  /\ acks = << >>
  /\ worker = Idle
  /\ entityFile = epoch
  /\ edits = 0 /\ failures = 0 /\ restarts = 0 /\ saveAlls = 0

-----------------------------------------------------------------------------
(* The tick thread: acks.                                                   *)

\* Mutants: a late ack settles whatever revision the column has now; a failed one
\* is not put back.
AcknowledgedAnyRevision(c, rev, ok) ==
  IF dirty[c].state \in {"dirty", "inflight"}
    THEN [dirty[c] EXCEPT !.state = IF ok THEN "persisted" ELSE "dirty"] ELSE dirty[c]
AcknowledgedOkOnly(c, rev, ok) ==
  IF dirty[c] = [state |-> "inflight", rev |-> rev] /\ ok
    THEN [state |-> "persisted", rev |-> rev] ELSE dirty[c]

\* acknowledge_persisted and acknowledge_failed: only the revision in flight
\* may change state.
Acknowledged(c, rev, ok) ==
  IF dirty[c] = [state |-> "inflight", rev |-> rev]
    THEN [state |-> IF ok THEN "persisted" ELSE "dirty", rev |-> rev]
    ELSE dirty[c]

\* Mutant: whatever the epoch is by now, it counts as persisted.
AnyEpochPersisted(d, written) == [persisted EXCEPT ![d] = epoch[d]]

\* The entity dump of dimension d reached the file at epoch written.
EpochPersisted(d, written) ==
  IF epoch[d] = written THEN [persisted EXCEPT ![d] = epoch[d]] ELSE persisted

\* What apply_save_acks does with one ack.
ApplyAck(a) ==
  CASE a.job.kind = "chunks" ->
         /\ dirty' = [c \in Columns |->
              IF c \in DOMAIN a.job.entries
                THEN Acknowledged(c, a.job.entries[c].rev, a.ok) ELSE dirty[c]]
         /\ UNCHANGED persisted
    [] a.job.kind = "entities" ->
         /\ persisted' = IF a.ok THEN EpochPersisted(a.job.dim, a.job.epoch)
                           ELSE persisted
         /\ UNCHANGED dirty
    [] OTHER -> UNCHANGED <<dirty, persisted>>

\* drain_save_acks: a tick starts by applying every ack that has arrived.
DrainAck ==
  /\ tick.phase = "drain" /\ acks # << >>
  /\ ApplyAck(Head(acks))
  /\ acks' = Tail(acks)
  /\ UNCHANGED <<storeVars, content, failedRestore, keep, epoch, tick, queue, worker,
                 entityFile, counters>>

DrainDone ==
  /\ tick.phase = "drain" /\ acks = << >>
  /\ tick' = [tick EXCEPT !.phase = "events"]
  /\ UNCHANGED <<storeVars, worldVars, workerVars, counters>>

-----------------------------------------------------------------------------
(* The tick thread: the world changes.                                      *)

\* Any mutation of a column: a missing one is generated on the spot, one that
\* failed to restore refuses.  mark_dirty starts a new revision.
Mutate(c) ==
  /\ tick.phase = "events" /\ edits < MaxEdits
  /\ c \notin failedRestore
  /\ edits' = edits + 1
  /\ content' = [content EXCEPT ![c] =
       (IF Resident(c) THEN content[c] ELSE {}) \union {edits + 1}]
  /\ dirty' = [dirty EXCEPT ![c] = [state |-> "dirty", rev |-> @.rev + 1]]
  /\ UNCHANGED <<storeVars, failedRestore, keep, epoch, persisted, tick, workerVars,
                 failures, restarts, saveAlls>>

\* A column a player comes near is generated from the seed, now or by a worldgen
\* job (ensure_chunk, apply_generated_chunk, materialize_chunk).
Materialize(c) ==
  /\ tick.phase = "events"
  /\ ~Resident(c) /\ c \notin failedRestore
  /\ content' = [content EXCEPT ![c] = {}]
  /\ UNCHANGED <<storeVars, failedRestore, dirty, keep, epoch, persisted, tick,
                 workerVars, counters>>

\* Players move, join and leave.
Move(k) ==
  /\ tick.phase = "events"
  /\ Columns \ Evictable \subseteq k /\ k # keep
  /\ keep' = k
  /\ UNCHANGED <<storeVars, content, failedRestore, dirty, epoch, persisted, tick,
                 workerVars, counters>>

\* An entity of the dimension moves, spawns or dies.
EntityChange(d) ==
  /\ tick.phase = "events" /\ epoch[d] < MaxEpoch
  /\ epoch' = [epoch EXCEPT ![d] = @ + 1]
  /\ UNCHANGED <<storeVars, content, failedRestore, dirty, keep, persisted, tick,
                 workerVars, counters>>

-----------------------------------------------------------------------------
(* The tick thread: evict_uninteresting_chunks, dimension by dimension.     *)

Unkept(d) == {c \in ColumnsOf(d) : Resident(c) /\ c \notin keep}

\* Mutant: the revision outlives the column.
DropColumns(S) ==
  /\ content' = [c \in Columns |-> IF c \in S THEN NotResident ELSE content[c]]
  /\ UNCHANGED dirty

\* remove_resident_chunk: the column and its revisions are forgotten.
Drop(S) ==
  /\ content' = [c \in Columns |-> IF c \in S THEN NotResident ELSE content[c]]
  /\ dirty' = [c \in Columns |-> IF c \in S THEN Clean ELSE dirty[c]]

BeginEvict ==
  /\ tick.phase = "events"
  /\ tick' = [tick EXCEPT !.phase = "evict", !.dims = Dimensions]
  /\ UNCHANGED <<storeVars, worldVars, workerVars, counters>>

\* Nothing dirty to write: what is out of reach is dropped.  A column whose save
\* is in flight is not dirty.
EvictClean(d) ==
  /\ tick.phase = "evict" /\ tick.dims # {} /\ d = Least(tick.dims)
  /\ \A c \in Unkept(d) : ~IsDirty(c)
  /\ Drop(Unkept(d))
  /\ tick' = [tick EXCEPT !.dims = @ \ {d}]
  /\ UNCHANGED <<storeVars, failedRestore, keep, epoch, persisted, workerVars, counters>>

EvictDirty(d) ==
  /\ tick.phase = "evict" /\ tick.dims # {} /\ d = Least(tick.dims)
  /\ \E c \in Unkept(d) : IsDirty(c)
  /\ tick' = [tick EXCEPT !.phase = "flush", !.single = FALSE,
                          !.todo = {c \in Unkept(d) : IsDirty(c)}]
  /\ UNCHANGED <<storeVars, worldVars, workerVars, counters>>

\* First all dirty columns as one batch, region by region; when that fails, each
\* of them again on its own.
FlushTake ==
  /\ tick.phase = "flush" /\ tick.todo # {} /\ held["tick"] = NoWrite
  /\ LET r == Least({RegionOf[c] : c \in tick.todo})
         here == {c \in tick.todo : RegionOf[c] = r}
     IN  \E S \in IF tick.single THEN {{c} : c \in here} ELSE {here} :
           Store!Take("tick", r, [c \in S |-> content[c]])
  /\ UNCHANGED <<worldVars, tick, workerVars, counters>>

FlushReplace ==
  /\ tick.phase = "flush"
  /\ Store!Replace("tick")
  /\ tick' = [tick EXCEPT !.todo = @ \ DOMAIN held["tick"].entries]
  /\ IF tick.single
       THEN Drop(DOMAIN held["tick"].entries)
       ELSE UNCHANGED <<content, dirty>>
  /\ UNCHANGED <<failedRestore, keep, epoch, persisted, workerVars, counters>>

\* The column stays resident, and dirty, when its own write fails.
FlushFails(renamed) ==
  /\ tick.phase = "flush" /\ failures < MaxFailures
  /\ Store!ReplaceFails("tick", renamed)
  /\ failures' = failures + 1
  /\ tick' = IF tick.single
       THEN [tick EXCEPT !.todo = @ \ DOMAIN held["tick"].entries]
       ELSE [tick EXCEPT !.single = TRUE,
               !.todo = {c \in Unkept(Least(tick.dims)) : IsDirty(c)}]
  /\ UNCHANGED <<worldVars, workerVars, edits, restarts, saveAlls>>

FlushDone ==
  /\ tick.phase = "flush" /\ tick.todo = {}
  /\ LET d == Least(tick.dims)
     IN  /\ Drop({c \in Unkept(d) : tick.single => ~IsDirty(c)})
         /\ tick' = [tick EXCEPT !.phase = "evict", !.dims = @ \ {d}]
  /\ UNCHANGED <<storeVars, failedRestore, keep, epoch, persisted, workerVars, counters>>

EndTick ==
  /\ tick.phase = "evict" /\ tick.dims = {}
  /\ tick' = [tick EXCEPT !.phase = "drain"]
  /\ UNCHANGED <<storeVars, worldVars, workerVars, counters>>

-----------------------------------------------------------------------------
(* The tick thread: save_authority_state and save_all.                      *)

StartSave(kind) ==
  tick' = [tick EXCEPT !.phase = "chunks", !.dims = Dimensions, !.kind = kind,
                       !.failed = FALSE]

\* Every AUTOSAVE_INTERVAL_TICKS, after eviction.
Autosave ==
  /\ tick.phase = "evict" /\ tick.dims = {}
  /\ StartSave("tick")
  /\ UNCHANGED <<storeVars, worldVars, workerVars, counters>>

\* The console command, between two ticks.
SaveAll ==
  /\ tick.phase = "drain" /\ saveAlls < MaxSaveAlls
  /\ StartSave("console")
  /\ saveAlls' = saveAlls + 1
  /\ UNCHANGED <<storeVars, worldVars, workerVars, edits, failures, restarts>>

\* shutdown, or drop after a shutdown that did not save.
Shutdown ==
  /\ \/ tick.phase = "drain"
     \/ tick.phase = "stopped" /\ ~tick.flushed
  /\ saveAlls < MaxSaveAlls
  /\ StartSave("shutdown")
  /\ saveAlls' = saveAlls + 1
  /\ UNCHANGED <<storeVars, worldVars, workerVars, edits, failures, restarts>>

\* save_all returned r.
Returned(r) ==
  [tick EXCEPT !.phase = IF tick.kind = "shutdown" THEN "close" ELSE "drain",
               !.dims = {}, !.kind = "tick", !.failed = FALSE, !.result = r,
               !.flushed = @ \/ (tick.kind = "shutdown" /\ r = "ok")]

\* Mutant: one job too many.
CanOverfill == tick.alive /\ Len(queue) <= QueueCapacity

\* try_enqueue: the queue is full, or the worker is gone.
CanEnqueue == tick.alive /\ Len(queue) < QueueCapacity

\* save_all_inner, the chunks of one dimension.  Every column encodes: one that
\* did not would be skipped, stay dirty and not keep save_all from answering ok.
SaveChunks ==
  /\ tick.phase = "chunks" /\ tick.dims # {}
  /\ LET d == Least(tick.dims)
         S == {c \in ColumnsOf(d) : IsDirty(c) /\ Resident(c)}
         entries == [c \in S |-> [rev |-> dirty[c].rev, data |-> content[c]]]
     IN  \/ /\ S = {}
            /\ tick' = [tick EXCEPT !.phase = "entities"]
            /\ UNCHANGED <<dirty, queue>>
         \/ /\ S # {} /\ CanEnqueue
            /\ queue' = Append(queue, ChunkJob(d, entries))
            /\ dirty' = [c \in Columns |->
                 IF c \in S THEN [dirty[c] EXCEPT !.state = "inflight"] ELSE dirty[c]]
            /\ tick' = [tick EXCEPT !.phase = "entities"]
         \* begin_save, then acknowledge_failed for the whole job
         \/ /\ S # {} /\ ~CanEnqueue
            /\ tick' = Returned("err")
            /\ UNCHANGED <<dirty, queue>>
  /\ UNCHANGED <<storeVars, content, failedRestore, keep, epoch, persisted, acks, worker,
                 entityFile, counters>>

SaveEntities ==
  /\ tick.phase = "entities"
  /\ LET d == Least(tick.dims)
         next == [tick EXCEPT !.phase = "chunks", !.dims = @ \ {d}]
     IN  \/ /\ epoch[d] = persisted[d]
            /\ tick' = next /\ UNCHANGED queue
         \/ /\ epoch[d] # persisted[d] /\ CanEnqueue
            /\ queue' = Append(queue, EntityJob(d))
            /\ tick' = next
         \/ /\ epoch[d] # persisted[d] /\ ~CanEnqueue
            /\ tick' = Returned("err") /\ UNCHANGED queue
  /\ UNCHANGED <<storeVars, worldVars, acks, worker, entityFile, counters>>

\* The sidecar group comes last; only a save that waits goes on to the barrier.
SaveSidecars ==
  /\ tick.phase = "chunks" /\ tick.dims = {}
  /\ IF CanEnqueue
       THEN /\ queue' = Append(queue, SidecarJob)
            /\ tick' = IF tick.kind = "tick" THEN Returned("ok")
                       ELSE [tick EXCEPT !.phase = "barrier"]
       ELSE tick' = Returned("err") /\ UNCHANGED queue
  /\ UNCHANGED <<storeVars, worldVars, acks, worker, entityFile, counters>>

\* enqueue_blocking waits for room.
EnqueueBarrier ==
  /\ tick.phase = "barrier" /\ Len(queue) < QueueCapacity
  /\ queue' = Append(queue, BarrierJob(saveAlls))
  /\ tick' = [tick EXCEPT !.phase = "wait"]
  /\ UNCHANGED <<storeVars, worldVars, acks, worker, entityFile, counters>>

\* Mutants: the wait ends at the ack of the next barrier; only the last ack counts.
NextBarrier(a) == a.job = BarrierJob(saveAlls + 1)
LastFailed(a) == ~a.ok

OwnBarrier(a) == a.job = BarrierJob(saveAlls)
SomeFailed(a) == tick.failed \/ ~a.ok

\* wait_barrier collects the acks up to its own; save_all applies them all and
\* reports whether one of them failed.
WaitAck ==
  /\ tick.phase = "wait" /\ acks # << >>
  /\ LET ack == Head(acks)
     IN  /\ ApplyAck(ack)
         /\ tick' = IF OwnBarrier(ack)
                      THEN Returned(IF SomeFailed(ack) THEN "err" ELSE "ok")
                      ELSE [tick EXCEPT !.failed = SomeFailed(ack)]
  /\ acks' = Tail(acks)
  /\ UNCHANGED <<storeVars, content, failedRestore, keep, epoch, queue, worker,
                 entityFile, counters>>

\* Nothing arrived for 120 s: the acks so far decide.
WaitTimeout ==
  /\ BarrierTimeouts
  /\ tick.phase = "wait" /\ acks = << >>
  /\ tick' = Returned(IF tick.failed THEN "err" ELSE "ok")
  /\ UNCHANGED <<storeVars, worldVars, workerVars, counters>>

\* SaveWorker::shutdown reads acks nobody applies any more, until the worker has
\* finished every job, and joins it.
DiscardAck ==
  /\ tick.phase = "close" /\ acks # << >>
  /\ acks' = Tail(acks)
  /\ UNCHANGED <<storeVars, worldVars, tick, queue, worker, entityFile, counters>>

Close ==
  /\ tick.phase = "close" /\ queue = << >> /\ worker = Idle /\ acks = << >>
  /\ tick' = [tick EXCEPT !.phase = "stopped", !.alive = FALSE]
  /\ UNCHANGED <<storeVars, worldVars, workerVars, counters>>

-----------------------------------------------------------------------------
(* The save thread.                                                         *)

\* Entities and sidecars are one atomic write (one per sidecar file); the write
\* may fail after the rename, with the new file in place.
Receive ==
  /\ worker = Idle /\ queue # << >>
  /\ LET j == Head(queue)
     IN  \/ /\ j.kind \in {"chunks", "barrier"}
            /\ worker' = [job |-> j, ok |-> TRUE,
                          todo |-> IF j.kind = "chunks"
                                     THEN {RegionOf[c] : c \in DOMAIN j.entries} ELSE {}]
            /\ UNCHANGED <<entityFile, failures>>
         \/ /\ j.kind \in {"entities", "sidecars"}
            /\ \E ok \in BOOLEAN, written \in BOOLEAN :
                 /\ ok => written
                 /\ ~ok => failures < MaxFailures
                 /\ failures' = IF ok THEN failures ELSE failures + 1
                 /\ entityFile' = IF written /\ j.kind = "entities"
                                    THEN [entityFile EXCEPT ![j.dim] = j.epoch]
                                    ELSE entityFile
                 /\ worker' = [job |-> j, ok |-> ok, todo |-> {}]
  /\ queue' = Tail(queue)
  /\ UNCHANGED <<storeVars, worldVars, tick, acks, edits, restarts, saveAlls>>

\* save_chunks_in: one region file after the other.
WorkerTake ==
  /\ worker # Idle /\ worker.todo # {} /\ held["worker"] = NoWrite
  /\ LET r == Least(worker.todo)
         S == {c \in DOMAIN worker.job.entries : RegionOf[c] = r}
     IN  Store!Take("worker", r, [c \in S |-> worker.job.entries[c].data])
  /\ UNCHANGED <<worldVars, tick, workerVars, counters>>

WorkerReplace ==
  /\ worker # Idle
  /\ Store!Replace("worker")
  /\ worker' = [worker EXCEPT !.todo = @ \ {held["worker"].region}]
  /\ UNCHANGED <<worldVars, tick, queue, acks, entityFile, counters>>

\* The first region that fails ends the batch.
WorkerFails(renamed) ==
  /\ worker # Idle /\ failures < MaxFailures
  /\ Store!ReplaceFails("worker", renamed)
  /\ failures' = failures + 1
  /\ worker' = [worker EXCEPT !.todo = {}, !.ok = FALSE]
  /\ UNCHANGED <<worldVars, tick, queue, acks, entityFile, edits, restarts, saveAlls>>

\* The ack channel is bounded; the worker waits for room.
SendAck ==
  /\ worker # Idle /\ worker.todo = {} /\ Len(acks) < AckCapacity
  /\ acks' = Append(acks, [job |-> worker.job, ok |-> worker.ok])
  /\ worker' = Idle
  /\ UNCHANGED <<storeVars, worldVars, tick, queue, entityFile, counters>>

-----------------------------------------------------------------------------
\* The process is killed, or the stopped server is started again.
Restart ==
  /\ restarts < MaxRestarts
  /\ restarts' = restarts + 1
  /\ Store!Restart
  /\ Booted
  /\ UNCHANGED <<entityFile, edits, failures, saveAlls>>

TickThread ==
  \/ DrainAck \/ DrainDone
  \/ BeginEvict \/ (\E d \in Dimensions : EvictClean(d) \/ EvictDirty(d))
  \/ FlushTake \/ FlushReplace \/ FlushDone \/ EndTick
  \/ SaveChunks \/ SaveEntities \/ SaveSidecars \/ EnqueueBarrier \/ WaitAck
  \/ DiscardAck \/ Close

Worker == Receive \/ WorkerTake \/ WorkerReplace \/ SendAck

Environment ==
  \/ \E c \in Columns : Mutate(c) \/ Materialize(c)
  \/ \E k \in SUBSET Columns : Move(k)
  \/ \E d \in Dimensions : EntityChange(d)
  \/ SaveAll \/ Shutdown \/ WaitTimeout
  \/ \E renamed \in BOOLEAN : FlushFails(renamed) \/ WorkerFails(renamed)
  \/ Restart

Next == TickThread \/ Autosave \/ Worker \/ Environment

Spec == Init /\ [][Next]_vars

(* Both threads keep running, and a tick in AUTOSAVE_INTERVAL_TICKS autosaves.  *)
FairSpec == Spec /\ WF_vars(TickThread) /\ WF_vars(Worker) /\ SF_vars(Autosave)

-----------------------------------------------------------------------------
\* The jobs and acks in which some write of a column is under way.
Jobs == {queue[i] : i \in DOMAIN queue} \union {acks[i].job : i \in DOMAIN acks}
          \union (IF worker = Idle THEN {} ELSE {worker.job})
ChunkJobs == {j \in Jobs : j.kind = "chunks"}

\* Columns whose region file only the worker writes, because no column of the
\* region is ever out of reach, and that did not fail to restore.
Pinned ==
  {c \in Columns \ failedRestore :
     \A e \in Evictable : RegionOf[e] # RegionOf[c]}

\* The file holds the column as it is in memory.
Saved(c) ==
  Resident(c) => disk[c] = content[c] \/ (content[c] = {} /\ disk[c] = NoData)

\* Where the tick thread can be.
TickStates ==
  [phase : {"drain", "events", "evict", "flush", "chunks", "entities", "barrier", "wait",
            "close", "stopped"},
   dims : SUBSET Dimensions, todo : SUBSET Columns, single : BOOLEAN,
   kind : {"tick", "console", "shutdown"}, failed : BOOLEAN,
   result : {"none", "ok", "err"}, flushed : BOOLEAN, alive : BOOLEAN]

\* Types: content, revisions, channels and positions of both threads.
JobOK(j) ==
  \/ /\ j.kind = "chunks" /\ j.dim \in Dimensions
     /\ DOMAIN j.entries \subseteq Columns
     /\ j.entries \in [DOMAIN j.entries -> [rev : 1 .. MaxEdits, data : SUBSET Edit]]
  \/ j \in [kind : {"entities"}, dim : Dimensions, epoch : 0 .. MaxEpoch]
  \/ j = SidecarJob
  \/ j \in [kind : {"barrier"}, id : 0 .. MaxSaveAlls]
TypeOK ==
  /\ Store!TypeOK
  /\ content \in [Columns -> (SUBSET Edit) \union {NotResident}]
  /\ failedRestore \subseteq Columns /\ keep \subseteq Columns
  /\ dirty \in [Columns -> [state : {"none", "dirty", "inflight", "persisted"},
                            rev : 0 .. MaxEdits]]
  /\ {epoch, persisted, entityFile} \subseteq [Dimensions -> 0 .. MaxEpoch]
  /\ tick \in TickStates
  /\ \A j \in Jobs : JobOK(j)
  /\ Len(queue) <= QueueCapacity /\ Len(acks) <= AckCapacity

\* Only a resident column has a dirty revision: eviction leaves no entry behind
\* that a later save would skip for ever (dirty_revisions, chunk_save_payload).
DirtyIsResident == \A c \in Columns : dirty[c] # Clean => Resident(c)

\* A revision in flight has a job, or an ack, that will settle it: no column is
\* stuck in flight, where neither autosave nor eviction would write it.
InFlightTracked ==
  tick.alive /\ tick.phase # "close" =>
    \A c \in Columns : dirty[c].state = "inflight" =>
      \E j \in ChunkJobs : c \in DOMAIN j.entries /\ j.entries[c].rev = dirty[c].rev

\* A dirty revision is cleared only when the file holds the column as it is in
\* memory, whatever failed, was edited meanwhile, or was lost to a crash.
CleanIsOnDisk ==
  \A c \in Pinned : dirty[c].state \in {"none", "persisted"} => Saved(c)

\* A column whose saved payload did not decode is never saved over.
FailClosed ==
  [][\A c \in Columns : disk[c] = BadPayload => disk'[c] = BadPayload]_vars

\* The entity watermark never claims a dump the file does not hold; an epoch that
\* moved on while its dump was written stays to be saved.
EntitiesOnDisk == \A d \in Dimensions : persisted[d] = epoch[d] => entityFile[d] = epoch[d]

\* A save-all or shutdown that returns ok has put the world on disk: everything
\* saved before it, by it, or by jobs that were in flight when it was called.
SaveAllOkMeansSaved ==
  [][ tick.phase = "wait" /\ tick'.phase \in {"drain", "close"} /\ tick'.result = "ok" =>
        /\ \A c \in Pinned : Saved(c)
        /\ \A d \in Dimensions : entityFile[d] = epoch[d] ]_vars

\* Where the edits of a column still are: in memory, on disk, or in a job the
\* worker has not failed.
EditsOf(c) ==
  LET pending == {queue[i] : i \in DOMAIN queue}
                   \union (IF worker = Idle \/ ~worker.ok THEN {} ELSE {worker.job})
  IN  UNION ({content[c], disk[c]} \ {NotResident, NoData, BadPayload})
        \union UNION {j.entries[c].data :
                        j \in {k \in pending : k.kind = "chunks" /\ c \in DOMAIN k.entries}}

\* "A failed serialize/save leaves the column resident so player builds are not
\* discarded": no failed write is the end of an edit.
FailedSaveKeepsEdits ==
  [][ failures' > failures => \A c \in Columns : EditsOf(c) \subseteq EditsOf(c)' ]_vars

\* Dirty revisions clear "only after successful persist": a column whose revision
\* is persisted, and that nobody may leave, is on disk.
PersistedIsOnDisk ==
  \A c \in Columns \ Evictable : dirty[c].state = "persisted" => Saved(c)

\* "An unload/reload cannot make a stale client delta appear newer than the saved
\* world": the revision of a resident column is not behind its saved payload.
ReloadKeepsRevision ==
  \A c \in Columns : Resident(c) /\ disk[c] \notin {NoData, BadPayload} =>
    Revision(content[c]) >= Revision(disk[c])

\* Every edit of a column that stays in reach is on disk in the end, although
\* writes fail and the queue is full at times, unless a shutdown reports an error
\* or the process dies.
EditReachesDisk ==
  \A c \in Columns, e \in Edit :
    (c \in Pinned /\ Resident(c) /\ e \in content[c]) ~>
      \/ disk[c] \notin {NoData, BadPayload} /\ e \in disk[c]
      \/ tick.phase = "stopped" /\ ~tick.flushed
      \/ restarts > 0

\* A save that waits for the worker returns: the two bounded channels do not
\* make the threads wait for each other.
WaitEnds == (tick.phase \in {"barrier", "wait", "close"})
              ~> (tick.phase \in {"drain", "events", "stopped"})
=============================================================================
