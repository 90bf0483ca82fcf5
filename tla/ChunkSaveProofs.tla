--------------------------- MODULE ChunkSaveProofs ---------------------------
(***************************************************************************)
(* What holds of the two threads for every set of columns, regions and     *)
(* dimensions, any capacities and any failures.  Five parts, each resting  *)
(* on the invariants of the parts before it:                               *)
(*   1. dirty revisions belong to resident columns, and a column that did  *)
(*      not decode is never written over (Inv);                            *)
(*   2. a revision in flight keeps its job or its ack, and what the tick   *)
(*      thread believes of the entity files is true (JobTypes, EpochOrder);*)
(*   3. a cleared dirty revision promises that the region file holds the   *)
(*      column as it is in memory (DurableInv);                            *)
(*   4. a save_all that answers Ok has saved everything (Collected);       *)
(*   5. every state is well typed (TypeInv).                               *)
(***************************************************************************)
EXTENDS ChunkSave, TLAPS, SequenceTheorems, FiniteSetTheorems, WellFoundedInduction

-----------------------------------------------------------------------------
(* 1. Dirty, resident and undecodable columns.                               *)

\* What a slot of column c may hold: a payload that does not decode exactly when
\* the column failed to restore.
Faithful(c, v) ==
  v \in Store!Slots /\ (v = BadPayload <=> c \in failedRestore)

\* What may be written to the files: edits of columns that did not fail.
Writable(c, v) == c \in Columns \ failedRestore /\ v \in SUBSET Edit

CacheFaithful(m) ==
  \A c \in Columns : RegionOf[c] \in cached[m] => Faithful(c, image[m][c])

HeldFaithful(m) ==
  held[m] # NoWrite =>
    /\ \A c \in Columns : RegionOf[c] = held[m].region => Faithful(c, held[m].base[c])
    /\ \A c \in DOMAIN held[m].entries : Writable(c, held[m].entries[c])

\* Files, caches and the images taken for writing agree about which columns do
\* not decode.
StoreInv ==
  /\ DOMAIN cached = Managers /\ DOMAIN image = Managers /\ DOMAIN held = Managers
  /\ \A c \in Columns : Faithful(c, disk[c])
  /\ \A m \in Managers : CacheFaithful(m) /\ HeldFaithful(m)

\* A chunk job saves columns that did not fail.
JobWritable(j) ==
  j.kind = "chunks" => \A c \in DOMAIN j.entries : Writable(c, j.entries[c].data)

WorkerInv ==
  /\ queue \in Seq({queue[i] : i \in DOMAIN queue})
  /\ \A i \in 1 .. Len(queue) : JobWritable(queue[i])
  /\ worker # Idle =>
       /\ {"job", "todo"} \subseteq DOMAIN worker
       /\ JobWritable(worker.job)
       /\ worker.todo # {} => worker.job.kind = "chunks"

\* A column that failed is not resident, so no save and no eviction names it.
WorldInv ==
  /\ edits \in Nat /\ failedRestore \subseteq Columns
  /\ content \in [Columns -> (SUBSET Edit) \union {NotResident}]
  /\ \A c \in failedRestore : ~Resident(c)
  /\ DOMAIN dirty = Columns
  /\ DirtyIsResident

\* What the tick thread has still to flush is resident.
TickInv ==
  /\ {"phase", "todo"} \subseteq DOMAIN tick
  /\ tick.phase = "flush" => \A c \in tick.todo : c \in Columns /\ Resident(c)

\* Inductive: a column that fails is kept out of the world, hence out of every
\* batch, and every image of its region carries it along.
Inv == StoreInv /\ WorkerInv /\ WorldInv /\ TickInv

-----------------------------------------------------------------------------
(* Lemmas about the region files.                                           *)

\* Taking a region copies what the cache or the file holds.
LEMMA TakeKeeps ==
  ASSUME StoreInv, NEW m \in Managers, NEW r, NEW entries,
         \A c \in DOMAIN entries : Writable(c, entries[c]),
         Store!Take(m, r, entries), UNCHANGED failedRestore
  PROVE  StoreInv'
  <1>1. /\ held' = [held EXCEPT ![m] =
             [region  |-> r,
              base    |-> [c \in Store!ColumnsIn(r) |->
                             IF Store!Hit(m, r) THEN image[m][c] ELSE disk[c]],
              entries |-> entries]]
        /\ disk' = disk
    BY DEF Store!Take
  <1>2. DOMAIN cached' = Managers /\ DOMAIN image' = Managers /\ DOMAIN held' = Managers
    BY <1>1 DEF StoreInv, Store!Take, Store!CacheIs
  <1>3. \A c \in Columns : Faithful(c, disk[c])'
    BY <1>1 DEF StoreInv, Faithful, Store!Slots
  <1>4. ASSUME NEW n \in Managers PROVE CacheFaithful(n)'
    <2>1. CASE n = m
      BY <2>1 DEF StoreInv, Store!Take, Store!CacheIs, CacheFaithful, Faithful, Store!Slots
    <2>2. CASE n # m
      BY <2>2 DEF StoreInv, Store!Take, Store!CacheIs, CacheFaithful, Faithful, Store!Slots
    <2>3. QED
      BY <2>1, <2>2
  <1>5. ASSUME NEW n \in Managers PROVE HeldFaithful(n)'
    <2>1. CASE n = m
      <3>1. ASSUME NEW c \in Columns, RegionOf[c] = r
            PROVE  Faithful(c, IF Store!Hit(m, r) THEN image[m][c] ELSE disk[c])
        BY <3>1 DEF StoreInv, CacheFaithful, Store!Hit
      <3>2. held'[n].region = r /\ held'[n].entries = entries
        BY <1>1, <2>1 DEF StoreInv
      <3>3. \A c \in Columns : RegionOf[c] = r => Faithful(c, held'[n].base[c])
        BY <1>1, <2>1, <3>1 DEF StoreInv, Store!ColumnsIn
      <3>4. QED
        BY <3>2, <3>3 DEF HeldFaithful, Faithful, Writable, Store!Slots
    <2>2. CASE n # m
      BY <1>1, <2>2 DEF StoreInv, HeldFaithful, Faithful, Writable, Store!Slots
    <2>3. QED
      BY <2>1, <2>2
  <1>6. QED
    BY <1>2, <1>3, <1>4, <1>5 DEF StoreInv

\* The image that replaces a file still holds the columns that failed.
LEMMA NewImageFaithful ==
  ASSUME StoreInv, NEW m \in Managers, held[m] # NoWrite,
         NEW c \in Columns, RegionOf[c] = held[m].region
  PROVE  Faithful(c, Store!NewImage(m)[c]) /\ Faithful(c, held[m].base[c])
  <1>1. Faithful(c, held[m].base[c])
    BY DEF StoreInv, HeldFaithful
  <1>2. CASE c \in DOMAIN held[m].entries
    <2>1. Writable(c, held[m].entries[c])
      BY <1>2 DEF StoreInv, HeldFaithful
    <2>2. Faithful(c, held[m].entries[c])
      BY <2>1, ChunkSaveAssumption DEF Writable, Faithful, Store!Slots, Payloads, Edit
    <2>3. QED
      BY <1>1, <1>2, <2>2 DEF Store!NewImage, Store!ColumnsIn
  <1>3. CASE c \notin DOMAIN held[m].entries
    BY <1>1, <1>3 DEF Store!NewImage, Store!ColumnsIn
  <1>4. QED
    BY <1>2, <1>3

\* A cache rebuilt from images that agree agrees.
LEMMA CacheKeeps ==
  ASSUME StoreInv, NEW m \in Managers, NEW kept, NEW images, NEW stamps,
         Store!CacheIs(m, kept, images, stamps), UNCHANGED failedRestore,
         \A c \in Columns : RegionOf[c] \in kept => Faithful(c, images[c])
  PROVE  /\ DOMAIN cached' = Managers /\ DOMAIN image' = Managers
         /\ \A n \in Managers : CacheFaithful(n)'
  <1>1. DOMAIN cached' = Managers /\ DOMAIN image' = Managers
    BY DEF StoreInv, Store!CacheIs
  <1>2. ASSUME NEW n \in Managers PROVE CacheFaithful(n)'
    <2>1. CASE n = m
      <3>1. cached'[n] = kept
        BY <2>1 DEF StoreInv, Store!CacheIs
      <3>2. \A c \in Columns : RegionOf[c] \in kept => image'[n][c] = images[c]
        BY <2>1 DEF StoreInv, Store!CacheIs
      <3>3. QED
        BY <3>1, <3>2 DEF CacheFaithful, Faithful, Store!Slots
    <2>2. CASE n # m
      <3>1. cached'[n] = cached[n] /\ image'[n] = image[n]
        BY <2>2 DEF StoreInv, Store!CacheIs
      <3>2. QED
        BY <3>1 DEF StoreInv, CacheFaithful, Faithful, Store!Slots
    <2>3. QED
      BY <2>1, <2>2
  <1>3. QED
    BY <1>1, <1>2

\* The write of a region ends, and nobody else is disturbed.
LEMMA HeldKeeps ==
  ASSUME StoreInv, NEW m \in Managers, held' = [held EXCEPT ![m] = NoWrite],
         UNCHANGED failedRestore
  PROVE  DOMAIN held' = Managers /\ \A n \in Managers : HeldFaithful(n)'
  <1>1. DOMAIN held' = Managers
    BY DEF StoreInv
  <1>2. ASSUME NEW n \in Managers PROVE HeldFaithful(n)'
    <2>1. CASE n = m
      BY <2>1 DEF StoreInv, HeldFaithful
    <2>2. CASE n # m
      BY <2>2 DEF StoreInv, HeldFaithful, Faithful, Writable, Store!Slots
    <2>3. QED
      BY <2>1, <2>2
  <1>3. QED
    BY <1>1, <1>2

LEMMA DiskKeeps ==
  ASSUME StoreInv, NEW m \in Managers, held[m] # NoWrite, UNCHANGED failedRestore,
         UNCHANGED disk \/ Store!DiskHolds(m, Store!NewImage(m))
  PROVE  \A c \in Columns : Faithful(c, disk[c])'
  <1>1. CASE UNCHANGED disk
    BY <1>1 DEF StoreInv, Faithful, Store!Slots
  <1>2. CASE Store!DiskHolds(m, Store!NewImage(m))
    <2>1. ASSUME NEW c \in Columns PROVE Faithful(c, disk'[c])
      <3>1. CASE RegionOf[c] = held[m].region
        BY <1>2, <3>1, NewImageFaithful DEF Store!DiskHolds
      <3>2. CASE RegionOf[c] # held[m].region
        BY <1>2, <3>2 DEF Store!DiskHolds, StoreInv
      <3>3. QED
        BY <3>1, <3>2
    <2>2. QED
      BY <2>1 DEF Faithful, Store!Slots
  <1>3. QED
    BY <1>1, <1>2

LEMMA OverlaidFaithful ==
  ASSUME StoreInv, NEW m \in Managers, NEW r, NEW f, NEW kept,
         \A c \in Columns : RegionOf[c] = r => Faithful(c, f[c]),
         \A q \in kept : q \in cached[m] \/ q = r
  PROVE  \A c \in Columns : RegionOf[c] \in kept => Faithful(c, Store!Overlaid(m, r, f)[c])
  BY DEF StoreInv, CacheFaithful, Store!Overlaid

LEMMA ReplaceKeeps ==
  ASSUME StoreInv, NEW m \in Managers, UNCHANGED failedRestore,
         Store!Replace(m) \/ \E renamed \in BOOLEAN : Store!ReplaceFails(m, renamed)
  PROVE  StoreInv'
  <1>1. /\ held[m] # NoWrite
        /\ held' = [held EXCEPT ![m] = NoWrite]
        /\ UNCHANGED disk \/ Store!DiskHolds(m, Store!NewImage(m))
    BY DEF Store!Replace, Store!ReplaceFails
  <1>2. /\ DOMAIN cached' = Managers /\ DOMAIN image' = Managers
        /\ \A n \in Managers : CacheFaithful(n)'
    <2>1. CASE Store!Replace(m)
      <3>1. PICK kept \in Store!Keep(cached[m] \union {held[m].region}) :
              Store!CacheIs(m, kept,
                Store!Overlaid(m, held[m].region, Store!NewImage(m)),
                (stamped[m] \union {held[m].region})
                  \ ((cached[m] \union {held[m].region}) \ kept))
        BY <2>1 DEF Store!Replace
      <3>2. \A q \in kept : q \in cached[m] \/ q = held[m].region
        BY <3>1 DEF Store!Keep
      <3>3. \A c \in Columns :
              RegionOf[c] = held[m].region => Faithful(c, Store!NewImage(m)[c])
        BY <1>1, NewImageFaithful
      <3>4. QED
        BY <3>1, <3>2, <3>3, OverlaidFaithful, CacheKeeps
    <2>2. CASE \E renamed \in BOOLEAN : Store!ReplaceFails(m, renamed)
      <3>1. Store!CacheIs(m, cached[m] \union {held[m].region},
              Store!Overlaid(m, held[m].region, held[m].base), stamped[m])
        BY <2>2 DEF Store!ReplaceFails
      <3>2. \A c \in Columns :
              RegionOf[c] = held[m].region => Faithful(c, held[m].base[c])
        BY <1>1, NewImageFaithful
      <3>3. \A q \in cached[m] \union {held[m].region} :
              q \in cached[m] \/ q = held[m].region
        OBVIOUS
      <3>4. QED
        BY <3>1, <3>2, <3>3, OverlaidFaithful, CacheKeeps
    <2>3. QED
      BY <2>1, <2>2
  <1>3. QED
    BY <1>1, <1>2, HeldKeeps, DiskKeeps DEF StoreInv

-----------------------------------------------------------------------------
(* Lemmas about the queue and the dirty revisions.                          *)

\* Both ends of the queue.
LEMMA AppendKeeps ==
  ASSUME WorkerInv, NEW j, JobWritable(j), queue' = Append(queue, j),
         UNCHANGED <<failedRestore, worker>>
  PROVE  WorkerInv'
  <1> DEFINE S == {queue[i] : i \in DOMAIN queue} \union {j}
  <1>1. queue \in Seq(S) /\ j \in S
    <2>1. {queue[i] : i \in DOMAIN queue} \subseteq S
      OBVIOUS
    <2>2. QED
      BY <2>1, SeqMonotonic DEF WorkerInv
  <1>2. /\ queue' \in Seq(S)
        /\ Len(queue') = Len(queue) + 1
        /\ \A i \in 1 .. Len(queue) + 1 :
             queue'[i] = IF i <= Len(queue) THEN queue[i] ELSE j
    <2>1. /\ Append(queue, j) \in Seq(S)
          /\ Len(Append(queue, j)) = Len(queue) + 1
          /\ \A i \in 1 .. Len(queue) + 1 :
               Append(queue, j)[i] = IF i <= Len(queue) THEN queue[i] ELSE j
      BY <1>1, AppendProperties
    <2>2. QED
      BY <2>1
  <1>3. DOMAIN queue' = 1 .. Len(queue') /\ Len(queue) \in Nat
    BY <1>1, <1>2, LenProperties
  <1>4. \A i \in 1 .. Len(queue') : JobWritable(queue'[i])
    BY <1>2, <1>3 DEF WorkerInv
  <1>5. queue' \in Seq({queue'[i] : i \in DOMAIN queue'})
    BY <1>2, <1>3, LenProperties, ElementOfSeq
  <1>6. QED
    BY <1>4, <1>5 DEF WorkerInv, JobWritable, Writable

LEMMA TailKeeps ==
  ASSUME WorkerInv, queue # << >>, UNCHANGED failedRestore
  PROVE  /\ JobWritable(Head(queue))
         /\ queue' = Tail(queue) =>
              /\ queue' \in Seq({queue'[i] : i \in DOMAIN queue'})
              /\ \A i \in 1 .. Len(queue') : JobWritable(queue'[i])
  <1> DEFINE S == {queue[i] : i \in DOMAIN queue}
  <1>1. queue \in Seq(S) /\ Len(queue) \in Nat \ {0}
    BY EmptySeq DEF WorkerInv
  <1>2. Head(queue) = queue[1]
    BY <1>1
  <1>3. JobWritable(Head(queue))
    BY <1>1, <1>2 DEF WorkerInv
  <1>4. ASSUME queue' = Tail(queue)
        PROVE  /\ queue' \in Seq({queue'[i] : i \in DOMAIN queue'})
               /\ \A i \in 1 .. Len(queue') : JobWritable(queue'[i])
    <2>1. /\ queue' \in Seq(S)
          /\ Len(queue') = Len(queue) - 1
          /\ \A i \in 1 .. Len(queue') : queue'[i] = queue[i + 1]
      BY <1>1, <1>4, HeadTailProperties
    <2>2. DOMAIN queue' = 1 .. Len(queue')
      BY <2>1, LenProperties
    <2>3. queue' \in Seq({queue'[i] : i \in DOMAIN queue'})
      BY <2>1, <2>2, LenProperties
    <2>4. \A i \in 1 .. Len(queue') : JobWritable(queue'[i])
      <3>1. TAKE i \in 1 .. Len(queue')
      <3>2. i + 1 \in 1 .. Len(queue)
        BY <1>1, <2>1
      <3>3. JobWritable(queue[i + 1])
        BY <3>2 DEF WorkerInv
      <3>4. QED
        BY <2>1, <3>3
    <2>5. QED
      BY <2>3, <2>4
  <1>5. QED
    BY <1>3, <1>4

\* An ack moves a revision that is in flight and touches no other column.
LEMMA AckKeeps ==
  ASSUME WorldInv, NEW a, ApplyAck(a), UNCHANGED <<content, failedRestore, edits>>
  PROVE  WorldInv'
  <1>1. ASSUME NEW c \in Columns, NEW rev, NEW ok
        PROVE  Acknowledged(c, rev, ok) # Clean => dirty[c] # Clean
    BY DEF Acknowledged, Clean
  <1>2. /\ DOMAIN dirty' = Columns
        /\ \A c \in Columns : dirty'[c] # Clean => dirty[c] # Clean
    <2>1. CASE a.job.kind = "chunks"
      <3>1. dirty' = [c \in Columns |->
              IF c \in DOMAIN a.job.entries
                THEN Acknowledged(c, a.job.entries[c].rev, a.ok) ELSE dirty[c]]
        BY <2>1 DEF ApplyAck
      <3>2. QED
        BY <1>1, <3>1
    <2>2. CASE a.job.kind # "chunks"
      <3>1. dirty' = dirty
        BY <2>2 DEF ApplyAck
      <3>2. QED
        BY <3>1 DEF WorldInv
    <2>3. QED
      BY <2>1, <2>2
  <1>3. QED
    BY <1>2 DEF WorldInv, DirtyIsResident, Resident, Clean

\* What is dropped loses its revisions with its column.
LEMMA DropKeeps ==
  ASSUME WorldInv, NEW S, Drop(S), UNCHANGED <<failedRestore, edits>>
  PROVE  WorldInv'
  BY DEF WorldInv, Drop, DirtyIsResident, Resident, Clean

\* A step that touches nothing of a component keeps its part of the invariant.
LEMMA StoreStays == StoreInv /\ UNCHANGED <<storeVars, failedRestore>> => StoreInv'
  BY DEF StoreInv, storeVars, CacheFaithful, HeldFaithful, Faithful, Writable, Store!Slots

LEMMA WorkerStays ==
  WorkerInv /\ UNCHANGED <<queue, worker, failedRestore>> => WorkerInv'
  BY DEF WorkerInv, JobWritable, Writable

LEMMA WorldStays ==
  WorldInv /\ UNCHANGED <<edits, failedRestore, content, dirty>> => WorldInv'
  BY DEF WorldInv, DirtyIsResident, Resident, Clean

LEMMA TickStays == TickInv /\ UNCHANGED <<content, tick>> => TickInv'
  BY DEF TickInv, Resident

\* Outside a flush nothing is to flush.
LEMMA TickElsewhere ==
  ASSUME TickInv, tick'.phase # "flush", {"phase", "todo"} \subseteq DOMAIN tick'
  PROVE  TickInv'
  BY DEF TickInv

LEMMA ReturnedElsewhere ==
  ASSUME TickInv, NEW r, tick' = Returned(r)
  PROVE  TickInv'
  BY DEF TickInv, Returned

-----------------------------------------------------------------------------
(* The invariant.                                                           *)

\* A runtime that boots over files of the right shape satisfies it.
LEMMA InitInv == Init => Inv
  <1> SUFFICES ASSUME Init PROVE Inv
    OBVIOUS
  <1> USE ChunkSaveAssumption
  <1>1. \A c \in Columns : disk[c] \in {NoData, BadPayload}
    BY DEF Init
  <1>2. StoreInv
    BY <1>1 DEF Init, Store!Init, StoreInv, CacheFaithful, HeldFaithful, Faithful,
                Store!Slots, Payloads, FailedToRestore
  <1>3. WorkerInv
    BY EmptySeq DEF Init, WorkerInv
  <1>4. WorldInv
    BY <1>1 DEF Init, WorldInv, DirtyIsResident, Resident, Restored, FailedToRestore
  <1>5. TickInv
    BY DEF Init, TickInv
  <1>6. QED
    BY <1>2, <1>3, <1>4, <1>5 DEF Inv

\* Init and Booted restore what the files hold.
LEMMA BootInv ==
  ASSUME Inv, Store!Restart, Booted, UNCHANGED edits
  PROVE  Inv'
  <1> USE ChunkSaveAssumption
  <1>1. \A c \in Columns : disk[c] \in Store!Slots
    BY DEF Inv, StoreInv, Faithful
  <1>2. failedRestore' = FailedToRestore /\ disk' = disk
    BY DEF Booted, Store!Restart
  <1>3. \A c \in Columns : Faithful(c, disk[c])'
    BY <1>1, <1>2 DEF Faithful, FailedToRestore, Store!Slots
  <1>4. StoreInv'
    BY <1>3 DEF Store!Restart, StoreInv, CacheFaithful, HeldFaithful
  <1>5. WorkerInv'
    BY EmptySeq DEF Booted, WorkerInv
  <1>6. WorldInv'
    <2>1. content' \in [Columns -> (SUBSET Edit) \union {NotResident}]
      BY <1>1 DEF Booted, Restored, Store!Slots, Payloads
    <2>2. \A c \in FailedToRestore : content'[c] = NotResident
      BY DEF Booted, Restored, FailedToRestore
    <2>3. QED
      BY <1>2, <2>1, <2>2
      DEF Inv, Booted, WorldInv, DirtyIsResident, Resident, FailedToRestore
  <1>7. TickInv'
    BY DEF Booted, TickInv
  <1>8. QED
    BY <1>4, <1>5, <1>6, <1>7 DEF Inv

\* The tick thread keeps it.
LEMMA TickThreadInv == Inv /\ TickThread => Inv'
  <1> SUFFICES ASSUME Inv, TickThread PROVE Inv'
    OBVIOUS
  <1> USE ChunkSaveAssumption
  <1>0. StoreInv /\ WorkerInv /\ WorldInv /\ TickInv
    BY DEF Inv
  <1>1. CASE DrainAck
    <2>1. WorldInv'
      BY <1>0, <1>1, AckKeeps DEF DrainAck, counters
    <2>2. TickInv'
      BY <1>0, <1>1, TickElsewhere DEF DrainAck, TickInv
    <2>3. QED
      BY <1>0, <1>1, <2>1, <2>2, StoreStays, WorkerStays DEF DrainAck, Inv
  <1>2. CASE DrainDone \/ BeginEvict \/ EndTick \/ Close
    <2>1. /\ UNCHANGED <<storeVars, worldVars, counters, queue, worker>>
          /\ tick'.phase # "flush" /\ {"phase", "todo"} \subseteq DOMAIN tick'
      BY <1>0, <1>2 DEF DrainDone, BeginEvict, EndTick, Close, TickInv, workerVars
    <2>2. QED
      BY <1>0, <2>1, StoreStays, WorkerStays, WorldStays, TickElsewhere
      DEF Inv, worldVars, counters
  <1>3. ASSUME NEW d \in Dimensions, EvictClean(d) PROVE Inv'
    <2>1. WorldInv'
      BY <1>0, <1>3, DropKeeps DEF EvictClean, counters
    <2>2. tick'.phase # "flush" /\ {"phase", "todo"} \subseteq DOMAIN tick'
      BY <1>0, <1>3 DEF EvictClean, TickInv
    <2>3. QED
      BY <1>0, <1>3, <2>1, <2>2, StoreStays, WorkerStays, TickElsewhere
      DEF EvictClean, Inv, workerVars
  <1>4. ASSUME NEW d \in Dimensions, EvictDirty(d) PROVE Inv'
    <2>1. TickInv'
      BY <1>0, <1>4 DEF EvictDirty, TickInv, Unkept, ColumnsOf, Resident, worldVars
    <2>2. QED
      BY <1>0, <1>4, <2>1, StoreStays, WorkerStays, WorldStays
      DEF EvictDirty, Inv, workerVars, worldVars, counters
  <1>5. CASE FlushTake
    <2> DEFINE r == Least({RegionOf[c] : c \in tick.todo})
    <2>1. PICK S \in SUBSET tick.todo : Store!Take("tick", r, [c \in S |-> content[c]])
      BY <1>5 DEF FlushTake
    <2>2. \A c \in S : Writable(c, content[c])
      BY <1>0, <1>5 DEF FlushTake, TickInv, WorldInv, Writable, Resident
    <2>3. StoreInv'
      BY <1>0, <1>5, <2>1, <2>2, TakeKeeps DEF FlushTake, worldVars, Managers
    <2>4. QED
      BY <1>0, <1>5, <2>3, WorkerStays, WorldStays, TickStays
      DEF FlushTake, Inv, workerVars, worldVars, counters
  <1>6. CASE FlushReplace
    <2>1. StoreInv'
      BY <1>0, <1>6, ReplaceKeeps DEF FlushReplace, Managers
    <2>2. WorldInv'
      BY <1>0, <1>6, DropKeeps, WorldStays DEF FlushReplace, counters
    <2>3. TickInv'
      <3>1. /\ {"phase", "todo"} \subseteq DOMAIN tick'
            /\ tick'.todo = tick.todo \ DOMAIN held["tick"].entries
        BY <1>0, <1>6 DEF FlushReplace, TickInv
      <3>2. \A c \in Columns \ DOMAIN held["tick"].entries : content'[c] = content[c]
        BY <1>0, <1>6 DEF FlushReplace, Drop, WorldInv
      <3>3. QED
        BY <1>0, <1>6, <3>1, <3>2 DEF FlushReplace, TickInv, Resident
    <2>4. QED
      BY <1>0, <1>6, <2>1, <2>2, <2>3, WorkerStays DEF FlushReplace, Inv, workerVars
  <1>7. CASE FlushDone
    <2>1. WorldInv'
      BY <1>0, <1>7, DropKeeps DEF FlushDone, counters
    <2>2. tick'.phase # "flush" /\ {"phase", "todo"} \subseteq DOMAIN tick'
      BY <1>0, <1>7 DEF FlushDone, TickInv
    <2>3. QED
      BY <1>0, <1>7, <2>1, <2>2, StoreStays, WorkerStays, TickElsewhere
      DEF FlushDone, Inv, workerVars
  <1>8. CASE SaveChunks
    <2> DEFINE d == Least(tick.dims)
               S == {c \in ColumnsOf(d) : IsDirty(c) /\ Resident(c)}
               entries == [c \in S |-> [rev |-> dirty[c].rev, data |-> content[c]]]
    <2>1. WorldInv'
      <3>1. \A c \in Columns : dirty'[c] # Clean => dirty[c] # Clean
        BY <1>0, <1>8 DEF SaveChunks, IsDirty, Clean, ColumnsOf
      <3>2. DOMAIN dirty' = Columns
        BY <1>0, <1>8 DEF SaveChunks, WorldInv
      <3>3. QED
        BY <1>0, <1>8, <3>1, <3>2
        DEF SaveChunks, WorldInv, DirtyIsResident, Resident, Clean, counters
    <2>2. WorkerInv'
      <3>1. CASE UNCHANGED queue
        BY <1>0, <1>8, <3>1, WorkerStays DEF SaveChunks
      <3>2. CASE queue' = Append(queue, ChunkJob(d, entries))
        <4>1. \A c \in S : Writable(c, content[c])
          BY <1>0 DEF WorldInv, Writable, Resident, ColumnsOf
        <4>2. JobWritable(ChunkJob(d, entries))
          BY <4>1 DEF JobWritable, ChunkJob
        <4>3. QED
          BY <1>0, <1>8, <3>2, <4>2, AppendKeeps DEF SaveChunks
      <3>3. QED
        BY <1>8, <3>1, <3>2 DEF SaveChunks
    <2>3. TickInv'
      <3>1. CASE tick' = Returned("err")
        BY <1>0, <3>1, ReturnedElsewhere
      <3>2. CASE tick' = [tick EXCEPT !.phase = "entities"]
        BY <1>0, <3>2 DEF TickInv
      <3>3. QED
        BY <1>8, <3>1, <3>2 DEF SaveChunks
    <2>4. QED
      BY <1>0, <1>8, <2>1, <2>2, <2>3, StoreStays DEF SaveChunks, Inv
  <1>9. CASE SaveEntities
    <2>1. WorkerInv'
      <3>1. JobWritable(EntityJob(Least(tick.dims)))
        BY DEF JobWritable, EntityJob
      <3>2. QED
        BY <1>0, <1>9, <3>1, AppendKeeps, WorkerStays DEF SaveEntities, worldVars
    <2>2. TickInv'
      <3>1. CASE tick' = Returned("err")
        BY <1>0, <3>1, ReturnedElsewhere
      <3>2. CASE tick' # Returned("err")
        BY <1>0, <1>9, <3>2 DEF SaveEntities, TickInv
      <3>3. QED
        BY <3>1, <3>2
    <2>3. QED
      BY <1>0, <1>9, <2>1, <2>2, StoreStays, WorldStays
      DEF SaveEntities, Inv, worldVars, counters
  <1>10. CASE SaveSidecars
    <2>1. WorkerInv'
      <3>1. JobWritable(SidecarJob)
        BY DEF JobWritable, SidecarJob
      <3>2. QED
        BY <1>0, <1>10, <3>1, AppendKeeps, WorkerStays DEF SaveSidecars, worldVars
    <2>2. TickInv'
      <3>1. CASE \E r \in {"ok", "err"} : tick' = Returned(r)
        BY <1>0, <3>1, ReturnedElsewhere
      <3>2. CASE tick' = [tick EXCEPT !.phase = "barrier"]
        BY <1>0, <3>2 DEF TickInv
      <3>3. QED
        BY <1>10, <3>1, <3>2 DEF SaveSidecars
    <2>3. QED
      BY <1>0, <1>10, <2>1, <2>2, StoreStays, WorldStays
      DEF SaveSidecars, Inv, worldVars, counters
  <1>11. CASE EnqueueBarrier
    <2>1. WorkerInv'
      <3>1. JobWritable(BarrierJob(saveAlls))
        BY DEF JobWritable, BarrierJob
      <3>2. QED
        BY <1>0, <1>11, <3>1, AppendKeeps DEF EnqueueBarrier, worldVars
    <2>2. TickInv'
      BY <1>0, <1>11 DEF EnqueueBarrier, TickInv
    <2>3. QED
      BY <1>0, <1>11, <2>1, <2>2, StoreStays, WorldStays
      DEF EnqueueBarrier, Inv, worldVars, counters
  <1>12. CASE WaitAck
    <2>1. WorldInv'
      BY <1>0, <1>12, AckKeeps DEF WaitAck, counters
    <2>2. TickInv'
      <3>1. CASE \E r \in {"ok", "err"} : tick' = Returned(r)
        BY <1>0, <3>1, ReturnedElsewhere
      <3>2. CASE tick' = [tick EXCEPT !.failed = SomeFailed(Head(acks))]
        BY <1>0, <1>12, <3>2 DEF WaitAck, TickInv
      <3>3. tick' = Returned("err") \/ tick' = Returned("ok")
              \/ tick' = [tick EXCEPT !.failed = SomeFailed(Head(acks))]
        BY <1>12 DEF WaitAck
      <3>4. QED
        BY <3>1, <3>2, <3>3
    <2>3. QED
      BY <1>0, <1>12, <2>1, <2>2, StoreStays, WorkerStays DEF WaitAck, Inv
  <1>13. CASE DiscardAck
    BY <1>0, <1>13, StoreStays, WorkerStays, WorldStays, TickStays
    DEF DiscardAck, Inv, worldVars, counters
  <1>14. QED
    BY <1>1, <1>2, <1>3, <1>4, <1>5, <1>6, <1>7, <1>8, <1>9, <1>10, <1>11, <1>12, <1>13
    DEF TickThread

\* So does the save thread.
LEMMA WorkerInductive == Inv /\ Worker => Inv'
  <1> SUFFICES ASSUME Inv, Worker PROVE Inv'
    OBVIOUS
  <1>0. StoreInv /\ WorkerInv /\ WorldInv /\ TickInv
    BY DEF Inv
  <1>1. CASE Receive
    <2> DEFINE j == Head(queue)
    <2>1. queue # << >> /\ queue' = Tail(queue) /\ UNCHANGED failedRestore
      BY <1>1 DEF Receive, worldVars
    <2>2. JobWritable(j)
      BY <1>0, <2>1, TailKeeps
    <2>3. /\ queue' \in Seq({queue'[i] : i \in DOMAIN queue'})
          /\ \A i \in 1 .. Len(queue') : JobWritable(queue'[i])
      BY <1>0, <2>1, TailKeeps
    <2>4. /\ {"job", "todo"} \subseteq DOMAIN worker'
          /\ worker'.job = j
          /\ worker'.todo # {} => j.kind = "chunks"
      <3>1. CASE j.kind \in {"chunks", "barrier"}
        BY <1>1, <3>1 DEF Receive
      <3>2. CASE j.kind \in {"entities", "sidecars"}
        BY <1>1, <3>2 DEF Receive
      <3>3. QED
        BY <1>1, <3>1, <3>2 DEF Receive
    <2>5. WorkerInv'
      BY <2>1, <2>2, <2>3, <2>4 DEF WorkerInv, JobWritable, Writable
    <2>6. QED
      BY <1>0, <1>1, <2>5, StoreStays, WorldStays, TickStays DEF Receive, Inv, worldVars
  <1>2. CASE WorkerTake
    <2> DEFINE r == Least(worker.todo)
               S == {c \in DOMAIN worker.job.entries : RegionOf[c] = r}
    <2>1. \A c \in S : Writable(c, worker.job.entries[c].data)
      BY <1>0, <1>2 DEF WorkerTake, WorkerInv, JobWritable
    <2>2. Store!Take("worker", r, [c \in S |-> worker.job.entries[c].data])
      BY <1>2 DEF WorkerTake
    <2>3. StoreInv'
      BY <1>0, <1>2, <2>1, <2>2, TakeKeeps DEF WorkerTake, worldVars, Managers
    <2>4. QED
      BY <1>0, <1>2, <2>3, WorkerStays, WorldStays, TickStays
      DEF WorkerTake, Inv, workerVars, worldVars, counters
  <1>3. CASE WorkerReplace
    <2>1. StoreInv'
      BY <1>0, <1>3, ReplaceKeeps DEF WorkerReplace, worldVars, Managers
    <2>2. WorkerInv'
      <3>1. /\ {"job", "todo"} \subseteq DOMAIN worker'
            /\ worker'.job = worker.job
            /\ worker'.todo \subseteq worker.todo
        BY <1>0, <1>3 DEF WorkerReplace, WorkerInv
      <3>2. QED
        BY <1>0, <1>3, <3>1 DEF WorkerReplace, WorkerInv, JobWritable, Writable, worldVars
    <2>3. QED
      BY <1>0, <1>3, <2>1, <2>2, WorldStays, TickStays
      DEF WorkerReplace, Inv, worldVars, counters
  <1>4. CASE SendAck
    <2>1. WorkerInv'
      BY <1>0, <1>4 DEF SendAck, WorkerInv, JobWritable, Writable, worldVars
    <2>2. QED
      BY <1>0, <1>4, <2>1, StoreStays, WorldStays, TickStays
      DEF SendAck, Inv, worldVars, counters
  <1>5. QED
    BY <1>1, <1>2, <1>3, <1>4 DEF Worker

\* So do players, entities, failing writes, saves on request and the autosave.
LEMMA EnvironmentInv == Inv /\ (Autosave \/ Environment) /\ ~Restart => Inv'
  <1> SUFFICES ASSUME Inv, Autosave \/ Environment, ~Restart PROVE Inv'
    OBVIOUS
  <1> USE ChunkSaveAssumption
  <1>0. StoreInv /\ WorkerInv /\ WorldInv /\ TickInv
    BY DEF Inv
  <1>1. CASE Autosave \/ SaveAll \/ Shutdown \/ WaitTimeout
    <2>1. UNCHANGED <<storeVars, worldVars, queue, worker, edits>>
      BY <1>1 DEF Autosave, SaveAll, Shutdown, WaitTimeout, workerVars, counters
    <2>2. TickInv'
      <3>1. CASE \E kind \in {"tick", "console", "shutdown"} : StartSave(kind)
        BY <1>0, <3>1 DEF StartSave, TickInv
      <3>2. CASE WaitTimeout
        BY <1>0, <3>2, ReturnedElsewhere DEF WaitTimeout
      <3>3. QED
        BY <1>1, <3>1, <3>2 DEF Autosave, SaveAll, Shutdown
    <2>3. QED
      BY <1>0, <2>1, <2>2, StoreStays, WorkerStays, WorldStays DEF Inv, worldVars
  <1>2. ASSUME NEW c \in Columns, Mutate(c) PROVE Inv'
    <2>1. content'[c] \in SUBSET Edit /\ content'[c] # NotResident
      <3>1. edits + 1 \in Edit
        BY <1>0, <1>2 DEF Mutate, WorldInv, Edit
      <3>2. content'[c] = (IF Resident(c) THEN content[c] ELSE {}) \union {edits + 1}
        BY <1>0, <1>2 DEF Mutate, WorldInv
      <3>3. content'[c] \in SUBSET Edit
        BY <1>0, <3>1, <3>2 DEF WorldInv, Resident
      <3>4. QED
        BY <3>3 DEF Edit
    <2>2. /\ \A b \in Columns \ {c} : content'[b] = content[b] /\ dirty'[b] = dirty[b]
          /\ content' \in [Columns -> (SUBSET Edit) \union {NotResident}]
          /\ DOMAIN dirty' = Columns
      BY <1>0, <1>2, <2>1 DEF Mutate, WorldInv
    <2>3. WorldInv'
      BY <1>0, <1>2, <2>1, <2>2
      DEF Mutate, WorldInv, DirtyIsResident, Resident, Clean
    <2>4. TickInv'
      BY <1>0, <1>2 DEF Mutate, TickInv
    <2>5. QED
      BY <1>0, <1>2, <2>3, <2>4, StoreStays, WorkerStays DEF Mutate, Inv, workerVars
  <1>3. ASSUME NEW c \in Columns, Materialize(c) PROVE Inv'
    <2>1. WorldInv'
      BY <1>0, <1>3
      DEF Materialize, WorldInv, DirtyIsResident, Resident, Clean, counters, Edit
    <2>2. TickInv'
      BY <1>0, <1>3 DEF Materialize, TickInv
    <2>3. QED
      BY <1>0, <1>3, <2>1, <2>2, StoreStays, WorkerStays DEF Materialize, Inv, workerVars
  <1>4. ASSUME NEW k \in SUBSET Columns, Move(k) PROVE Inv'
    BY <1>0, <1>4, StoreStays, WorkerStays, WorldStays, TickStays
    DEF Move, Inv, workerVars, counters
  <1>5. ASSUME NEW d \in Dimensions, EntityChange(d) PROVE Inv'
    BY <1>0, <1>5, StoreStays, WorkerStays, WorldStays, TickStays
    DEF EntityChange, Inv, workerVars, counters
  <1>6. ASSUME NEW renamed \in BOOLEAN, FlushFails(renamed) PROVE Inv'
    <2>1. StoreInv'
      BY <1>0, <1>6, ReplaceKeeps DEF FlushFails, worldVars, Managers
    <2>2. TickInv'
      BY <1>0, <1>6 DEF FlushFails, TickInv, Unkept, ColumnsOf, Resident, worldVars
    <2>3. QED
      BY <1>0, <1>6, <2>1, <2>2, WorkerStays, WorldStays
      DEF FlushFails, Inv, workerVars, worldVars
  <1>7. ASSUME NEW renamed \in BOOLEAN, WorkerFails(renamed) PROVE Inv'
    <2>1. StoreInv'
      BY <1>0, <1>7, ReplaceKeeps DEF WorkerFails, worldVars, Managers
    <2>2. WorkerInv'
      <3>1. /\ {"job", "todo"} \subseteq DOMAIN worker'
            /\ worker'.job = worker.job /\ worker'.todo = {}
        BY <1>0, <1>7 DEF WorkerFails, WorkerInv
      <3>2. QED
        BY <1>0, <1>7, <3>1 DEF WorkerFails, WorkerInv, JobWritable, Writable, worldVars
    <2>3. QED
      BY <1>0, <1>7, <2>1, <2>2, WorldStays, TickStays DEF WorkerFails, Inv, worldVars
  <1>8. QED
    BY <1>1, <1>2, <1>3, <1>4, <1>5, <1>6, <1>7 DEF Environment

LEMMA StepInv == Inv /\ [Next]_vars => Inv'
  <1> SUFFICES ASSUME Inv, [Next]_vars PROVE Inv'
    OBVIOUS
  <1>1. CASE TickThread
    BY <1>1, TickThreadInv
  <1>2. CASE Worker
    BY <1>2, WorkerInductive
  <1>3. CASE (Autosave \/ Environment) /\ ~Restart
    BY <1>3, EnvironmentInv
  <1>4. CASE Restart
    BY <1>4, BootInv DEF Restart
  <1>5. CASE UNCHANGED vars
    BY <1>5, StoreStays, WorkerStays, WorldStays, TickStays
    DEF vars, storeVars, worldVars, workerVars, counters, Inv
  <1>6. QED
    BY <1>1, <1>2, <1>3, <1>4, <1>5 DEF Next

\* The columns that failed are the ones that do not decode, and stay so for the
\* lifetime of the runtime.
LEMMA FailedStay ==
  ASSUME Inv, [Next]_vars, NEW c \in Columns, disk[c] = BadPayload
  PROVE  disk'[c] = BadPayload
  <1>1. CASE Restart
    BY <1>1 DEF Restart, Store!Restart
  <1>2. CASE ~Restart
    <2>1. UNCHANGED failedRestore
      BY <1>2
      DEF Next, TickThread, Worker, Environment, vars, worldVars,
          DrainAck, DrainDone, BeginEvict, EvictClean, EvictDirty, FlushTake,
          FlushReplace, FlushDone, EndTick, SaveChunks, SaveEntities, SaveSidecars,
          EnqueueBarrier, WaitAck, DiscardAck, Close, Autosave, Receive, WorkerTake,
          WorkerReplace, SendAck, Mutate, Materialize, Move, EntityChange, SaveAll,
          Shutdown, WaitTimeout, FlushFails, WorkerFails
    <2>2. Inv'
      BY StepInv
    <2>3. QED
      BY <2>1, <2>2 DEF Inv, StoreInv, Faithful
  <1>3. QED
    BY <1>1, <1>2

-----------------------------------------------------------------------------
\* Eviction leaves no dirty entry behind: a column that is not resident has no
\* revision that a later save would skip (remove_resident_chunk).
THEOREM DirtyColumnsAreResident == Spec => []DirtyIsResident
  <1>1. Inv => DirtyIsResident
    BY DEF Inv, WorldInv
  <1>2. QED
    BY <1>1, InitInv, StepInv, PTL DEF Spec

\* A column whose saved payload did not decode is never saved over: neither by
\* the batches of the save thread nor by those of eviction, whatever the caches
\* of the two managers hold (restore_authority_state, take_region_for_write).
THEOREM UndecodableColumnsStay == Spec => FailClosed
  <1>1. Inv /\ [Next]_vars
          => [\A c \in Columns : disk[c] = BadPayload => disk'[c] = BadPayload]_vars
    BY FailedStay
  <1>2. QED
    BY <1>1, InitInv, StepInv, PTL DEF Spec, FailClosed
-----------------------------------------------------------------------------
(* 2. Jobs, acks and entity files.                                           *)

Entries == UNION {[S -> [rev : Nat, data : SUBSET Edit]] : S \in SUBSET Columns}
AnyJob ==
  [kind : {"chunks"}, dim : Dimensions, entries : Entries]
    \union [kind : {"entities"}, dim : Dimensions, epoch : Nat]
    \union [kind : {"sidecars"}]
    \union [kind : {"barrier"}, id : Nat]
AnyAck == [job : AnyJob, ok : BOOLEAN]
Busy == [job : AnyJob, ok : BOOLEAN, todo : SUBSET Regions]
Revisions == [state : {"none", "dirty", "inflight", "persisted"}, rev : Nat]

\* The part of the types the argument needs, beyond Inv.
ChannelTypes == queue \in Seq(AnyJob) /\ acks \in Seq(AnyAck) /\ worker \in {Idle} \union Busy
WorldTypes ==
  /\ dirty \in [Columns -> Revisions]
  /\ epoch \in [Dimensions -> Nat]
  /\ persisted \in [Dimensions -> Nat]
  /\ entityFile \in [Dimensions -> Nat]
  /\ saveAlls \in Nat
PlaceTypes ==
  /\ {"phase", "alive", "dims", "todo"} \subseteq DOMAIN tick
  /\ tick.dims \subseteq Dimensions
  /\ tick.phase = "entities" => tick.dims # {}
JobTypes == ChannelTypes /\ WorldTypes /\ PlaceTypes

\* A job goes through queue, worker and acks in order, and epochs only grow: what is
\* still to be written is newer than the file, and what was acked is not.
Dumps(j, d) == j.kind = "entities" /\ j.dim = d
EpochOrder ==
  \A d \in Dimensions :
    /\ persisted[d] <= entityFile[d] /\ entityFile[d] <= epoch[d]
    /\ \A i \in DOMAIN queue : Dumps(queue[i], d) =>
         /\ entityFile[d] <= queue[i].epoch /\ queue[i].epoch <= epoch[d]
         /\ \A k \in DOMAIN queue : k < i /\ Dumps(queue[k], d) => queue[k].epoch <= queue[i].epoch
    /\ worker # Idle /\ worker.ok /\ Dumps(worker.job, d) => worker.job.epoch <= entityFile[d]
    /\ \A i \in DOMAIN acks :
         acks[i].ok /\ Dumps(acks[i].job, d) => acks[i].job.epoch <= entityFile[d]

-----------------------------------------------------------------------------
(* Lemmas about numbers and channels.                                        *)

LEMMA LeastIsMember ==
  ASSUME NEW S, S \subseteq Nat, S # {}
  PROVE  Least(S) \in S
  <1> DEFINE T == {0 .. n : n \in S}
             R == StrictSubsetOrdering(Nat)
  <1>1. T \subseteq FiniteSubsetsOf(Nat) /\ T # {}
    <2>1. ASSUME NEW n \in S PROVE 0 .. n \in FiniteSubsetsOf(Nat)
      <3>1. n \in Int /\ 0 \in Int /\ 0 .. n \in SUBSET Nat
        OBVIOUS
      <3>2. IsFiniteSet(0 .. n)
        BY <3>1, FS_Interval
      <3>3. QED
        BY <3>1, <3>2 DEF FiniteSubsetsOf
    <2>2. QED
      BY <2>1
  <1>2. PICK I \in T : \A J \in T : ~(<<J, I>> \in R)
    <2>1. IsWellFoundedOn(R, FiniteSubsetsOf(Nat))
      BY FS_StrictSubsetOrderingWellFounded
    <2> HIDE DEF T, R
    <2>2. QED
      BY <1>1, <2>1, WFMin
  <1>3. PICK x \in S : I = 0 .. x
    BY <1>2
  <1>4. \A y \in S : x <= y
    <2> SUFFICES ASSUME NEW y \in S, y < x PROVE FALSE
      OBVIOUS
    <2>1. 0 .. y \in T /\ 0 .. x \in T
      OBVIOUS
    <2>2. 0 .. y \subseteq 0 .. x /\ 0 .. y # 0 .. x /\ 0 .. y \subseteq Nat /\ 0 .. x \subseteq Nat
      OBVIOUS
    <2>3. <<0 .. y, 0 .. x>> \in R
      BY <2>2 DEF StrictSubsetOrdering
    <2>4. QED
      BY <1>2, <1>3, <2>1, <2>3
  <1>5. QED
    BY <1>4 DEF Least

LEMMA QueueAppended ==
  ASSUME NEW S, NEW s \in Seq(S), NEW x \in S
  PROVE  /\ Append(s, x) \in Seq(S) /\ Len(s) \in Nat
         /\ DOMAIN s = 1 .. Len(s) /\ DOMAIN Append(s, x) = 1 .. Len(s) + 1
         /\ \A i \in 1 .. Len(s) : Append(s, x)[i] = s[i]
         /\ Append(s, x)[Len(s) + 1] = x
  <1>1. /\ Append(s, x) \in Seq(S) /\ Len(Append(s, x)) = Len(s) + 1
        /\ \A i \in 1 .. Len(s) : Append(s, x)[i] = s[i]
        /\ Append(s, x)[Len(s) + 1] = x
    BY AppendProperties
  <1>2. DOMAIN Append(s, x) = 1 .. Len(s) + 1 /\ Len(s) \in Nat /\ DOMAIN s = 1 .. Len(s)
    BY <1>1, LenProperties
  <1>3. QED
    BY <1>1, <1>2

LEMMA QueueTaken ==
  ASSUME NEW S, NEW s \in Seq(S), s # << >>
  PROVE  /\ Head(s) \in S /\ Head(s) = s[1] /\ Tail(s) \in Seq(S)
         /\ Len(s) \in Nat \ {0} /\ DOMAIN s = 1 .. Len(s)
         /\ DOMAIN Tail(s) = 1 .. Len(s) - 1
         /\ \A i \in DOMAIN Tail(s) : Tail(s)[i] = s[i + 1]
  <1>1. /\ Head(s) \in S /\ Tail(s) \in Seq(S) /\ Len(Tail(s)) = Len(s) - 1
        /\ \A i \in 1 .. Len(Tail(s)) : Tail(s)[i] = s[i + 1]
    BY HeadTailProperties
  <1>2. DOMAIN Tail(s) = 1 .. Len(s) - 1 /\ Len(s) \in Nat /\ DOMAIN s = 1 .. Len(s)
    BY <1>1, LenProperties
  <1>3. Len(s) # 0 /\ Head(s) = s[1]
    BY EmptySeq, SeqEqual, <1>2
  <1>4. QED
    BY <1>1, <1>2, <1>3

\* What the tick thread puts into a chunk job.
LEMMA ChunkJobType ==
  ASSUME Inv, JobTypes, NEW d \in Dimensions, NEW S,
         S = {c \in ColumnsOf(d) : IsDirty(c) /\ Resident(c)}
  PROVE  ChunkJob(d, [c \in S |-> [rev |-> dirty[c].rev, data |-> content[c]]]) \in AnyJob
  <1>1. S \in SUBSET Columns
    BY DEF ColumnsOf
  <1>2. \A c \in S : dirty[c].rev \in Nat /\ content[c] \in SUBSET Edit
    BY DEF ColumnsOf, Inv, WorldInv, JobTypes, WorldTypes, Revisions, Resident
  <1>3. [c \in S |-> [rev |-> dirty[c].rev, data |-> content[c]]]
          \in [S -> [rev : Nat, data : SUBSET Edit]]
    BY <1>2
  <1>4. QED
    BY <1>1, <1>3 DEF AnyJob, Entries, ChunkJob

-----------------------------------------------------------------------------
(* Types.                                                                    *)

LEMMA PlaceKept ==
  ASSUME PlaceTypes, UNCHANGED tick
  PROVE  PlaceTypes'
  BY DEF PlaceTypes

LEMMA PlaceReturned ==
  ASSUME PlaceTypes, NEW r, tick' = Returned(r)
  PROVE  PlaceTypes'
  BY DEF PlaceTypes, Returned

LEMMA AckTypes ==
  ASSUME Inv, JobTypes, acks # << >>, ApplyAck(Head(acks)), acks' = Tail(acks),
         UNCHANGED <<queue, worker, epoch, entityFile, saveAlls>>
  PROVE  ChannelTypes' /\ WorldTypes'
  <1>1. Head(acks) \in AnyAck /\ acks' \in Seq(AnyAck)
    BY QueueTaken DEF JobTypes, ChannelTypes
  <1> DEFINE a == Head(acks)
  <1>2. a.job \in AnyJob /\ a.ok \in BOOLEAN
    BY <1>1 DEF AnyAck
  <1> HIDE DEF a
  <1>3. dirty' \in [Columns -> Revisions]
    <2>1. CASE a.job.kind = "chunks"
      <3>1. dirty' = [c \in Columns |->
              IF c \in DOMAIN a.job.entries
                THEN Acknowledged(c, a.job.entries[c].rev, a.ok) ELSE dirty[c]]
        BY <2>1 DEF ApplyAck, a
      <3>2. \A c \in Columns : \A rev : Acknowledged(c, rev, a.ok) \in Revisions
        BY DEF Acknowledged, JobTypes, WorldTypes, Revisions
      <3>3. QED
        BY <3>1, <3>2 DEF JobTypes, WorldTypes
    <2>2. CASE a.job.kind # "chunks"
      BY <2>2 DEF ApplyAck, a, JobTypes, WorldTypes
    <2>3. QED
      BY <2>1, <2>2
  <1>4. persisted' \in [Dimensions -> Nat]
    BY DEF ApplyAck, EpochPersisted, JobTypes, WorldTypes
  <1>5. QED
    BY <1>1, <1>3, <1>4 DEF JobTypes, ChannelTypes, WorldTypes

LEMMA AppendTypes ==
  ASSUME JobTypes, NEW j \in AnyJob, queue' = Append(queue, j), UNCHANGED <<acks, worker>>
  PROVE  ChannelTypes'
  BY QueueAppended DEF JobTypes, ChannelTypes

LEMMA WorldKept ==
  ASSUME WorldTypes, UNCHANGED <<dirty, epoch, persisted, entityFile, saveAlls>>
  PROVE  WorldTypes'
  BY DEF WorldTypes

LEMMA ChannelsKept ==
  ASSUME ChannelTypes, UNCHANGED <<queue, acks, worker>>
  PROVE  ChannelTypes'
  BY DEF ChannelTypes

LEMMA DropTypes ==
  ASSUME Inv, WorldTypes, NEW S, Drop(S), UNCHANGED <<epoch, persisted, entityFile, saveAlls>>
  PROVE  WorldTypes'
  BY DEF WorldTypes, Drop, Clean, Revisions

LEMMA SavingTypes ==
  ASSUME Inv, JobTypes, SaveChunks \/ SaveEntities \/ SaveSidecars \/ EnqueueBarrier
  PROVE  JobTypes'
  <1> USE ChunkSaveAssumption
  <1>1. CASE SaveChunks
    <2> DEFINE d == Least(tick.dims)
               S == {c \in ColumnsOf(d) : IsDirty(c) /\ Resident(c)}
               entries == [c \in S |-> [rev |-> dirty[c].rev, data |-> content[c]]]
    <2>1. tick.dims # {} /\ tick.dims \subseteq Nat /\ tick.dims \subseteq Dimensions
      BY <1>1 DEF SaveChunks, JobTypes, PlaceTypes
    <2>2. d \in Dimensions
      BY <2>1, LeastIsMember
    <2>3. ChunkJob(d, entries) \in AnyJob
      BY <2>2, ChunkJobType
    <2>4. UNCHANGED <<acks, worker, epoch, persisted, entityFile, saveAlls>>
      BY <1>1 DEF SaveChunks, counters
    <2>5. \/ /\ tick' = [tick EXCEPT !.phase = "entities"]
             /\ UNCHANGED <<dirty, queue>>
          \/ /\ queue' = Append(queue, ChunkJob(d, entries))
             /\ dirty' = [c \in Columns |->
                  IF c \in S THEN [dirty[c] EXCEPT !.state = "inflight"] ELSE dirty[c]]
             /\ tick' = [tick EXCEPT !.phase = "entities"]
          \/ tick' = Returned("err") /\ UNCHANGED <<dirty, queue>>
      BY <1>1 DEF SaveChunks
    <2> HIDE DEF d, S, entries
    <2>6. ChannelTypes'
      BY <2>3, <2>4, <2>5, AppendTypes, ChannelsKept DEF JobTypes
    <2>7. WorldTypes'
      <3>1. dirty \in [Columns -> Revisions]
        BY DEF JobTypes, WorldTypes
      <3>2. \A c \in Columns : [dirty[c] EXCEPT !.state = "inflight"] \in Revisions
        BY <3>1 DEF Revisions
      <3>3. dirty' \in [Columns -> Revisions]
        BY <2>5, <3>1, <3>2
      <3>4. QED
        BY <2>4, <3>3 DEF JobTypes, WorldTypes
    <2>8. PlaceTypes'
      <3>1. CASE tick' = [tick EXCEPT !.phase = "entities"]
        BY <2>1, <3>1 DEF JobTypes, PlaceTypes
      <3>2. QED
        BY <2>5, <3>1, PlaceReturned DEF JobTypes
    <2>9. QED
      BY <2>6, <2>7, <2>8 DEF JobTypes
  <1>2. CASE SaveEntities
    <2>1. tick.dims # {} /\ tick.dims \subseteq Nat /\ tick.dims \subseteq Dimensions
      BY <1>2 DEF SaveEntities, JobTypes, PlaceTypes
    <2>2. Least(tick.dims) \in Dimensions
      BY <2>1, LeastIsMember
    <2>3. EntityJob(Least(tick.dims)) \in AnyJob
      BY <2>2 DEF EntityJob, AnyJob, JobTypes, WorldTypes
    <2>4. ChannelTypes'
      BY <1>2, <2>3, AppendTypes, ChannelsKept DEF SaveEntities, JobTypes
    <2>5. WorldTypes'
      BY <1>2, WorldKept DEF SaveEntities, JobTypes, worldVars, counters
    <2>6. PlaceTypes'
      <3>1. CASE tick' = [tick EXCEPT !.phase = "chunks", !.dims = @ \ {Least(tick.dims)}]
        BY <3>1 DEF JobTypes, PlaceTypes
      <3>2. QED
        BY <1>2, <3>1, PlaceReturned DEF SaveEntities, JobTypes
    <2>7. QED
      BY <2>4, <2>5, <2>6 DEF JobTypes
  <1>3. CASE SaveSidecars
    <2>1. SidecarJob \in AnyJob
      BY DEF SidecarJob, AnyJob
    <2>2. ChannelTypes'
      BY <1>3, <2>1, AppendTypes, ChannelsKept DEF SaveSidecars, JobTypes
    <2>3. WorldTypes'
      BY <1>3, WorldKept DEF SaveSidecars, JobTypes, worldVars, counters
    <2>4. PlaceTypes'
      <3>1. CASE tick' = [tick EXCEPT !.phase = "barrier"]
        BY <3>1 DEF JobTypes, PlaceTypes
      <3>2. QED
        BY <1>3, <3>1, PlaceReturned DEF SaveSidecars, JobTypes
    <2>5. QED
      BY <2>2, <2>3, <2>4 DEF JobTypes
  <1>4. CASE EnqueueBarrier
    <2>1. BarrierJob(saveAlls) \in AnyJob
      BY DEF BarrierJob, AnyJob, JobTypes, WorldTypes
    <2>2. ChannelTypes'
      BY <1>4, <2>1, AppendTypes DEF EnqueueBarrier
    <2>3. WorldTypes'
      BY <1>4, WorldKept DEF EnqueueBarrier, JobTypes, worldVars, counters
    <2>4. PlaceTypes'
      BY <1>4 DEF EnqueueBarrier, JobTypes, PlaceTypes
    <2>5. QED
      BY <2>2, <2>3, <2>4 DEF JobTypes
  <1>5. QED
    BY <1>1, <1>2, <1>3, <1>4

\* What the worker has in hand when it took a job.
LEMMA ReceivedBusy ==
  ASSUME JobTypes, Receive
  PROVE  worker' \in Busy /\ entityFile' \in [Dimensions -> Nat] /\ queue' \in Seq(AnyJob)
  <1> USE ChunkSaveAssumption
  <1> DEFINE j == Head(queue)
  <1>1. j \in AnyJob /\ queue' \in Seq(AnyJob)
    BY QueueTaken DEF Receive, JobTypes, ChannelTypes
  <1>2. CASE j.kind \in {"chunks", "barrier"}
    <2>1. j.kind = "chunks" => {RegionOf[c] : c \in DOMAIN j.entries} \subseteq Regions
      BY <1>1 DEF AnyJob, Entries
    <2>2. worker' = [job |-> j, ok |-> TRUE,
                     todo |-> IF j.kind = "chunks"
                                THEN {RegionOf[c] : c \in DOMAIN j.entries} ELSE {}]
          /\ UNCHANGED entityFile
      BY <1>2 DEF Receive
    <2> HIDE DEF j
    <2>3. QED
      BY <1>1, <2>1, <2>2 DEF Busy, JobTypes, WorldTypes
  <1>3. CASE j.kind \in {"entities", "sidecars"}
    <2>1. PICK ok \in BOOLEAN, written \in BOOLEAN :
            /\ entityFile' = IF written /\ j.kind = "entities"
                               THEN [entityFile EXCEPT ![j.dim] = j.epoch] ELSE entityFile
            /\ worker' = [job |-> j, ok |-> ok, todo |-> {}]
      BY <1>3 DEF Receive
    <2>2. j.kind = "entities" => j.dim \in Dimensions /\ j.epoch \in Nat
      BY <1>1 DEF AnyJob
    <2> HIDE DEF j
    <2>3. QED
      BY <1>1, <2>1, <2>2 DEF Busy, JobTypes, WorldTypes
  <1>4. QED
    BY <1>1, <1>2, <1>3 DEF Receive

LEMMA WorkerTypes ==
  ASSUME Inv, JobTypes, Worker \/ \E renamed \in BOOLEAN : WorkerFails(renamed)
  PROVE  JobTypes'
  <1> USE ChunkSaveAssumption
  <1>1. UNCHANGED <<dirty, epoch, persisted, saveAlls, tick>>
    BY DEF Worker, Receive, WorkerTake, WorkerReplace, WorkerFails, SendAck, worldVars, counters
  <1>2. PlaceTypes'
    BY <1>1, PlaceKept DEF JobTypes
  <1>3. ChannelTypes' /\ entityFile' \in [Dimensions -> Nat]
    <2>1. CASE Receive
      <3>1. UNCHANGED acks
        BY <2>1 DEF Receive
      <3>2. QED
        BY <2>1, <3>1, ReceivedBusy DEF JobTypes, ChannelTypes
    <2>2. CASE SendAck
      <3>1. [job |-> worker.job, ok |-> worker.ok] \in AnyAck
        BY <2>2 DEF SendAck, JobTypes, ChannelTypes, Busy, AnyAck
      <3>2. acks' \in Seq(AnyAck)
        BY <2>2, <3>1, QueueAppended DEF SendAck, JobTypes, ChannelTypes
      <3>3. QED
        BY <2>2, <3>2 DEF SendAck, JobTypes, ChannelTypes, WorldTypes
    <2>3. CASE WorkerTake
      BY <2>3 DEF WorkerTake, workerVars, JobTypes, ChannelTypes, WorldTypes
    <2>4. CASE WorkerReplace \/ \E renamed \in BOOLEAN : WorkerFails(renamed)
      <3>1. worker \in Busy
        BY <2>4 DEF WorkerReplace, WorkerFails, JobTypes, ChannelTypes
      <3>2. worker' \in Busy /\ UNCHANGED <<queue, acks, entityFile>>
        BY <2>4, <3>1 DEF WorkerReplace, WorkerFails, Busy
      <3>3. QED
        BY <3>2 DEF JobTypes, ChannelTypes, WorldTypes
    <2>5. QED
      BY <2>1, <2>2, <2>3, <2>4 DEF Worker
  <1>4. QED
    BY <1>1, <1>2, <1>3 DEF JobTypes, WorldTypes

\* Steps of the tick thread and the world around it that leave the channels alone.
WorldSteps ==
  \/ \E c \in Columns : Mutate(c) \/ Materialize(c)
  \/ \E k \in SUBSET Columns : Move(k)
  \/ \E d \in Dimensions : EntityChange(d) \/ EvictClean(d) \/ EvictDirty(d)
  \/ \E renamed \in BOOLEAN : FlushFails(renamed)
  \/ DrainDone \/ BeginEvict \/ FlushTake \/ FlushReplace \/ FlushDone \/ EndTick \/ Close
  \/ Autosave \/ SaveAll \/ Shutdown \/ WaitTimeout

LEMMA WorldStepsLeaveChannels ==
  ASSUME WorldSteps
  PROVE  UNCHANGED <<queue, acks, worker, persisted, entityFile>>
  BY DEF WorldSteps, Mutate, Materialize, Move, EntityChange, EvictClean, EvictDirty, FlushFails,
         DrainDone, BeginEvict, FlushTake, FlushReplace, FlushDone, EndTick, Close, Autosave,
         SaveAll, Shutdown, WaitTimeout, workerVars, worldVars

LEMMA WorldStepTypes ==
  ASSUME Inv, JobTypes, WorldSteps
  PROVE  JobTypes'
  <1> USE ChunkSaveAssumption DEF worldVars, counters
  <1>1. ChannelTypes'
    BY WorldStepsLeaveChannels, ChannelsKept DEF JobTypes
  <1>2. WorldTypes'
    <2>1. CASE \E c \in Columns : Mutate(c) \/ Materialize(c)
      BY <2>1, WorldStepsLeaveChannels DEF Mutate, Materialize, JobTypes, WorldTypes, Revisions
    <2>2. CASE \E d \in Dimensions : EntityChange(d)
      BY <2>2, WorldStepsLeaveChannels DEF EntityChange, JobTypes, WorldTypes
    <2>3. CASE \/ \E d \in Dimensions : EvictClean(d)
               \/ FlushReplace \/ FlushDone
      <3>1. UNCHANGED <<epoch, persisted, entityFile, saveAlls>>
        BY <2>3, WorldStepsLeaveChannels DEF EvictClean, FlushReplace, FlushDone
      <3>2. (\E S : Drop(S)) \/ UNCHANGED dirty
        BY <2>3 DEF EvictClean, FlushReplace, FlushDone
      <3>3. QED
        BY <3>1, <3>2, DropTypes, WorldKept DEF JobTypes
    <2>4. CASE \/ \E k \in SUBSET Columns : Move(k)
               \/ \E d \in Dimensions : EvictDirty(d)
               \/ \E renamed \in BOOLEAN : FlushFails(renamed)
               \/ DrainDone \/ BeginEvict \/ FlushTake \/ EndTick \/ Close \/ Autosave \/ WaitTimeout
      <3>1. UNCHANGED <<dirty, epoch, saveAlls>>
        BY <2>4 DEF Move, EvictDirty, FlushFails, DrainDone, BeginEvict, FlushTake, EndTick, Close,
                    Autosave, WaitTimeout
      <3>2. QED
        BY <3>1, WorldStepsLeaveChannels, WorldKept DEF JobTypes
    <2>5. CASE SaveAll \/ Shutdown
      BY <2>5, WorldStepsLeaveChannels DEF SaveAll, Shutdown, JobTypes, WorldTypes
    <2>6. QED
      BY <2>1, <2>2, <2>3, <2>4, <2>5 DEF WorldSteps
  <1>3. PlaceTypes'
    <2>1. CASE \/ \E c \in Columns : Mutate(c) \/ Materialize(c)
               \/ \E k \in SUBSET Columns : Move(k)
               \/ \E d \in Dimensions : EntityChange(d)
               \/ FlushTake
      BY <2>1, PlaceKept DEF Mutate, Materialize, Move, EntityChange, FlushTake, JobTypes
    <2>2. CASE \/ \E d \in Dimensions : EvictClean(d) \/ EvictDirty(d)
               \/ FlushReplace \/ FlushDone \/ (\E renamed \in BOOLEAN : FlushFails(renamed))
      BY <2>2 DEF EvictClean, EvictDirty, FlushReplace, FlushDone, FlushFails, JobTypes, PlaceTypes
    <2>3. CASE DrainDone \/ BeginEvict \/ EndTick \/ Close
      BY <2>3 DEF DrainDone, BeginEvict, EndTick, Close, JobTypes, PlaceTypes
    <2>4. CASE Autosave \/ SaveAll \/ Shutdown
      BY <2>4 DEF Autosave, SaveAll, Shutdown, StartSave, JobTypes, PlaceTypes
    <2>5. CASE WaitTimeout
      BY <2>5, PlaceReturned DEF WaitTimeout, JobTypes
    <2>6. QED
      BY <2>1, <2>2, <2>3, <2>4, <2>5 DEF WorldSteps
  <1>4. QED
    BY <1>1, <1>2, <1>3 DEF JobTypes

\* The tick thread takes an ack, and applies it unless it is shutting down.
LEMMA TakingTypes ==
  ASSUME Inv, JobTypes, DrainAck \/ WaitAck \/ DiscardAck
  PROVE  JobTypes'
  <1> USE DEF counters, worldVars
  <1>1. CASE DrainAck \/ WaitAck
    <2>1. ChannelTypes' /\ WorldTypes'
      BY <1>1, AckTypes DEF DrainAck, WaitAck
    <2>2. PlaceTypes'
      <3>1. CASE tick' = [tick EXCEPT !.failed = SomeFailed(Head(acks))]
        BY <3>1 DEF JobTypes, PlaceTypes
      <3>2. QED
        BY <1>1, <3>1, PlaceKept, PlaceReturned DEF DrainAck, WaitAck, JobTypes
    <2>3. QED
      BY <2>1, <2>2 DEF JobTypes
  <1>2. CASE DiscardAck
    <2>1. acks' \in Seq(AnyAck)
      BY <1>2, QueueTaken DEF DiscardAck, JobTypes, ChannelTypes
    <2>2. QED
      BY <1>2, <2>1, PlaceKept, WorldKept DEF DiscardAck, JobTypes, ChannelTypes
  <1>3. QED
    BY <1>1, <1>2

LEMMA StartTypes ==
  /\ Init => JobTypes
  /\ JobTypes /\ Restart => JobTypes'
  <1>1. << >> \in Seq(AnyJob) /\ << >> \in Seq(AnyAck)
    BY EmptySeq
  <1>2. Clean \in Revisions
    BY DEF Clean, Revisions
  <1>3. Init => JobTypes
    BY <1>1, <1>2 DEF Init, JobTypes, ChannelTypes, WorldTypes, PlaceTypes
  <1>4. JobTypes /\ Restart => JobTypes'
    BY <1>1, <1>2 DEF Restart, Booted, JobTypes, ChannelTypes, WorldTypes, PlaceTypes
  <1>5. QED
    BY <1>3, <1>4

LEMMA StepKinds ==
  Next => \/ DrainAck \/ WaitAck \/ DiscardAck
          \/ SaveChunks \/ SaveEntities \/ SaveSidecars \/ EnqueueBarrier
          \/ Worker \/ \E renamed \in BOOLEAN : WorkerFails(renamed)
          \/ WorldSteps \/ Restart
  BY DEF Next, TickThread, Environment, WorldSteps

LEMMA StepTypes == Inv /\ JobTypes /\ [Next]_vars => JobTypes'
  <1> SUFFICES ASSUME Inv, JobTypes, [Next]_vars PROVE JobTypes'
    OBVIOUS
  <1>1. CASE Next
    BY <1>1, StepKinds, TakingTypes, SavingTypes, WorkerTypes, WorldStepTypes, StartTypes
  <1>2. CASE UNCHANGED vars
    BY <1>2, ChannelsKept, WorldKept, PlaceKept DEF vars, worldVars, workerVars, counters, JobTypes
  <1>3. QED
    BY <1>1, <1>2

-----------------------------------------------------------------------------
(* The entity files.                                                         *)

LEMMA EpochsKept ==
  ASSUME EpochOrder, UNCHANGED <<queue, acks, worker, epoch, persisted, entityFile>>
  PROVE  EpochOrder'
  BY DEF EpochOrder, Dumps

\* A new job dumps the newest epoch, or no entities at all.
LEMMA EpochsAppended ==
  ASSUME JobTypes, EpochOrder, NEW j \in AnyJob, queue' = Append(queue, j),
         \A d \in Dimensions : Dumps(j, d) => j.epoch = epoch[d],
         UNCHANGED <<acks, worker, epoch, persisted, entityFile>>
  PROVE  EpochOrder'
  <1>1. /\ Len(queue) \in Nat /\ DOMAIN queue = 1 .. Len(queue)
        /\ DOMAIN queue' = 1 .. Len(queue) + 1
        /\ \A i \in 1 .. Len(queue) : queue'[i] = queue[i]
        /\ queue'[Len(queue) + 1] = j
    BY QueueAppended DEF JobTypes, ChannelTypes
  <1>2. ASSUME NEW d \in Dimensions, NEW i \in DOMAIN queue', Dumps(queue'[i], d)
        PROVE  /\ entityFile[d] <= queue'[i].epoch /\ queue'[i].epoch <= epoch[d]
               /\ \A k \in DOMAIN queue' :
                    k < i /\ Dumps(queue'[k], d) => queue'[k].epoch <= queue'[i].epoch
    <2>1. entityFile[d] <= epoch[d] /\ entityFile[d] \in Nat /\ epoch[d] \in Nat
      BY DEF EpochOrder, JobTypes, WorldTypes
    <2>2. CASE i = Len(queue) + 1
      <3>1. queue'[i].epoch = epoch[d]
        BY <1>1, <1>2, <2>2
      <3>2. \A k \in DOMAIN queue : Dumps(queue[k], d) => queue[k].epoch <= epoch[d]
        BY DEF EpochOrder
      <3>3. QED
        BY <1>1, <2>1, <2>2, <3>1, <3>2
    <2>3. CASE i \in DOMAIN queue
      <3>1. /\ entityFile[d] <= queue[i].epoch /\ queue[i].epoch <= epoch[d]
            /\ \A k \in DOMAIN queue : k < i /\ Dumps(queue[k], d) => queue[k].epoch <= queue[i].epoch
        BY <1>1, <1>2, <2>3 DEF EpochOrder
      <3>2. \A k \in DOMAIN queue' : k < i => k \in DOMAIN queue
        BY <1>1, <2>3
      <3>3. QED
        BY <1>1, <2>3, <3>1, <3>2
    <2>4. QED
      BY <1>1, <2>2, <2>3
  <1>3. QED
    BY <1>2 DEF EpochOrder, Dumps

LEMMA EpochsSaving ==
  ASSUME Inv, JobTypes, EpochOrder, SaveChunks \/ SaveEntities \/ SaveSidecars \/ EnqueueBarrier
  PROVE  EpochOrder'
  <1> USE ChunkSaveAssumption
  <1>1. UNCHANGED <<acks, worker, epoch, persisted, entityFile>>
    BY DEF SaveChunks, SaveEntities, SaveSidecars, EnqueueBarrier, worldVars
  <1>2. CASE UNCHANGED queue
    BY <1>1, <1>2, EpochsKept
  <1>3. CASE queue' # queue
    <2>1. \E j \in AnyJob :
            /\ queue' = Append(queue, j)
            /\ \A d \in Dimensions : Dumps(j, d) => j.epoch = epoch[d]
      <3>1. CASE SaveChunks
        <4> DEFINE d == Least(tick.dims)
                   S == {c \in ColumnsOf(d) : IsDirty(c) /\ Resident(c)}
                   j == ChunkJob(d, [c \in S |-> [rev |-> dirty[c].rev, data |-> content[c]]])
        <4>1. d \in Dimensions
          BY <3>1, LeastIsMember DEF SaveChunks, JobTypes, PlaceTypes
        <4>2. queue' = Append(queue, j)
          BY <1>3, <3>1 DEF SaveChunks
        <4>3. j \in AnyJob
          BY <4>1, ChunkJobType
        <4>4. j.kind = "chunks"
          BY DEF ChunkJob
        <4>5. \A e \in Dimensions : ~Dumps(j, e)
          BY <4>4 DEF Dumps
        <4> HIDE DEF j
        <4>6. QED
          BY <4>2, <4>3, <4>5
      <3>2. CASE SaveEntities
        <4> DEFINE d == Least(tick.dims)
        <4>1. d \in Dimensions
          BY <3>2, LeastIsMember DEF SaveEntities, JobTypes, PlaceTypes
        <4>2. queue' = Append(queue, EntityJob(d))
          BY <1>3, <3>2 DEF SaveEntities
        <4> HIDE DEF d
        <4>3. EntityJob(d) \in AnyJob
          BY <4>1 DEF EntityJob, AnyJob, JobTypes, WorldTypes
        <4>4. \A e \in Dimensions : Dumps(EntityJob(d), e) => EntityJob(d).epoch = epoch[e]
          BY DEF Dumps, EntityJob
        <4>5. QED
          BY <4>2, <4>3, <4>4
      <3>3. CASE SaveSidecars
        <4>1. queue' = Append(queue, SidecarJob) /\ SidecarJob \in AnyJob
          BY <1>3, <3>3 DEF SaveSidecars, SidecarJob, AnyJob
        <4>2. \A e \in Dimensions : ~Dumps(SidecarJob, e)
          BY DEF Dumps, SidecarJob
        <4>3. QED
          BY <4>1, <4>2
      <3>4. CASE EnqueueBarrier
        <4>1. queue' = Append(queue, BarrierJob(saveAlls)) /\ BarrierJob(saveAlls) \in AnyJob
          BY <3>4 DEF EnqueueBarrier, BarrierJob, AnyJob, JobTypes, WorldTypes
        <4>2. \A e \in Dimensions : ~Dumps(BarrierJob(saveAlls), e)
          BY DEF Dumps, BarrierJob
        <4>3. QED
          BY <4>1, <4>2
      <3>5. QED
        BY <3>1, <3>2, <3>3, <3>4
    <2>2. QED
      BY <1>1, <2>1, EpochsAppended
  <1>4. QED
    BY <1>2, <1>3

\* An ack that says ok is about a dump the file has, or has had.
LEMMA EpochsTaking ==
  ASSUME Inv, JobTypes, EpochOrder, DrainAck \/ WaitAck \/ DiscardAck
  PROVE  EpochOrder'
  <1>1. /\ acks # << >> /\ acks' = Tail(acks)
        /\ UNCHANGED <<queue, worker, epoch, entityFile>>
        /\ ApplyAck(Head(acks)) \/ UNCHANGED persisted
    BY DEF DrainAck, WaitAck, DiscardAck, worldVars
  <1>2. /\ Head(acks) = acks[1] /\ 1 \in DOMAIN acks /\ Head(acks) \in AnyAck
        /\ \A i \in DOMAIN acks' : i + 1 \in DOMAIN acks /\ acks'[i] = acks[i + 1]
    BY <1>1, QueueTaken DEF JobTypes, ChannelTypes
  <1>3. \A d \in Dimensions : persisted'[d] <= entityFile[d]
    <2> SUFFICES ASSUME NEW d \in Dimensions PROVE persisted'[d] <= entityFile[d]
      OBVIOUS
    <2> DEFINE a == Head(acks)
    <2>1. persisted[d] <= entityFile[d]
      BY DEF EpochOrder
    <2>2. CASE persisted'[d] = persisted[d]
      BY <2>1, <2>2
    <2>3. CASE persisted'[d] # persisted[d]
      <3>1. a.job.kind = "entities" /\ a.ok /\ persisted' = EpochPersisted(a.job.dim, a.job.epoch)
        BY <1>1, <2>3 DEF ApplyAck
      <3>2. a.job.dim = d /\ epoch[d] = a.job.epoch /\ persisted'[d] = epoch[d]
        BY <2>3, <3>1 DEF EpochPersisted, JobTypes, WorldTypes
      <3>3. a.job.epoch <= entityFile[d]
        BY <1>2, <3>1, <3>2 DEF EpochOrder, Dumps
      <3>4. QED
        BY <3>2, <3>3
    <2>4. QED
      BY <2>2, <2>3
  <1>4. QED
    BY <1>1, <1>2, <1>3 DEF EpochOrder, Dumps

\* A dump is written in its turn.
LEMMA EpochsReceived ==
  ASSUME Inv, JobTypes, EpochOrder, Receive
  PROVE  EpochOrder'
  <1> DEFINE h == queue[1]
  <1>1. /\ queue # << >> /\ queue' = Tail(queue)
        /\ UNCHANGED <<acks, epoch, persisted>>
    BY DEF Receive, worldVars
  <1>2. /\ Head(queue) = h /\ 1 \in DOMAIN queue /\ h \in AnyJob
        /\ \A i \in DOMAIN queue' : i + 1 \in DOMAIN queue /\ i \in Nat /\ 1 < i + 1
                                    /\ queue'[i] = queue[i + 1]
    BY <1>1, QueueTaken DEF JobTypes, ChannelTypes
  <1>3. \E ok \in BOOLEAN, written \in BOOLEAN :
          /\ h.kind = "entities" /\ ok => written
          /\ worker'.job = h /\ worker'.ok = ok
          /\ entityFile' = IF written /\ h.kind = "entities"
                             THEN [entityFile EXCEPT ![h.dim] = h.epoch] ELSE entityFile
    <2>1. CASE h.kind \in {"chunks", "barrier"}
      <3>1. worker'.job = h /\ worker'.ok = TRUE /\ entityFile' = entityFile
        BY <1>2, <2>1 DEF Receive
      <3>2. h.kind # "entities"
        BY <2>1
      <3>3. QED
        BY <3>1, <3>2
    <2>2. CASE h.kind \in {"entities", "sidecars"}
      <3>1. PICK ok \in BOOLEAN, written \in BOOLEAN :
              /\ ok => written
              /\ entityFile' = IF written /\ h.kind = "entities"
                                 THEN [entityFile EXCEPT ![h.dim] = h.epoch] ELSE entityFile
              /\ worker' = [job |-> h, ok |-> ok, todo |-> {}]
        BY <1>2, <2>2 DEF Receive
      <3>2. worker'.job = h /\ worker'.ok = ok
        BY <3>1
      <3>3. QED
        BY <3>1, <3>2
    <2>3. QED
      BY <1>2, <2>1, <2>2 DEF Receive
  <1>4. PICK ok \in BOOLEAN, written \in BOOLEAN :
          /\ h.kind = "entities" /\ ok => written
          /\ worker'.job = h /\ worker'.ok = ok
          /\ entityFile' = IF written /\ h.kind = "entities"
                             THEN [entityFile EXCEPT ![h.dim] = h.epoch] ELSE entityFile
    BY <1>3
  <1>5. ASSUME NEW d \in Dimensions
        PROVE  /\ entityFile[d] <= entityFile'[d] /\ entityFile'[d] <= epoch[d]
               /\ entityFile'[d] \in Nat /\ entityFile[d] \in Nat
               /\ \A i \in DOMAIN queue' : Dumps(queue'[i], d) => entityFile'[d] <= queue'[i].epoch
               /\ Dumps(h, d) /\ ok => h.epoch <= entityFile'[d]
    <2>1. entityFile[d] <= epoch[d] /\ entityFile[d] \in Nat /\ epoch[d] \in Nat
      BY DEF EpochOrder, JobTypes, WorldTypes
    <2>2. \A i \in DOMAIN queue : Dumps(queue[i], d) => entityFile[d] <= queue[i].epoch
      BY DEF EpochOrder
    <2>3. CASE Dumps(h, d) /\ written
      <3>1. entityFile'[d] = h.epoch /\ h.epoch \in Nat
        BY <1>2, <1>4, <2>3 DEF Dumps, AnyJob, JobTypes, WorldTypes
      <3>2. entityFile[d] <= h.epoch /\ h.epoch <= epoch[d]
        BY <1>2, <2>3 DEF EpochOrder
      <3>3. \A i \in DOMAIN queue : 1 < i /\ Dumps(queue[i], d) => h.epoch <= queue[i].epoch
        BY <1>2, <2>3 DEF EpochOrder
      <3> HIDE DEF h
      <3>4. QED
        BY <1>2, <2>1, <3>1, <3>2, <3>3
    <2>4. CASE ~(Dumps(h, d) /\ written)
      <3>1. entityFile'[d] = entityFile[d]
        BY <1>4, <2>4 DEF Dumps, JobTypes, WorldTypes
      <3>2. ~(Dumps(h, d) /\ ok)
        BY <1>4, <2>4 DEF Dumps
      <3> HIDE DEF h
      <3>3. QED
        BY <1>2, <2>1, <2>2, <3>1, <3>2
    <2>5. QED
      BY <2>3, <2>4
  <1>6. ASSUME NEW d \in Dimensions, NEW i \in DOMAIN queue', Dumps(queue'[i], d)
        PROVE  /\ queue'[i].epoch <= epoch[d]
               /\ \A k \in DOMAIN queue' :
                    k < i /\ Dumps(queue'[k], d) => queue'[k].epoch <= queue'[i].epoch
    <2>1. i + 1 \in DOMAIN queue /\ queue'[i] = queue[i + 1] /\ i \in Nat
      BY <1>2
    <2>2. /\ queue[i + 1].epoch <= epoch[d]
          /\ \A k \in DOMAIN queue :
               k < i + 1 /\ Dumps(queue[k], d) => queue[k].epoch <= queue[i + 1].epoch
      BY <1>6, <2>1 DEF EpochOrder
    <2>3. \A k \in DOMAIN queue' : k \in Nat /\ k + 1 \in DOMAIN queue /\ queue'[k] = queue[k + 1]
      BY <1>2
    <2>4. QED
      BY <2>1, <2>2, <2>3
  <1>7. ASSUME NEW d \in Dimensions
        PROVE  /\ persisted[d] <= entityFile'[d]
               /\ \A i \in DOMAIN acks :
                    acks[i].ok /\ Dumps(acks[i].job, d) => acks[i].job.epoch <= entityFile'[d]
    <2>1. persisted[d] <= entityFile[d] /\ persisted[d] \in Nat
      BY DEF EpochOrder, JobTypes, WorldTypes
    <2>2. ASSUME NEW i \in DOMAIN acks, acks[i].ok, Dumps(acks[i].job, d)
          PROVE  acks[i].job.epoch <= entityFile'[d]
      <3>1. acks[i].job.epoch <= entityFile[d]
        BY <2>2 DEF EpochOrder
      <3>2. acks[i] \in AnyAck
        BY ElementOfSeq, LenProperties DEF JobTypes, ChannelTypes
      <3>3. acks[i].job.epoch \in Nat
        BY <2>2, <3>2 DEF AnyAck, AnyJob, Dumps
      <3>4. QED
        BY <1>5, <3>1, <3>3
    <2>3. QED
      BY <1>5, <2>1, <2>2
  <1> HIDE DEF h
  <1>8. QED
    BY <1>1, <1>4, <1>5, <1>6, <1>7 DEF EpochOrder, Dumps

LEMMA EpochsWorking ==
  ASSUME Inv, JobTypes, EpochOrder,
         WorkerTake \/ WorkerReplace \/ SendAck \/ \E renamed \in BOOLEAN : WorkerFails(renamed)
  PROVE  EpochOrder'
  <1>1. UNCHANGED <<queue, epoch, persisted, entityFile>>
    BY DEF WorkerTake, WorkerReplace, SendAck, WorkerFails, worldVars, workerVars
  <1>2. CASE WorkerTake
    BY <1>1, <1>2, EpochsKept DEF WorkerTake, workerVars
  <1>3. CASE WorkerReplace \/ \E renamed \in BOOLEAN : WorkerFails(renamed)
    <2>1. worker \in Busy /\ worker # Idle /\ UNCHANGED acks
      BY <1>3 DEF WorkerReplace, WorkerFails, JobTypes, ChannelTypes
    <2>2. worker'.job = worker.job /\ (worker'.ok => worker.ok)
      BY <1>3, <2>1 DEF WorkerReplace, WorkerFails, Busy
    <2>3. QED
      BY <1>1, <2>1, <2>2 DEF EpochOrder, Dumps
  <1>4. CASE SendAck
    <2> DEFINE a == [job |-> worker.job, ok |-> worker.ok]
    <2>1. worker # Idle /\ worker' = Idle /\ acks' = Append(acks, a)
      BY <1>4 DEF SendAck
    <2>2. a \in AnyAck
      BY <2>1 DEF JobTypes, ChannelTypes, Busy, AnyAck
    <2>3. /\ Len(acks) \in Nat /\ DOMAIN acks = 1 .. Len(acks) /\ DOMAIN acks' = 1 .. Len(acks) + 1
          /\ \A i \in 1 .. Len(acks) : acks'[i] = acks[i]
          /\ acks'[Len(acks) + 1] = a
      BY <2>1, <2>2, QueueAppended DEF JobTypes, ChannelTypes
    <2>4. a.job = worker.job /\ a.ok = worker.ok
      OBVIOUS
    <2> HIDE DEF a
    <2>5. ASSUME NEW d \in Dimensions, NEW i \in DOMAIN acks', acks'[i].ok, Dumps(acks'[i].job, d)
          PROVE  acks'[i].job.epoch <= entityFile[d]
      <3>1. CASE i = Len(acks) + 1
        BY <2>1, <2>3, <2>4, <2>5, <3>1 DEF EpochOrder
      <3>2. CASE i \in DOMAIN acks
        BY <2>3, <2>5, <3>2 DEF EpochOrder
      <3>3. QED
        BY <2>3, <3>1, <3>2
    <2>6. QED
      BY <1>1, <2>1, <2>5 DEF EpochOrder, Dumps
  <1>5. QED
    BY <1>2, <1>3, <1>4

LEMMA EpochsElsewhere ==
  ASSUME Inv, JobTypes, EpochOrder, WorldSteps
  PROVE  EpochOrder'
  <1>1. UNCHANGED <<queue, acks, worker, persisted, entityFile>>
    BY WorldStepsLeaveChannels
  <1>2. \A d \in Dimensions : epoch'[d] \in Nat /\ epoch[d] <= epoch'[d]
    <2>1. UNCHANGED epoch \/ \E d \in Dimensions : epoch' = [epoch EXCEPT ![d] = @ + 1]
      BY DEF WorldSteps, Mutate, Materialize, Move, EntityChange, EvictClean, EvictDirty, FlushFails,
             DrainDone, BeginEvict, FlushTake, FlushReplace, FlushDone, EndTick, Close, Autosave,
             SaveAll, Shutdown, WaitTimeout, worldVars
    <2>2. QED
      BY <2>1 DEF JobTypes, WorldTypes
  <1>3. ASSUME NEW d \in Dimensions, NEW i \in DOMAIN queue, Dumps(queue[i], d)
        PROVE  queue[i].epoch \in Nat
    <2>1. queue[i] \in AnyJob
      BY ElementOfSeq, LenProperties DEF JobTypes, ChannelTypes
    <2>2. QED
      BY <1>3, <2>1 DEF AnyJob, Dumps
  <1>4. ASSUME NEW d \in Dimensions, NEW n \in Nat, n <= epoch[d]
        PROVE  n <= epoch'[d]
    BY <1>2, <1>4 DEF JobTypes, WorldTypes
  <1>5. ASSUME NEW d \in Dimensions
        PROVE  /\ persisted'[d] <= entityFile'[d] /\ entityFile'[d] <= epoch'[d]
               /\ \A i \in DOMAIN queue' : Dumps(queue'[i], d) =>
                    /\ entityFile'[d] <= queue'[i].epoch /\ queue'[i].epoch <= epoch'[d]
                    /\ \A k \in DOMAIN queue' :
                         k < i /\ Dumps(queue'[k], d) => queue'[k].epoch <= queue'[i].epoch
    BY <1>1, <1>3, <1>4 DEF EpochOrder, JobTypes, WorldTypes
  <1>6. QED
    BY <1>1, <1>5 DEF EpochOrder, Dumps

LEMMA EpochsStart ==
  /\ Init => EpochOrder
  /\ JobTypes /\ Restart => EpochOrder'
  <1>1. \A d \in Dimensions : 0 <= 0
    OBVIOUS
  <1>2. Init => EpochOrder
    BY DEF Init, EpochOrder
  <1>3. JobTypes /\ Restart => EpochOrder'
    BY DEF Restart, Booted, EpochOrder, JobTypes, WorldTypes
  <1>4. QED
    BY <1>2, <1>3

LEMMA StepEpochs == Inv /\ JobTypes /\ EpochOrder /\ [Next]_vars => EpochOrder'
  <1> SUFFICES ASSUME Inv, JobTypes, EpochOrder, [Next]_vars PROVE EpochOrder'
    OBVIOUS
  <1>1. CASE Next
    BY <1>1, StepKinds, EpochsTaking, EpochsSaving, EpochsReceived, EpochsWorking, EpochsElsewhere,
       EpochsStart DEF Worker
  <1>2. CASE UNCHANGED vars
    BY <1>2, EpochsKept DEF vars, worldVars, workerVars
  <1>3. QED
    BY <1>1, <1>2

-----------------------------------------------------------------------------
(* Revisions in flight.                                                      *)

\* No value of the worker that has a job is taken for idleness.
IdleIsNoJob == Idle \notin Busy

\* The premises under which a step keeps every revision in flight tracked.
LEMMA TrackedKept ==
  ASSUME InFlightTracked, Jobs \subseteq Jobs',
         \A c \in Columns : dirty'[c].state = "inflight" => dirty'[c] = dirty[c],
         tick'.alive /\ tick'.phase # "close" => tick.alive /\ tick.phase # "close"
  PROVE  InFlightTracked'
  BY DEF InFlightTracked, ChunkJobs

LEMMA JobsAppended ==
  ASSUME JobTypes, NEW j \in AnyJob, queue' = Append(queue, j), UNCHANGED <<acks, worker>>
  PROVE  Jobs \subseteq Jobs' /\ j \in Jobs'
  <1>1. /\ Len(queue) \in Nat /\ DOMAIN queue = 1 .. Len(queue)
        /\ DOMAIN queue' = 1 .. Len(queue) + 1
        /\ \A i \in 1 .. Len(queue) : queue'[i] = queue[i]
        /\ queue'[Len(queue) + 1] = j
    BY QueueAppended DEF JobTypes, ChannelTypes
  <1>2. QED
    BY <1>1 DEF Jobs

LEMMA JobsReceived ==
  ASSUME IdleIsNoJob, JobTypes, JobTypes', Receive
  PROVE  Jobs \subseteq Jobs'
  <1>1. /\ worker = Idle /\ queue # << >> /\ queue' = Tail(queue) /\ UNCHANGED acks
        /\ worker'.job = Head(queue)
        /\ DOMAIN worker' = {"job", "ok", "todo"}
    BY DEF Receive
  <1>2. /\ Len(queue) \in Nat \ {0} /\ DOMAIN queue = 1 .. Len(queue) /\ Head(queue) = queue[1]
        /\ DOMAIN queue' = 1 .. Len(queue) - 1
        /\ \A i \in DOMAIN queue' : queue'[i] = queue[i + 1]
    BY <1>1, QueueTaken DEF JobTypes, ChannelTypes
  <1>3. worker' # Idle
    <2>1. worker' \in Busy
      BY ReceivedBusy
    <2>2. QED
      BY <2>1 DEF IdleIsNoJob
  <1>4. ASSUME NEW i \in DOMAIN queue PROVE queue[i] \in Jobs'
    <2>1. CASE i = 1
      BY <1>1, <1>2, <1>3, <2>1 DEF Jobs
    <2>2. CASE i # 1
      <3>1. i - 1 \in DOMAIN queue' /\ queue'[i - 1] = queue[i]
        BY <1>2, <2>2
      <3>2. QED
        BY <3>1 DEF Jobs
    <2>3. QED
      BY <2>1, <2>2
  <1>5. QED
    BY <1>1, <1>4 DEF Jobs

LEMMA JobsWorking ==
  ASSUME IdleIsNoJob, JobTypes,
         WorkerTake \/ WorkerReplace \/ SendAck \/ \E renamed \in BOOLEAN : WorkerFails(renamed)
  PROVE  Jobs \subseteq Jobs'
  <1>1. CASE WorkerTake
    BY <1>1 DEF WorkerTake, workerVars, Jobs
  <1>2. CASE WorkerReplace \/ \E renamed \in BOOLEAN : WorkerFails(renamed)
    <2>1. worker \in Busy /\ UNCHANGED <<queue, acks>>
      BY <1>2 DEF WorkerReplace, WorkerFails, JobTypes, ChannelTypes
    <2>2. worker' \in Busy /\ worker'.job = worker.job
      BY <1>2, <2>1 DEF WorkerReplace, WorkerFails, Busy
    <2>3. worker' # Idle
      BY <2>2 DEF IdleIsNoJob
    <2>4. QED
      BY <2>1, <2>2, <2>3 DEF Jobs
  <1>3. CASE SendAck
    <2> DEFINE a == [job |-> worker.job, ok |-> worker.ok]
    <2>1. worker # Idle /\ acks' = Append(acks, a) /\ UNCHANGED queue
      BY <1>3 DEF SendAck
    <2>2. a \in AnyAck
      BY <2>1 DEF JobTypes, ChannelTypes, Busy, AnyAck
    <2>3. /\ Len(acks) \in Nat /\ DOMAIN acks = 1 .. Len(acks) /\ DOMAIN acks' = 1 .. Len(acks) + 1
          /\ \A i \in 1 .. Len(acks) : acks'[i] = acks[i]
          /\ acks'[Len(acks) + 1] = a
      BY <2>1, <2>2, QueueAppended DEF JobTypes, ChannelTypes
    <2>4. a.job = worker.job
      OBVIOUS
    <2> HIDE DEF a
    <2>5. worker.job \in {acks'[i].job : i \in DOMAIN acks'}
      BY <2>3, <2>4
    <2>6. {acks[i].job : i \in DOMAIN acks} \subseteq {acks'[i].job : i \in DOMAIN acks'}
      BY <2>3
    <2>7. QED
      BY <2>1, <2>5, <2>6 DEF Jobs
  <1>4. QED
    BY <1>1, <1>2, <1>3

\* Only the acked job leaves the channels.
LEMMA JobsTaken ==
  ASSUME JobTypes, acks # << >>, acks' = Tail(acks), UNCHANGED <<queue, worker>>
  PROVE  Jobs \subseteq Jobs' \union {Head(acks).job}
  <1>1. /\ Len(acks) \in Nat \ {0} /\ DOMAIN acks = 1 .. Len(acks) /\ Head(acks) = acks[1]
        /\ DOMAIN acks' = 1 .. Len(acks) - 1
        /\ \A i \in DOMAIN acks' : acks'[i] = acks[i + 1]
    BY QueueTaken DEF JobTypes, ChannelTypes
  <1>2. ASSUME NEW i \in DOMAIN acks, i # 1 PROVE acks[i].job \in Jobs'
    <2>1. i - 1 \in DOMAIN acks' /\ acks'[i - 1] = acks[i]
      BY <1>1, <1>2
    <2>2. QED
      BY <2>1 DEF Jobs
  <1>3. \A i \in DOMAIN acks : acks[i].job \in Jobs' \union {Head(acks).job}
    BY <1>1, <1>2
  <1>4. QED
    BY <1>3 DEF Jobs

LEMMA TrackedTaking ==
  ASSUME JobTypes, InFlightTracked, DrainAck \/ WaitAck \/ DiscardAck
  PROVE  InFlightTracked'
  <1>1. acks # << >> /\ acks' = Tail(acks) /\ UNCHANGED <<queue, worker>>
    BY DEF DrainAck, WaitAck, DiscardAck
  <1>2. Jobs \subseteq Jobs' \union {Head(acks).job}
    BY <1>1, JobsTaken
  <1>3. CASE DiscardAck
    BY <1>3 DEF DiscardAck, InFlightTracked
  <1>4. CASE DrainAck \/ WaitAck
    <2>1. tick.phase # "close" /\ ApplyAck(Head(acks))
      BY <1>4 DEF DrainAck, WaitAck
    <2>2. tick'.alive = tick.alive
      BY <1>4 DEF DrainAck, WaitAck, Returned, JobTypes, PlaceTypes
    <2>3. SUFFICES ASSUME tick.alive, NEW c \in Columns, dirty'[c].state = "inflight"
                   PROVE  \E j \in ChunkJobs' :
                            c \in DOMAIN j.entries /\ j.entries[c].rev = dirty'[c].rev
      BY <2>2 DEF InFlightTracked
    <2> DEFINE a == Head(acks)
    <2>4. dirty'[c] = dirty[c] /\ dirty[c].state = "inflight"
      <3>1. CASE a.job.kind = "chunks"
        <4>1. dirty'[c] = IF c \in DOMAIN a.job.entries
                            THEN Acknowledged(c, a.job.entries[c].rev, a.ok) ELSE dirty[c]
          BY <2>1, <3>1 DEF ApplyAck
        <4>2. CASE c \in DOMAIN a.job.entries
          <5>1. PICK rev : rev = a.job.entries[c].rev
            OBVIOUS
          <5>2. dirty'[c] = Acknowledged(c, rev, a.ok)
            BY <4>1, <4>2, <5>1
          <5>3. dirty'[c] = dirty[c]
            BY <2>3, <5>2 DEF Acknowledged
          <5>4. QED
            BY <2>3, <5>3
        <4>3. QED
          BY <2>3, <4>1, <4>2
      <3>2. CASE a.job.kind # "chunks"
        BY <2>1, <2>3, <3>2 DEF ApplyAck
      <3>3. QED
        BY <3>1, <3>2
    <2>5. PICK j \in ChunkJobs : c \in DOMAIN j.entries /\ j.entries[c].rev = dirty[c].rev
      BY <2>1, <2>3, <2>4 DEF InFlightTracked
    <2>6. j # a.job
      <3> SUFFICES ASSUME j = a.job PROVE FALSE
        OBVIOUS
      <3>1. dirty'[c] = Acknowledged(c, a.job.entries[c].rev, a.ok)
        BY <2>1, <2>5 DEF ApplyAck, ChunkJobs
      <3>2. dirty[c] = [state |-> "inflight", rev |-> a.job.entries[c].rev]
        BY <2>4, <2>5 DEF JobTypes, WorldTypes, Revisions
      <3>3. dirty'[c] = [state |-> IF a.ok THEN "persisted" ELSE "dirty",
                         rev |-> a.job.entries[c].rev]
        BY <3>1, <3>2 DEF Acknowledged
      <3>4. QED
        BY <2>3, <3>3
    <2>7. j \in ChunkJobs'
      BY <1>2, <2>5, <2>6 DEF ChunkJobs
    <2>8. QED
      BY <2>4, <2>5, <2>7
  <1>5. QED
    BY <1>3, <1>4

\* A job that takes a revision into flight carries it.
LEMMA TrackedSaving ==
  ASSUME Inv, JobTypes, InFlightTracked,
         SaveChunks \/ SaveEntities \/ SaveSidecars \/ EnqueueBarrier
  PROVE  InFlightTracked'
  <1> USE ChunkSaveAssumption
  <1>1. tick.phase # "close" /\ UNCHANGED <<acks, worker>>
    BY DEF SaveChunks, SaveEntities, SaveSidecars, EnqueueBarrier
  <1>2. tick'.alive = tick.alive
    BY DEF SaveChunks, SaveEntities, SaveSidecars, EnqueueBarrier, Returned, JobTypes, PlaceTypes
  <1>3. CASE UNCHANGED <<dirty, queue>>
    <2>1. Jobs' = Jobs
      BY <1>1, <1>3 DEF Jobs
    <2>2. QED
      BY <1>1, <1>2, <1>3, <2>1, TrackedKept
  <1>4. CASE SaveEntities \/ SaveSidecars \/ EnqueueBarrier
    <2>1. dirty' = dirty
      BY <1>4 DEF SaveEntities, SaveSidecars, EnqueueBarrier, worldVars
    <2>2. queue' = queue \/ \E j \in AnyJob : queue' = Append(queue, j)
      <3>1. CASE SaveEntities
        <4>1. Least(tick.dims) \in Dimensions
          BY <3>1, LeastIsMember DEF SaveEntities, JobTypes, PlaceTypes
        <4>2. EntityJob(Least(tick.dims)) \in AnyJob
          BY <4>1 DEF EntityJob, AnyJob, JobTypes, WorldTypes
        <4>3. QED
          BY <3>1, <4>2 DEF SaveEntities
      <3>2. CASE SaveSidecars
        BY <3>2 DEF SaveSidecars, SidecarJob, AnyJob
      <3>3. CASE EnqueueBarrier
        BY <3>3 DEF EnqueueBarrier, BarrierJob, AnyJob, JobTypes, WorldTypes
      <3>4. QED
        BY <1>4, <3>1, <3>2, <3>3
    <2>3. Jobs \subseteq Jobs'
      BY <1>1, <2>2, JobsAppended DEF Jobs
    <2>4. QED
      BY <1>1, <1>2, <2>1, <2>3, TrackedKept
  <1>5. CASE SaveChunks /\ ~UNCHANGED <<dirty, queue>>
    <2> DEFINE d == Least(tick.dims)
               S == {c \in ColumnsOf(d) : IsDirty(c) /\ Resident(c)}
               entries == [c \in S |-> [rev |-> dirty[c].rev, data |-> content[c]]]
               j == ChunkJob(d, entries)
    <2>1. d \in Dimensions
      BY <1>5, LeastIsMember DEF SaveChunks, JobTypes, PlaceTypes
    <2>2. j \in AnyJob
      BY <2>1, ChunkJobType
    <2>3. /\ tick.alive
          /\ queue' = Append(queue, j)
          /\ dirty' = [c \in Columns |->
               IF c \in S THEN [dirty[c] EXCEPT !.state = "inflight"] ELSE dirty[c]]
      BY <1>5 DEF SaveChunks, CanEnqueue
    <2>4. Jobs \subseteq Jobs' /\ j \in Jobs'
      BY <1>1, <2>2, <2>3, JobsAppended
    <2>5. j.kind = "chunks" /\ j.entries = entries
      BY DEF ChunkJob
    <2>6. \A c \in S : c \in DOMAIN entries /\ entries[c].rev = dirty[c].rev
      OBVIOUS
    <2> HIDE DEF j, entries, S
    <2>7. ASSUME NEW c \in Columns, dirty'[c].state = "inflight"
          PROVE  \E k \in ChunkJobs' : c \in DOMAIN k.entries /\ k.entries[c].rev = dirty'[c].rev
      <3>1. CASE c \in S
        <4>1. dirty'[c].rev = dirty[c].rev
          BY <2>3, <3>1 DEF JobTypes, WorldTypes, Revisions
        <4>2. QED
          BY <2>4, <2>5, <2>6, <3>1, <4>1 DEF ChunkJobs
      <3>2. CASE c \notin S
        <4>1. dirty'[c] = dirty[c]
          BY <2>3, <3>2
        <4>2. PICK k \in ChunkJobs : c \in DOMAIN k.entries /\ k.entries[c].rev = dirty[c].rev
          BY <1>1, <2>3, <2>7, <4>1 DEF InFlightTracked
        <4>3. QED
          BY <2>4, <4>1, <4>2 DEF ChunkJobs
      <3>3. QED
        BY <3>1, <3>2
    <2>8. QED
      BY <2>7 DEF InFlightTracked
  <1>6. QED
    BY <1>3, <1>4, <1>5

LEMMA TrackedElsewhere ==
  ASSUME Inv, JobTypes, InFlightTracked, WorldSteps
  PROVE  InFlightTracked'
  <1>1. Jobs' = Jobs
    BY WorldStepsLeaveChannels DEF Jobs
  <1>2. \A c \in Columns : dirty'[c].state = "inflight" => dirty'[c] = dirty[c]
    <2>1. \/ UNCHANGED dirty
          \/ \E c \in Columns : dirty' = [dirty EXCEPT ![c] = [state |-> "dirty", rev |-> @.rev + 1]]
          \/ \E S : Drop(S)
      BY DEF WorldSteps, Mutate, Materialize, Move, EntityChange, EvictClean, EvictDirty, FlushFails,
             DrainDone, BeginEvict, FlushTake, FlushReplace, FlushDone, EndTick, Close, Autosave,
             SaveAll, Shutdown, WaitTimeout, worldVars
    <2>2. CASE \E c \in Columns :
                 dirty' = [dirty EXCEPT ![c] = [state |-> "dirty", rev |-> @.rev + 1]]
      BY <2>2 DEF JobTypes, WorldTypes
    <2>3. CASE \E S : Drop(S)
      BY <2>3 DEF Drop, Clean
    <2>4. QED
      BY <2>1, <2>2, <2>3
  <1>3. tick'.alive /\ tick'.phase # "close" => tick.alive /\ tick.phase # "close"
    <2>1. CASE Close
      BY <2>1 DEF Close, JobTypes, PlaceTypes
    <2>2. CASE ~Close
      <3>1. UNCHANGED tick \/ (tick.phase # "close" /\ tick'.alive = tick.alive)
        <4>1. CASE \/ \E c \in Columns : Mutate(c) \/ Materialize(c)
                   \/ \E k \in SUBSET Columns : Move(k)
                   \/ \E d \in Dimensions : EntityChange(d)
                   \/ FlushTake
          BY <4>1 DEF Mutate, Materialize, Move, EntityChange, FlushTake
        <4>2. CASE \/ \E d \in Dimensions : EvictClean(d) \/ EvictDirty(d)
                   \/ FlushReplace \/ FlushDone \/ (\E renamed \in BOOLEAN : FlushFails(renamed))
          BY <4>2 DEF EvictClean, EvictDirty, FlushReplace, FlushDone, FlushFails, JobTypes, PlaceTypes
        <4>3. CASE DrainDone \/ BeginEvict \/ EndTick
          BY <4>3 DEF DrainDone, BeginEvict, EndTick, JobTypes, PlaceTypes
        <4>4. CASE Autosave \/ SaveAll \/ Shutdown \/ WaitTimeout
          BY <4>4 DEF Autosave, SaveAll, Shutdown, WaitTimeout, StartSave, Returned, JobTypes, PlaceTypes
        <4>5. QED
          BY <2>2, <4>1, <4>2, <4>3, <4>4 DEF WorldSteps
      <3>2. QED
        BY <3>1
    <2>3. QED
      BY <2>1, <2>2
  <1>4. QED
    BY <1>1, <1>2, <1>3, TrackedKept

LEMMA TrackedWorking ==
  ASSUME IdleIsNoJob, JobTypes, JobTypes', InFlightTracked,
         Worker \/ \E renamed \in BOOLEAN : WorkerFails(renamed)
  PROVE  InFlightTracked'
  <1>1. UNCHANGED <<dirty, tick>>
    BY DEF Worker, Receive, WorkerTake, WorkerReplace, WorkerFails, SendAck, worldVars
  <1>2. Jobs \subseteq Jobs'
    BY JobsReceived, JobsWorking DEF Worker
  <1>3. QED
    BY <1>1, <1>2, TrackedKept

LEMMA TrackedStart ==
  /\ Init => InFlightTracked
  /\ Restart => InFlightTracked'
  <1>1. Clean.state # "inflight"
    BY DEF Clean
  <1>2. QED
    BY <1>1 DEF Init, Restart, Booted, InFlightTracked

LEMMA StepTracked ==
  ASSUME IdleIsNoJob, Inv, JobTypes, JobTypes', InFlightTracked, [Next]_vars
  PROVE  InFlightTracked'
  <1>1. CASE Next
    BY <1>1, StepKinds, TrackedTaking, TrackedSaving, TrackedWorking, TrackedElsewhere, TrackedStart
  <1>2. CASE UNCHANGED vars
    <2>1. Jobs' = Jobs
      BY <1>2 DEF vars, workerVars, Jobs
    <2>2. QED
      BY <1>2, <2>1, TrackedKept DEF vars, worldVars
  <1>3. QED
    BY <1>1, <1>2

-----------------------------------------------------------------------------
(* The theorems.                                                             *)

LEMMA JobsTyped == Spec => [](Inv /\ JobTypes)
  <1>1. Init => JobTypes
    BY StartTypes
  <1>2. QED
    BY <1>1, InitInv, StepInv, StepTypes, PTL DEF Spec

\* The persisted epoch the tick thread keeps (note_entities_persisted) never claims a
\* dump the entity file does not hold: acks arrive in the order the worker wrote, and
\* an ack of an older epoch is not taken for the newest.
THEOREM EntityFilesAreKnown == Spec => []EntitiesOnDisk
  <1>1. JobTypes /\ EpochOrder => EntitiesOnDisk
    BY DEF EntitiesOnDisk, EpochOrder, JobTypes, WorldTypes
  <1>2. QED
    BY <1>1, JobsTyped, EpochsStart, StepEpochs, PTL DEF Spec

\* Every revision in flight has a job in the queue, at the worker or in an ack that will
\* settle it (apply_save_acks, acknowledge_persisted, acknowledge_failed): while the worker
\* lives, no column stays in flight, where neither autosave nor eviction would write it.
THEOREM InFlightIsTracked ==
  ASSUME IdleIsNoJob
  PROVE  Spec => []InFlightTracked
  <1>1. Inv /\ JobTypes /\ (JobTypes)' /\ InFlightTracked /\ [Next]_vars => InFlightTracked'
    BY StepTracked
  <1>2. QED
    BY <1>1, JobsTyped, TrackedStart, PTL DEF Spec
-----------------------------------------------------------------------------
(* 3. What a cleared revision promises.                                      *)

Mentions(j, c) == j.kind = "chunks" /\ c \in DOMAIN j.entries
RevisionIn(j, c) == j.entries[c].rev

\* The jobs that save a column overtake each other nowhere on their way through queue,
\* worker and acks, and each saves a newer revision than the one before.
Earlier(j, k, c) ==
  Mentions(j, c) /\ Mentions(k, c) => RevisionIn(j, c) < RevisionIn(k, c)
Ordered(c) ==
  /\ \A i, k \in DOMAIN queue : i < k => Earlier(queue[i], queue[k], c)
  /\ \A i, k \in DOMAIN acks : i < k => Earlier(acks[i].job, acks[k].job, c)
  /\ \A i \in DOMAIN acks, k \in DOMAIN queue : Earlier(acks[i].job, queue[k], c)
  /\ worker # Idle =>
       /\ \A i \in DOMAIN acks : Earlier(acks[i].job, worker.job, c)
       /\ \A k \in DOMAIN queue : Earlier(worker.job, queue[k], c)

\* A job saves the revision in flight, with what the column holds, or an older one; a
\* settled revision has no job left.
Current(c) ==
  /\ \A j \in Jobs : Mentions(j, c) =>
       /\ RevisionIn(j, c) <= dirty[c].rev
       /\ RevisionIn(j, c) = dirty[c].rev =>
            dirty[c].state = "inflight" /\ j.entries[c].data = content[c]
  /\ dirty[c].state \in {"none", "persisted"} => \A j \in Jobs : ~Mentions(j, c)

\* The current revision is written: settled, acked as written, or past the worker.
WrittenAck(a, c) == a.ok /\ Mentions(a.job, c) /\ RevisionIn(a.job, c) = dirty[c].rev
WrittenByWorker(c) ==
  /\ worker # Idle /\ worker.ok /\ RegionOf[c] \notin worker.todo
  /\ Mentions(worker.job, c) /\ RevisionIn(worker.job, c) = dirty[c].rev
Written(c) ==
  \/ dirty[c].state \in {"none", "persisted"}
  \/ \E i \in DOMAIN acks : WrittenAck(acks[i], c)
  \/ WrittenByWorker(c)

\* v is what the column holds in memory, or nothing where memory holds what the seed gives.
Agrees(c, v) ==
  IF Resident(c) THEN v = content[c] \/ (v = NoData /\ content[c] = {}) ELSE v = NoData

\* Then the file, and every image the save thread may write over it, holds the column.
Settled(c) ==
  /\ Agrees(c, disk[c])
  /\ Store!Hit("worker", RegionOf[c]) => Agrees(c, image["worker"][c])
  /\ held["worker"] # NoWrite /\ held["worker"].region = RegionOf[c]
       => Agrees(c, held["worker"].base[c])

\* The tick thread writes only regions with columns that may be out of reach.
TickStaysAway ==
  /\ Columns \ Evictable \subseteq keep
  /\ tick.phase = "flush" => tick.todo \subseteq Evictable
  /\ held["tick"] # NoWrite =>
       /\ DOMAIN held["tick"].entries \subseteq Evictable
       /\ \E e \in Evictable : RegionOf[e] = held["tick"].region

\* What the save thread holds is the part of its job in a region it has still to write.
WorkerHolds ==
  held["worker"] # NoWrite =>
    LET h == held["worker"]
    IN  /\ worker # Idle /\ h.region \in worker.todo
        /\ \A c \in Columns : c \in DOMAIN h.entries
             <=> c \in DOMAIN worker.job.entries /\ RegionOf[c] = h.region
        /\ \A c \in DOMAIN h.entries : h.entries[c] = worker.job.entries[c].data

ColumnInv(c) == Ordered(c) /\ Current(c) /\ (Written(c) => Settled(c))

DurableInv ==
  /\ DOMAIN stamped = Managers
  /\ TickStaysAway /\ WorkerHolds
  /\ \A c \in Pinned : ColumnInv(c)

-----------------------------------------------------------------------------
(* The way of the jobs.                                                      *)

LEMMA JobsAreTyped == JobTypes => Jobs \subseteq AnyJob
  <1> SUFFICES ASSUME JobTypes PROVE Jobs \subseteq AnyJob
    OBVIOUS
  <1>1. \A i \in DOMAIN queue : queue[i] \in AnyJob
    BY LenProperties, ElementOfSeq DEF JobTypes, ChannelTypes
  <1>2. \A i \in DOMAIN acks : acks[i] \in AnyAck
    BY LenProperties, ElementOfSeq DEF JobTypes, ChannelTypes
  <1>3. \A i \in DOMAIN acks : acks[i].job \in AnyJob
    BY <1>2 DEF AnyAck
  <1>4. worker # Idle => worker.job \in AnyJob
    BY DEF JobTypes, ChannelTypes, Busy
  <1>5. QED
    BY <1>1, <1>3, <1>4 DEF Jobs

LEMMA EntriesAreTyped ==
  ASSUME NEW j \in AnyJob, NEW c, Mentions(j, c)
  PROVE  c \in Columns /\ RevisionIn(j, c) \in Nat /\ j.entries[c].data \in SUBSET Edit
  <1>1. j.entries \in Entries
    BY DEF AnyJob, Mentions
  <1>2. QED
    BY <1>1 DEF Entries, Mentions, RevisionIn

LEMMA JobsAfterAppend ==
  ASSUME JobTypes, NEW j \in AnyJob, queue' = Append(queue, j), UNCHANGED <<acks, worker>>
  PROVE  Jobs' \subseteq Jobs \union {j}
  <1>1. /\ Len(queue) \in Nat /\ DOMAIN queue = 1 .. Len(queue)
        /\ DOMAIN queue' = 1 .. Len(queue) + 1
        /\ \A i \in 1 .. Len(queue) : queue'[i] = queue[i]
        /\ queue'[Len(queue) + 1] = j
    BY QueueAppended DEF JobTypes, ChannelTypes
  <1>2. QED
    BY <1>1 DEF Jobs

LEMMA OrderedAfterAppend ==
  ASSUME JobTypes, NEW j \in AnyJob, queue' = Append(queue, j), UNCHANGED <<acks, worker>>,
         NEW c, Ordered(c), \A k \in Jobs : Earlier(k, j, c)
  PROVE  Ordered(c)'
  <1>1. /\ Len(queue) \in Nat /\ DOMAIN queue = 1 .. Len(queue)
        /\ DOMAIN queue' = 1 .. Len(queue) + 1
        /\ \A i \in 1 .. Len(queue) : queue'[i] = queue[i]
        /\ queue'[Len(queue) + 1] = j
    BY QueueAppended DEF JobTypes, ChannelTypes
  <1>2. /\ \A i \in DOMAIN queue : Earlier(queue[i], j, c)
        /\ \A i \in DOMAIN acks : Earlier(acks[i].job, j, c)
        /\ worker # Idle => Earlier(worker.job, j, c)
    BY DEF Jobs
  <1>3. \A i, k \in DOMAIN queue' : i < k => Earlier(queue'[i], queue'[k], c)
    BY <1>1, <1>2 DEF Ordered
  <1>4. \A k \in DOMAIN queue' : (k \in DOMAIN queue /\ queue'[k] = queue[k]) \/ queue'[k] = j
    BY <1>1
  <1>5. \A i \in DOMAIN acks, k \in DOMAIN queue' : Earlier(acks[i].job, queue'[k], c)
    BY <1>2, <1>4 DEF Ordered
  <1>6. worker # Idle => \A k \in DOMAIN queue' : Earlier(worker.job, queue'[k], c)
    BY <1>2, <1>4 DEF Ordered
  <1>7. QED
    BY <1>3, <1>5, <1>6 DEF Ordered, Earlier, Mentions, RevisionIn

\* The worker takes the oldest job.
LEMMA OrderedReceived ==
  ASSUME JobTypes, Receive
  PROVE  Jobs' \subseteq Jobs /\ \A c : Ordered(c) => Ordered(c)'
  <1>1. /\ worker = Idle /\ queue # << >> /\ queue' = Tail(queue) /\ UNCHANGED acks
        /\ worker'.job = Head(queue)
    BY DEF Receive
  <1>2. /\ Len(queue) \in Nat \ {0} /\ DOMAIN queue = 1 .. Len(queue) /\ Head(queue) = queue[1]
        /\ DOMAIN queue' = 1 .. Len(queue) - 1
        /\ \A i \in DOMAIN queue' : queue'[i] = queue[i + 1]
    BY <1>1, QueueTaken DEF JobTypes, ChannelTypes
  <1>3. \A i \in DOMAIN queue' : i \in Nat /\ i + 1 \in DOMAIN queue /\ 1 < i + 1
    BY <1>2
  <1>4. 1 \in DOMAIN queue /\ worker'.job = queue[1]
    BY <1>1, <1>2
  <1>5. Jobs' \subseteq Jobs
    BY <1>1, <1>2, <1>3, <1>4 DEF Jobs
  <1>6. ASSUME NEW c, Ordered(c) PROVE Ordered(c)'
    <2>1. \A i, k \in DOMAIN queue' : i < k => Earlier(queue'[i], queue'[k], c)
      <3> SUFFICES ASSUME NEW i \in DOMAIN queue', NEW k \in DOMAIN queue', i < k
                   PROVE  Earlier(queue'[i], queue'[k], c)
        OBVIOUS
      <3>1. i + 1 < k + 1
        BY <1>3
      <3>2. QED
        BY <1>2, <1>3, <1>6, <3>1 DEF Ordered
    <2>2. \A i \in DOMAIN acks, k \in DOMAIN queue' : Earlier(acks[i].job, queue'[k], c)
      BY <1>2, <1>3, <1>6 DEF Ordered
    <2>3. \A i \in DOMAIN acks : Earlier(acks[i].job, worker'.job, c)
      BY <1>4, <1>6 DEF Ordered
    <2>4. \A k \in DOMAIN queue' : Earlier(worker'.job, queue'[k], c)
      BY <1>2, <1>3, <1>4, <1>6 DEF Ordered
    <2>5. \A i, k \in DOMAIN acks : i < k => Earlier(acks[i].job, acks[k].job, c)
      BY <1>6 DEF Ordered
    <2>6. QED
      BY <1>1, <2>1, <2>2, <2>3, <2>4, <2>5 DEF Ordered, Earlier, Mentions, RevisionIn
  <1>7. QED
    BY <1>5, <1>6

\* What the worker acks is newer than what it acked before.
LEMMA OrderedAcked ==
  ASSUME JobTypes, SendAck
  PROVE  Jobs' \subseteq Jobs /\ \A c : Ordered(c) => Ordered(c)'
  <1> DEFINE a == [job |-> worker.job, ok |-> worker.ok]
  <1>1. worker # Idle /\ worker' = Idle /\ acks' = Append(acks, a) /\ UNCHANGED queue
    BY DEF SendAck
  <1>2. a \in AnyAck
    BY <1>1 DEF JobTypes, ChannelTypes, Busy, AnyAck
  <1>3. /\ Len(acks) \in Nat /\ DOMAIN acks = 1 .. Len(acks) /\ DOMAIN acks' = 1 .. Len(acks) + 1
        /\ \A i \in 1 .. Len(acks) : acks'[i] = acks[i]
        /\ acks'[Len(acks) + 1] = a
    BY <1>1, <1>2, QueueAppended DEF JobTypes, ChannelTypes
  <1>4. a.job = worker.job
    OBVIOUS
  <1> HIDE DEF a
  <1>5. \A i \in DOMAIN acks' :
          \/ i \in DOMAIN acks /\ acks'[i] = acks[i]
          \/ i = Len(acks) + 1 /\ acks'[i].job = worker.job
    BY <1>3, <1>4
  <1>6. Jobs' \subseteq Jobs
    BY <1>1, <1>5 DEF Jobs
  <1>7. ASSUME NEW c, Ordered(c) PROVE Ordered(c)'
    <2>1. \A i, k \in DOMAIN acks' : i < k => Earlier(acks'[i].job, acks'[k].job, c)
      <3> SUFFICES ASSUME NEW i \in DOMAIN acks', NEW k \in DOMAIN acks', i < k
                   PROVE  Earlier(acks'[i].job, acks'[k].job, c)
        OBVIOUS
      <3>1. i \in DOMAIN acks /\ acks'[i] = acks[i]
        BY <1>3
      <3>2. QED
        BY <1>1, <1>5, <1>7, <3>1 DEF Ordered
    <2>2. \A i \in DOMAIN acks', k \in DOMAIN queue : Earlier(acks'[i].job, queue[k], c)
      BY <1>1, <1>5, <1>7 DEF Ordered
    <2>3. \A i, k \in DOMAIN queue : i < k => Earlier(queue[i], queue[k], c)
      BY <1>7 DEF Ordered
    <2>4. QED
      BY <1>1, <2>1, <2>2, <2>3 DEF Ordered, Earlier, Mentions, RevisionIn
  <1>8. QED
    BY <1>6, <1>7

LEMMA OrderedWriting ==
  ASSUME JobTypes, WorkerTake \/ WorkerReplace \/ \E renamed \in BOOLEAN : WorkerFails(renamed)
  PROVE  Jobs' \subseteq Jobs /\ \A c : Ordered(c) => Ordered(c)'
  <1>1. UNCHANGED <<queue, acks>>
    BY DEF WorkerTake, WorkerReplace, WorkerFails, workerVars
  <1>2. worker # Idle /\ worker'.job = worker.job
    BY DEF WorkerTake, WorkerReplace, WorkerFails, workerVars, JobTypes, ChannelTypes, Busy
  <1>3. QED
    BY <1>1, <1>2 DEF Jobs, Ordered, Earlier, Mentions, RevisionIn

\* The tick thread takes the oldest ack; whatever remains of its columns is newer.
LEMMA OrderedTaken ==
  ASSUME JobTypes, acks # << >>, acks' = Tail(acks), UNCHANGED <<queue, worker>>
  PROVE  /\ Jobs' \subseteq Jobs /\ Head(acks).job \in Jobs /\ Head(acks) \in AnyAck
         /\ \A i \in DOMAIN acks' : \E k \in DOMAIN acks : acks'[i] = acks[k]
         /\ 1 \in DOMAIN acks /\ Head(acks) = acks[1]
         /\ \A c : Ordered(c) => Ordered(c)' /\ \A j \in Jobs' : Earlier(Head(acks).job, j, c)
  <1>1. /\ Len(acks) \in Nat \ {0} /\ DOMAIN acks = 1 .. Len(acks) /\ Head(acks) = acks[1]
        /\ DOMAIN acks' = 1 .. Len(acks) - 1 /\ Head(acks) \in AnyAck
        /\ \A i \in DOMAIN acks' : acks'[i] = acks[i + 1]
    BY QueueTaken DEF JobTypes, ChannelTypes
  <1>2. \A i \in DOMAIN acks' : i \in Nat /\ i + 1 \in DOMAIN acks /\ 1 < i + 1
    BY <1>1
  <1>3. 1 \in DOMAIN acks
    BY <1>1
  <1>4. Jobs' \subseteq Jobs /\ Head(acks).job \in Jobs
    BY <1>1, <1>2, <1>3 DEF Jobs
  <1>5. ASSUME NEW c, Ordered(c) PROVE Ordered(c)' /\ \A j \in Jobs' : Earlier(Head(acks).job, j, c)
    <2>1. \A i, k \in DOMAIN acks' : i < k => Earlier(acks'[i].job, acks'[k].job, c)
      <3> SUFFICES ASSUME NEW i \in DOMAIN acks', NEW k \in DOMAIN acks', i < k
                   PROVE  Earlier(acks'[i].job, acks'[k].job, c)
        OBVIOUS
      <3>1. i + 1 < k + 1
        BY <1>2
      <3>2. QED
        BY <1>1, <1>2, <1>5, <3>1 DEF Ordered
    <2>2. \A i \in DOMAIN acks', k \in DOMAIN queue : Earlier(acks'[i].job, queue[k], c)
      BY <1>1, <1>2, <1>5 DEF Ordered
    <2>3. worker # Idle => \A i \in DOMAIN acks' : Earlier(acks'[i].job, worker.job, c)
      BY <1>1, <1>2, <1>5 DEF Ordered
    <2>4. Ordered(c)'
      BY <1>5, <2>1, <2>2, <2>3 DEF Ordered, Earlier, Mentions, RevisionIn
    <2>5. \A i \in DOMAIN acks' : Earlier(acks[1].job, acks'[i].job, c)
      BY <1>1, <1>2, <1>3, <1>5 DEF Ordered
    <2>6. \A j \in Jobs' : Earlier(acks[1].job, j, c)
      BY <1>3, <1>5, <2>5 DEF Ordered, Jobs
    <2>7. QED
      BY <1>1, <2>4, <2>6
  <1>6. QED
    BY <1>1, <1>2, <1>3, <1>4, <1>5

-----------------------------------------------------------------------------
(* What the steps leave alone.                                               *)

\* A column nobody touches, in memory or in the files, keeps its part.
LEMMA QuietColumn ==
  ASSUME NEW c \in Columns, ColumnInv(c), UNCHANGED <<queue, acks, worker>>,
         content'[c] = content[c], dirty'[c] = dirty[c], disk'[c] = disk[c],
         cached'["worker"] = cached["worker"], stamped'["worker"] = stamped["worker"],
         image'["worker"] = image["worker"], held'["worker"] = held["worker"]
  PROVE  ColumnInv(c)'
  <1>1. Jobs' = Jobs
    BY DEF Jobs
  <1>2. Ordered(c)'
    BY DEF ColumnInv, Ordered, Earlier, Mentions, RevisionIn
  <1>3. Current(c)'
    BY <1>1 DEF ColumnInv, Current, Mentions, RevisionIn
  <1>4. Written(c)' => Written(c)
    BY DEF Written, WrittenAck, WrittenByWorker, Mentions, RevisionIn
  <1>5. Settled(c) => Settled(c)'
    BY DEF Settled, Agrees, Resident, Store!Hit
  <1>6. QED
    BY <1>2, <1>3, <1>4, <1>5 DEF ColumnInv

\* One manager's step leaves the cache and the write of the other alone.
LEMMA ManagersAreApart ==
  ASSUME StoreInv, DOMAIN stamped = Managers, NEW m \in Managers,
         \/ \E r, entries : Store!Take(m, r, entries)
         \/ Store!Replace(m) \/ \E renamed \in BOOLEAN : Store!ReplaceFails(m, renamed)
  PROVE  /\ DOMAIN stamped' = Managers
         /\ \A n \in Managers \ {m} :
              /\ cached'[n] = cached[n] /\ stamped'[n] = stamped[n]
              /\ image'[n] = image[n] /\ held'[n] = held[n]
  <1>1. \E kept, images, stamps : Store!CacheIs(m, kept, images, stamps)
    BY DEF Store!Take, Store!Replace, Store!ReplaceFails
  <1>2. \E h : held' = [held EXCEPT ![m] = h]
    BY DEF Store!Take, Store!Replace, Store!ReplaceFails
  <1>3. QED
    BY <1>1, <1>2 DEF Store!CacheIs, StoreInv

LEMMA PinnedIsKept ==
  ASSUME NEW c \in Pinned
  PROVE  /\ c \in Columns /\ c \notin Evictable /\ c \notin failedRestore
         /\ TickStaysAway => c \in keep /\ \A d \in Dimensions : c \notin Unkept(d)
  BY DEF Pinned, TickStaysAway, Unkept

\* Neither do the writes of the tick thread reach the file of a pinned column.
LEMMA TickWritesElsewhere ==
  ASSUME Inv, DurableInv, NEW c \in Pinned,
         \/ \E r, entries : Store!Take("tick", r, entries)
         \/ Store!Replace("tick") \/ \E renamed \in BOOLEAN : Store!ReplaceFails("tick", renamed)
  PROVE  /\ disk'[c] = disk[c]
         /\ cached'["worker"] = cached["worker"] /\ stamped'["worker"] = stamped["worker"]
         /\ image'["worker"] = image["worker"] /\ held'["worker"] = held["worker"]
  <1>1. "worker" \in Managers \ {"tick"} /\ "tick" \in Managers
    BY DEF Managers
  <1>2. held["tick"] # NoWrite => RegionOf[c] # held["tick"].region
    BY DEF DurableInv, TickStaysAway, Pinned
  <1>3. disk'[c] = disk[c]
    BY <1>2, PinnedIsKept DEF Store!Take, Store!Replace, Store!ReplaceFails, Store!DiskHolds
  <1>4. QED
    BY <1>1, <1>3, ManagersAreApart DEF Inv, DurableInv

\* The world turns, and nothing happens to a pinned column but its own edits.
LEMMA DropElsewhere ==
  ASSUME Inv, TickStaysAway, NEW c \in Pinned, NEW S, Drop(S), c \notin S
  PROVE  content'[c] = content[c] /\ dirty'[c] = dirty[c]
  BY PinnedIsKept DEF Drop

\* An edit starts a revision that no job can have yet.
LEMMA ColumnMutated ==
  ASSUME Inv, JobTypes, NEW c \in Pinned, ColumnInv(c), Mutate(c)
  PROVE  ColumnInv(c)'
  <1>1. c \in Columns /\ UNCHANGED <<queue, acks, worker>>
    BY PinnedIsKept, WorldStepsLeaveChannels DEF WorldSteps
  <1>2. dirty[c].rev \in Nat /\ dirty'[c] = [state |-> "dirty", rev |-> dirty[c].rev + 1]
    BY <1>1 DEF Mutate, JobTypes, WorldTypes, Revisions
  <1>3. Jobs' = Jobs
    BY <1>1 DEF Jobs
  <1>4. \A j \in Jobs : Mentions(j, c) => RevisionIn(j, c) \in Nat /\ RevisionIn(j, c) < dirty'[c].rev
    <2> SUFFICES ASSUME NEW j \in Jobs, Mentions(j, c)
                 PROVE  RevisionIn(j, c) \in Nat /\ RevisionIn(j, c) < dirty'[c].rev
      OBVIOUS
    <2>1. RevisionIn(j, c) \in Nat
      BY JobsAreTyped, EntriesAreTyped
    <2>2. RevisionIn(j, c) <= dirty[c].rev
      BY DEF ColumnInv, Current
    <2>3. QED
      BY <1>2, <2>1, <2>2
  <1>5. Ordered(c)'
    BY <1>1 DEF ColumnInv, Ordered, Earlier, Mentions, RevisionIn
  <1>6. Current(c)'
    <2>1. dirty'[c].state = "dirty" /\ dirty'[c].rev \in Nat
      BY <1>2
    <2>2. QED
      BY <1>3, <1>4, <2>1 DEF Current, Mentions, RevisionIn
  <1>7. ~Written(c)'
    <2>1. /\ \A i \in DOMAIN acks : acks[i].job \in Jobs
          /\ worker # Idle => worker.job \in Jobs
      BY DEF Jobs
    <2>2. \A j \in Jobs : Mentions(j, c) => RevisionIn(j, c) # dirty'[c].rev
      BY <1>2, <1>4
    <2>3. dirty'[c].state \notin {"none", "persisted"}
      BY <1>2
    <2>4. QED
      BY <1>1, <2>1, <2>2, <2>3 DEF Written, WrittenAck, WrittenByWorker, Mentions, RevisionIn
  <1>8. QED
    BY <1>5, <1>6, <1>7 DEF ColumnInv

\* Only a column without revisions is materialized.
LEMMA ColumnMaterialized ==
  ASSUME Inv, JobTypes, NEW c \in Pinned, ColumnInv(c), Materialize(c)
  PROVE  ColumnInv(c)'
  <1>1. c \in Columns /\ UNCHANGED <<queue, acks, worker>>
    BY PinnedIsKept, WorldStepsLeaveChannels DEF WorldSteps
  <1>2. ~Resident(c) /\ dirty[c] = Clean /\ dirty' = dirty
    BY <1>1 DEF Materialize, Inv, WorldInv, DirtyIsResident
  <1>3. Written(c) /\ \A j \in Jobs : ~Mentions(j, c)
    BY <1>2 DEF ColumnInv, Current, Written, Clean
  <1>4. content'[c] = {} /\ UNCHANGED storeVars
    BY <1>1 DEF Materialize, Inv, WorldInv
  <1>5. Settled(c)'
    BY <1>2, <1>3, <1>4 DEF ColumnInv, Settled, Agrees, Resident, Store!Hit, storeVars
  <1>6. Jobs' = Jobs
    BY <1>1 DEF Jobs
  <1>7. Current(c)'
    BY <1>3, <1>6 DEF Current, Mentions
  <1>8. Ordered(c)'
    BY <1>1 DEF ColumnInv, Ordered, Earlier, Mentions, RevisionIn
  <1>9. QED
    BY <1>5, <1>7, <1>8 DEF ColumnInv

LEMMA ColumnInWorldSteps ==
  ASSUME Inv, JobTypes, DurableInv, NEW c \in Pinned, WorldSteps
  PROVE  ColumnInv(c)'
  <1> USE PinnedIsKept
  <1>0. ColumnInv(c) /\ TickStaysAway /\ UNCHANGED <<queue, acks, worker>>
    BY WorldStepsLeaveChannels DEF DurableInv
  <1>1. CASE \E b \in Columns : Mutate(b) \/ Materialize(b)
    <2>1. CASE Mutate(c) \/ Materialize(c)
      BY <1>0, <2>1, ColumnMutated, ColumnMaterialized
    <2>2. CASE \E b \in Columns \ {c} : Mutate(b) \/ Materialize(b)
      <3>1. content'[c] = content[c] /\ dirty'[c] = dirty[c] /\ UNCHANGED storeVars
        BY <2>2 DEF Mutate, Materialize, Inv, WorldInv
      <3>2. QED
        BY <1>0, <3>1, QuietColumn DEF storeVars
    <2>3. QED
      BY <1>1, <2>1, <2>2
  <1>2. CASE \E d \in Dimensions : EvictClean(d)
    <2>1. PICK d \in Dimensions : EvictClean(d)
      BY <1>2
    <2>2. content'[c] = content[c] /\ dirty'[c] = dirty[c] /\ UNCHANGED storeVars
      BY <1>0, <2>1, DropElsewhere DEF EvictClean
    <2>3. QED
      BY <1>0, <2>2, QuietColumn DEF storeVars
  <1>3. CASE FlushDone
    <2>1. Least(tick.dims) \in Dimensions => c \notin Unkept(Least(tick.dims))
      BY <1>0
    <2>2. c \notin {b \in Unkept(Least(tick.dims)) : tick.single => ~IsDirty(b)}
      BY <1>0 DEF Unkept, ColumnsOf
    <2>3. content'[c] = content[c] /\ dirty'[c] = dirty[c] /\ UNCHANGED storeVars
      BY <1>0, <1>3, <2>2, DropElsewhere DEF FlushDone
    <2>4. QED
      BY <1>0, <2>3, QuietColumn DEF storeVars
  <1>4. CASE FlushReplace
    <2>1. held["tick"] # NoWrite /\ c \notin DOMAIN held["tick"].entries
      BY <1>0, <1>4 DEF FlushReplace, Store!Replace, TickStaysAway
    <2>2. content'[c] = content[c] /\ dirty'[c] = dirty[c]
      BY <1>0, <1>4, <2>1, DropElsewhere DEF FlushReplace
    <2>3. Store!Replace("tick")
      BY <1>4 DEF FlushReplace
    <2>4. QED
      BY <1>0, <2>2, <2>3, TickWritesElsewhere, QuietColumn
  <1>5. CASE FlushTake \/ \E renamed \in BOOLEAN : FlushFails(renamed)
    <2>1. content' = content /\ dirty' = dirty
      BY <1>5 DEF FlushTake, FlushFails, worldVars
    <2>2. \/ \E r, entries : Store!Take("tick", r, entries)
          \/ \E renamed \in BOOLEAN : Store!ReplaceFails("tick", renamed)
      BY <1>5 DEF FlushTake, FlushFails
    <2>3. QED
      BY <1>0, <2>1, <2>2, TickWritesElsewhere, QuietColumn
  <1>6. CASE \/ \E k \in SUBSET Columns : Move(k)
             \/ \E d \in Dimensions : EntityChange(d) \/ EvictDirty(d)
             \/ DrainDone \/ BeginEvict \/ EndTick \/ Close
             \/ Autosave \/ SaveAll \/ Shutdown \/ WaitTimeout
    <2>1. UNCHANGED <<storeVars, content, dirty>>
      BY <1>6 DEF Move, EntityChange, EvictDirty, DrainDone, BeginEvict, EndTick, Close, Autosave,
                  SaveAll, Shutdown, WaitTimeout, worldVars
    <2>2. QED
      BY <1>0, <2>1, QuietColumn DEF storeVars
  <1>7. QED
    BY <1>1, <1>2, <1>3, <1>4, <1>5, <1>6 DEF WorldSteps

-----------------------------------------------------------------------------
(* Saving, and taking acks.                                                  *)

\* A job that does not name the column changes nothing for it.
LEMMA ColumnNotSaved ==
  ASSUME JobTypes, NEW c \in Columns, ColumnInv(c), NEW j \in AnyJob, ~Mentions(j, c),
         queue' = Append(queue, j), UNCHANGED <<acks, worker, storeVars, content>>,
         dirty'[c] = dirty[c]
  PROVE  ColumnInv(c)'
  <1>1. Ordered(c)'
    BY OrderedAfterAppend DEF ColumnInv, Earlier
  <1>2. Current(c)'
    BY JobsAfterAppend DEF ColumnInv, Current, Mentions, RevisionIn
  <1>3. Written(c)' => Written(c)
    BY DEF Written, WrittenAck, WrittenByWorker, Mentions, RevisionIn
  <1>4. Settled(c) => Settled(c)'
    BY DEF Settled, Agrees, Resident, Store!Hit, storeVars
  <1>5. QED
    BY <1>1, <1>2, <1>3, <1>4 DEF ColumnInv

\* A dirty column goes into the job with the revision it has, which no older job saves.
LEMMA ColumnSaved ==
  ASSUME JobTypes, NEW c \in Columns, ColumnInv(c), dirty[c].state = "dirty",
         NEW j \in AnyJob, Mentions(j, c), RevisionIn(j, c) = dirty[c].rev,
         j.entries[c].data = content[c],
         queue' = Append(queue, j), UNCHANGED <<acks, worker, storeVars, content>>,
         dirty'[c] = [dirty[c] EXCEPT !.state = "inflight"]
  PROVE  ColumnInv(c)'
  <1>1. /\ dirty[c] \in Revisions
        /\ dirty'[c].state = "inflight" /\ dirty'[c].rev = dirty[c].rev /\ dirty[c].rev \in Nat
    BY DEF JobTypes, WorldTypes, Revisions
  <1>2. ASSUME NEW k \in Jobs, Mentions(k, c)
        PROVE  RevisionIn(k, c) \in Nat /\ RevisionIn(k, c) < dirty[c].rev
    <2>1. RevisionIn(k, c) \in Nat
      BY <1>2, JobsAreTyped, EntriesAreTyped
    <2>2. RevisionIn(k, c) <= dirty[c].rev /\ RevisionIn(k, c) # dirty[c].rev
      BY <1>2 DEF ColumnInv, Current
    <2>3. QED
      BY <1>1, <2>1, <2>2
  <1>3. Ordered(c)'
    <2>1. \A k \in Jobs : Earlier(k, j, c)
      BY <1>2 DEF Earlier
    <2>2. QED
      BY <2>1, OrderedAfterAppend DEF ColumnInv
  <1>4. Current(c)'
    <2>1. \A k \in Jobs' : Mentions(k, c) =>
            /\ RevisionIn(k, c) <= dirty'[c].rev
            /\ RevisionIn(k, c) = dirty'[c].rev => k.entries[c].data = content[c]
      <3>1. Jobs' \subseteq Jobs \union {j}
        BY JobsAfterAppend
      <3>2. \A k \in Jobs : Mentions(k, c) =>
              RevisionIn(k, c) <= dirty'[c].rev /\ RevisionIn(k, c) # dirty'[c].rev
        BY <1>1, <1>2
      <3>3. RevisionIn(j, c) <= dirty'[c].rev
        BY <1>1
      <3>4. QED
        BY <3>1, <3>2, <3>3
    <2>2. QED
      BY <1>1, <2>1 DEF Current, Mentions, RevisionIn
  <1>5. ~Written(c)'
    <2>1. /\ \A i \in DOMAIN acks : acks[i].job \in Jobs
          /\ worker # Idle => worker.job \in Jobs
      BY DEF Jobs
    <2>2. \A k \in Jobs : Mentions(k, c) => RevisionIn(k, c) # dirty'[c].rev
      BY <1>1, <1>2
    <2>3. QED
      BY <1>1, <2>1, <2>2 DEF Written, WrittenAck, WrittenByWorker, Mentions, RevisionIn
  <1>6. QED
    BY <1>3, <1>4, <1>5 DEF ColumnInv

LEMMA ColumnInSaving ==
  ASSUME Inv, JobTypes, DurableInv, NEW c \in Pinned,
         SaveChunks \/ SaveEntities \/ SaveSidecars \/ EnqueueBarrier
  PROVE  ColumnInv(c)'
  <1> USE ChunkSaveAssumption, PinnedIsKept
  <1>0. ColumnInv(c)
    BY DEF DurableInv
  <1>1. CASE SaveChunks
    <2> DEFINE d == Least(tick.dims)
               S == {b \in ColumnsOf(d) : IsDirty(b) /\ Resident(b)}
               entries == [b \in S |-> [rev |-> dirty[b].rev, data |-> content[b]]]
               j == ChunkJob(d, entries)
    <2>1. tick.dims # {} /\ tick.dims \subseteq Nat /\ tick.dims \subseteq Dimensions
      BY <1>1 DEF SaveChunks, JobTypes, PlaceTypes
    <2>2. d \in Dimensions
      BY <2>1, LeastIsMember
    <2>3. j \in AnyJob
      BY <2>2, ChunkJobType
    <2>4. UNCHANGED <<acks, worker, storeVars, content>>
      BY <1>1 DEF SaveChunks
    <2>5. \/ UNCHANGED <<dirty, queue>>
          \/ /\ queue' = Append(queue, j)
             /\ dirty' = [b \in Columns |->
                  IF b \in S THEN [dirty[b] EXCEPT !.state = "inflight"] ELSE dirty[b]]
      BY <1>1 DEF SaveChunks
    <2>6. /\ Mentions(j, c) <=> c \in S
          /\ c \in S => /\ dirty[c].state = "dirty" /\ RevisionIn(j, c) = dirty[c].rev
                        /\ j.entries[c].data = content[c]
      BY DEF ChunkJob, Mentions, RevisionIn, IsDirty
    <2> HIDE DEF d, S, entries, j
    <2>7. CASE UNCHANGED <<dirty, queue>>
      BY <1>0, <2>4, <2>7, QuietColumn DEF storeVars
    <2>8. CASE /\ queue' = Append(queue, j)
               /\ dirty' = [b \in Columns |->
                    IF b \in S THEN [dirty[b] EXCEPT !.state = "inflight"] ELSE dirty[b]]
      <3>1. CASE c \in S
        BY <1>0, <2>3, <2>4, <2>6, <2>8, <3>1, ColumnSaved
      <3>2. CASE c \notin S
        BY <1>0, <2>3, <2>4, <2>6, <2>8, <3>2, ColumnNotSaved
      <3>3. QED
        BY <3>1, <3>2
    <2>9. QED
      BY <2>5, <2>7, <2>8
  <1>2. CASE SaveEntities \/ SaveSidecars \/ EnqueueBarrier
    <2>1. UNCHANGED <<acks, worker, storeVars, content, dirty>>
      BY <1>2 DEF SaveEntities, SaveSidecars, EnqueueBarrier, worldVars
    <2>2. \/ UNCHANGED queue
          \/ \E j \in AnyJob : ~Mentions(j, c) /\ queue' = Append(queue, j)
      <3>1. CASE SaveEntities
        <4>1. Least(tick.dims) \in Dimensions
          BY <3>1, LeastIsMember DEF SaveEntities, JobTypes, PlaceTypes
        <4>2. EntityJob(Least(tick.dims)) \in AnyJob /\ ~Mentions(EntityJob(Least(tick.dims)), c)
          BY <4>1 DEF EntityJob, AnyJob, JobTypes, WorldTypes, Mentions
        <4>3. QED
          BY <3>1, <4>2 DEF SaveEntities
      <3>2. CASE SaveSidecars
        BY <3>2 DEF SaveSidecars, SidecarJob, AnyJob, Mentions
      <3>3. CASE EnqueueBarrier
        BY <3>3 DEF EnqueueBarrier, BarrierJob, AnyJob, Mentions, JobTypes, WorldTypes
      <3>4. QED
        BY <1>2, <3>1, <3>2, <3>3
    <2>3. QED
      BY <1>0, <2>1, <2>2, ColumnNotSaved, QuietColumn DEF storeVars
  <1>3. QED
    BY <1>1, <1>2

\* An ack settles the revision it carries, which no job left behind it saves, or puts it
\* back to dirty; an older one does nothing.
LEMMA ColumnInTaking ==
  ASSUME Inv, JobTypes, DurableInv, NEW c \in Pinned, DrainAck \/ WaitAck \/ DiscardAck
  PROVE  ColumnInv(c)'
  <1> USE PinnedIsKept
  <1> DEFINE a == Head(acks)
  <1>1. /\ acks # << >> /\ acks' = Tail(acks)
        /\ UNCHANGED <<queue, worker, storeVars, content>>
        /\ ApplyAck(a) \/ UNCHANGED dirty
    BY DEF DrainAck, WaitAck, DiscardAck, worldVars
  <1>2. ColumnInv(c)
    BY DEF DurableInv
  <1>3. /\ Jobs' \subseteq Jobs /\ a.job \in Jobs /\ a \in AnyAck
        /\ \A i \in DOMAIN acks' : \E k \in DOMAIN acks : acks'[i] = acks[k]
        /\ 1 \in DOMAIN acks /\ a = acks[1]
        /\ Ordered(c)'
        /\ \A j \in Jobs' : Earlier(a.job, j, c)
    BY <1>1, <1>2, OrderedTaken DEF ColumnInv
  <1> HIDE DEF a
  <1>4. Settled(c) => Settled(c)'
    BY <1>1 DEF Settled, Agrees, Resident, Store!Hit, storeVars
  <1>5. CASE dirty'[c] = dirty[c]
    <2>1. Current(c)'
      BY <1>1, <1>2, <1>3, <1>5 DEF ColumnInv, Current, Mentions, RevisionIn
    <2>2. Written(c)' => Written(c)
      BY <1>1, <1>3, <1>5 DEF Written, WrittenAck, WrittenByWorker, Mentions, RevisionIn
    <2>3. QED
      BY <1>2, <1>3, <1>4, <2>1, <2>2 DEF ColumnInv
  <1>6. CASE dirty'[c] # dirty[c]
    <2>1. /\ Mentions(a.job, c) /\ RevisionIn(a.job, c) = dirty[c].rev
          /\ dirty'[c].rev = dirty[c].rev
          /\ dirty'[c].state = IF a.ok THEN "persisted" ELSE "dirty"
      <3>1. a.job.kind = "chunks"
        BY <1>1, <1>6 DEF ApplyAck
      <3>2. /\ c \in DOMAIN a.job.entries
            /\ dirty'[c] = Acknowledged(c, a.job.entries[c].rev, a.ok)
        BY <1>1, <1>6, <3>1 DEF ApplyAck
      <3>3. dirty[c] = [state |-> "inflight", rev |-> a.job.entries[c].rev]
        BY <1>6, <3>2 DEF Acknowledged
      <3>4. QED
        BY <3>1, <3>2, <3>3 DEF Acknowledged, Mentions, RevisionIn
    <2>2. \A j \in Jobs' : ~Mentions(j, c)
      <3> SUFFICES ASSUME NEW j \in Jobs', Mentions(j, c) PROVE FALSE
        OBVIOUS
      <3>1. RevisionIn(j, c) \in Nat /\ dirty[c].rev \in Nat
        BY <1>3, JobsAreTyped, EntriesAreTyped DEF JobTypes, WorldTypes, Revisions
      <3>2. dirty[c].rev < RevisionIn(j, c)
        BY <1>3, <2>1 DEF Earlier
      <3>3. RevisionIn(j, c) <= dirty[c].rev
        BY <1>2, <1>3 DEF ColumnInv, Current
      <3>4. QED
        BY <3>1, <3>2, <3>3
    <2>3. Current(c)'
      BY <2>2 DEF Current, Mentions
    <2>4. CASE a.ok
      <3>1. Written(c)
        BY <1>3, <2>1, <2>4 DEF Written, WrittenAck
      <3>2. QED
        BY <1>2, <1>3, <1>4, <2>3, <3>1 DEF ColumnInv
    <2>5. CASE ~a.ok
      <3>1. \A i \in DOMAIN acks' : ~Mentions(acks'[i].job, c)
        BY <2>2 DEF Jobs
      <3>2. worker' # Idle => ~Mentions(worker'.job, c)
        BY <2>2 DEF Jobs
      <3>3. ~Written(c)'
        BY <2>1, <2>5, <3>1, <3>2 DEF Written, WrittenAck, WrittenByWorker, Mentions
      <3>4. QED
        BY <1>3, <2>3, <3>3 DEF ColumnInv
    <2>6. QED
      BY <2>4, <2>5
  <1>7. QED
    BY <1>5, <1>6

-----------------------------------------------------------------------------
(* The save thread.                                                          *)

\* Whatever the worker does, the jobs of a column stay in order and current.
LEMMA WorkerKeepsOrder ==
  ASSUME JobTypes, NEW c \in Columns, ColumnInv(c), UNCHANGED <<content, dirty>>,
         Worker \/ \E renamed \in BOOLEAN : WorkerFails(renamed)
  PROVE  Ordered(c)' /\ Current(c)'
  <1>1. Jobs' \subseteq Jobs /\ Ordered(c)'
    BY OrderedReceived, OrderedAcked, OrderedWriting DEF ColumnInv, Worker
  <1>2. Current(c)'
    BY <1>1 DEF ColumnInv, Current, Mentions, RevisionIn
  <1>3. QED
    BY <1>1, <1>2

LEMMA ColumnReceived ==
  ASSUME JobTypes, NEW c \in Columns, ColumnInv(c), Receive \/ SendAck
  PROVE  ColumnInv(c)'
  <1>1. UNCHANGED <<storeVars, content, dirty>>
    BY DEF Receive, SendAck, worldVars
  <1>2. Ordered(c)' /\ Current(c)'
    BY <1>1, WorkerKeepsOrder DEF Worker
  <1>3. Settled(c) => Settled(c)'
    BY <1>1 DEF Settled, Agrees, Resident, Store!Hit, storeVars
  <1>4. Written(c)' => Written(c)
    <2>1. CASE Receive
      <3>1. ~WrittenByWorker(c)'
        <4> SUFFICES ASSUME WrittenByWorker(c)' PROVE FALSE
          OBVIOUS
        <4>1. worker'.job.kind = "chunks" /\ c \in DOMAIN worker'.job.entries
              /\ RegionOf[c] \notin worker'.todo
          BY DEF WrittenByWorker, Mentions
        <4>2. worker'.job = Head(queue)
          BY <2>1 DEF Receive
        <4>3. worker'.todo = {RegionOf[b] : b \in DOMAIN worker'.job.entries}
          BY <2>1, <4>1, <4>2 DEF Receive
        <4>4. QED
          BY <4>1, <4>3
      <3>2. QED
        BY <1>1, <2>1, <3>1 DEF Receive, Written, WrittenAck, Mentions, RevisionIn
    <2>2. CASE SendAck
      <3> DEFINE a == [job |-> worker.job, ok |-> worker.ok]
      <3>1. worker # Idle /\ worker.todo = {} /\ worker' = Idle /\ acks' = Append(acks, a)
        BY <2>2 DEF SendAck
      <3>2. a \in AnyAck
        BY <3>1 DEF JobTypes, ChannelTypes, Busy, AnyAck
      <3>3. \A i \in DOMAIN acks' : (i \in DOMAIN acks /\ acks'[i] = acks[i]) \/ acks'[i] = a
        BY <3>1, <3>2, QueueAppended DEF JobTypes, ChannelTypes
      <3>4. WrittenAck(a, c) => WrittenByWorker(c)
        BY <3>1 DEF WrittenAck, WrittenByWorker
      <3> HIDE DEF a
      <3>5. ~WrittenByWorker(c)'
        BY <3>1 DEF WrittenByWorker
      <3>6. QED
        BY <1>1, <3>3, <3>4, <3>5 DEF Written, WrittenAck, RevisionIn, Mentions
    <2>3. QED
      BY <2>1, <2>2
  <1>5. QED
    BY <1>2, <1>3, <1>4 DEF ColumnInv

\* What is taken to be rewritten is an image that agreed.
LEMMA ColumnTaken ==
  ASSUME Inv, JobTypes, DurableInv, NEW c \in Pinned, WorkerTake
  PROVE  ColumnInv(c)'
  <1> USE PinnedIsKept
  <1> DEFINE r == Least(worker.todo)
  <1>1. ColumnInv(c) /\ UNCHANGED <<queue, acks, worker, content, dirty, disk>>
    BY DEF WorkerTake, workerVars, worldVars, Store!Take, DurableInv
  <1>2. Ordered(c)' /\ Current(c)'
    BY <1>1, WorkerKeepsOrder DEF Worker
  <1>3. Written(c)' => Written(c)
    BY <1>1 DEF Written, WrittenAck, WrittenByWorker, Mentions, RevisionIn
  <1>4. ASSUME Settled(c) PROVE Settled(c)'
    <2>1. PICK entries : Store!Take("worker", r, entries)
      BY DEF WorkerTake
    <2>2. "worker" \in DOMAIN held /\ "worker" \in DOMAIN cached /\ "worker" \in DOMAIN image
            /\ "worker" \in DOMAIN stamped
      BY DEF Managers, Inv, StoreInv, DurableInv
    <2>3. Store!Hit("worker", RegionOf[c])'
            => Store!Hit("worker", RegionOf[c]) /\ image'["worker"][c] = image["worker"][c]
      <3>1. /\ Store!CacheIs("worker", cached'["worker"], image["worker"], stamped'["worker"])
            /\ cached'["worker"] \subseteq cached["worker"]
            /\ stamped'["worker"] \subseteq stamped["worker"]
        BY <2>1, <2>2 DEF Store!Take, Store!CacheIs
      <3>2. QED
        BY <2>2, <3>1 DEF Store!CacheIs, Store!Hit
    <2>4. held'["worker"].region = RegionOf[c] =>
            \/ held'["worker"].base[c] = disk[c]
            \/ /\ Store!Hit("worker", RegionOf[c])
               /\ held'["worker"].base[c] = image["worker"][c]
      BY <2>1, <2>2 DEF Store!Take, Store!ColumnsIn
    <2>5. \A v : Agrees(c, v) => Agrees(c, v)'
      BY <1>1 DEF Agrees, Resident
    <2>6. QED
      BY <1>1, <1>4, <2>3, <2>4, <2>5 DEF Settled
  <1>5. QED
    BY <1>1, <1>2, <1>3, <1>4 DEF ColumnInv

\* A write of the worker puts the current revision into the file, or an older one while
\* the current one is not written.
LEMMA WorkerWritesCurrent ==
  ASSUME Inv, JobTypes, NEW c \in Columns, ColumnInv(c), worker # Idle,
         Mentions(worker.job, c)
  PROVE  /\ dirty[c].state \notin {"none", "persisted"}
         /\ \A i \in DOMAIN acks : ~WrittenAck(acks[i], c)
         /\ RevisionIn(worker.job, c) = dirty[c].rev =>
              Resident(c) /\ worker.job.entries[c].data = content[c]
  <1>1. worker.job \in Jobs
    BY DEF Jobs
  <1>2. RevisionIn(worker.job, c) \in Nat /\ dirty[c].rev \in Nat
    BY <1>1, JobsAreTyped, EntriesAreTyped DEF JobTypes, WorldTypes, Revisions
  <1>3. /\ dirty[c].state \notin {"none", "persisted"}
        /\ RevisionIn(worker.job, c) <= dirty[c].rev
        /\ RevisionIn(worker.job, c) = dirty[c].rev =>
             dirty[c].state = "inflight" /\ worker.job.entries[c].data = content[c]
    BY <1>1 DEF ColumnInv, Current
  <1>4. dirty[c].state = "inflight" => Resident(c)
    BY DEF Inv, WorldInv, DirtyIsResident, Clean
  <1>5. ASSUME NEW i \in DOMAIN acks, WrittenAck(acks[i], c) PROVE FALSE
    <2>1. RevisionIn(acks[i].job, c) < RevisionIn(worker.job, c)
      BY <1>5 DEF ColumnInv, Ordered, Earlier, WrittenAck
    <2>2. RevisionIn(acks[i].job, c) = dirty[c].rev
      BY <1>5 DEF WrittenAck
    <2>3. QED
      BY <1>2, <1>3, <2>1, <2>2
  <1>6. QED
    BY <1>3, <1>4, <1>5

\* The write of a region, done or failed, leaves in the file and in the cache either what
\* they held or what the worker had in hand.
LEMMA RewriteImages ==
  ASSUME Inv, DurableInv, NEW c \in Columns, NEW ok \in BOOLEAN,
         IF ok THEN WorkerReplace ELSE \E renamed \in BOOLEAN : WorkerFails(renamed)
  PROVE  LET h == held["worker"]
             new == IF c \in DOMAIN h.entries THEN h.entries[c] ELSE h.base[c]
         IN  /\ h # NoWrite /\ held'["worker"] = NoWrite
             /\ RegionOf[c] # h.region =>
                  /\ disk'[c] = disk[c]
                  /\ Store!Hit("worker", RegionOf[c])' =>
                       /\ Store!Hit("worker", RegionOf[c])
                       /\ image'["worker"][c] = image["worker"][c]
             /\ RegionOf[c] = h.region =>
                  /\ disk'[c] = new \/ (~ok /\ disk'[c] = disk[c])
                  /\ Store!Hit("worker", RegionOf[c])' =>
                       image'["worker"][c] = IF ok THEN new ELSE h.base[c]
  <1> DEFINE h == held["worker"]
             new == IF c \in DOMAIN h.entries THEN h.entries[c] ELSE h.base[c]
             f == IF ok THEN Store!NewImage("worker") ELSE h.base
  <1>1. IF ok THEN Store!Replace("worker")
              ELSE \E renamed \in BOOLEAN : Store!ReplaceFails("worker", renamed)
    BY DEF WorkerReplace, WorkerFails
  <1>2. "worker" \in DOMAIN held /\ "worker" \in DOMAIN cached /\ "worker" \in DOMAIN image
          /\ "worker" \in DOMAIN stamped
    BY DEF Managers, Inv, StoreInv, DurableInv
  <1>3. h # NoWrite /\ held'["worker"] = NoWrite
    BY <1>1, <1>2 DEF Store!Replace, Store!ReplaceFails
  <1>4. RegionOf[c] = h.region => Store!NewImage("worker")[c] = new
    BY DEF Store!NewImage, Store!ColumnsIn
  <1>5. /\ RegionOf[c] # h.region => disk'[c] = disk[c]
        /\ RegionOf[c] = h.region => disk'[c] = new \/ (~ok /\ disk'[c] = disk[c])
    BY <1>1, <1>4 DEF Store!Replace, Store!ReplaceFails, Store!DiskHolds
  <1>6. PICK kept, stamps :
          /\ Store!CacheIs("worker", kept, Store!Overlaid("worker", h.region, f), stamps)
          /\ kept \subseteq cached["worker"] \union {h.region}
          /\ stamps \subseteq stamped["worker"] \union {h.region}
    <2>1. CASE ok
      <3>1. PICK kept \in Store!Keep(cached["worker"] \union {h.region}) :
              Store!CacheIs("worker", kept, Store!Overlaid("worker", h.region, f),
                (stamped["worker"] \union {h.region})
                  \ ((cached["worker"] \union {h.region}) \ kept))
        BY <1>1, <2>1 DEF Store!Replace
      <3>2. QED
        BY <3>1 DEF Store!Keep
    <2>2. CASE ~ok
      BY <1>1, <2>2 DEF Store!ReplaceFails
    <2>3. QED
      BY <2>1, <2>2
  <1> HIDE DEF f, h
  <1>7. /\ cached'["worker"] = kept /\ stamped'["worker"] = stamps
        /\ RegionOf[c] \in kept =>
             image'["worker"][c] = IF RegionOf[c] = h.region THEN f[c] ELSE image["worker"][c]
    BY <1>2, <1>6 DEF Store!CacheIs, Store!Overlaid
  <1>8. RegionOf[c] = h.region => f[c] = IF ok THEN new ELSE h.base[c]
    BY <1>4 DEF f
  <1>9. QED
    BY <1>3, <1>5, <1>6, <1>7, <1>8 DEF Store!Hit, h

LEMMA ColumnRewritten ==
  ASSUME Inv, JobTypes, DurableInv, NEW c \in Pinned, NEW ok \in BOOLEAN,
         IF ok THEN WorkerReplace ELSE \E renamed \in BOOLEAN : WorkerFails(renamed)
  PROVE  ColumnInv(c)'
  <1> USE PinnedIsKept
  <1> DEFINE h == held["worker"]
             new == IF c \in DOMAIN h.entries THEN h.entries[c] ELSE h.base[c]
  <1>1. /\ ColumnInv(c) /\ UNCHANGED <<queue, acks, content, dirty>> /\ worker # Idle
        /\ Worker \/ \E renamed \in BOOLEAN : WorkerFails(renamed)
    BY DEF WorkerReplace, WorkerFails, worldVars, DurableInv, Worker
  <1>2. Ordered(c)' /\ Current(c)'
    BY <1>1, WorkerKeepsOrder
  <1>3. /\ h # NoWrite /\ held'["worker"] = NoWrite
        /\ RegionOf[c] # h.region =>
             /\ disk'[c] = disk[c]
             /\ Store!Hit("worker", RegionOf[c])' =>
                  /\ Store!Hit("worker", RegionOf[c])
                  /\ image'["worker"][c] = image["worker"][c]
        /\ RegionOf[c] = h.region =>
             /\ disk'[c] = new \/ (~ok /\ disk'[c] = disk[c])
             /\ Store!Hit("worker", RegionOf[c])' =>
                  image'["worker"][c] = IF ok THEN new ELSE h.base[c]
    BY RewriteImages
  <1>4. /\ h.region \in worker.todo /\ worker.job.kind = "chunks"
        /\ c \in DOMAIN h.entries <=> c \in DOMAIN worker.job.entries /\ RegionOf[c] = h.region
        /\ c \in DOMAIN h.entries => h.entries[c] = worker.job.entries[c].data
    BY <1>1, <1>3 DEF DurableInv, WorkerHolds, Inv, WorkerInv
  <1>5. worker'.job = worker.job /\ worker'.ok = (worker.ok /\ ok)
        /\ worker'.todo = IF ok THEN worker.todo \ {h.region} ELSE {}
    BY <1>1 DEF WorkerReplace, WorkerFails, JobTypes, ChannelTypes, Busy
  <1> HIDE DEF h, new
  <1>6. \A v : Agrees(c, v) => Agrees(c, v)'
    BY <1>1 DEF Agrees, Resident
  <1>7. /\ (\E i \in DOMAIN acks : WrittenAck(acks[i], c))'
             <=> \E i \in DOMAIN acks : WrittenAck(acks[i], c)
        /\ dirty'[c] = dirty[c]
    BY <1>1 DEF WrittenAck, RevisionIn, Mentions
  <1>8. CASE RegionOf[c] # h.region
    <2>1. WrittenByWorker(c)' => WrittenByWorker(c)
      BY <1>1, <1>5, <1>8 DEF WrittenByWorker, Mentions, RevisionIn
    <2>2. Written(c)' => Written(c)
      BY <1>7, <2>1 DEF Written
    <2>3. Settled(c) => Settled(c)'
      BY <1>3, <1>6, <1>8 DEF Settled
    <2>4. QED
      BY <1>1, <1>2, <2>2, <2>3 DEF ColumnInv
  <1>9. CASE RegionOf[c] = h.region /\ c \notin DOMAIN h.entries
    <2>1. ~WrittenByWorker(c)'
      BY <1>4, <1>5, <1>9 DEF WrittenByWorker, Mentions
    <2>2. Written(c)' => Written(c)
      BY <1>7, <2>1 DEF Written
    <2>3. Settled(c) => Settled(c)'
      <3>1. Settled(c) => Agrees(c, disk[c]) /\ Agrees(c, h.base[c])
        BY <1>3, <1>9 DEF Settled, h
      <3>2. new = h.base[c]
        BY <1>9 DEF new
      <3>3. QED
        BY <1>3, <1>6, <1>9, <3>1, <3>2 DEF Settled
    <2>4. QED
      BY <1>1, <1>2, <2>2, <2>3 DEF ColumnInv
  <1>10. CASE RegionOf[c] = h.region /\ c \in DOMAIN h.entries
    <2>1. Mentions(worker.job, c) /\ new = worker.job.entries[c].data
      BY <1>4, <1>10 DEF Mentions, new
    <2>2. ASSUME Written(c)'
          PROVE  ok /\ RevisionIn(worker.job, c) = dirty[c].rev
      <3>1. WrittenByWorker(c)'
        BY <1>1, <1>7, <2>1, <2>2, WorkerWritesCurrent DEF Written
      <3>2. QED
        BY <1>1, <1>5, <3>1 DEF WrittenByWorker, RevisionIn
    <2>3. ASSUME ok, RevisionIn(worker.job, c) = dirty[c].rev PROVE Settled(c)'
      <3>1. Resident(c) /\ new = content[c]
        BY <1>1, <2>1, <2>3, WorkerWritesCurrent
      <3>2. Agrees(c, new)
        BY <3>1 DEF Agrees
      <3>3. QED
        BY <1>3, <1>6, <1>10, <2>3, <3>2 DEF Settled
    <2>4. QED
      BY <1>2, <2>2, <2>3 DEF ColumnInv
  <1>11. QED
    BY <1>8, <1>9, <1>10

LEMMA ColumnStep ==
  ASSUME Inv, JobTypes, DurableInv, NEW c \in Pinned, Next, ~Restart
  PROVE  ColumnInv(c)'
  <1>1. CASE Worker \/ \E renamed \in BOOLEAN : WorkerFails(renamed)
    <2>1. CASE Receive \/ SendAck
      BY <2>1, ColumnReceived, PinnedIsKept DEF DurableInv
    <2>2. CASE WorkerTake
      BY <2>2, ColumnTaken
    <2>3. CASE WorkerReplace
      BY <2>3, ColumnRewritten
    <2>4. CASE \E renamed \in BOOLEAN : WorkerFails(renamed)
      BY <2>4, ColumnRewritten
    <2>5. QED
      BY <1>1, <2>1, <2>2, <2>3, <2>4 DEF Worker
  <1>2. QED
    BY <1>1, StepKinds, ColumnInTaking, ColumnInSaving, ColumnInWorldSteps

-----------------------------------------------------------------------------
(* The two managers.                                                         *)

LEMMA StoreSteps ==
  ASSUME Inv, DurableInv, Next, ~Restart
  PROVE  /\ DOMAIN stamped' = Managers
         /\ ~(FlushTake \/ FlushReplace \/ \E renamed \in BOOLEAN : FlushFails(renamed))
              => held'["tick"] = held["tick"]
         /\ ~(WorkerTake \/ WorkerReplace \/ \E renamed \in BOOLEAN : WorkerFails(renamed))
              => held'["worker"] = held["worker"]
  <1>1. /\ "tick" \in Managers /\ "worker" \in Managers
        /\ "tick" \in Managers \ {"worker"} /\ "worker" \in Managers \ {"tick"}
    BY DEF Managers
  <1>2. CASE FlushTake \/ FlushReplace \/ \E renamed \in BOOLEAN : FlushFails(renamed)
    <2>1. \/ \E r, entries : Store!Take("tick", r, entries)
          \/ Store!Replace("tick") \/ \E renamed \in BOOLEAN : Store!ReplaceFails("tick", renamed)
      BY <1>2 DEF FlushTake, FlushReplace, FlushFails
    <2>2. QED
      BY <1>1, <1>2, <2>1, ManagersAreApart DEF Inv, DurableInv
  <1>3. CASE WorkerTake \/ WorkerReplace \/ \E renamed \in BOOLEAN : WorkerFails(renamed)
    <2>1. \/ \E r, entries : Store!Take("worker", r, entries)
          \/ Store!Replace("worker") \/ \E renamed \in BOOLEAN : Store!ReplaceFails("worker", renamed)
      BY <1>3 DEF WorkerTake, WorkerReplace, WorkerFails
    <2>2. QED
      BY <1>1, <1>3, <2>1, ManagersAreApart DEF Inv, DurableInv
  <1>4. CASE ~(\/ FlushTake \/ FlushReplace \/ (\E renamed \in BOOLEAN : FlushFails(renamed))
               \/ WorkerTake \/ WorkerReplace \/ \E renamed \in BOOLEAN : WorkerFails(renamed))
    <2>1. UNCHANGED storeVars
      <3>1. CASE \/ DrainAck \/ WaitAck \/ DiscardAck
                 \/ SaveChunks \/ SaveEntities \/ SaveSidecars \/ EnqueueBarrier
        BY <3>1 DEF DrainAck, WaitAck, DiscardAck, SaveChunks, SaveEntities, SaveSidecars,
                    EnqueueBarrier
      <3>2. CASE Worker
        BY <1>4, <3>2 DEF Worker, Receive, SendAck
      <3>3. CASE WorldSteps
        BY <1>4, <3>3
        DEF WorldSteps, DrainDone, BeginEvict, EvictClean, EvictDirty, FlushDone, EndTick, Close,
            Autosave, Mutate, Materialize, Move, EntityChange, SaveAll, Shutdown, WaitTimeout
      <3>4. QED
        BY <1>4, <3>1, <3>2, <3>3, StepKinds
    <2>2. QED
      BY <2>1 DEF storeVars, DurableInv
  <1>5. QED
    BY <1>2, <1>3, <1>4

\* What the tick thread flushes is out of reach, in a region where columns may be.
LEMMA TickStep ==
  ASSUME Inv, DurableInv, Next, ~Restart
  PROVE  TickStaysAway'
  <1> USE ChunkSaveAssumption
  <1>0. TickStaysAway /\ TickInv /\ DOMAIN held = Managers /\ "tick" \in Managers
    BY DEF DurableInv, Inv, StoreInv, Managers
  <1>1. \A d \in Dimensions : Unkept(d) \subseteq Evictable
    BY <1>0 DEF TickStaysAway, Unkept, ColumnsOf
  <1>2. Columns \ Evictable \subseteq keep'
    <2>1. keep' = keep \/ \E k \in SUBSET Columns : Move(k)
      BY DEF Next, TickThread, Worker, Environment, worldVars, DrainAck, DrainDone, BeginEvict,
             EvictClean, EvictDirty, FlushTake, FlushReplace, FlushDone, FlushFails, EndTick,
             SaveChunks, SaveEntities, SaveSidecars, EnqueueBarrier, WaitAck, DiscardAck, Close,
             Autosave, Receive, WorkerTake, WorkerReplace, WorkerFails, SendAck, Mutate,
             Materialize, EntityChange, SaveAll, Shutdown, WaitTimeout
    <2>2. QED
      BY <1>0, <2>1 DEF TickStaysAway, Move
  <1>3. tick'.phase = "flush" => tick'.todo \subseteq Evictable
    <2>1. CASE \E d \in Dimensions : EvictDirty(d)
      BY <1>0, <1>1, <2>1 DEF EvictDirty, TickInv
    <2>2. CASE \E renamed \in BOOLEAN : FlushFails(renamed)
      <3>1. \/ tick'.todo \subseteq tick.todo
            \/ tick'.todo \subseteq Unkept(Least(tick.dims))
        BY <1>0, <2>2 DEF FlushFails, TickInv
      <3>2. Unkept(Least(tick.dims)) \subseteq Evictable
        BY <1>0 DEF TickStaysAway, Unkept, ColumnsOf
      <3>3. QED
        BY <1>0, <2>2, <3>1, <3>2 DEF TickStaysAway, FlushFails
    <2>3. CASE FlushReplace
      BY <1>0, <2>3 DEF FlushReplace, TickInv, TickStaysAway
    <2>4. CASE ~(\/ \E d \in Dimensions : EvictDirty(d)
                 \/ FlushReplace \/ \E renamed \in BOOLEAN : FlushFails(renamed))
      <3>1. tick' = tick \/ tick'.phase # "flush"
        BY <1>0, <2>4
        DEF Next, TickThread, Worker, Environment, DrainAck, DrainDone, BeginEvict, EvictClean,
            FlushTake, FlushDone, EndTick, SaveChunks, SaveEntities, SaveSidecars, EnqueueBarrier,
            WaitAck, DiscardAck, Close, Autosave, Receive, WorkerTake, WorkerReplace, WorkerFails,
            SendAck, Mutate, Materialize, Move, EntityChange, SaveAll, Shutdown, WaitTimeout,
            StartSave, Returned, TickInv
      <3>2. QED
        BY <1>0, <3>1 DEF TickStaysAway
    <2>5. QED
      BY <2>1, <2>2, <2>3, <2>4
  <1>4. held'["tick"] # NoWrite =>
          /\ DOMAIN held'["tick"].entries \subseteq Evictable
          /\ \E e \in Evictable : RegionOf[e] = held'["tick"].region
    <2>1. CASE FlushTake
      <3> DEFINE R == {RegionOf[c] : c \in tick.todo}
      <3>1. tick.todo \subseteq Evictable /\ tick.todo # {}
        BY <1>0, <2>1 DEF FlushTake, TickStaysAway
      <3>2. R # {} /\ R \subseteq Nat
        <4>1. \A c \in tick.todo : RegionOf[c] \in Nat
          BY <3>1
        <4>2. QED
          BY <3>1, <4>1
      <3>3. Least(R) \in R
        BY <3>2, LeastIsMember
      <3>4. PICK S \in SUBSET tick.todo : Store!Take("tick", Least(R), [c \in S |-> content[c]])
        BY <2>1 DEF FlushTake
      <3>5. held'["tick"].region = Least(R) /\ DOMAIN held'["tick"].entries = S
        BY <1>0, <3>4 DEF Store!Take
      <3>6. QED
        BY <3>1, <3>3, <3>5
    <2>2. CASE FlushReplace \/ \E renamed \in BOOLEAN : FlushFails(renamed)
      BY <1>0, <2>2 DEF FlushReplace, FlushFails, Store!Replace, Store!ReplaceFails
    <2>3. CASE held'["tick"] = held["tick"]
      BY <1>0, <2>3 DEF TickStaysAway
    <2>4. QED
      BY <2>1, <2>2, <2>3, StoreSteps
  <1>5. QED
    BY <1>2, <1>3, <1>4 DEF TickStaysAway

\* What the worker holds comes from the job it has.
LEMMA WorkerStep ==
  ASSUME Inv, JobTypes, DurableInv, Next, ~Restart
  PROVE  WorkerHolds'
  <1> USE ChunkSaveAssumption
  <1>0. WorkerHolds /\ DOMAIN held = Managers /\ "worker" \in Managers
    BY DEF DurableInv, Inv, StoreInv, Managers
  <1>1. CASE WorkerTake
    <2> DEFINE r == Least(worker.todo)
               S == {c \in DOMAIN worker.job.entries : RegionOf[c] = r}
               entries == [c \in S |-> worker.job.entries[c].data]
    <2>1. /\ worker # Idle /\ worker.todo # {} /\ UNCHANGED worker
          /\ Store!Take("worker", r, entries)
      BY <1>1 DEF WorkerTake, workerVars
    <2>2. worker.todo \subseteq Nat
      BY <2>1 DEF JobTypes, ChannelTypes, Busy
    <2>3. r \in worker.todo
      BY <2>1, <2>2, LeastIsMember
    <2>4. held'["worker"].region = r /\ held'["worker"].entries = entries
      BY <1>0, <2>1 DEF Store!Take
    <2> HIDE DEF r
    <2>5. QED
      BY <2>1, <2>3, <2>4 DEF WorkerHolds
  <1>2. CASE WorkerReplace \/ \E renamed \in BOOLEAN : WorkerFails(renamed)
    BY <1>0, <1>2 DEF WorkerReplace, WorkerFails, Store!Replace, Store!ReplaceFails, WorkerHolds
  <1>3. CASE ~(WorkerTake \/ WorkerReplace \/ \E renamed \in BOOLEAN : WorkerFails(renamed))
    <2>1. held'["worker"] = held["worker"]
      BY <1>3, StoreSteps
    <2>2. held["worker"] = NoWrite \/ UNCHANGED worker
      <3>1. CASE Receive \/ SendAck
        BY <1>0, <3>1 DEF Receive, SendAck, WorkerHolds
      <3>2. CASE ~(Receive \/ SendAck)
        BY <1>3, <3>2, StepKinds, WorldStepsLeaveChannels
        DEF Worker, DrainAck, WaitAck, DiscardAck, SaveChunks, SaveEntities, SaveSidecars,
            EnqueueBarrier
      <3>3. QED
        BY <3>1, <3>2
    <2>3. QED
      BY <1>0, <2>1, <2>2 DEF WorkerHolds
  <1>4. QED
    BY <1>1, <1>2, <1>3

-----------------------------------------------------------------------------
(* The invariant.                                                            *)

\* A runtime starts over the files: what it restores is what they hold.
LEMMA StartDurable ==
  /\ Init => DurableInv
  /\ Inv /\ Restart => DurableInv'
  <1> USE ChunkSaveAssumption
  <1>1. ASSUME Init PROVE DurableInv
    <2>1. Jobs = {}
      BY <1>1 DEF Init, Jobs
    <2>2. DOMAIN stamped = Managers /\ TickStaysAway /\ WorkerHolds
      BY <1>1 DEF Init, Store!Init, TickStaysAway, WorkerHolds, Managers
    <2>3. ASSUME NEW c \in Pinned PROVE ColumnInv(c)
      <3>1. c \in Columns /\ disk[c] = NoData /\ ~Resident(c)
        BY <1>1 DEF Init, Pinned, FailedToRestore, Resident, Restored
      <3>2. Settled(c)
        BY <1>1, <3>1 DEF Init, Store!Init, Settled, Agrees, Store!Hit, Managers
      <3>3. Ordered(c) /\ Current(c)
        BY <1>1, <2>1 DEF Init, Ordered, Current
      <3>4. QED
        BY <3>2, <3>3 DEF ColumnInv
    <2>4. QED
      BY <2>2, <2>3 DEF DurableInv
  <1>2. ASSUME Inv, Restart PROVE DurableInv'
    <2>1. Jobs' = {}
      BY <1>2 DEF Restart, Booted, Jobs
    <2>2. (DOMAIN stamped = Managers /\ TickStaysAway /\ WorkerHolds)'
      BY <1>2 DEF Restart, Booted, Store!Restart, TickStaysAway, WorkerHolds, Managers
    <2>3. ASSUME NEW c \in Pinned' PROVE ColumnInv(c)'
      <3>1. c \in Columns /\ disk[c] # BadPayload /\ disk' = disk /\ content'[c] = Restored(c)
        BY <1>2, <2>3 DEF Restart, Booted, Store!Restart, Pinned, FailedToRestore
      <3>2. disk[c] = NoData \/ disk[c] \in SUBSET Edit
        BY <1>2, <3>1 DEF Inv, StoreInv, Faithful, Store!Slots, Payloads
      <3>3. Agrees(c, disk[c])'
        BY <3>1, <3>2 DEF Agrees, Resident, Restored, Payloads, Edit
      <3>4. Settled(c)'
        BY <1>2, <3>3 DEF Restart, Store!Restart, Settled, Store!Hit, Managers
      <3>5. (Ordered(c) /\ Current(c))'
        BY <1>2, <2>1 DEF Restart, Booted, Ordered, Current
      <3>6. QED
        BY <3>4, <3>5 DEF ColumnInv
    <2>4. QED
      BY <2>2, <2>3 DEF DurableInv
  <1>3. QED
    BY <1>1, <1>2

LEMMA StepDurable == Inv /\ JobTypes /\ DurableInv /\ [Next]_vars => DurableInv'
  <1> SUFFICES ASSUME Inv, JobTypes, DurableInv, [Next]_vars PROVE DurableInv'
    OBVIOUS
  <1>1. CASE Restart
    BY <1>1, StartDurable
  <1>2. CASE Next /\ ~Restart
    <2>1. failedRestore' = failedRestore
      BY <1>2
      DEF Next, TickThread, Worker, Environment, worldVars, DrainAck, DrainDone, BeginEvict,
          EvictClean, EvictDirty, FlushTake, FlushReplace, FlushDone, FlushFails, EndTick,
          SaveChunks, SaveEntities, SaveSidecars, EnqueueBarrier, WaitAck, DiscardAck, Close,
          Autosave, Receive, WorkerTake, WorkerReplace, WorkerFails, SendAck, Mutate,
          Materialize, Move, EntityChange, SaveAll, Shutdown, WaitTimeout
    <2>2. Pinned' = Pinned
      BY <2>1 DEF Pinned
    <2>3. \A c \in Pinned : ColumnInv(c)'
      BY <1>2, ColumnStep
    <2>4. QED
      BY <1>2, <2>2, <2>3, StoreSteps, TickStep, WorkerStep DEF DurableInv
  <1>3. CASE UNCHANGED vars
    <2>1. UNCHANGED <<storeVars, queue, acks, worker, content, dirty, keep, tick, failedRestore>>
      BY <1>3 DEF vars, worldVars, workerVars
    <2>2. Pinned' = Pinned
      BY <2>1 DEF Pinned
    <2>3. \A c \in Pinned : ColumnInv(c)'
      BY <2>1, QuietColumn, PinnedIsKept DEF DurableInv, storeVars
    <2>4. QED
      BY <2>1, <2>2, <2>3 DEF DurableInv, TickStaysAway, WorkerHolds, storeVars
  <1>4. QED
    BY <1>1, <1>2, <1>3

\* A dirty revision is cleared only when the region file holds the column as it is in
\* memory (apply_save_acks, acknowledge_persisted): however edits, evictions, failing
\* writes, the two caches and late acks interleave, and after every crash.
THEOREM ClearedMeansSaved == Spec => []CleanIsOnDisk
  <1>1. DurableInv => CleanIsOnDisk
    BY DEF DurableInv, ColumnInv, Written, Settled, Agrees, CleanIsOnDisk, Saved
  <1>2. Init => DurableInv
    BY StartDurable
  <1>3. QED
    BY <1>1, <1>2, StepDurable, JobsTyped, PTL DEF Spec
-----------------------------------------------------------------------------
(* 4. What save_all promises.                                                *)

\* Nothing is enqueued behind the barrier of a save that waits for it, and no barrier is
\* left when the wait is over.
BarrierIsLast ==
  /\ tick.phase # "wait" => \A j \in Jobs : j.kind # "barrier"
  /\ \A i \in DOMAIN queue : queue[i].kind = "barrier" => i = Len(queue)
  /\ worker # Idle /\ worker.job.kind = "barrier" => queue = << >>
  /\ \A i \in DOMAIN acks :
       acks[i].job.kind = "barrier" => i = Len(acks) /\ queue = << >> /\ worker = Idle

\* The dimensions whose columns, and whose entities, this save has still to enqueue.
ColumnsLeft ==
  IF tick.phase = "chunks" THEN tick.dims
  ELSE IF tick.phase = "entities" THEN tick.dims \ {Least(tick.dims)} ELSE {}
DumpsLeft == IF tick.phase \in {"chunks", "entities"} THEN tick.dims ELSE {}

\* A save is under way and has seen no failed ack.
Collecting ==
  \/ tick.phase \in {"chunks", "entities", "barrier"}
  \/ tick.phase = "wait" /\ ~tick.failed

\* The newest dump of d is in the file, waits for the worker, or failed unseen.
DumpUnderWay(d) ==
  \/ entityFile[d] = epoch[d]
  \/ \E i \in DOMAIN queue : Dumps(queue[i], d) /\ queue[i].epoch = epoch[d]
  \/ worker # Idle /\ ~worker.ok /\ Dumps(worker.job, d)
  \/ \E i \in DOMAIN acks : ~acks[i].ok /\ Dumps(acks[i].job, d)

\* What the save has passed is in flight or saved.
Collected ==
  /\ {"phase", "dims", "failed", "result", "alive"} \subseteq DOMAIN tick
  /\ tick.phase \in {"barrier", "wait"} => tick.alive
  /\ Collecting =>
       /\ \A c \in Columns : DimensionOf[RegionOf[c]] \notin ColumnsLeft => ~IsDirty(c)
       /\ \A d \in Dimensions \ DumpsLeft : DumpUnderWay(d)

-----------------------------------------------------------------------------

LEMMA BarrierStart ==
  ASSUME Jobs' = {}, queue' = << >>, acks' = << >>, worker' = Idle
  PROVE  BarrierIsLast'
  BY DEF BarrierIsLast

LEMMA BarrierKept ==
  ASSUME BarrierIsLast, UNCHANGED <<queue, acks, worker>>,
         tick.phase = "wait" => tick'.phase = "wait"
  PROVE  BarrierIsLast'
  <1>1. Jobs' = Jobs
    BY DEF Jobs
  <1>2. QED
    BY <1>1 DEF BarrierIsLast

LEMMA BarrierSaving ==
  ASSUME Inv, JobTypes, BarrierIsLast,
         SaveChunks \/ SaveEntities \/ SaveSidecars \/ EnqueueBarrier
  PROVE  BarrierIsLast'
  <1> USE ChunkSaveAssumption
  <1>1. (\A j \in Jobs : j.kind # "barrier") /\ UNCHANGED <<acks, worker>>
    BY DEF SaveChunks, SaveEntities, SaveSidecars, EnqueueBarrier, BarrierIsLast
  <1>2. CASE SaveChunks \/ SaveEntities \/ SaveSidecars
    <2>1. queue' = queue \/ \E j \in AnyJob : queue' = Append(queue, j) /\ j.kind # "barrier"
      <3>1. CASE SaveChunks /\ queue' # queue
        <4> DEFINE d == Least(tick.dims)
                   S == {c \in ColumnsOf(d) : IsDirty(c) /\ Resident(c)}
                   j == ChunkJob(d, [c \in S |-> [rev |-> dirty[c].rev, data |-> content[c]]])
        <4>1. d \in Dimensions
          BY <3>1, LeastIsMember DEF SaveChunks, JobTypes, PlaceTypes
        <4>2. j \in AnyJob /\ j.kind = "chunks"
          BY <4>1, ChunkJobType DEF ChunkJob
        <4>3. queue' = Append(queue, j)
          BY <3>1 DEF SaveChunks
        <4> HIDE DEF j
        <4>4. QED
          BY <4>2, <4>3
      <3>2. CASE SaveEntities
        <4>1. Least(tick.dims) \in Dimensions
          BY <3>2, LeastIsMember DEF SaveEntities, JobTypes, PlaceTypes
        <4>2. EntityJob(Least(tick.dims)) \in AnyJob
          BY <4>1 DEF EntityJob, AnyJob, JobTypes, WorldTypes
        <4>3. EntityJob(Least(tick.dims)).kind # "barrier"
          BY DEF EntityJob
        <4>4. QED
          BY <3>2, <4>2, <4>3 DEF SaveEntities
      <3>3. CASE SaveSidecars
        BY <3>3 DEF SaveSidecars, SidecarJob, AnyJob
      <3>4. QED
        BY <1>2, <3>1, <3>2, <3>3
    <2>2. \A j \in Jobs' : j.kind # "barrier"
      <3>1. CASE queue' = queue
        BY <1>1, <3>1 DEF Jobs
      <3>2. CASE \E j \in AnyJob : queue' = Append(queue, j) /\ j.kind # "barrier"
        BY <1>1, <3>2, JobsAfterAppend
      <3>3. QED
        BY <2>1, <3>1, <3>2
    <2>3. QED
      BY <2>2 DEF BarrierIsLast, Jobs
  <1>3. CASE EnqueueBarrier
    <2> DEFINE b == BarrierJob(saveAlls)
    <2>1. queue' = Append(queue, b) /\ tick'.phase = "wait" /\ b \in AnyJob
      BY <1>3 DEF EnqueueBarrier, BarrierJob, AnyJob, JobTypes, WorldTypes, PlaceTypes
    <2>2. /\ Len(queue) \in Nat /\ DOMAIN queue = 1 .. Len(queue)
          /\ DOMAIN queue' = 1 .. Len(queue) + 1
          /\ \A i \in 1 .. Len(queue) : queue'[i] = queue[i]
      BY <2>1, QueueAppended DEF JobTypes, ChannelTypes
    <2>3. Len(queue') = Len(queue) + 1
      BY <2>1, <2>2, LenProperties, AppendProperties DEF JobTypes, ChannelTypes
    <2>4. \A i \in DOMAIN queue' : queue'[i].kind = "barrier" => i = Len(queue')
      BY <1>1, <2>2, <2>3 DEF Jobs
    <2>5. /\ \A i \in DOMAIN acks : acks[i].job.kind # "barrier"
          /\ worker # Idle => worker.job.kind # "barrier"
      BY <1>1 DEF Jobs
    <2>6. QED
      BY <1>1, <2>1, <2>4, <2>5 DEF BarrierIsLast
  <1>4. QED
    BY <1>2, <1>3

\* An ack taken leaves the order; the ack of the barrier is the last of all.
LEMMA BarrierTaking ==
  ASSUME Inv, JobTypes, BarrierIsLast, DrainAck \/ WaitAck \/ DiscardAck
  PROVE  BarrierIsLast'
  <1> DEFINE a == Head(acks)
  <1>1. /\ acks # << >> /\ acks' = Tail(acks) /\ UNCHANGED <<queue, worker>>
    BY DEF DrainAck, WaitAck, DiscardAck
  <1>2. /\ Len(acks) \in Nat \ {0} /\ DOMAIN acks = 1 .. Len(acks) /\ a = acks[1]
        /\ Len(acks') = Len(acks) - 1 /\ DOMAIN acks' = 1 .. Len(acks) - 1
        /\ \A i \in DOMAIN acks' : i + 1 \in DOMAIN acks /\ acks'[i] = acks[i + 1]
    BY <1>1, QueueTaken, HeadTailProperties DEF JobTypes, ChannelTypes
  <1>3. Jobs' \subseteq Jobs
    BY <1>1, OrderedTaken
  <1>4. \A i \in DOMAIN acks' :
          acks'[i].job.kind = "barrier" => i = Len(acks') /\ queue = << >> /\ worker = Idle
    BY <1>2 DEF BarrierIsLast
  <1>5. tick'.phase # "wait" => \A j \in Jobs' : j.kind # "barrier"
    <2>1. CASE tick.phase # "wait"
      BY <1>3, <2>1 DEF BarrierIsLast
    <2>2. CASE tick.phase = "wait" /\ tick'.phase # "wait"
      <3>1. OwnBarrier(a)
        BY <2>2 DEF DrainAck, WaitAck, DiscardAck, JobTypes, PlaceTypes
      <3>2. a.job.kind = "barrier"
        BY <3>1 DEF OwnBarrier, BarrierJob
      <3>3. Len(acks) = 1 /\ queue = << >> /\ worker = Idle
        BY <1>2, <3>2 DEF BarrierIsLast
      <3>4. DOMAIN acks' = {} /\ DOMAIN queue = {}
        BY <1>2, <3>3
      <3>5. QED
        BY <1>1, <3>3, <3>4 DEF Jobs
    <2>3. QED
      BY <2>1, <2>2
  <1>6. QED
    BY <1>1, <1>4, <1>5 DEF BarrierIsLast

\* The worker passes the jobs on in their order.
LEMMA BarrierWorking ==
  ASSUME Inv, JobTypes, BarrierIsLast,
         Worker \/ \E renamed \in BOOLEAN : WorkerFails(renamed)
  PROVE  BarrierIsLast'
  <1>1. UNCHANGED tick
    BY DEF Worker, Receive, WorkerTake, WorkerReplace, WorkerFails, SendAck, worldVars
  <1>2. Jobs' \subseteq Jobs
    BY OrderedReceived, OrderedAcked, OrderedWriting DEF Worker
  <1>3. tick'.phase # "wait" => \A j \in Jobs' : j.kind # "barrier"
    BY <1>1, <1>2 DEF BarrierIsLast
  <1>4. CASE Receive
    <2>1. /\ worker = Idle /\ queue # << >> /\ queue' = Tail(queue) /\ UNCHANGED acks
          /\ worker'.job = Head(queue)
      BY <1>4 DEF Receive
    <2>2. /\ Len(queue) \in Nat \ {0} /\ DOMAIN queue = 1 .. Len(queue) /\ Head(queue) = queue[1]
          /\ Len(queue') = Len(queue) - 1 /\ DOMAIN queue' = 1 .. Len(queue) - 1
          /\ queue' \in Seq(AnyJob)
          /\ \A i \in DOMAIN queue' : i + 1 \in DOMAIN queue /\ queue'[i] = queue[i + 1]
      BY <2>1, QueueTaken, HeadTailProperties DEF JobTypes, ChannelTypes
    <2>3. \A i \in DOMAIN queue' : queue'[i].kind = "barrier" => i = Len(queue')
      BY <2>2 DEF BarrierIsLast
    <2>4. worker'.job.kind = "barrier" => queue' = << >>
      <3>1. worker'.job.kind = "barrier" => Len(queue) = 1
        BY <2>1, <2>2 DEF BarrierIsLast
      <3>2. Len(queue') = 0 => queue' = << >>
        BY <2>2, EmptySeq, SeqEqual
      <3>3. QED
        BY <2>2, <3>1, <3>2
    <2>5. \A i \in DOMAIN acks : acks[i].job.kind # "barrier"
      BY <2>1 DEF BarrierIsLast
    <2>6. QED
      BY <1>3, <2>1, <2>3, <2>4, <2>5 DEF BarrierIsLast
  <1>5. CASE SendAck
    <2> DEFINE a == [job |-> worker.job, ok |-> worker.ok]
    <2>1. worker # Idle /\ worker' = Idle /\ acks' = Append(acks, a) /\ UNCHANGED queue
      BY <1>5 DEF SendAck
    <2>2. a \in AnyAck
      BY <2>1 DEF JobTypes, ChannelTypes, Busy, AnyAck
    <2>3. /\ Len(acks) \in Nat /\ DOMAIN acks = 1 .. Len(acks) /\ DOMAIN acks' = 1 .. Len(acks) + 1
          /\ \A i \in 1 .. Len(acks) : acks'[i] = acks[i]
          /\ acks'[Len(acks) + 1] = a /\ Len(acks') = Len(acks) + 1
      BY <2>1, <2>2, QueueAppended, AppendProperties DEF JobTypes, ChannelTypes
    <2>4. a.job = worker.job
      OBVIOUS
    <2> HIDE DEF a
    <2>5. \A i \in DOMAIN acks : acks[i].job.kind # "barrier"
      BY <2>1 DEF BarrierIsLast
    <2>6. \A i \in DOMAIN acks' :
            acks'[i].job.kind = "barrier" => i = Len(acks') /\ queue' = << >> /\ worker' = Idle
      BY <2>1, <2>3, <2>4, <2>5 DEF BarrierIsLast
    <2>7. QED
      BY <1>3, <2>1, <2>6 DEF BarrierIsLast
  <1>6. CASE WorkerTake \/ WorkerReplace \/ \E renamed \in BOOLEAN : WorkerFails(renamed)
    <2>1. UNCHANGED <<queue, acks>> /\ worker # Idle /\ worker'.job = worker.job
      BY <1>6 DEF WorkerTake, WorkerReplace, WorkerFails, workerVars, JobTypes, ChannelTypes, Busy
    <2>2. \A i \in DOMAIN acks : acks[i].job.kind # "barrier"
      BY <2>1 DEF BarrierIsLast
    <2>3. QED
      BY <1>3, <2>1, <2>2 DEF BarrierIsLast
  <1>7. QED
    BY <1>4, <1>5, <1>6 DEF Worker

\* Steps of the world neither start nor end a wait; some of them start a save.
LEMMA WorldPlaces ==
  ASSUME ~BarrierTimeouts, JobTypes, Collected, WorldSteps
  PROVE  /\ Collected'
         /\ tick.phase = "wait" => UNCHANGED tick
  <1> USE ChunkSaveAssumption
  <1> DEFINE fields == {"phase", "dims", "failed", "result", "alive"}
             busy == {"chunks", "entities", "barrier", "wait"}
  <1>1. fields \subseteq DOMAIN tick /\ {"todo"} \subseteq DOMAIN tick
    BY DEF Collected, JobTypes, PlaceTypes
  <1>2. CASE Autosave \/ SaveAll \/ Shutdown
    <2>1. /\ tick'.phase = "chunks" /\ tick'.dims = Dimensions /\ DOMAIN tick' = DOMAIN tick
          /\ tick.phase # "wait"
      BY <1>1, <1>2 DEF Autosave, SaveAll, Shutdown, StartSave
    <2>2. \A c \in Columns : DimensionOf[RegionOf[c]] \in Dimensions
      OBVIOUS
    <2>3. QED
      BY <1>1, <2>1, <2>2 DEF Collected, Collecting, ColumnsLeft, DumpsLeft
  <1>3. CASE ~(Autosave \/ SaveAll \/ Shutdown)
    <2>1. /\ DOMAIN tick' = DOMAIN tick
          /\ tick'.phase \notin busy \/ UNCHANGED tick
          /\ tick.phase \notin busy
      <3>1. CASE \/ \E c \in Columns : Mutate(c) \/ Materialize(c)
                 \/ \E k \in SUBSET Columns : Move(k)
                 \/ \E d \in Dimensions : EntityChange(d)
                 \/ FlushTake
        BY <3>1 DEF Mutate, Materialize, Move, EntityChange, FlushTake
      <3>2. CASE \/ \E d \in Dimensions : EvictClean(d) \/ EvictDirty(d)
                 \/ FlushReplace \/ FlushDone \/ (\E renamed \in BOOLEAN : FlushFails(renamed))
        BY <1>1, <3>2 DEF EvictClean, EvictDirty, FlushReplace, FlushDone, FlushFails
      <3>3. CASE DrainDone \/ BeginEvict \/ EndTick \/ Close
        BY <1>1, <3>3 DEF DrainDone, BeginEvict, EndTick, Close
      <3>4. ~WaitTimeout
        BY DEF WaitTimeout
      <3>5. QED
        BY <1>3, <3>1, <3>2, <3>3, <3>4 DEF WorldSteps
    <2>2. tick'.phase \notin busy
      BY <2>1
    <2>3. QED
      BY <1>1, <2>1, <2>2 DEF Collected, Collecting
  <1>4. QED
    BY <1>2, <1>3

-----------------------------------------------------------------------------
(* What a save has passed.                                                   *)

LEMMA DumpAppended ==
  ASSUME JobTypes, NEW j \in AnyJob, queue' = Append(queue, j),
         UNCHANGED <<acks, worker, epoch, entityFile>>, NEW d,
         DumpUnderWay(d) \/ (Dumps(j, d) /\ j.epoch = epoch[d])
  PROVE  DumpUnderWay(d)'
  <1>1. /\ Len(queue) \in Nat /\ DOMAIN queue = 1 .. Len(queue)
        /\ DOMAIN queue' = 1 .. Len(queue) + 1
        /\ \A i \in 1 .. Len(queue) : queue'[i] = queue[i]
        /\ queue'[Len(queue) + 1] = j
    BY QueueAppended DEF JobTypes, ChannelTypes
  <1>2. Len(queue) + 1 \in DOMAIN queue' /\ DOMAIN queue \subseteq DOMAIN queue'
    BY <1>1
  <1>3. QED
    BY <1>1, <1>2 DEF DumpUnderWay, Dumps

LEMMA CollectedReturned ==
  ASSUME Collected, NEW r, tick' = Returned(r)
  PROVE  Collected' /\ tick'.result = r
  BY DEF Collected, Collecting, Returned

LEMMA CollectedSaving ==
  ASSUME Inv, JobTypes, EpochOrder, Collected,
         SaveChunks \/ SaveEntities \/ SaveSidecars \/ EnqueueBarrier
  PROVE  Collected'
  <1> USE ChunkSaveAssumption
  <1> DEFINE d == Least(tick.dims)
  <1>1. CASE SaveChunks
    <2> DEFINE S == {c \in ColumnsOf(d) : IsDirty(c) /\ Resident(c)}
               j == ChunkJob(d, [c \in S |-> [rev |-> dirty[c].rev, data |-> content[c]]])
    <2>1. d \in Dimensions /\ tick.phase = "chunks"
      BY <1>1, LeastIsMember DEF SaveChunks, JobTypes, PlaceTypes
    <2>2. j \in AnyJob
      BY <2>1, ChunkJobType
    <2>3. UNCHANGED <<acks, worker, epoch, entityFile, content>>
      BY <1>1 DEF SaveChunks
    <2>4. CASE tick' = Returned("err")
      BY <2>4, CollectedReturned
    <2>5. CASE /\ tick' = [tick EXCEPT !.phase = "entities"]
               /\ \/ S = {} /\ UNCHANGED <<dirty, queue>>
                  \/ /\ queue' = Append(queue, j)
                     /\ dirty' = [c \in Columns |->
                          IF c \in S THEN [dirty[c] EXCEPT !.state = "inflight"] ELSE dirty[c]]
      <3>1. /\ tick'.phase = "entities" /\ tick'.dims = tick.dims /\ DOMAIN tick' = DOMAIN tick
        BY <2>5 DEF Collected
      <3>2. ASSUME NEW c \in Columns, DimensionOf[RegionOf[c]] \notin tick.dims \ {d}
            PROVE  ~IsDirty(c)'
        <4>1. CASE c \in S
          BY <2>5, <4>1 DEF IsDirty, JobTypes, WorldTypes, Revisions
        <4>2. CASE c \notin S
          <5>1. dirty'[c] = dirty[c]
            BY <2>5, <4>2
          <5>2. DimensionOf[RegionOf[c]] = d => ~IsDirty(c)
            BY <4>2 DEF ColumnsOf, Inv, WorldInv, DirtyIsResident, IsDirty, Clean
          <5>3. DimensionOf[RegionOf[c]] \notin tick.dims => ~IsDirty(c)
            BY <2>1 DEF Collected, Collecting, ColumnsLeft
          <5>4. QED
            BY <3>2, <5>1, <5>2, <5>3 DEF IsDirty
        <4>3. QED
          BY <4>1, <4>2
      <3> HIDE DEF j, S
      <3>3. ASSUME NEW e \in Dimensions \ tick.dims PROVE DumpUnderWay(e)'
        <4>1. DumpUnderWay(e)
          BY <2>1 DEF Collected, Collecting, DumpsLeft
        <4>2. CASE UNCHANGED queue
          BY <2>3, <4>1, <4>2 DEF DumpUnderWay, Dumps
        <4>3. CASE queue' = Append(queue, j)
          BY <2>2, <2>3, <4>1, <4>3, DumpAppended
        <4>4. QED
          BY <2>5, <4>2, <4>3
      <3> HIDE DEF d
      <3>4. ColumnsLeft' = tick.dims \ {Least(tick.dims)} /\ DumpsLeft' = tick.dims
        BY <3>1 DEF ColumnsLeft, DumpsLeft
      <3>5. QED
        BY <3>1, <3>2, <3>3, <3>4 DEF Collected, d
    <2>6. QED
      BY <1>1, <2>4, <2>5 DEF SaveChunks
  <1>2. CASE SaveEntities
    <2>1. d \in Dimensions /\ tick.phase = "entities" /\ tick.dims \subseteq Dimensions
      BY <1>2, LeastIsMember DEF SaveEntities, JobTypes, PlaceTypes
    <2>2. UNCHANGED <<acks, worker, epoch, entityFile, content, dirty>>
      BY <1>2 DEF SaveEntities, worldVars
    <2>3. CASE tick' = Returned("err")
      BY <2>3, CollectedReturned
    <2>4. CASE /\ tick' = [tick EXCEPT !.phase = "chunks", !.dims = @ \ {d}]
               /\ \/ epoch[d] = persisted[d] /\ UNCHANGED queue
                  \/ queue' = Append(queue, EntityJob(d))
      <3>1. tick'.phase = "chunks" /\ tick'.dims = tick.dims \ {d} /\ DOMAIN tick' = DOMAIN tick
        BY <2>4 DEF Collected
      <3>2. EntityJob(d) \in AnyJob /\ Dumps(EntityJob(d), d) /\ EntityJob(d).epoch = epoch[d]
        BY <2>1 DEF EntityJob, AnyJob, Dumps, JobTypes, WorldTypes
      <3> HIDE DEF d
      <3>3. epoch[d] = persisted[d] => entityFile[d] = epoch[d]
        <4>1. persisted[d] <= entityFile[d] /\ entityFile[d] <= epoch[d]
          BY <2>1 DEF EpochOrder
        <4>2. entityFile[d] \in Nat /\ epoch[d] \in Nat
          BY <2>1 DEF JobTypes, WorldTypes
        <4>3. QED
          BY <4>1, <4>2
      <3>4. ASSUME NEW e \in Dimensions \ (tick.dims \ {d}) PROVE DumpUnderWay(e)'
        <4>1. e # d => DumpUnderWay(e)
          BY <2>1, <3>4 DEF Collected, Collecting, DumpsLeft
        <4>2. CASE epoch[d] = persisted[d] /\ UNCHANGED queue
          BY <2>2, <3>3, <4>1, <4>2 DEF DumpUnderWay, Dumps
        <4>3. CASE queue' = Append(queue, EntityJob(d))
          BY <2>2, <3>2, <4>1, <4>3, DumpAppended
        <4>4. QED
          BY <2>4, <4>2, <4>3
      <3>5. \A c \in Columns : DimensionOf[RegionOf[c]] \notin tick.dims \ {d} => ~IsDirty(c)'
        BY <2>1, <2>2 DEF Collected, Collecting, ColumnsLeft, IsDirty, d
      <3>6. QED
        BY <3>1, <3>4, <3>5 DEF Collected, ColumnsLeft, DumpsLeft
    <2>5. QED
      BY <1>2, <2>3, <2>4 DEF SaveEntities
  <1>3. CASE SaveSidecars \/ EnqueueBarrier
    <2>1. UNCHANGED <<acks, worker, epoch, entityFile, content, dirty>>
      BY <1>3 DEF SaveSidecars, EnqueueBarrier, worldVars
    <2>2. \/ \E r \in {"ok", "err"} : tick' = Returned(r)
          \/ /\ tick'.phase \in {"barrier", "wait"} /\ DOMAIN tick' = DOMAIN tick
             /\ tick'.alive
      BY <1>3 DEF SaveSidecars, EnqueueBarrier, CanEnqueue, Collected
    <2>3. queue' = queue \/ \E j \in AnyJob : queue' = Append(queue, j)
      BY <1>3 DEF SaveSidecars, EnqueueBarrier, SidecarJob, BarrierJob, AnyJob, JobTypes, WorldTypes
    <2>4. /\ \A c \in Columns : ~IsDirty(c)
          /\ \A e \in Dimensions : DumpUnderWay(e)
      BY <1>3 DEF SaveSidecars, EnqueueBarrier, Collected, Collecting, ColumnsLeft, DumpsLeft
    <2>5. \A e \in Dimensions : DumpUnderWay(e)'
      <3>1. CASE queue' = queue
        BY <2>1, <2>4, <3>1 DEF DumpUnderWay, Dumps
      <3>2. CASE \E j \in AnyJob : queue' = Append(queue, j)
        BY <2>1, <2>4, <3>2, DumpAppended
      <3>3. QED
        BY <2>3, <3>1, <3>2
    <2>6. CASE tick'.phase \in {"barrier", "wait"} /\ DOMAIN tick' = DOMAIN tick /\ tick'.alive
      BY <2>1, <2>4, <2>5, <2>6 DEF Collected, IsDirty
    <2>7. QED
      BY <2>2, <2>6, CollectedReturned
  <1>4. QED
    BY <1>1, <1>2, <1>3

\* An ack that did not fail leaves no column dirty and no dump unsaved that were not so.
LEMMA CollectedTaking ==
  ASSUME Inv, JobTypes, Collected, DrainAck \/ WaitAck \/ DiscardAck
  PROVE  Collected'
  <1> DEFINE a == Head(acks)
  <1>1. acks # << >> /\ acks' = Tail(acks) /\ UNCHANGED <<queue, worker, epoch, entityFile>>
    BY DEF DrainAck, WaitAck, DiscardAck, worldVars
  <1>2. /\ 1 \in DOMAIN acks /\ a = acks[1] /\ a \in AnyAck
        /\ Len(acks) \in Nat \ {0} /\ DOMAIN acks = 1 .. Len(acks)
        /\ DOMAIN acks' = 1 .. Len(acks) - 1
        /\ \A i \in DOMAIN acks' : acks'[i] = acks[i + 1]
    BY <1>1, QueueTaken DEF JobTypes, ChannelTypes
  <1>3. CASE DrainAck \/ DiscardAck
    BY <1>3 DEF DrainAck, DiscardAck, Collected, Collecting
  <1>4. CASE WaitAck /\ OwnBarrier(a)
    <2>1. \E r : tick' = Returned(r)
      BY <1>4 DEF WaitAck
    <2>2. QED
      BY <2>1, CollectedReturned
  <1>5. CASE WaitAck /\ ~OwnBarrier(a)
    <2>1. /\ tick.phase = "wait" /\ ApplyAck(a)
          /\ tick' = [tick EXCEPT !.failed = SomeFailed(a)]
      BY <1>5 DEF WaitAck
    <2>2. /\ DOMAIN tick' = DOMAIN tick /\ tick'.phase = "wait" /\ tick'.alive = tick.alive
          /\ tick'.failed <=> (tick.failed \/ ~a.ok)
      BY <2>1 DEF Collected, SomeFailed
    <2>3. ASSUME ~tick'.failed
          PROVE  /\ \A c \in Columns : ~IsDirty(c)'
                 /\ \A d \in Dimensions : DumpUnderWay(d)'
      <3>1. a.ok /\ ~tick.failed
        BY <2>2, <2>3
      <3>2. /\ \A c \in Columns : ~IsDirty(c)
            /\ \A d \in Dimensions : DumpUnderWay(d)
        BY <2>1, <3>1 DEF Collected, Collecting, ColumnsLeft, DumpsLeft
      <3> HIDE DEF a
      <3>3. ASSUME NEW c \in Columns PROVE ~IsDirty(c)'
        <4>1. dirty'[c] = dirty[c] \/ \E rev : dirty'[c] = Acknowledged(c, rev, a.ok)
          <5>1. CASE a.job.kind = "chunks"
            BY <2>1, <5>1 DEF ApplyAck
          <5>2. CASE a.job.kind # "chunks"
            BY <2>1, <5>2 DEF ApplyAck
          <5>3. QED
            BY <5>1, <5>2
        <4>2. dirty[c].state # "dirty"
          BY <3>2 DEF IsDirty
        <4>3. CASE \E rev : dirty'[c] = Acknowledged(c, rev, a.ok)
          <5>1. PICK rev : dirty'[c] = Acknowledged(c, rev, a.ok)
            BY <4>3
          <5>2. \/ dirty'[c] = dirty[c]
                \/ dirty'[c] = [state |-> "persisted", rev |-> rev]
            BY <3>1, <5>1 DEF Acknowledged
          <5>3. QED
            BY <4>2, <5>2 DEF IsDirty
        <4>4. QED
          BY <4>1, <4>2, <4>3 DEF IsDirty
      <3>4. ASSUME NEW d \in Dimensions PROVE DumpUnderWay(d)'
        <4>1. ASSUME NEW i \in DOMAIN acks, ~acks[i].ok, Dumps(acks[i].job, d)
              PROVE  \E k \in DOMAIN acks' : ~acks'[k].ok /\ Dumps(acks'[k].job, d)
          <5>1. i # 1
            BY <1>2, <3>1, <4>1
          <5>2. i - 1 \in DOMAIN acks' /\ acks'[i - 1] = acks[i]
            BY <1>2, <5>1
          <5>3. QED
            BY <4>1, <5>2
        <4>2. DumpUnderWay(d)
          BY <3>2
        <4>3. QED
          BY <1>1, <4>1, <4>2 DEF DumpUnderWay, Dumps
      <3>5. QED
        BY <3>3, <3>4
    <2>4. QED
      BY <2>1, <2>2, <2>3 DEF Collected, Collecting
  <1>6. QED
    BY <1>3, <1>4, <1>5

\* A dump is written in its turn, so nothing older comes after the newest; one that fails
\* is acked as failed.
LEMMA DumpWorking ==
  ASSUME IdleIsNoJob, JobTypes, JobTypes', EpochOrder, EpochOrder', NEW d \in Dimensions,
         DumpUnderWay(d), Worker \/ \E renamed \in BOOLEAN : WorkerFails(renamed)
  PROVE  DumpUnderWay(d)'
  <1>1. UNCHANGED epoch
    BY DEF Worker, Receive, WorkerTake, WorkerReplace, WorkerFails, SendAck, worldVars
  <1>2. CASE Receive
    <2> DEFINE h == queue[1]
    <2>1. /\ worker = Idle /\ queue # << >> /\ queue' = Tail(queue) /\ UNCHANGED acks
          /\ worker'.job = Head(queue)
      BY <1>2 DEF Receive
    <2>2. /\ Len(queue) \in Nat \ {0} /\ DOMAIN queue = 1 .. Len(queue) /\ Head(queue) = h
          /\ DOMAIN queue' = 1 .. Len(queue) - 1
          /\ \A i \in DOMAIN queue' : queue'[i] = queue[i + 1]
      BY <2>1, QueueTaken DEF JobTypes, ChannelTypes
    <2>3. worker' # Idle
      BY <1>2, ReceivedBusy DEF IdleIsNoJob
    <2>4. /\ entityFile[d] <= epoch[d] /\ entityFile[d] \in Nat /\ epoch[d] \in Nat
          /\ Dumps(h, d) => entityFile[d] <= h.epoch /\ h.epoch <= epoch[d]
      <3>1. 1 \in DOMAIN queue
        BY <2>2
      <3>2. entityFile[d] \in Nat /\ epoch[d] \in Nat
        BY DEF JobTypes, WorldTypes
      <3>3. entityFile[d] <= epoch[d]
        BY DEF EpochOrder
      <3>4. Dumps(queue[1], d) => entityFile[d] <= queue[1].epoch /\ queue[1].epoch <= epoch[d]
        BY <3>1 DEF EpochOrder
      <3>5. QED
        BY <3>2, <3>3, <3>4
    <2>5. \/ entityFile'[d] = entityFile[d] /\ (worker'.ok => ~Dumps(h, d))
          \/ Dumps(h, d) /\ entityFile'[d] = h.epoch
          \/ ~Dumps(h, d) /\ entityFile'[d] = entityFile[d]
      <3>1. CASE h.kind \in {"chunks", "barrier"}
        BY <1>2, <2>2, <3>1 DEF Receive, Dumps
      <3>2. CASE h.kind \in {"entities", "sidecars"}
        <4>1. PICK ok \in BOOLEAN, written \in BOOLEAN :
                /\ ok => written
                /\ entityFile' = IF written /\ h.kind = "entities"
                                   THEN [entityFile EXCEPT ![h.dim] = h.epoch] ELSE entityFile
                /\ worker' = [job |-> h, ok |-> ok, todo |-> {}]
          BY <1>2, <2>2, <3>2 DEF Receive
        <4>2. worker'.ok = ok
          BY <4>1
        <4>3. QED
          BY <4>1, <4>2 DEF Dumps, JobTypes, WorldTypes
      <3>3. QED
        BY <1>2, <2>2, <3>1, <3>2 DEF Receive
    <2> HIDE DEF h
    <2>6. CASE entityFile[d] = epoch[d]
      <3>1. entityFile'[d] = epoch[d]
        <4>1. Dumps(h, d) => h.epoch \in Nat
          <5>1. h \in AnyJob
            BY <2>1, <2>2, QueueTaken DEF JobTypes, ChannelTypes
          <5>2. QED
            BY <5>1 DEF AnyJob, Dumps
        <4>2. QED
          BY <2>4, <2>5, <2>6, <4>1
      <3>2. QED
        BY <1>1, <3>1 DEF DumpUnderWay
    <2>7. ASSUME NEW i \in DOMAIN queue, Dumps(queue[i], d), queue[i].epoch = epoch[d]
          PROVE  DumpUnderWay(d)'
      <3>1. CASE i = 1
        <4>1. Dumps(h, d) /\ h.epoch = epoch[d]
          BY <2>7, <3>1 DEF h
        <4>2. CASE entityFile'[d] = h.epoch
          BY <1>1, <4>1, <4>2 DEF DumpUnderWay
        <4>3. CASE entityFile'[d] # h.epoch
          <5>1. ~worker'.ok
            BY <2>5, <4>1, <4>3
          <5>2. Dumps(worker'.job, d)
            BY <2>1, <2>2, <4>1
          <5>3. QED
            BY <2>3, <5>1, <5>2 DEF DumpUnderWay, Dumps
        <4>4. QED
          BY <4>2, <4>3
      <3>2. CASE i # 1
        <4>1. i - 1 \in DOMAIN queue' /\ queue'[i - 1] = queue[i]
          BY <2>2, <3>2
        <4>2. QED
          BY <1>1, <2>7, <4>1 DEF DumpUnderWay, Dumps
      <3>3. QED
        BY <3>1, <3>2
    <2>8. QED
      BY <2>1, <2>6, <2>7 DEF DumpUnderWay, Dumps
  <1>3. CASE SendAck
    <2> DEFINE a == [job |-> worker.job, ok |-> worker.ok]
    <2>1. worker # Idle /\ acks' = Append(acks, a) /\ UNCHANGED <<queue, entityFile>>
      BY <1>3 DEF SendAck
    <2>2. a \in AnyAck
      BY <2>1 DEF JobTypes, ChannelTypes, Busy, AnyAck
    <2>3. /\ Len(acks) \in Nat /\ DOMAIN acks = 1 .. Len(acks) /\ DOMAIN acks' = 1 .. Len(acks) + 1
          /\ \A i \in 1 .. Len(acks) : acks'[i] = acks[i]
          /\ acks'[Len(acks) + 1] = a
      BY <2>1, <2>2, QueueAppended DEF JobTypes, ChannelTypes
    <2>4. Len(acks) + 1 \in DOMAIN acks' /\ DOMAIN acks \subseteq DOMAIN acks'
      BY <2>3
    <2>5. a.job = worker.job /\ a.ok = worker.ok
      OBVIOUS
    <2> HIDE DEF a
    <2>6. QED
      BY <1>1, <2>1, <2>3, <2>4, <2>5 DEF DumpUnderWay, Dumps
  <1>4. CASE WorkerTake \/ WorkerReplace \/ \E renamed \in BOOLEAN : WorkerFails(renamed)
    <2>1. UNCHANGED <<queue, acks, entityFile>> /\ worker # Idle
      BY <1>4 DEF WorkerTake, WorkerReplace, WorkerFails, workerVars
    <2>2. worker' \in Busy /\ worker'.job = worker.job /\ (~worker.ok => ~worker'.ok)
      BY <1>4 DEF WorkerTake, WorkerReplace, WorkerFails, workerVars, JobTypes, ChannelTypes, Busy
    <2>3. worker' # Idle
      BY <2>2 DEF IdleIsNoJob
    <2>4. QED
      BY <1>1, <2>1, <2>2, <2>3 DEF DumpUnderWay, Dumps
  <1>5. QED
    BY <1>2, <1>3, <1>4 DEF Worker

LEMMA CollectedWorking ==
  ASSUME IdleIsNoJob, JobTypes, JobTypes', EpochOrder, EpochOrder', Collected,
         Worker \/ \E renamed \in BOOLEAN : WorkerFails(renamed)
  PROVE  Collected'
  <1>1. UNCHANGED <<tick, dirty>>
    BY DEF Worker, Receive, WorkerTake, WorkerReplace, WorkerFails, SendAck, worldVars
  <1>2. \A d \in Dimensions : DumpUnderWay(d) => DumpUnderWay(d)'
    BY DumpWorking
  <1>3. QED
    BY <1>1, <1>2 DEF Collected, Collecting, ColumnsLeft, DumpsLeft, IsDirty

-----------------------------------------------------------------------------

LEMMA StartCollected ==
  /\ Init => BarrierIsLast /\ Collected
  /\ Restart => BarrierIsLast' /\ Collected'
  <1>1. ASSUME Init PROVE BarrierIsLast /\ Collected
    <2>1. Jobs = {}
      BY <1>1 DEF Init, Jobs
    <2>2. QED
      BY <1>1, <2>1 DEF Init, BarrierIsLast, Collected, Collecting
  <1>2. ASSUME Restart PROVE BarrierIsLast' /\ Collected'
    <2>1. Jobs' = {}
      BY <1>2 DEF Restart, Booted, Jobs
    <2>2. QED
      BY <1>2, <2>1, BarrierStart DEF Restart, Booted, Collected, Collecting
  <1>3. QED
    BY <1>1, <1>2

\* Without the timeout of the wait.
LEMMA StepCollected ==
  ASSUME IdleIsNoJob, ~BarrierTimeouts, Inv, JobTypes, JobTypes', EpochOrder, EpochOrder',
         BarrierIsLast, Collected, [Next]_vars
  PROVE  BarrierIsLast' /\ Collected'
  <1>1. CASE DrainAck \/ WaitAck \/ DiscardAck
    BY <1>1, BarrierTaking, CollectedTaking
  <1>2. CASE SaveChunks \/ SaveEntities \/ SaveSidecars \/ EnqueueBarrier
    BY <1>2, BarrierSaving, CollectedSaving
  <1>3. CASE Worker \/ \E renamed \in BOOLEAN : WorkerFails(renamed)
    BY <1>3, BarrierWorking, CollectedWorking
  <1>4. CASE WorldSteps
    BY <1>4, WorldPlaces, WorldStepsLeaveChannels, BarrierKept
  <1>5. CASE Restart
    BY <1>5, StartCollected
  <1>6. CASE UNCHANGED vars
    <2>1. UNCHANGED <<queue, acks, worker, tick, dirty, epoch, entityFile>>
      BY <1>6 DEF vars, worldVars, workerVars
    <2>2. BarrierIsLast'
      BY <2>1, BarrierKept
    <2>3. Collected'
      BY <2>1 DEF Collected, Collecting, ColumnsLeft, DumpsLeft, IsDirty, DumpUnderWay, Dumps
    <2>4. QED
      BY <2>2, <2>3
  <1>7. QED
    BY <1>1, <1>2, <1>3, <1>4, <1>5, <1>6, StepKinds

\* The wait ends well only at the barrier's own ack, when no job is left.
LEMMA OkMeansSaved ==
  ASSUME ~BarrierTimeouts, Inv, JobTypes, EpochOrder, InFlightTracked, BarrierIsLast, Collected,
         CleanIsOnDisk, [Next]_vars, tick.phase = "wait", tick'.phase \in {"drain", "close"},
         tick'.result = "ok"
  PROVE  /\ \A c \in Pinned : Saved(c)
         /\ \A d \in Dimensions : entityFile[d] = epoch[d]
  <1> DEFINE a == Head(acks)
  <1>1. WaitAck
    <2>1. ~(DrainAck \/ DiscardAck \/ SaveChunks \/ SaveEntities \/ SaveSidecars \/ EnqueueBarrier)
      BY DEF DrainAck, DiscardAck, SaveChunks, SaveEntities, SaveSidecars, EnqueueBarrier
    <2>2. ~(Worker \/ \E renamed \in BOOLEAN : WorkerFails(renamed))
      BY DEF Worker, Receive, WorkerTake, WorkerReplace, WorkerFails, SendAck
    <2>3. ~WorldSteps
      BY WorldPlaces
    <2>4. ~Restart /\ ~UNCHANGED vars
      BY DEF Restart, Booted, vars
    <2>5. QED
      BY <2>1, <2>2, <2>3, <2>4, StepKinds
  <1>2. OwnBarrier(a) /\ tick' = Returned(IF SomeFailed(a) THEN "err" ELSE "ok")
    BY <1>1 DEF WaitAck, Collected
  <1>3. ~tick.failed /\ a.ok
    BY <1>2, CollectedReturned DEF SomeFailed
  <1>4. a.job.kind = "barrier" /\ 1 \in DOMAIN acks /\ a = acks[1]
    BY <1>1, <1>2, OrderedTaken DEF OwnBarrier, BarrierJob, WaitAck
  <1>5. /\ queue = << >> /\ worker = Idle
        /\ \A i \in DOMAIN acks : i = 1
    <2>1. 1 = Len(acks) /\ queue = << >> /\ worker = Idle
      BY <1>4 DEF BarrierIsLast
    <2>2. DOMAIN acks = 1 .. Len(acks)
      BY LenProperties DEF JobTypes, ChannelTypes
    <2>3. QED
      BY <2>1, <2>2
  <1> HIDE DEF a
  <1>6. \A j \in Jobs : j.kind = "barrier"
    BY <1>4, <1>5 DEF Jobs
  <1>7. tick.alive /\ Collecting /\ ColumnsLeft = {} /\ DumpsLeft = {}
    BY <1>3 DEF Collected, Collecting, ColumnsLeft, DumpsLeft
  <1>8. ASSUME NEW c \in Pinned PROVE Saved(c)
    <2>1. c \in Columns /\ ~IsDirty(c)
      BY <1>7, PinnedIsKept DEF Collected
    <2>2. dirty[c].state # "inflight"
      BY <1>6, <1>7, <2>1 DEF InFlightTracked, ChunkJobs
    <2>3. dirty[c].state \in {"none", "persisted"}
      BY <2>1, <2>2 DEF IsDirty, JobTypes, WorldTypes, Revisions
    <2>4. QED
      BY <2>3 DEF CleanIsOnDisk
  <1>9. ASSUME NEW d \in Dimensions PROVE entityFile[d] = epoch[d]
    <2>1. DumpUnderWay(d)
      BY <1>7 DEF Collected
    <2>2. \A i \in DOMAIN acks : ~Dumps(acks[i].job, d)
      BY <1>4, <1>5 DEF Dumps
    <2>3. DOMAIN queue = {}
      BY <1>5
    <2>4. QED
      BY <1>5, <2>1, <2>2, <2>3 DEF DumpUnderWay
  <1>10. QED
    BY <1>8, <1>9

\* ok from save_all or shutdown means that the world is on disk: every column nobody may
\* leave, with the edits of jobs that were in flight when it was called, and the entities
\* of every dimension (save_all, wait_barrier).  It takes that the wait for the worker does
\* not time out: when it does, save_all reports ok although jobs are still queued.
THEOREM OkFromSaveAll ==
  ASSUME IdleIsNoJob, ~BarrierTimeouts
  PROVE  Spec => SaveAllOkMeansSaved
  <1> DEFINE P == Inv /\ JobTypes
             Q == EpochOrder /\ BarrierIsLast /\ Collected
  <1>1. Init => Q
    BY EpochsStart, StartCollected
  <1>2. P /\ P' /\ Q /\ [Next]_vars => Q'
    BY StepEpochs, StepCollected
  <1>3. P /\ Q /\ InFlightTracked /\ CleanIsOnDisk /\ [Next]_vars =>
          [tick.phase = "wait" /\ tick'.phase \in {"drain", "close"} /\ tick'.result = "ok" =>
             /\ \A c \in Pinned : Saved(c)
             /\ \A d \in Dimensions : entityFile[d] = epoch[d]]_vars
    BY OkMeansSaved
  <1>4. Spec => []P
    BY JobsTyped
  <1>5. Spec => []InFlightTracked
    BY InFlightIsTracked
  <1>6. Spec => []CleanIsOnDisk
    BY ClearedMeansSaved
  <1> HIDE DEF P, Q
  <1>7. QED
    BY <1>1, <1>2, <1>3, <1>4, <1>5, <1>6, PTL DEF Spec, SaveAllOkMeansSaved

-----------------------------------------------------------------------------
(* 5. Types.                                                                 *)

\* A dirty revision counts edits, and only a revision has a state to settle.
RevisionsCounted ==
  /\ edits \in 0 .. MaxEdits
  /\ \A c \in Columns :
       dirty[c].rev <= edits /\ (dirty[c].state # "none" => dirty[c].rev >= 1)

\* The bounds on what the environment does are kept.
Bounded ==
  /\ \A d \in Dimensions : epoch[d] <= MaxEpoch
  /\ saveAlls <= MaxSaveAlls

PlaceOK == tick \in TickStates /\ keep \subseteq Columns

\* The worker has still to write regions the columns of its job are in.
TodoOfJob ==
  worker # Idle => \A r \in worker.todo :
    \E c \in DOMAIN worker.job.entries : RegionOf[c] = r

ChannelsFit ==
  /\ \A j \in Jobs : JobOK(j)
  /\ Len(queue) <= QueueCapacity /\ Len(acks) <= AckCapacity

\* Inductive together with the invariants of the parts before: a batch is never
\* empty because a region to be written has a column in it, and an epoch read back
\* from a file was once the epoch of its dimension.
TypeInv ==
  Store!TypeOK /\ RevisionsCounted /\ Bounded /\ PlaceOK /\ TodoOfJob /\ ChannelsFit

-----------------------------------------------------------------------------
(* The region files.                                                         *)

LEMMA StoreCached ==
  ASSUME Store!TypeOK, NEW m \in Managers, NEW kept \in SUBSET Regions,
         NEW images, \A c \in Columns : RegionOf[c] \in kept => images[c] \in Store!Slots,
         NEW stamps \in SUBSET Regions,
         Store!CacheIs(m, kept, images, stamps)
  PROVE  /\ cached' \in [Managers -> SUBSET Regions]
         /\ stamped' \in [Managers -> SUBSET Regions]
         /\ image' \in [Managers -> [Columns -> Store!Slots]]
  <1>1. /\ cached \in [Managers -> SUBSET Regions] /\ stamped \in [Managers -> SUBSET Regions]
        /\ image \in [Managers -> [Columns -> Store!Slots]]
    BY DEF Store!TypeOK
  <1>2. /\ cached' \in [Managers -> SUBSET Regions]
        /\ stamped' \in [Managers -> SUBSET Regions]
    BY <1>1 DEF Store!CacheIs
  <1>3. [c \in Columns |-> IF RegionOf[c] \in kept THEN images[c] ELSE NoData]
          \in [Columns -> Store!Slots]
    BY DEF Store!Slots
  <1>4. image' \in [Managers -> [Columns -> Store!Slots]]
    BY <1>1, <1>3 DEF Store!CacheIs
  <1>5. QED
    BY <1>2, <1>4

LEMMA StoreTaken ==
  ASSUME Store!TypeOK, NEW m \in Managers, NEW r \in Regions,
         NEW entries \in Store!Batches(r), Store!Take(m, r, entries)
  PROVE  Store!TypeOK'
  <1>1. /\ cached[m] \in SUBSET Regions /\ stamped[m] \in SUBSET Regions
        /\ \A c \in Columns : image[m][c] \in Store!Slots
    BY DEF Store!TypeOK
  <1>2. PICK kept \in SUBSET Regions, stamps \in SUBSET Regions :
          Store!CacheIs(m, kept, image[m], stamps)
    <2>1. CASE Store!Hit(m, r)
      <3>1. Store!CacheIs(m, cached[m] \ {r}, image[m], stamped[m])
        BY <2>1 DEF Store!Take
      <3>2. QED
        BY <1>1, <3>1
    <2>2. CASE ~Store!Hit(m, r)
      <3>1. Store!CacheIs(m, cached[m], image[m], stamped[m] \ {r})
        BY <2>2 DEF Store!Take
      <3>2. QED
        BY <1>1, <3>1
    <2>3. QED
      BY <2>1, <2>2
  <1>3. /\ cached' \in [Managers -> SUBSET Regions]
        /\ stamped' \in [Managers -> SUBSET Regions]
        /\ image' \in [Managers -> [Columns -> Store!Slots]]
    BY <1>1, <1>2, StoreCached
  <1>4. [c \in Store!ColumnsIn(r) |-> IF Store!Hit(m, r) THEN image[m][c] ELSE disk[c]]
          \in [Store!ColumnsIn(r) -> Store!Slots]
    BY DEF Store!TypeOK, Store!ColumnsIn
  <1>5. QED
    BY <1>3, <1>4 DEF Store!Take, Store!TypeOK

LEMMA StoreImage ==
  ASSUME Store!TypeOK, NEW m \in Managers, held[m] # NoWrite
  PROVE  /\ held[m].region \in Regions
         /\ \A c \in Columns : RegionOf[c] = held[m].region =>
              Store!NewImage(m)[c] \in Store!Slots /\ held[m].base[c] \in Store!Slots
  <1>1. /\ held[m].region \in Regions
        /\ held[m].base \in [Store!ColumnsIn(held[m].region) -> Store!Slots]
        /\ held[m].entries \in Store!Batches(held[m].region)
    BY DEF Store!TypeOK
  <1>2. \A c \in DOMAIN held[m].entries : held[m].entries[c] \in Payloads
    BY <1>1 DEF Store!Batches
  <1>3. QED
    BY <1>1, <1>2 DEF Store!NewImage, Store!Slots, Store!ColumnsIn

LEMMA StoreReplaced ==
  ASSUME Store!TypeOK, NEW m \in Managers,
         Store!Replace(m) \/ \E renamed \in BOOLEAN : Store!ReplaceFails(m, renamed)
  PROVE  Store!TypeOK'
  <1>1. /\ held[m] # NoWrite /\ UNCHANGED corrupt
        /\ held' = [held EXCEPT ![m] = NoWrite]
        /\ UNCHANGED disk \/ Store!DiskHolds(m, Store!NewImage(m))
        /\ result' \in [Managers -> {"none", "ok", "err"}]
    BY DEF Store!Replace, Store!ReplaceFails, Store!TypeOK
  <1>2. /\ held[m].region \in Regions
        /\ \A c \in Columns : RegionOf[c] = held[m].region =>
             Store!NewImage(m)[c] \in Store!Slots /\ held[m].base[c] \in Store!Slots
    BY <1>1, StoreImage
  <1>3. disk' \in [Columns -> Store!Slots]
    BY <1>1, <1>2 DEF Store!DiskHolds, Store!TypeOK
  <1>4. /\ cached' \in [Managers -> SUBSET Regions]
        /\ stamped' \in [Managers -> SUBSET Regions]
        /\ image' \in [Managers -> [Columns -> Store!Slots]]
    <2>1. CASE Store!Replace(m)
      <3>1. PICK kept \in SUBSET (cached[m] \union {held[m].region}) :
              Store!CacheIs(m, kept,
                Store!Overlaid(m, held[m].region, Store!NewImage(m)),
                (stamped[m] \union {held[m].region})
                  \ ((cached[m] \union {held[m].region}) \ kept))
        BY <2>1 DEF Store!Replace, Store!Keep
      <3>2. /\ kept \in SUBSET Regions
            /\ (stamped[m] \union {held[m].region})
                 \ ((cached[m] \union {held[m].region}) \ kept) \in SUBSET Regions
        BY <1>2 DEF Store!TypeOK
      <3> DEFINE images == Store!Overlaid(m, held[m].region, Store!NewImage(m))
                 stamps == (stamped[m] \union {held[m].region})
                             \ ((cached[m] \union {held[m].region}) \ kept)
      <3>3. \A c \in Columns : images[c] \in Store!Slots
        BY <1>2 DEF Store!Overlaid, Store!TypeOK
      <3>4. Store!CacheIs(m, kept, images, stamps) /\ stamps \in SUBSET Regions
        BY <3>1, <3>2
      <3> HIDE DEF images, stamps
      <3>5. QED
        BY <3>2, <3>3, <3>4, StoreCached
    <2>2. CASE \E renamed \in BOOLEAN : Store!ReplaceFails(m, renamed)
      <3>1. Store!CacheIs(m, cached[m] \union {held[m].region},
              Store!Overlaid(m, held[m].region, held[m].base), stamped[m])
        BY <2>2 DEF Store!ReplaceFails
      <3>2. cached[m] \union {held[m].region} \in SUBSET Regions /\ stamped[m] \in SUBSET Regions
        BY <1>2 DEF Store!TypeOK
      <3>3. \A c \in Columns :
              Store!Overlaid(m, held[m].region, held[m].base)[c] \in Store!Slots
        BY <1>2 DEF Store!Overlaid, Store!TypeOK
      <3>4. QED
        BY <3>1, <3>2, <3>3, StoreCached
    <2>3. QED
      BY <2>1, <2>2
  <1>5. QED
    BY <1>1, <1>3, <1>4 DEF Store!TypeOK

LEMMA StoreKept == Store!TypeOK /\ UNCHANGED storeVars => Store!TypeOK'
  BY DEF storeVars, Store!TypeOK

\* A batch of the tick thread: resident columns of one region.
LEMMA FlushTypes ==
  ASSUME Inv, TypeInv, FlushTake
  PROVE  Store!TypeOK'
  <1> USE ChunkSaveAssumption
  <1> DEFINE R == {RegionOf[c] : c \in tick.todo}
             here == {c \in tick.todo : RegionOf[c] = Least(R)}
  <1>1. tick.todo # {} /\ \A c \in tick.todo : c \in Columns /\ content[c] \in SUBSET Edit
    BY DEF FlushTake, Inv, TickInv, WorldInv, Resident
  <1>2. Least(R) \in R /\ R \subseteq Regions
    <2>1. \A c \in tick.todo : RegionOf[c] \in Regions /\ RegionOf[c] \in Nat
      BY <1>1
    <2>2. R # {} /\ R \subseteq Regions /\ R \subseteq Nat
      BY <1>1, <2>1
    <2>3. QED
      BY <2>2, LeastIsMember
  <1>3. here # {} /\ Least(R) \in Regions
    BY <1>2
  <1>4. PICK S : /\ S \in IF tick.single THEN {{c} : c \in here} ELSE {here}
                 /\ Store!Take("tick", Least(R), [c \in S |-> content[c]])
    BY DEF FlushTake
  <1>5. S \subseteq here /\ S # {}
    <2> HIDE DEF R, here
    <2>1. CASE tick.single
      BY <1>4, <2>1
    <2>2. CASE ~tick.single
      BY <1>3, <1>4, <2>2
    <2>3. QED
      BY <2>1, <2>2
  <1>6. [c \in S |-> content[c]] \in Store!Batches(Least(R))
    <2>1. S \in (SUBSET Store!ColumnsIn(Least(R))) \ {{}}
      BY <1>1, <1>5 DEF Store!ColumnsIn
    <2>2. [c \in S |-> content[c]] \in [S -> Payloads]
      BY <1>1, <1>5 DEF Payloads
    <2>3. QED
      BY <2>1, <2>2 DEF Store!Batches
  <1> HIDE DEF R, here
  <1>7. "tick" \in Managers
    BY DEF Managers
  <1>8. QED
    BY <1>3, <1>4, <1>6, <1>7, StoreTaken DEF TypeInv

\* A batch of the save thread: the columns of its job in one region.
LEMMA WorkerTakeTypes ==
  ASSUME Inv, JobTypes, TypeInv, WorkerTake
  PROVE  Store!TypeOK'
  <1> USE ChunkSaveAssumption
  <1> DEFINE r == Least(worker.todo)
             S == {c \in DOMAIN worker.job.entries : RegionOf[c] = r}
             entries == [c \in S |-> worker.job.entries[c].data]
  <1>1. worker # Idle /\ worker.todo # {} /\ Store!Take("worker", r, entries)
    BY DEF WorkerTake
  <1>2. worker \in Busy /\ worker.todo \subseteq Regions
    BY <1>1 DEF JobTypes, ChannelTypes, Busy
  <1>3. r \in worker.todo
    BY <1>1, <1>2, LeastIsMember
  <1> HIDE DEF r
  <1>4. S # {}
    BY <1>1, <1>3 DEF TypeInv, TodoOfJob
  <1>5. \A c \in S : c \in Columns /\ worker.job.entries[c].data \in SUBSET Edit
    BY <1>1 DEF Inv, WorkerInv, JobWritable, Writable
  <1>6. entries \in Store!Batches(r)
    <2>1. S \in (SUBSET Store!ColumnsIn(r)) \ {{}}
      BY <1>4, <1>5 DEF Store!ColumnsIn
    <2>2. entries \in [S -> Payloads]
      BY <1>5 DEF Payloads
    <2> HIDE DEF S, entries
    <2>3. QED
      BY <2>1, <2>2 DEF Store!Batches
  <1> HIDE DEF S, entries
  <1>7. "worker" \in Managers /\ r \in Regions
    BY <1>2, <1>3 DEF Managers
  <1>8. QED
    BY <1>1, <1>6, <1>7, StoreTaken DEF TypeInv

LEMMA StoreTypes ==
  ASSUME Inv, JobTypes, TypeInv, [Next]_vars
  PROVE  Store!TypeOK'
  <1>0. Store!TypeOK /\ "tick" \in Managers /\ "worker" \in Managers
    BY DEF TypeInv, Managers
  <1>1. CASE FlushReplace \/ \E renamed \in BOOLEAN : FlushFails(renamed)
    BY <1>0, <1>1, StoreReplaced DEF FlushReplace, FlushFails
  <1>2. CASE WorkerReplace \/ \E renamed \in BOOLEAN : WorkerFails(renamed)
    BY <1>0, <1>2, StoreReplaced DEF WorkerReplace, WorkerFails
  <1>3. CASE Restart
    BY <1>0, <1>3 DEF Restart, Store!Restart, Store!TypeOK, Store!Slots
  <1>4. CASE \/ DrainAck \/ WaitAck \/ DiscardAck
             \/ SaveChunks \/ SaveEntities \/ SaveSidecars \/ EnqueueBarrier
             \/ Receive \/ SendAck
    BY <1>0, <1>4, StoreKept
    DEF DrainAck, WaitAck, DiscardAck, SaveChunks, SaveEntities, SaveSidecars,
        EnqueueBarrier, Receive, SendAck
  <1>5. CASE WorldSteps /\ ~(\/ FlushTake \/ FlushReplace
                            \/ \E renamed \in BOOLEAN : FlushFails(renamed))
    BY <1>0, <1>5, StoreKept
    DEF WorldSteps, DrainDone, BeginEvict, EvictClean, EvictDirty, FlushDone, EndTick, Close,
        Autosave, Mutate, Materialize, Move, EntityChange, SaveAll, Shutdown, WaitTimeout
  <1>6. CASE UNCHANGED vars
    BY <1>0, <1>6, StoreKept DEF vars
  <1>7. QED
    BY <1>1, <1>2, <1>3, <1>4, <1>5, <1>6, FlushTypes, WorkerTakeTypes, StepKinds DEF Worker

-----------------------------------------------------------------------------
(* Revisions, epochs and places.                                             *)

\* What one ack does to the revision of a column.
LEMMA AckedRevision ==
  ASSUME NEW c \in Columns, dirty[c] \in Revisions, NEW rev, NEW ok
  PROVE  /\ Acknowledged(c, rev, ok).rev = dirty[c].rev
         /\ Acknowledged(c, rev, ok).state # "none" => dirty[c].state # "none"
  BY DEF Acknowledged, Revisions

LEMMA RevisionsAcked ==
  ASSUME JobTypes, RevisionsCounted, NEW a, ApplyAck(a), UNCHANGED edits
  PROVE  RevisionsCounted'
  <1>1. \A c \in Columns : dirty[c] \in Revisions
    BY DEF JobTypes, WorldTypes
  <1>2. ASSUME NEW c \in Columns
        PROVE  /\ dirty'[c].rev = dirty[c].rev
               /\ dirty'[c].state # "none" => dirty[c].state # "none"
    <2>1. CASE a.job.kind = "chunks" /\ c \in DOMAIN a.job.entries
      <3>1. PICK rev : dirty'[c] = Acknowledged(c, rev, a.ok)
        BY <2>1 DEF ApplyAck
      <3>2. QED
        BY <1>1, <3>1, AckedRevision
    <2>2. CASE ~(a.job.kind = "chunks" /\ c \in DOMAIN a.job.entries)
      <3>1. dirty'[c] = dirty[c]
        BY <2>2 DEF ApplyAck
      <3>2. QED
        BY <3>1
    <2>3. QED
      BY <2>1, <2>2
  <1>3. QED
    BY <1>2 DEF RevisionsCounted

LEMMA RevisionsDropped ==
  ASSUME JobTypes, RevisionsCounted, NEW S, Drop(S), UNCHANGED edits
  PROVE  RevisionsCounted'
  BY ChunkSaveAssumption DEF Drop, Clean, RevisionsCounted, JobTypes, WorldTypes, Revisions

LEMMA RevisionsTypes ==
  ASSUME Inv, JobTypes, RevisionsCounted, [Next]_vars
  PROVE  RevisionsCounted'
  <1> USE ChunkSaveAssumption
  <1>1. CASE DrainAck \/ WaitAck
    BY <1>1, RevisionsAcked DEF DrainAck, WaitAck, counters
  <1>2. CASE (\E d \in Dimensions : EvictClean(d)) \/ FlushReplace \/ FlushDone
    <2>1. (\E S : Drop(S)) \/ UNCHANGED dirty
      BY <1>2 DEF EvictClean, FlushReplace, FlushDone
    <2>2. UNCHANGED edits
      BY <1>2 DEF EvictClean, FlushReplace, FlushDone, counters
    <2>3. QED
      BY <2>1, <2>2, RevisionsDropped DEF RevisionsCounted
  <1>3. ASSUME NEW c \in Columns, Mutate(c) PROVE RevisionsCounted'
    <2>1. /\ edits < MaxEdits /\ edits' = edits + 1
          /\ dirty' = [dirty EXCEPT ![c] = [state |-> "dirty", rev |-> dirty[c].rev + 1]]
      BY <1>3 DEF Mutate
    <2>2. \A b \in Columns : dirty[b].rev \in Nat
      BY DEF JobTypes, WorldTypes, Revisions
    <2>3. DOMAIN dirty = Columns
      BY DEF JobTypes, WorldTypes
    <2>4. QED
      BY <2>1, <2>2, <2>3 DEF RevisionsCounted
  <1>4. CASE SaveChunks
    <2> DEFINE S == {c \in ColumnsOf(Least(tick.dims)) : IsDirty(c) /\ Resident(c)}
    <2>1. \/ UNCHANGED dirty
          \/ dirty' = [c \in Columns |->
               IF c \in S THEN [dirty[c] EXCEPT !.state = "inflight"] ELSE dirty[c]]
      BY <1>4 DEF SaveChunks
    <2>2. \A c \in S : dirty[c].state = "dirty"
      BY DEF IsDirty
    <2>3. UNCHANGED edits
      BY <1>4 DEF SaveChunks, counters
    <2> HIDE DEF S
    <2>4. QED
      BY <2>1, <2>2, <2>3 DEF RevisionsCounted, JobTypes, WorldTypes, Revisions
  <1>5. CASE Restart
    BY <1>5 DEF Restart, Booted, Clean, RevisionsCounted
  <1>6. CASE UNCHANGED <<dirty, edits>>
    BY <1>6 DEF RevisionsCounted
  <1>7. CASE \/ DiscardAck \/ SaveEntities \/ SaveSidecars \/ EnqueueBarrier
             \/ Worker \/ \E renamed \in BOOLEAN : WorkerFails(renamed)
    BY <1>6, <1>7
    DEF DiscardAck, SaveEntities, SaveSidecars, EnqueueBarrier, Worker, Receive, WorkerTake,
        WorkerReplace, SendAck, WorkerFails, worldVars, counters
  <1>8. CASE WorldSteps
    BY <1>2, <1>3, <1>6, <1>8
    DEF WorldSteps, DrainDone, BeginEvict, EvictDirty, EndTick, Close, Autosave, Materialize,
        Move, EntityChange, SaveAll, Shutdown, WaitTimeout, FlushTake, FlushFails, worldVars,
        counters
  <1>9. CASE UNCHANGED vars
    BY <1>6, <1>9 DEF vars, worldVars, counters
  <1>10. QED
    BY <1>1, <1>4, <1>5, <1>7, <1>8, <1>9, StepKinds

LEMMA BoundedSteps ==
  ASSUME JobTypes, EpochOrder, Bounded, [Next]_vars
  PROVE  Bounded'
  <1> USE ChunkSaveAssumption
  <1>0. \A d \in Dimensions : epoch[d] \in Nat /\ entityFile[d] \in Nat /\ entityFile[d] <= epoch[d]
    BY DEF JobTypes, WorldTypes, EpochOrder
  <1>1. ASSUME NEW d \in Dimensions, EntityChange(d) PROVE Bounded'
    BY <1>0, <1>1 DEF EntityChange, Bounded, counters, JobTypes, WorldTypes
  <1>2. CASE SaveAll \/ Shutdown
    BY <1>0, <1>2 DEF SaveAll, Shutdown, Bounded, worldVars, JobTypes, WorldTypes
  <1>3. CASE Restart
    BY <1>0, <1>3 DEF Restart, Booted, Bounded
  <1>4. CASE UNCHANGED <<epoch, saveAlls>>
    BY <1>4 DEF Bounded
  <1>5. CASE \/ DrainAck \/ WaitAck \/ DiscardAck
             \/ SaveChunks \/ SaveEntities \/ SaveSidecars \/ EnqueueBarrier
             \/ Worker \/ \E renamed \in BOOLEAN : WorkerFails(renamed)
    BY <1>4, <1>5
    DEF DrainAck, WaitAck, DiscardAck, SaveChunks, SaveEntities, SaveSidecars, EnqueueBarrier,
        Worker, Receive, WorkerTake, WorkerReplace, SendAck, WorkerFails, worldVars, counters
  <1>6. CASE WorldSteps
    BY <1>1, <1>2, <1>4, <1>6
    DEF WorldSteps, DrainDone, BeginEvict, EvictClean, EvictDirty, EndTick, Close, Autosave,
        Mutate, Materialize, Move, WaitTimeout, FlushTake, FlushReplace, FlushDone, FlushFails,
        worldVars, counters
  <1>7. CASE UNCHANGED vars
    BY <1>4, <1>7 DEF vars, worldVars, counters
  <1>8. QED
    BY <1>3, <1>5, <1>6, <1>7, StepKinds

\* Assignments to parts of the tick thread's position.
TickPhases == {"drain", "events", "evict", "flush", "chunks", "entities", "barrier", "wait",
               "close", "stopped"}

LEMMA TickMoves ==
  ASSUME tick \in TickStates, NEW phase \in TickPhases
  PROVE  [tick EXCEPT !.phase = phase] \in TickStates
  BY DEF TickStates, TickPhases

LEMMA TickMovesOn ==
  ASSUME tick \in TickStates, NEW phase \in TickPhases, NEW dims \in SUBSET Dimensions
  PROVE  [tick EXCEPT !.phase = phase, !.dims = dims] \in TickStates
  BY DEF TickStates, TickPhases

LEMMA TickStarts ==
  ASSUME tick \in TickStates, NEW todo \in SUBSET Columns
  PROVE  [tick EXCEPT !.todo = todo] \in TickStates
  BY DEF TickStates

LEMMA TickRetries ==
  ASSUME tick \in TickStates, NEW todo \in SUBSET Columns
  PROVE  [tick EXCEPT !.single = TRUE, !.todo = todo] \in TickStates
  BY DEF TickStates

LEMMA PlaceTypesReturned ==
  ASSUME PlaceOK, NEW r \in {"ok", "err"}, tick' = Returned(r), UNCHANGED keep
  PROVE  PlaceOK'
  <1>1. tick'.phase \in {"close", "drain"}
    BY DEF Returned, PlaceOK, TickStates
  <1>2. (tick.flushed \/ (tick.kind = "shutdown" /\ r = "ok")) \in BOOLEAN
    BY DEF PlaceOK, TickStates
  <1>3. QED
    BY <1>1, <1>2 DEF Returned, PlaceOK, TickStates

LEMMA PlaceSteps ==
  ASSUME Inv, JobTypes, PlaceOK, [Next]_vars
  PROVE  PlaceOK'
  <1> USE ChunkSaveAssumption
  <1>0. tick \in TickStates /\ keep \subseteq Columns
    BY DEF PlaceOK
  <1>1. CASE DrainAck \/ DiscardAck
    BY <1>1 DEF DrainAck, DiscardAck, worldVars, PlaceOK
  <1>2. CASE WaitAck
    <2>1. CASE \E r \in {"ok", "err"} : tick' = Returned(r)
      BY <1>2, <2>1, PlaceTypesReturned DEF WaitAck
    <2>2. CASE tick' = [tick EXCEPT !.failed = SomeFailed(Head(acks))]
      <3>1. SomeFailed(Head(acks)) \in BOOLEAN
        BY DEF SomeFailed
      <3>2. tick' \in TickStates
        BY <1>0, <2>2, <3>1 DEF TickStates
      <3>3. UNCHANGED keep
        BY <1>2 DEF WaitAck
      <3>4. QED
        BY <1>0, <3>2, <3>3 DEF PlaceOK
    <2>3. QED
      BY <1>2, <2>1, <2>2 DEF WaitAck
  <1>3. CASE SaveChunks \/ SaveEntities \/ SaveSidecars
    <2>1. UNCHANGED keep
      BY <1>3 DEF SaveChunks, SaveEntities, SaveSidecars, worldVars
    <2>2. \/ \E r \in {"ok", "err"} : tick' = Returned(r)
          \/ tick' = [tick EXCEPT !.phase = "entities"]
          \/ tick' = [tick EXCEPT !.phase = "chunks", !.dims = tick.dims \ {Least(tick.dims)}]
          \/ tick' = [tick EXCEPT !.phase = "barrier"]
      BY <1>3 DEF SaveChunks, SaveEntities, SaveSidecars
    <2>3. CASE \E r \in {"ok", "err"} : tick' = Returned(r)
      BY <2>1, <2>3, PlaceTypesReturned
    <2>4. CASE ~\E r \in {"ok", "err"} : tick' = Returned(r)
      <3>1. /\ tick.dims \ {Least(tick.dims)} \in SUBSET Dimensions
            /\ {"entities", "chunks", "barrier"} \subseteq TickPhases
        BY <1>0 DEF TickStates, TickPhases
      <3>2. CASE tick' = [tick EXCEPT !.phase = "entities"]
        BY <1>0, <2>1, <3>1, <3>2, TickMoves DEF PlaceOK
      <3>3. CASE tick' = [tick EXCEPT !.phase = "chunks", !.dims = tick.dims \ {Least(tick.dims)}]
        BY <1>0, <2>1, <3>1, <3>3, TickMovesOn DEF PlaceOK
      <3>4. CASE tick' = [tick EXCEPT !.phase = "barrier"]
        BY <1>0, <2>1, <3>1, <3>4, TickMoves DEF PlaceOK
      <3>5. QED
        BY <2>2, <2>4, <3>2, <3>3, <3>4
    <2>5. QED
      BY <2>3, <2>4
  <1>4. CASE EnqueueBarrier
    BY <1>0, <1>4 DEF EnqueueBarrier, worldVars, PlaceOK, TickStates
  <1>5. CASE Worker \/ \E renamed \in BOOLEAN : WorkerFails(renamed)
    BY <1>5 DEF Worker, Receive, WorkerTake, WorkerReplace, SendAck, WorkerFails, worldVars,
                PlaceOK
  <1>6. CASE DrainDone \/ BeginEvict \/ EndTick \/ Close
    <2>1. CASE DrainDone \/ BeginEvict
      BY <1>0, <2>1 DEF DrainDone, BeginEvict, worldVars, PlaceOK, TickStates
    <2>2. CASE EndTick
      BY <1>0, <2>2 DEF EndTick, worldVars, PlaceOK, TickStates
    <2>3. CASE Close
      BY <1>0, <2>3 DEF Close, worldVars, PlaceOK, TickStates
    <2>4. QED
      BY <1>6, <2>1, <2>2, <2>3
  <1>7. CASE \E d \in Dimensions : EvictClean(d) \/ EvictDirty(d)
    <2>1. PICK d \in Dimensions : EvictClean(d) \/ EvictDirty(d)
      BY <1>7
    <2>2. {c \in Unkept(d) : IsDirty(c)} \subseteq Columns
      BY DEF Unkept, ColumnsOf
    <2>3. QED
      <3>1. CASE EvictClean(d)
        BY <1>0, <3>1 DEF EvictClean, worldVars, PlaceOK, TickStates
      <3>2. CASE EvictDirty(d)
        BY <1>0, <2>2, <3>2 DEF EvictDirty, worldVars, PlaceOK, TickStates
      <3>3. QED
        BY <2>1, <3>1, <3>2
  <1>8. CASE FlushTake \/ FlushReplace \/ FlushDone
    <2>1. /\ tick.todo \ DOMAIN held["tick"].entries \in SUBSET Columns
          /\ tick.dims \ {Least(tick.dims)} \in SUBSET Dimensions
      BY <1>0 DEF TickStates
    <2>2. /\ UNCHANGED keep
          /\ \/ UNCHANGED tick
             \/ tick' = [tick EXCEPT !.todo = tick.todo \ DOMAIN held["tick"].entries]
             \/ tick' = [tick EXCEPT !.phase = "evict", !.dims = tick.dims \ {Least(tick.dims)}]
      BY <1>8 DEF FlushTake, FlushReplace, FlushDone, worldVars
    <2>3. "evict" \in TickPhases
      BY DEF TickPhases
    <2>4. CASE UNCHANGED tick
      BY <1>0, <2>2, <2>4 DEF PlaceOK
    <2>5. CASE tick' = [tick EXCEPT !.todo = tick.todo \ DOMAIN held["tick"].entries]
      BY <1>0, <2>1, <2>2, <2>5, TickStarts DEF PlaceOK
    <2>6. CASE tick' = [tick EXCEPT !.phase = "evict", !.dims = tick.dims \ {Least(tick.dims)}]
      BY <1>0, <2>1, <2>2, <2>3, <2>6, TickMovesOn DEF PlaceOK
    <2>7. QED
      BY <2>2, <2>4, <2>5, <2>6
  <1>9. CASE \E renamed \in BOOLEAN : FlushFails(renamed)
    <2> DEFINE again == {c \in Unkept(Least(tick.dims)) : IsDirty(c)}
    <2>1. /\ again \in SUBSET Columns
          /\ tick.todo \ DOMAIN held["tick"].entries \in SUBSET Columns
      BY <1>0 DEF Unkept, ColumnsOf, TickStates
    <2>2. /\ UNCHANGED keep
          /\ \/ tick' = [tick EXCEPT !.todo = tick.todo \ DOMAIN held["tick"].entries]
             \/ tick' = [tick EXCEPT !.single = TRUE, !.todo = again]
      BY <1>9 DEF FlushFails, worldVars
    <2> HIDE DEF again
    <2>3. CASE tick' = [tick EXCEPT !.todo = tick.todo \ DOMAIN held["tick"].entries]
      BY <1>0, <2>1, <2>2, <2>3, TickStarts DEF PlaceOK
    <2>4. CASE tick' = [tick EXCEPT !.single = TRUE, !.todo = again]
      BY <1>0, <2>1, <2>2, <2>4, TickRetries DEF PlaceOK
    <2>5. QED
      BY <2>2, <2>3, <2>4
  <1>10. CASE \/ \E c \in Columns : Mutate(c) \/ Materialize(c)
              \/ \E k \in SUBSET Columns : Move(k)
              \/ \E d \in Dimensions : EntityChange(d)
    BY <1>0, <1>10 DEF Mutate, Materialize, Move, EntityChange, PlaceOK
  <1>11. CASE Autosave \/ SaveAll \/ Shutdown
    <2>1. CASE Autosave
      BY <1>0, <2>1 DEF Autosave, StartSave, worldVars, PlaceOK, TickStates
    <2>2. CASE SaveAll
      BY <1>0, <2>2 DEF SaveAll, StartSave, worldVars, PlaceOK, TickStates
    <2>3. CASE Shutdown
      BY <1>0, <2>3 DEF Shutdown, StartSave, worldVars, PlaceOK, TickStates
    <2>4. QED
      BY <1>11, <2>1, <2>2, <2>3
  <1>12. CASE WaitTimeout
    <2>1. PICK r \in {"ok", "err"} : tick' = Returned(r)
      BY <1>12 DEF WaitTimeout
    <2>2. QED
      BY <1>12, <2>1, PlaceTypesReturned DEF WaitTimeout, worldVars
  <1>13. CASE Restart
    BY <1>13 DEF Restart, Booted, PlaceOK, TickStates
  <1>14. CASE UNCHANGED vars
    BY <1>14 DEF vars, worldVars, PlaceOK
  <1>15. QED
    BY <1>1, <1>2, <1>3, <1>4, <1>5, <1>6, <1>7, <1>8, <1>9, <1>10, <1>11, <1>12, <1>13, <1>14,
       StepKinds DEF WorldSteps

-----------------------------------------------------------------------------
(* Jobs on their way.                                                        *)

\* No job appears but by the tick thread.
LEMMA JobsOnlyMove ==
  ASSUME JobTypes,
         \/ DrainAck \/ WaitAck \/ DiscardAck
         \/ Worker \/ \E renamed \in BOOLEAN : WorkerFails(renamed)
  PROVE  /\ Jobs' \subseteq Jobs
         /\ Len(queue') <= Len(queue)
         /\ Len(acks') <= Len(acks) \/ Len(acks') <= AckCapacity
  <1> USE ChunkSaveAssumption
  <1>0. /\ queue \in Seq(AnyJob) /\ acks \in Seq(AnyAck)
        /\ Len(queue) \in Nat /\ Len(acks) \in Nat
        /\ DOMAIN queue = 1 .. Len(queue) /\ DOMAIN acks = 1 .. Len(acks)
    BY LenProperties DEF JobTypes, ChannelTypes
  <1>1. CASE DrainAck \/ WaitAck \/ DiscardAck
    <2>1. acks # << >> /\ acks' = Tail(acks) /\ UNCHANGED <<queue, worker>>
      BY <1>1 DEF DrainAck, WaitAck, DiscardAck
    <2>2. /\ DOMAIN acks' = 1 .. Len(acks) - 1 /\ acks' \in Seq(AnyAck)
          /\ \A i \in DOMAIN acks' : acks'[i] = acks[i + 1]
      BY <1>0, <2>1, QueueTaken
    <2>3. \A i \in DOMAIN acks' : i + 1 \in DOMAIN acks /\ acks'[i].job = acks[i + 1].job
      BY <1>0, <2>2
    <2>4. Jobs' \subseteq Jobs
      BY <2>1, <2>3 DEF Jobs
    <2>5. Len(acks') <= Len(acks)
      BY <1>0, <2>1, HeadTailProperties
    <2>6. QED
      BY <1>0, <2>1, <2>4, <2>5
  <1>2. CASE Receive
    <2>1. queue # << >> /\ queue' = Tail(queue) /\ UNCHANGED acks /\ worker'.job = Head(queue)
      BY <1>2 DEF Receive
    <2>2. /\ Head(queue) = queue[1] /\ 1 \in DOMAIN queue
          /\ DOMAIN queue' = 1 .. Len(queue) - 1
          /\ \A i \in DOMAIN queue' : queue'[i] = queue[i + 1]
      BY <1>0, <2>1, QueueTaken
    <2>3. \A i \in DOMAIN queue' : i + 1 \in DOMAIN queue /\ queue'[i] = queue[i + 1]
      BY <1>0, <2>2
    <2>4. Jobs' \subseteq Jobs
      BY <2>1, <2>2, <2>3 DEF Jobs
    <2>5. Len(queue') <= Len(queue)
      BY <1>0, <2>1, HeadTailProperties
    <2>6. QED
      BY <1>0, <2>1, <2>4, <2>5
  <1>3. CASE SendAck
    <2> DEFINE a == [job |-> worker.job, ok |-> worker.ok]
    <2>1. /\ worker # Idle /\ worker' = Idle /\ UNCHANGED queue
          /\ acks' = Append(acks, a) /\ Len(acks) < AckCapacity
      BY <1>3 DEF SendAck
    <2>2. a \in AnyAck /\ a.job = worker.job
      BY <2>1 DEF JobTypes, ChannelTypes, Busy, AnyAck
    <2> HIDE DEF a
    <2>3. /\ DOMAIN acks' = 1 .. Len(acks) + 1
          /\ \A i \in 1 .. Len(acks) : acks'[i] = acks[i]
          /\ acks'[Len(acks) + 1] = a
      BY <1>0, <2>1, <2>2, QueueAppended
    <2>4. ASSUME NEW i \in DOMAIN acks'
          PROVE  acks'[i].job = worker.job \/ (i \in DOMAIN acks /\ acks'[i] = acks[i])
      <3>1. CASE i = Len(acks) + 1
        BY <2>2, <2>3, <3>1
      <3>2. CASE i # Len(acks) + 1
        <4>1. i \in 1 .. Len(acks)
          BY <1>0, <2>3, <3>2
        <4>2. QED
          BY <1>0, <2>3, <4>1
      <3>3. QED
        BY <3>1, <3>2
    <2>5. Jobs' \subseteq Jobs
      BY <2>1, <2>4 DEF Jobs
    <2>6. Len(acks') = Len(acks) + 1
      BY <1>0, <2>1, <2>2, AppendProperties
    <2>7. QED
      BY <1>0, <2>1, <2>5, <2>6
  <1>4. CASE WorkerTake \/ WorkerReplace \/ \E renamed \in BOOLEAN : WorkerFails(renamed)
    <2>1. UNCHANGED <<queue, acks>>
      BY <1>4 DEF WorkerTake, WorkerReplace, WorkerFails, workerVars
    <2>2. worker # Idle /\ worker'.job = worker.job
      BY <1>4 DEF WorkerTake, WorkerReplace, WorkerFails, workerVars, JobTypes, ChannelTypes, Busy
    <2>3. Jobs' \subseteq Jobs
      BY <2>1, <2>2 DEF Jobs
    <2>4. QED
      BY <1>0, <2>1, <2>3
  <1>5. QED
    BY <1>1, <1>2, <1>3, <1>4 DEF Worker

\* A job for which there is room joins the queue.
LEMMA JobFits ==
  ASSUME JobTypes, ChannelsFit, NEW j \in AnyJob, JobOK(j), Len(queue) < QueueCapacity,
         queue' = Append(queue, j), UNCHANGED <<acks, worker>>
  PROVE  ChannelsFit'
  <1>1. \A k \in Jobs' : JobOK(k)
    BY JobsAfterAppend DEF ChannelsFit
  <1>2. Len(queue) \in Nat /\ Len(queue') = Len(queue) + 1
    BY AppendProperties, LenProperties DEF JobTypes, ChannelTypes
  <1>3. QED
    BY <1>1, <1>2, ChunkSaveAssumption DEF ChannelsFit, JobOK

LEMMA ChannelsStay ==
  ChannelsFit /\ UNCHANGED <<queue, acks, worker>> => ChannelsFit'
  BY DEF ChannelsFit, JobOK, Jobs

\* What the tick thread enqueues is within the bounds.
LEMMA SavedJobsFit ==
  ASSUME Inv, JobTypes, TypeInv, SaveChunks \/ SaveEntities \/ SaveSidecars \/ EnqueueBarrier
  PROVE  ChannelsFit'
  <1> USE ChunkSaveAssumption
  <1>0. ChannelsFit /\ RevisionsCounted /\ Bounded
    BY DEF TypeInv
  <1>1. CASE SaveChunks
    <2> DEFINE d == Least(tick.dims)
               S == {c \in ColumnsOf(d) : IsDirty(c) /\ Resident(c)}
               entries == [c \in S |-> [rev |-> dirty[c].rev, data |-> content[c]]]
    <2>1. d \in Dimensions
      <3>1. tick.dims # {} /\ tick.dims \subseteq Nat /\ tick.dims \subseteq Dimensions
        BY <1>1 DEF SaveChunks, JobTypes, PlaceTypes
      <3>2. QED
        BY <3>1, LeastIsMember
    <2>2. ChunkJob(d, entries) \in AnyJob
      BY <2>1, ChunkJobType
    <2>3. JobOK(ChunkJob(d, entries))
      <3>1. \A c \in S : c \in Columns
        BY DEF ColumnsOf
      <3>2. ASSUME NEW c \in S
            PROVE  dirty[c].rev \in 1 .. MaxEdits /\ content[c] \in SUBSET Edit
        <4>1. dirty[c].rev \in Nat /\ dirty[c].state = "dirty"
          BY <3>1 DEF IsDirty, JobTypes, WorldTypes, Revisions
        <4>2. dirty[c].rev >= 1 /\ dirty[c].rev <= edits /\ edits <= MaxEdits /\ edits \in Nat
          BY <1>0, <3>1, <4>1 DEF RevisionsCounted
        <4>3. content[c] \in SUBSET Edit
          BY <3>1 DEF Inv, WorldInv, Resident
        <4>4. QED
          BY <4>1, <4>2, <4>3
      <3>3. entries \in [S -> [rev : 1 .. MaxEdits, data : SUBSET Edit]] /\ DOMAIN entries = S
        BY <3>2
      <3>4. /\ ChunkJob(d, entries).kind = "chunks" /\ ChunkJob(d, entries).dim = d
            /\ ChunkJob(d, entries).entries = entries
        BY DEF ChunkJob
      <3> HIDE DEF d, S, entries
      <3>5. S \subseteq Columns
        BY <3>1
      <3>6. QED
        BY <2>1, <3>3, <3>4, <3>5 DEF JobOK
    <2>4. UNCHANGED queue \/ (CanEnqueue /\ queue' = Append(queue, ChunkJob(d, entries)))
      BY <1>1 DEF SaveChunks
    <2>5. UNCHANGED <<acks, worker>>
      BY <1>1 DEF SaveChunks
    <2> HIDE DEF d, S, entries
    <2>6. QED
      BY <1>0, <2>2, <2>3, <2>4, <2>5, JobFits, ChannelsStay DEF CanEnqueue
  <1>2. CASE SaveEntities
    <2>1. Least(tick.dims) \in Dimensions
      <3>1. tick.dims # {} /\ tick.dims \subseteq Nat /\ tick.dims \subseteq Dimensions
        BY <1>2 DEF SaveEntities, JobTypes, PlaceTypes
      <3>2. QED
        BY <3>1, LeastIsMember
    <2> DEFINE j == EntityJob(Least(tick.dims))
    <2>2. j \in AnyJob /\ JobOK(j)
      <3>1. epoch[Least(tick.dims)] \in 0 .. MaxEpoch
        <4>1. \A d \in Dimensions : epoch[d] \in Nat /\ epoch[d] <= MaxEpoch
          BY <1>0 DEF Bounded, JobTypes, WorldTypes
        <4>2. \A d \in Dimensions : epoch[d] \in 0 .. MaxEpoch
          BY <4>1
        <4>3. QED
          BY <2>1, <4>2
      <3>2. QED
        BY <2>1, <3>1 DEF EntityJob, AnyJob, JobOK
    <2>3. UNCHANGED queue \/ (CanEnqueue /\ queue' = Append(queue, j))
      BY <1>2 DEF SaveEntities
    <2>4. UNCHANGED <<acks, worker>>
      BY <1>2 DEF SaveEntities
    <2> HIDE DEF j
    <2>5. QED
      BY <1>0, <2>2, <2>3, <2>4, JobFits, ChannelsStay DEF CanEnqueue
  <1>3. CASE SaveSidecars
    <2>1. SidecarJob \in AnyJob /\ JobOK(SidecarJob)
      BY DEF SidecarJob, AnyJob, JobOK
    <2>2. UNCHANGED queue \/ (CanEnqueue /\ queue' = Append(queue, SidecarJob))
      BY <1>3 DEF SaveSidecars
    <2>3. UNCHANGED <<acks, worker>>
      BY <1>3 DEF SaveSidecars
    <2>4. QED
      BY <1>0, <2>1, <2>2, <2>3, JobFits, ChannelsStay DEF CanEnqueue
  <1>4. CASE EnqueueBarrier
    <2>1. BarrierJob(saveAlls) \in AnyJob /\ JobOK(BarrierJob(saveAlls))
      <3>1. saveAlls \in 0 .. MaxSaveAlls /\ saveAlls \in Nat
        BY <1>0 DEF Bounded, JobTypes, WorldTypes
      <3>2. QED
        BY <3>1 DEF BarrierJob, AnyJob, JobOK
    <2>2. /\ Len(queue) < QueueCapacity /\ queue' = Append(queue, BarrierJob(saveAlls))
          /\ UNCHANGED <<acks, worker>>
      BY <1>4 DEF EnqueueBarrier
    <2>3. QED
      BY <1>0, <2>1, <2>2, JobFits
  <1>5. QED
    BY <1>1, <1>2, <1>3, <1>4

LEMMA ChannelSteps ==
  ASSUME Inv, JobTypes, TypeInv, [Next]_vars
  PROVE  ChannelsFit'
  <1> USE ChunkSaveAssumption
  <1>0. ChannelsFit /\ Len(queue) \in Nat /\ Len(acks) \in Nat
    BY LenProperties DEF TypeInv, JobTypes, ChannelTypes
  <1>1. CASE \/ DrainAck \/ WaitAck \/ DiscardAck
             \/ Worker \/ \E renamed \in BOOLEAN : WorkerFails(renamed)
    <2>1. /\ Jobs' \subseteq Jobs /\ Len(queue') <= Len(queue)
          /\ Len(acks') <= Len(acks) \/ Len(acks') <= AckCapacity
      BY <1>1, JobsOnlyMove
    <2>2. JobTypes'
      BY <1>1, TakingTypes, WorkerTypes
    <2>3. Len(queue') \in Nat /\ Len(acks') \in Nat
      BY <2>2, LenProperties DEF JobTypes, ChannelTypes
    <2>4. QED
      BY <1>0, <2>1, <2>3 DEF ChannelsFit, JobOK
  <1>2. CASE WorldSteps
    BY <1>0, <1>2, WorldStepsLeaveChannels, ChannelsStay
  <1>3. CASE Restart
    <2>1. Jobs' = {} /\ Len(queue') = 0 /\ Len(acks') = 0
      BY <1>3, EmptySeq DEF Restart, Booted, Jobs
    <2>2. QED
      BY <2>1 DEF ChannelsFit
  <1>4. CASE UNCHANGED vars
    BY <1>0, <1>4, ChannelsStay DEF vars, workerVars
  <1>5. QED
    BY <1>1, <1>2, <1>3, <1>4, SavedJobsFit, StepKinds

LEMMA TodoSteps ==
  ASSUME JobTypes, TodoOfJob, [Next]_vars
  PROVE  TodoOfJob'
  <1>1. CASE Receive
    <2>1. worker'.job = Head(queue)
      BY <1>1 DEF Receive
    <2>2. worker'.todo \subseteq {RegionOf[c] : c \in DOMAIN Head(queue).entries}
      <3>1. CASE Head(queue).kind \in {"chunks", "barrier"}
        BY <1>1, <3>1 DEF Receive
      <3>2. CASE Head(queue).kind \in {"entities", "sidecars"}
        BY <1>1, <3>2 DEF Receive
      <3>3. QED
        BY <1>1, <3>1, <3>2 DEF Receive
    <2>3. QED
      BY <2>1, <2>2 DEF TodoOfJob
  <1>2. CASE WorkerReplace \/ \E renamed \in BOOLEAN : WorkerFails(renamed)
    <2>1. worker \in Busy /\ worker # Idle
      BY <1>2 DEF WorkerReplace, WorkerFails, JobTypes, ChannelTypes
    <2>2. worker'.job = worker.job /\ worker'.todo \subseteq worker.todo
      BY <1>2, <2>1 DEF WorkerReplace, WorkerFails, Busy
    <2>3. QED
      BY <2>1, <2>2 DEF TodoOfJob
  <1>3. CASE SendAck
    BY <1>3 DEF SendAck, TodoOfJob
  <1>4. CASE Restart
    BY <1>4 DEF Restart, Booted, TodoOfJob
  <1>5. CASE UNCHANGED worker
    BY <1>5 DEF TodoOfJob
  <1>6. CASE \/ DrainAck \/ WaitAck \/ DiscardAck
             \/ SaveChunks \/ SaveEntities \/ SaveSidecars \/ EnqueueBarrier \/ WorkerTake
    BY <1>5, <1>6 DEF DrainAck, WaitAck, DiscardAck, SaveChunks, SaveEntities, SaveSidecars,
                      EnqueueBarrier, WorkerTake, workerVars
  <1>7. CASE WorldSteps
    BY <1>5, <1>7, WorldStepsLeaveChannels
  <1>8. CASE UNCHANGED vars
    BY <1>5, <1>8 DEF vars, workerVars
  <1>9. QED
    BY <1>1, <1>2, <1>3, <1>4, <1>6, <1>7, <1>8, StepKinds DEF Worker

-----------------------------------------------------------------------------
LEMMA StartTyped == Init => TypeInv
  <1> SUFFICES ASSUME Init PROVE TypeInv
    OBVIOUS
  <1> USE ChunkSaveAssumption
  <1>1. Store!TypeOK
    BY DEF Init, Store!Init, Store!TypeOK, Store!Slots, Payloads
  <1>2. RevisionsCounted /\ Bounded
    BY DEF Init, Clean, RevisionsCounted, Bounded
  <1>3. PlaceOK /\ TodoOfJob
    BY DEF Init, PlaceOK, TickStates, TodoOfJob
  <1>4. Jobs = {} /\ Len(queue) = 0 /\ Len(acks) = 0
    BY EmptySeq DEF Init, Jobs
  <1>5. QED
    BY <1>1, <1>2, <1>3, <1>4 DEF TypeInv, ChannelsFit

\* The parts make up the types.
LEMMA PartsAreTypes ==
  ASSUME Inv, JobTypes, EpochOrder, TypeInv
  PROVE  TypeOK
  <1> USE ChunkSaveAssumption
  <1>1. dirty \in [Columns -> [state : {"none", "dirty", "inflight", "persisted"},
                               rev : 0 .. MaxEdits]]
    <2>1. dirty \in [Columns -> Revisions] /\ edits \in 0 .. MaxEdits
      BY DEF JobTypes, WorldTypes, TypeInv, RevisionsCounted
    <2>2. ASSUME NEW c \in Columns
          PROVE  dirty[c] \in [state : {"none", "dirty", "inflight", "persisted"},
                               rev : 0 .. MaxEdits]
      <3>1. dirty[c] \in Revisions /\ dirty[c].rev <= edits
        BY <2>1 DEF TypeInv, RevisionsCounted
      <3>2. QED
        BY <2>1, <3>1 DEF Revisions
    <2>3. QED
      BY <2>1, <2>2
  <1>2. /\ epoch \in [Dimensions -> 0 .. MaxEpoch]
        /\ persisted \in [Dimensions -> 0 .. MaxEpoch]
        /\ entityFile \in [Dimensions -> 0 .. MaxEpoch]
    <2>1. ASSUME NEW d \in Dimensions
          PROVE  {epoch[d], persisted[d], entityFile[d]} \subseteq 0 .. MaxEpoch
      <3>1. epoch[d] \in Nat /\ persisted[d] \in Nat /\ entityFile[d] \in Nat
        BY DEF JobTypes, WorldTypes
      <3>2. persisted[d] <= entityFile[d] /\ entityFile[d] <= epoch[d] /\ epoch[d] <= MaxEpoch
        BY DEF EpochOrder, TypeInv, Bounded
      <3>3. QED
        BY <3>1, <3>2
    <2>2. QED
      BY <2>1 DEF JobTypes, WorldTypes
  <1>3. content \in [Columns -> (SUBSET Edit) \union {NotResident}] /\ failedRestore \subseteq Columns
    BY DEF Inv, WorldInv
  <1>4. QED
    BY <1>1, <1>2, <1>3 DEF TypeOK, TypeInv, PlaceOK, ChannelsFit

\* Types of the persistence of the world: what the channels carry, what a revision
\* counts, what the files and caches hold and where both threads can be, for any
\* capacities and bounds (ServerRuntime, SaveWorker, SaveManager).
THEOREM ChunkSaveTypes == Spec => []TypeOK
  <1>1. Inv /\ JobTypes /\ EpochOrder /\ TypeInv /\ [Next]_vars => TypeInv'
    BY StoreTypes, RevisionsTypes, BoundedSteps, PlaceSteps, TodoSteps, ChannelSteps
    DEF TypeInv
  <1>2. Inv /\ JobTypes /\ EpochOrder /\ TypeInv => TypeOK
    BY PartsAreTypes
  <1>3. Spec => [](Inv /\ JobTypes)
    BY JobsTyped
  <1>4. QED
    BY <1>1, <1>2, <1>3, StartTyped, EpochsStart, StepEpochs, PTL DEF Spec
=============================================================================
