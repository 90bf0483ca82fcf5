---------------------------- MODULE RegionPromise ----------------------------
(***************************************************************************)
(* RegionStore with a history variable: for each column the payloads a     *)
(* restart may read, given what its saves returned so far.                 *)
(***************************************************************************)
EXTENDS RegionStore

VARIABLE promised   \* [Columns -> SUBSET Slots]

pvars == <<disk, corrupt, cached, stamped, image, held, result, promised>>

PInit == Init /\ promised = [c \in Columns |-> {disk[c]}]

\* The batch manager m is writing.
Batch(m) == held[m].entries

Committed(m) ==
  promised' = [c \in Columns |->
    IF c \in DOMAIN Batch(m) THEN {Batch(m)[c]} ELSE promised[c]]

Uncertain(m) ==
  promised' = [c \in Columns |->
    IF c \in DOMAIN Batch(m) THEN promised[c] \union {Batch(m)[c]} ELSE promised[c]]

PTake(m) ==
  \E r \in Writes[m] : \E entries \in Batches(r) : Take(m, r, entries) /\ UNCHANGED promised
PTakeFails(m) == \E r \in Writes[m] : TakeFails(m, r) /\ UNCHANGED promised
PReplace(m) == Replace(m) /\ Committed(m)
\* Before the rename nothing has happened that a restart could see.
PFailsBefore(m) == ReplaceFails(m, FALSE) /\ UNCHANGED promised
PFailsAfter(m) == ReplaceFails(m, TRUE) /\ Uncertain(m)
PLoad(m) == (\E r \in Regions : Load(m, r)) /\ UNCHANGED promised
PRestart == Restart /\ UNCHANGED promised

PStep(m) ==
  PTake(m) \/ PTakeFails(m) \/ PReplace(m) \/ PFailsBefore(m) \/ PFailsAfter(m) \/ PLoad(m)

PNext == PRestart \/ \E m \in Managers : PStep(m)

PSpec == PInit /\ [][PNext]_pvars

-----------------------------------------------------------------------------
\* A region that one manager alone rewrites, which is how save_chunks_in is
\* meant to be used: its cache is never stale for the files it writes.
Owns(m, r) == r \in Writes[m] /\ \A n \in Managers \ {m} : r \notin Writes[n]
Owned(r) == \E m \in Managers : Owns(m, r)

\* Every column of a region with one writer reads back as its last successful
\* save or a failed one since, whatever sibling columns of the region file were
\* saved, failed to be saved, or evicted from the cache in between
\* (save_region_chunks, take_region_for_write, evict_lru_regions).
PromiseKept ==
  \A c \in Columns : Owned(RegionOf[c]) => disk[c] \in promised[c]

\* The cache of the one writer holds only what a restart may read: an undone
\* batch never stays in the image (restore_region_chunk_slots).
CacheKeepsPromise ==
  \A m \in Managers, c \in Columns :
    Owns(m, RegionOf[c]) /\ RegionOf[c] \in cached[m] => image[m][c] \in promised[c]

\* A file that does not decode is never replaced, so the columns still in it
\* can be salvaged (load_region_from_disk, corrupt_existing_region_is_never_overwritten).
CorruptFileStays ==
  [][\A c \in Columns : RegionOf[c] \in corrupt => disk'[c] = disk[c]]_pvars

\* The files implement the map of columns a caller relies on, for the columns of
\* the files with one writer, whoever writes the others (save_chunks_in, load_chunk_in).
OwnedColumns == {c \in Columns : Owned(RegionOf[c])}
Durable == INSTANCE DurableColumns WITH
  Columns <- OwnedColumns,
  value <- [c \in OwnedColumns |-> disk[c]],
  promised <- [c \in OwnedColumns |-> promised[c]]
ImplementsDurableColumns == Durable!Spec
=============================================================================
