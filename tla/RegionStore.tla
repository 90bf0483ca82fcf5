----------------------------- MODULE RegionStore -----------------------------
(***************************************************************************)
(* Region files and the SaveManager instances that rewrite them.           *)
(*                                                                         *)
(* A column's payload lives in the file of its region, and a file is only  *)
(* ever rewritten whole: a manager takes the region image (from its own    *)
(* cache when a write-generation stamp vouches for the entry, from disk    *)
(* otherwise), overlays the columns it saves and atomically replaces the   *)
(* file.  The server runs two managers over one world directory, one on    *)
(* the tick thread and one on the save thread, which share nothing but the *)
(* files; hence the parameter Managers, and a write in two steps, between  *)
(* which another manager may write.                                        *)
(***************************************************************************)
EXTENDS Naturals, FiniteSets

CONSTANTS
  Managers,    \* SaveManager instances over one world directory
  Regions,     \* region files
  Columns,     \* chunk columns
  RegionOf,    \* [Columns -> Regions]
  Writes,      \* [Managers -> SUBSET Regions]: the files a manager rewrites
  Payloads,    \* serialized columns
  NoData,      \* a column the file has no entry for
  NoWrite,     \* the manager is between two writes
  CacheLimit   \* most regions a manager keeps cached

ASSUME RegionAssumption ==
  /\ RegionOf \in [Columns -> Regions]
  /\ Writes \in [Managers -> SUBSET Regions]
  /\ NoData \notin Payloads

VARIABLES
  disk,      \* [Columns -> Slots]: what the region files hold
  corrupt,   \* regions whose file does not decode
  cached,    \* [Managers -> SUBSET Regions]: keys of region_cache
  stamped,   \* [Managers -> SUBSET Regions]: keys of region_write_generation
  image,     \* [Managers -> [Columns -> Slots]]: values of region_cache
  held,      \* [Managers -> the region taken for writing, or NoWrite]
  result     \* [Managers -> what the last save call returned]

vars == <<disk, corrupt, cached, stamped, image, held, result>>

Slots == Payloads \union {NoData}
ColumnsIn(r) == {c \in Columns : RegionOf[c] = r}
FileExists(r) == r \in corrupt \/ \E c \in ColumnsIn(r) : disk[c] # NoData

\* The batches save_chunks_in hands to save_region_chunks for region r.
Batches(r) == UNION {[S -> Payloads] : S \in (SUBSET ColumnsIn(r)) \ {{}}}

TypeOK ==
  /\ disk \in [Columns -> Slots]
  /\ corrupt \subseteq Regions
  /\ cached \in [Managers -> SUBSET Regions]
  /\ stamped \in [Managers -> SUBSET Regions]
  /\ image \in [Managers -> [Columns -> Slots]]
  /\ held = [m \in Managers |-> held[m]]
  /\ \A m \in Managers :
       held[m] # NoWrite =>
         /\ held[m].region \in Regions
         /\ held[m].base \in [ColumnsIn(held[m].region) -> Slots]
         /\ held[m].entries \in Batches(held[m].region)
  /\ result \in [Managers -> {"none", "ok", "err"}]

Init ==
  /\ disk \in [Columns -> Slots]
  /\ corrupt \in SUBSET Regions
  /\ cached = [m \in Managers |-> {}]
  /\ stamped = [m \in Managers |-> {}]
  /\ image = [m \in Managers |-> [c \in Columns |-> NoData]]
  /\ held = [m \in Managers |-> NoWrite]
  /\ result = [m \in Managers |-> "none"]

-----------------------------------------------------------------------------
\* Mutant: the cache entry goes back without the batch.
ForgottenOverlay(m, r, f) == image[m]

\* Replace the cache entry of region r by the image in f.
Overlaid(m, r, f) ==
  [c \in Columns |-> IF RegionOf[c] = r THEN f[c] ELSE image[m][c]]

\* evict_lru_regions: at most CacheLimit entries stay.  The 64 MiB limit
\* counts bytes the model has not, so any smaller set may stay as well.
Keep(regions) == {kept \in SUBSET regions : Cardinality(kept) <= CacheLimit}

\* Mutant: an evicted region takes its columns out of the image's domain.
ShrunkCacheIs(m, kept, images, stamps) ==
  /\ cached' = [cached EXCEPT ![m] = kept]
  /\ stamped' = [stamped EXCEPT ![m] = stamps]
  /\ image' = [image EXCEPT
       ![m] = [c \in {d \in Columns : RegionOf[d] \in kept} |-> images[c]]]

\* The cache of m after evict_lru_regions kept only the regions in kept.
CacheIs(m, kept, images, stamps) ==
  /\ cached' = [cached EXCEPT ![m] = kept]
  /\ stamped' = [stamped EXCEPT ![m] = stamps]
  /\ image' = [image EXCEPT
       ![m] = [c \in Columns |->
                 IF RegionOf[c] \in kept THEN images[c] ELSE NoData]]

\* Mutant: a file that does not decode counts as an empty one.
AssumedDecodes(r) == TRUE

\* load_region_from_disk finds a region it can read, or no file.
Decodes(r) == r \notin corrupt

\* take_region_for_write: a stamped cache entry is moved out of the cache and
\* trusted without looking at the file; otherwise the file is read.
Hit(m, r) == r \in cached[m] /\ r \in stamped[m]

Take(m, r, entries) ==
  /\ held[m] = NoWrite
  /\ Hit(m, r) \/ Decodes(r)
  /\ held' = [held EXCEPT ![m] =
       [region  |-> r,
        base    |-> [c \in ColumnsIn(r) |->
                       IF Hit(m, r) THEN image[m][c] ELSE disk[c]],
        entries |-> entries]]
  /\ IF Hit(m, r)
       THEN CacheIs(m, cached[m] \ {r}, image[m], stamped[m])
       ELSE CacheIs(m, cached[m], image[m], stamped[m] \ {r})
  /\ UNCHANGED <<disk, corrupt, result>>

\* A cold load of a file that does not decode fails the save; the file stays.
TakeFails(m, r) ==
  /\ held[m] = NoWrite
  /\ ~Hit(m, r) /\ r \in corrupt
  /\ CacheIs(m, cached[m], image[m], stamped[m] \ {r})
  /\ result' = [result EXCEPT ![m] = "err"]
  /\ UNCHANGED <<disk, corrupt, held>>

\* Mutant: the file is rewritten from the batch alone.
BatchAlone(m) ==
  [c \in ColumnsIn(held[m].region) |->
     IF c \in DOMAIN held[m].entries THEN held[m].entries[c] ELSE NoData]

\* The image with the batch inserted.
NewImage(m) ==
  [c \in ColumnsIn(held[m].region) |->
     IF c \in DOMAIN held[m].entries THEN held[m].entries[c] ELSE held[m].base[c]]

\* The file holds the image f of the region being written.
DiskHolds(m, f) ==
  disk' = [c \in Columns |-> IF RegionOf[c] = held[m].region THEN f[c] ELSE disk[c]]

Replace(m) ==
  /\ held[m] # NoWrite
  /\ DiskHolds(m, NewImage(m))
  /\ \E kept \in Keep(cached[m] \union {held[m].region}) :
       CacheIs(m, kept, Overlaid(m, held[m].region, NewImage(m)),
               (stamped[m] \union {held[m].region})
                 \ ((cached[m] \union {held[m].region}) \ kept))
  /\ held' = [held EXCEPT ![m] = NoWrite]
  /\ result' = [result EXCEPT ![m] = "ok"]
  /\ UNCHANGED corrupt

\* atomic_write reports an error: the edits are undone in the image, which goes
\* back into the cache.  The error may come before the rename, or after it, from
\* the sync of the directory, with the new file already in place.
ReplaceFails(m, renamed) ==
  /\ held[m] # NoWrite
  /\ IF renamed THEN DiskHolds(m, NewImage(m)) ELSE UNCHANGED disk
  /\ CacheIs(m, cached[m] \union {held[m].region},
             Overlaid(m, held[m].region, held[m].base), stamped[m])
  /\ held' = [held EXCEPT ![m] = NoWrite]
  /\ result' = [result EXCEPT ![m] = "err"]
  /\ UNCHANGED corrupt

\* load_chunk_in: fills the cache, and stamps it, when the file decodes.
Load(m, r) ==
  /\ held[m] = NoWrite
  /\ IF r \notin cached[m] /\ FileExists(r) /\ r \notin corrupt
       THEN \E kept \in Keep(cached[m] \union {r}) :
              CacheIs(m, kept, Overlaid(m, r, disk),
                      (stamped[m] \union {r}) \ ((cached[m] \union {r}) \ kept))
       ELSE \E kept \in Keep(cached[m]) :
              CacheIs(m, kept, image[m], stamped[m] \ (cached[m] \ kept))
  /\ UNCHANGED <<disk, corrupt, held, result>>

\* The process dies, or ends, between any two steps and starts again: files
\* stay, managers are built anew.
Restart ==
  /\ cached' = [m \in Managers |-> {}]
  /\ stamped' = [m \in Managers |-> {}]
  /\ image' = [m \in Managers |-> [c \in Columns |-> NoData]]
  /\ held' = [m \in Managers |-> NoWrite]
  /\ result' = [m \in Managers |-> "none"]
  /\ UNCHANGED <<disk, corrupt>>

Step(m) ==
  \/ \E r \in Writes[m] : \E entries \in Batches(r) : Take(m, r, entries)
  \/ \E r \in Writes[m] : TakeFails(m, r)
  \/ Replace(m)
  \/ \E renamed \in BOOLEAN : ReplaceFails(m, renamed)
  \/ \E r \in Regions : Load(m, r)

Next == Restart \/ \E m \in Managers : Step(m)

Spec == Init /\ [][Next]_vars
=============================================================================
