------------------------- MODULE RegionPromiseProofs -------------------------
(***************************************************************************)
(* What holds of the region files for every set of managers, regions and   *)
(* columns: types, the promise a successful save makes, and that files     *)
(* with one writer each implement the abstract map of columns.             *)
(***************************************************************************)
EXTENDS RegionPromise, TLAPS

\* The image a manager took for writing may be written back: for the region's
\* one writer it holds nothing a restart may not read, and a manager only ever
\* holds regions it writes.
HeldKeepsPromise ==
  \A m \in Managers : held[m] # NoWrite =>
    /\ held[m].region \in Writes[m]
    /\ Owns(m, held[m].region) =>
         \A c \in ColumnsIn(held[m].region) : held[m].base[c] \in promised[c]

PTypeOK == TypeOK /\ promised \in [Columns -> SUBSET Slots]

\* Inductive: the disk keeps the promise because the image that replaces it
\* does, and that image comes from the writer's own cache or from the disk.
PInv == PTypeOK /\ PromiseKept /\ CacheKeepsPromise /\ HeldKeepsPromise

-----------------------------------------------------------------------------
\* A batch names columns of its region and gives each a payload.
LEMMA BatchType ==
  ASSUME NEW r \in Regions, NEW entries \in Batches(r)
  PROVE  /\ DOMAIN entries \subseteq ColumnsIn(r)
         /\ \A c \in DOMAIN entries : entries[c] \in Payloads
  BY DEF Batches, ColumnsIn

\* The image with the batch inserted is an image of the region.
LEMMA NewImageType ==
  ASSUME TypeOK, NEW m \in Managers, held[m] # NoWrite
  PROVE  /\ NewImage(m) \in [ColumnsIn(held[m].region) -> Slots]
         /\ \A c \in ColumnsIn(held[m].region) :
              NewImage(m)[c] = IF c \in DOMAIN held[m].entries
                                 THEN held[m].entries[c] ELSE held[m].base[c]
  <1>1. /\ held[m].region \in Regions
        /\ held[m].base \in [ColumnsIn(held[m].region) -> Slots]
        /\ held[m].entries \in Batches(held[m].region)
    BY DEF TypeOK
  <1>2. \A c \in DOMAIN held[m].entries : held[m].entries[c] \in Payloads
    BY <1>1, BatchType
  <1>3. QED
    BY <1>1, <1>2 DEF NewImage, Slots

\* Any change of one manager's cache to images of the right type keeps types.
LEMMA CacheType ==
  ASSUME TypeOK, NEW m \in Managers, NEW kept \in SUBSET Regions,
         NEW images, \A c \in Columns : RegionOf[c] \in kept => images[c] \in Slots,
         NEW stamps \in SUBSET Regions,
         CacheIs(m, kept, images, stamps)
  PROVE  /\ cached' \in [Managers -> SUBSET Regions]
         /\ stamped' \in [Managers -> SUBSET Regions]
         /\ image' \in [Managers -> [Columns -> Slots]]
  BY DEF TypeOK, CacheIs, Slots

\* Types: every step of every manager keeps each variable in its domain.
\* Writing one region's image keeps the disk's type.
LEMMA DiskType ==
  ASSUME TypeOK, NEW m \in Managers, held[m] # NoWrite, DiskHolds(m, NewImage(m))
  PROVE  disk' \in [Columns -> Slots]
  <1>1. \A c \in ColumnsIn(held[m].region) : NewImage(m)[c] \in Slots
    BY NewImageType
  <1>2. \A c \in Columns : RegionOf[c] = held[m].region => NewImage(m)[c] \in Slots
    BY <1>1 DEF ColumnsIn
  <1>3. disk \in [Columns -> Slots]
    BY DEF TypeOK
  <1>4. QED
    BY <1>2, <1>3 DEF DiskHolds

LEMMA TypeInductive == TypeOK /\ [Next]_vars => TypeOK'
  <1> SUFFICES ASSUME TypeOK, [Next]_vars PROVE TypeOK'
    OBVIOUS
  <1> USE RegionAssumption
  <1>1. ASSUME NEW m \in Managers, NEW r \in Writes[m], NEW entries \in Batches(r),
               Take(m, r, entries)
        PROVE  TypeOK'
    <2>0. /\ cached[m] \in SUBSET Regions /\ stamped[m] \in SUBSET Regions
          /\ \A c \in Columns : image[m][c] \in Slots
      BY DEF TypeOK
    <2>1. r \in Regions
      OBVIOUS
    <2>2. /\ cached' \in [Managers -> SUBSET Regions]
          /\ stamped' \in [Managers -> SUBSET Regions]
          /\ image' \in [Managers -> [Columns -> Slots]]
      <3>1. CASE Hit(m, r)
        <4>1. CacheIs(m, cached[m] \ {r}, image[m], stamped[m])
          BY <1>1, <3>1 DEF Take
        <4>2. cached[m] \ {r} \in SUBSET Regions /\ stamped[m] \in SUBSET Regions
          BY DEF TypeOK
        <4>3. QED
          BY <2>0, <4>1, <4>2, CacheType
      <3>2. CASE ~Hit(m, r)
        <4>1. CacheIs(m, cached[m], image[m], stamped[m] \ {r})
          BY <1>1, <3>2 DEF Take
        <4>2. stamped[m] \ {r} \in SUBSET Regions
          BY DEF TypeOK
        <4>3. QED
          BY <2>0, <4>1, <4>2, CacheType
      <3>3. QED
        BY <3>1, <3>2
    <2>3. [c \in ColumnsIn(r) |-> IF Hit(m, r) THEN image[m][c] ELSE disk[c]]
            \in [ColumnsIn(r) -> Slots]
      BY DEF TypeOK, ColumnsIn
    <2>4. QED
      BY <1>1, <2>1, <2>2, <2>3 DEF Take, TypeOK
  <1>2. ASSUME NEW m \in Managers, NEW r \in Writes[m], TakeFails(m, r)
        PROVE  TypeOK'
    <2>1. /\ cached' \in [Managers -> SUBSET Regions]
          /\ stamped' \in [Managers -> SUBSET Regions]
          /\ image' \in [Managers -> [Columns -> Slots]]
      <3>1. /\ cached[m] \in SUBSET Regions /\ stamped[m] \ {r} \in SUBSET Regions
            /\ \A c \in Columns : image[m][c] \in Slots
        BY DEF TypeOK
      <3>2. CacheIs(m, cached[m], image[m], stamped[m] \ {r})
        BY <1>2 DEF TakeFails
      <3>3. QED
        BY <3>1, <3>2, CacheType
    <2>2. QED
      BY <1>2, <2>1 DEF TakeFails, TypeOK
  <1>3. ASSUME NEW m \in Managers, Replace(m)
        PROVE  TypeOK'
    <2>1. held[m] # NoWrite /\ held[m].region \in Regions
      BY <1>3 DEF Replace, TypeOK
    <2>2. PICK kept \in Keep(cached[m] \union {held[m].region}) :
            CacheIs(m, kept, Overlaid(m, held[m].region, NewImage(m)),
                    (stamped[m] \union {held[m].region})
                      \ ((cached[m] \union {held[m].region}) \ kept))
      BY <1>3 DEF Replace
    <2>3. \A c \in Columns : Overlaid(m, held[m].region, NewImage(m))[c] \in Slots
      BY <2>1, NewImageType DEF Overlaid, TypeOK, ColumnsIn
    <2>4. /\ cached' \in [Managers -> SUBSET Regions]
          /\ stamped' \in [Managers -> SUBSET Regions]
          /\ image' \in [Managers -> [Columns -> Slots]]
      <3>1. kept \in SUBSET Regions
        BY <2>1, <2>2 DEF Keep, TypeOK
      <3>2. (stamped[m] \union {held[m].region})
              \ ((cached[m] \union {held[m].region}) \ kept) \in SUBSET Regions
        BY <2>1 DEF TypeOK
      <3>3. QED
        BY <2>2, <2>3, <3>1, <3>2, CacheType
    <2>5. disk' \in [Columns -> Slots]
      <3>1. DiskHolds(m, NewImage(m))
        BY <1>3 DEF Replace
      <3>2. QED
        BY <2>1, <3>1, DiskType
    <2>6. QED
      BY <1>3, <2>4, <2>5 DEF Replace, TypeOK
  <1>4. ASSUME NEW m \in Managers, NEW renamed \in BOOLEAN, ReplaceFails(m, renamed)
        PROVE  TypeOK'
    <2>1. /\ held[m] # NoWrite /\ held[m].region \in Regions
          /\ held[m].base \in [ColumnsIn(held[m].region) -> Slots]
      BY <1>4 DEF ReplaceFails, TypeOK
    <2>2. \A c \in Columns : Overlaid(m, held[m].region, held[m].base)[c] \in Slots
      BY <2>1 DEF Overlaid, TypeOK, ColumnsIn
    <2>3. /\ cached' \in [Managers -> SUBSET Regions]
          /\ stamped' \in [Managers -> SUBSET Regions]
          /\ image' \in [Managers -> [Columns -> Slots]]
      <3>1. /\ cached[m] \union {held[m].region} \in SUBSET Regions
            /\ stamped[m] \in SUBSET Regions
        BY <2>1 DEF TypeOK
      <3>2. CacheIs(m, cached[m] \union {held[m].region},
                    Overlaid(m, held[m].region, held[m].base), stamped[m])
        BY <1>4 DEF ReplaceFails
      <3>3. QED
        BY <2>2, <3>1, <3>2, CacheType
    <2>4. disk' \in [Columns -> Slots]
      <3>1. CASE renamed
        <4>1. DiskHolds(m, NewImage(m))
          BY <1>4, <3>1 DEF ReplaceFails
        <4>2. QED
          BY <2>1, <4>1, DiskType
      <3>2. CASE ~renamed
        BY <1>4, <3>2 DEF ReplaceFails, TypeOK
      <3>3. QED
        BY <3>1, <3>2
    <2>5. QED
      BY <1>4, <2>3, <2>4 DEF ReplaceFails, TypeOK
  <1>5. ASSUME NEW m \in Managers, NEW r \in Regions, Load(m, r)
        PROVE  TypeOK'
    <2>1. PICK kept \in SUBSET Regions, stamps \in SUBSET Regions, f \in [Columns -> Slots] :
            CacheIs(m, kept, f, stamps)
      BY <1>5 DEF Load, Keep, Overlaid, TypeOK
    <2>2. /\ cached' \in [Managers -> SUBSET Regions]
          /\ stamped' \in [Managers -> SUBSET Regions]
          /\ image' \in [Managers -> [Columns -> Slots]]
      BY <2>1, CacheType
    <2>3. QED
      BY <1>5, <2>2 DEF Load, TypeOK
  <1>6. CASE Restart
    BY <1>6 DEF Restart, TypeOK, Slots
  <1>7. CASE UNCHANGED vars
    BY <1>7 DEF vars, TypeOK
  <1>8. QED
    BY <1>1, <1>2, <1>3, <1>4, <1>5, <1>6, <1>7 DEF Next, Step

\* Every behaviour of the region store is well typed.
THEOREM RegionStoreTypes == Spec => []TypeOK
  <1>1. Init => TypeOK
    BY DEF Init, TypeOK, Slots
  <1>2. QED
    BY <1>1, TypeInductive, PTL DEF Spec

-----------------------------------------------------------------------------
\* The history variable adds no step to the store.
LEMMA PromiseSteps == [PNext]_pvars => [Next]_vars
  BY DEF PNext, PStep, PTake, PTakeFails, PReplace, PFailsBefore, PFailsAfter, PLoad,
         PRestart, Next, Step, pvars, vars

\* A manager's cache keeps the promise when the images put into it do, and the
\* promises of the other managers' columns have only grown.
LEMMA CachePromise ==
  ASSUME TypeOK, CacheKeepsPromise, NEW m \in Managers, NEW kept \in SUBSET Regions,
         NEW images, NEW stamps, CacheIs(m, kept, images, stamps),
         \A c \in Columns : Owns(m, RegionOf[c]) /\ RegionOf[c] \in kept
                             => images[c] \in promised'[c],
         \A n \in Managers \ {m}, c \in Columns :
           Owns(n, RegionOf[c]) => promised[c] \subseteq promised'[c]
  PROVE  CacheKeepsPromise'
  <1> SUFFICES ASSUME NEW n \in Managers, NEW c \in Columns,
                      Owns(n, RegionOf[c]), RegionOf[c] \in cached'[n]
               PROVE  image'[n][c] \in promised'[c]
    BY DEF CacheKeepsPromise, Owns
  <1>1. CASE n = m
    BY <1>1 DEF CacheIs, TypeOK
  <1>2. CASE n # m
    <2>1. cached'[n] = cached[n] /\ image'[n] = image[n]
      BY <1>2 DEF CacheIs, TypeOK
    <2>2. image[n][c] \in promised[c]
      BY <2>1 DEF CacheKeepsPromise
    <2>3. QED
      BY <1>2, <2>1, <2>2
  <1>3. QED
    BY <1>1, <1>2

\* Taking a region, or failing to, changes neither file nor promise, and what is
\* taken came from the cache or the disk.
LEMMA TakePromise ==
  ASSUME PInv, NEW m \in Managers, NEW r \in Writes[m], NEW entries \in Batches(r),
         Take(m, r, entries), UNCHANGED promised
  PROVE  PromiseKept' /\ CacheKeepsPromise' /\ HeldKeepsPromise'
  <1> USE RegionAssumption DEF PInv, PTypeOK
  <1>1. PromiseKept'
    BY DEF Take, PromiseKept, Owned, Owns
  <1>2. CacheKeepsPromise'
    <2>1. PICK kept \in SUBSET Regions, stamps \in SUBSET Regions :
            /\ CacheIs(m, kept, image[m], stamps)
            /\ kept \subseteq cached[m]
      <3>1. CASE Hit(m, r)
        <4>1. CacheIs(m, cached[m] \ {r}, image[m], stamped[m])
          BY <3>1 DEF Take
        <4>2. cached[m] \ {r} \in SUBSET Regions /\ stamped[m] \in SUBSET Regions
          BY DEF TypeOK
        <4>3. QED
          BY <4>1, <4>2
      <3>2. CASE ~Hit(m, r)
        <4>1. CacheIs(m, cached[m], image[m], stamped[m] \ {r})
          BY <3>2 DEF Take
        <4>2. cached[m] \in SUBSET Regions /\ stamped[m] \ {r} \in SUBSET Regions
          BY DEF TypeOK
        <4>3. QED
          BY <4>1, <4>2
      <3>3. QED
        BY <3>1, <3>2
    <2>2. \A c \in Columns : Owns(m, RegionOf[c]) /\ RegionOf[c] \in kept
                              => image[m][c] \in promised'[c]
      BY <2>1 DEF CacheKeepsPromise
    <2>3. \A n \in Managers \ {m}, c \in Columns :
            Owns(n, RegionOf[c]) => promised[c] \subseteq promised'[c]
      OBVIOUS
    <2>4. QED
      BY <2>1, <2>2, <2>3, CachePromise
  <1>3. HeldKeepsPromise'
    <2> SUFFICES ASSUME NEW n \in Managers, held'[n] # NoWrite
                 PROVE  /\ held'[n].region \in Writes[n]
                        /\ Owns(n, held'[n].region) =>
                             \A c \in ColumnsIn(held'[n].region) :
                               held'[n].base[c] \in promised'[c]
      BY DEF HeldKeepsPromise, Owns, ColumnsIn
    <2>1. CASE n = m
      <3>1. held'[n] = [region |-> r,
                        base |-> [c \in ColumnsIn(r) |->
                                    IF Hit(m, r) THEN image[m][c] ELSE disk[c]],
                        entries |-> entries]
        BY <2>1 DEF Take, TypeOK
      <3>2. ASSUME NEW c \in ColumnsIn(r), Owns(n, r)
            PROVE  (IF Hit(m, r) THEN image[m][c] ELSE disk[c]) \in promised[c]
        BY <2>1, <3>2 DEF ColumnsIn, Hit, CacheKeepsPromise, PromiseKept, Owned
      <3>3. held'[n].region = r
        BY <3>1
      <3>4. \A c \in ColumnsIn(r) :
              held'[n].base[c] = IF Hit(m, r) THEN image[m][c] ELSE disk[c]
        BY <3>1
      <3>5. QED
        BY <2>1, <3>2, <3>3, <3>4
    <2>2. CASE n # m
      <3>1. held'[n] = held[n]
        BY <2>2 DEF Take, TypeOK
      <3>2. QED
        BY <3>1 DEF HeldKeepsPromise
    <2>3. QED
      BY <2>1, <2>2
  <1>4. QED
    BY <1>1, <1>2, <1>3

\* A successful save: the columns of the batch read as what was saved, their
\* siblings as the image had them, which the promise allows.
LEMMA ReplacePromise ==
  ASSUME PInv, NEW m \in Managers, PReplace(m)
  PROVE  PromiseKept' /\ CacheKeepsPromise' /\ HeldKeepsPromise'
  <1> USE RegionAssumption DEF PInv, PTypeOK
  <1> DEFINE r == held[m].region
  <1>1. /\ held[m] # NoWrite /\ r \in Regions /\ r \in Writes[m]
        /\ held[m].entries \in Batches(r)
    BY DEF PReplace, Replace, TypeOK, HeldKeepsPromise
  <1>2. DOMAIN held[m].entries \subseteq ColumnsIn(r)
    BY <1>1, BatchType
  <1>3. ASSUME NEW c \in Columns, RegionOf[c] # r
        PROVE  promised'[c] = promised[c] /\ disk'[c] = disk[c]
    BY <1>2, <1>3 DEF PReplace, Replace, Committed, Batch, DiskHolds, ColumnsIn
  <1>4. ASSUME NEW c \in Columns, RegionOf[c] = r
        PROVE  disk'[c] = NewImage(m)[c]
    BY <1>4 DEF PReplace, Replace, DiskHolds
  <1>5. ASSUME NEW c \in ColumnsIn(r), Owns(m, r)
        PROVE  NewImage(m)[c] \in promised'[c]
    <2>1. NewImage(m)[c] = IF c \in DOMAIN held[m].entries
                             THEN held[m].entries[c] ELSE held[m].base[c]
      BY <1>1, NewImageType
    <2>2. held[m].base[c] \in promised[c]
      BY <1>1, <1>5 DEF HeldKeepsPromise
    <2>3. QED
      BY <2>1, <2>2 DEF PReplace, Committed, Batch, ColumnsIn
  <1>6. \A n \in Managers : Owns(n, r) => n = m
    BY <1>1 DEF Owns
  <1>7. PromiseKept'
    <2> SUFFICES ASSUME NEW c \in Columns, Owned(RegionOf[c])
                 PROVE  disk'[c] \in promised'[c]
      BY DEF PromiseKept, Owned, Owns
    <2>1. CASE RegionOf[c] = r
      BY <2>1, <1>4, <1>5, <1>6 DEF Owned, ColumnsIn
    <2>2. CASE RegionOf[c] # r
      BY <2>2, <1>3 DEF PromiseKept
    <2>3. QED
      BY <2>1, <2>2
  <1>8. CacheKeepsPromise'
    <2>1. PICK kept \in SUBSET Regions, stamps \in SUBSET Regions :
            /\ CacheIs(m, kept, Overlaid(m, r, NewImage(m)), stamps)
            /\ kept \subseteq cached[m] \union {r}
      BY <1>1 DEF PReplace, Replace, Keep, TypeOK
    <2>2. ASSUME NEW c \in Columns, Owns(m, RegionOf[c]), RegionOf[c] \in kept
          PROVE  Overlaid(m, r, NewImage(m))[c] \in promised'[c]
      <3>1. CASE RegionOf[c] = r
        BY <2>2, <3>1, <1>5 DEF Overlaid, ColumnsIn
      <3>2. CASE RegionOf[c] # r
        <4>1. image[m][c] \in promised[c]
          BY <2>1, <2>2, <3>2 DEF CacheKeepsPromise
        <4>2. QED
          BY <4>1, <3>2, <1>3 DEF Overlaid
      <3>3. QED
        BY <3>1, <3>2
    <2>3. \A n \in Managers \ {m}, c \in Columns :
            Owns(n, RegionOf[c]) => promised[c] \subseteq promised'[c]
      BY <1>3, <1>6
    <2>4. QED
      BY <2>1, <2>2, <2>3, CachePromise
  <1>9. HeldKeepsPromise'
    <2> SUFFICES ASSUME NEW n \in Managers, held'[n] # NoWrite
                 PROVE  /\ held'[n].region \in Writes[n]
                        /\ Owns(n, held'[n].region) =>
                             \A c \in ColumnsIn(held'[n].region) :
                               held'[n].base[c] \in promised'[c]
      BY DEF HeldKeepsPromise, Owns, ColumnsIn
    <2>1. n # m /\ held'[n] = held[n]
      BY DEF PReplace, Replace, TypeOK
    <2>2. held[n].region \in Writes[n]
      BY <2>1 DEF HeldKeepsPromise
    <2>3. ASSUME NEW c \in ColumnsIn(held[n].region), Owns(n, held[n].region)
          PROVE  held[n].base[c] \in promised'[c]
      <3>1. held[n].region # r
        BY <2>1, <2>3, <1>6
      <3>2. held[n].base[c] \in promised[c]
        BY <2>1, <2>3 DEF HeldKeepsPromise
      <3>3. QED
        BY <3>1, <3>2, <1>3 DEF ColumnsIn
    <2>4. QED
      BY <2>1, <2>2, <2>3
  <1>10. QED
    BY <1>7, <1>8, <1>9

\* A failed save: the image goes back as it was taken, and a batch that reached
\* the disk is something a restart may read from now on.
LEMMA FailPromise ==
  ASSUME PInv, NEW m \in Managers, PFailsBefore(m) \/ PFailsAfter(m)
  PROVE  PromiseKept' /\ CacheKeepsPromise' /\ HeldKeepsPromise'
  <1> USE RegionAssumption DEF PInv, PTypeOK
  <1> DEFINE r == held[m].region
  <1>1. /\ held[m] # NoWrite /\ r \in Regions /\ r \in Writes[m]
        /\ held[m].entries \in Batches(r)
    BY DEF PFailsBefore, PFailsAfter, ReplaceFails, TypeOK, HeldKeepsPromise
  <1>2. DOMAIN held[m].entries \subseteq ColumnsIn(r)
    BY <1>1, BatchType
  <1>3. ASSUME NEW c \in Columns
        PROVE  /\ promised[c] \subseteq promised'[c]
               /\ RegionOf[c] # r => disk'[c] = disk[c]
    BY <1>2 DEF PFailsBefore, PFailsAfter, ReplaceFails, Uncertain, Batch, DiskHolds, ColumnsIn
  <1>4. \A n \in Managers : Owns(n, r) => n = m
    BY <1>1 DEF Owns
  <1>5. ASSUME NEW c \in ColumnsIn(r), Owns(m, r)
        PROVE  held[m].base[c] \in promised'[c] /\ disk'[c] \in promised'[c]
    <2>1. held[m].base[c] \in promised[c] /\ disk[c] \in promised[c]
      BY <1>1, <1>5 DEF HeldKeepsPromise, PromiseKept, Owned, ColumnsIn
    <2>2. CASE PFailsBefore(m)
      BY <2>1, <2>2 DEF PFailsBefore, ReplaceFails
    <2>3. CASE PFailsAfter(m)
      <3>1. disk'[c] = NewImage(m)[c]
        BY <2>3 DEF PFailsAfter, ReplaceFails, DiskHolds, ColumnsIn
      <3>2. NewImage(m)[c] = IF c \in DOMAIN held[m].entries
                               THEN held[m].entries[c] ELSE held[m].base[c]
        BY <1>1, NewImageType
      <3>3. QED
        BY <2>1, <2>3, <3>1, <3>2 DEF PFailsAfter, Uncertain, Batch, ColumnsIn
    <2>4. QED
      BY <2>2, <2>3
  <1>6. PromiseKept'
    <2> SUFFICES ASSUME NEW c \in Columns, Owned(RegionOf[c])
                 PROVE  disk'[c] \in promised'[c]
      BY DEF PromiseKept, Owned, Owns
    <2>1. CASE RegionOf[c] = r
      BY <2>1, <1>4, <1>5 DEF Owned, ColumnsIn
    <2>2. CASE RegionOf[c] # r
      BY <2>2, <1>3 DEF PromiseKept
    <2>3. QED
      BY <2>1, <2>2
  <1>7. CacheKeepsPromise'
    <2>1. CacheIs(m, cached[m] \union {r}, Overlaid(m, r, held[m].base), stamped[m])
      BY DEF PFailsBefore, PFailsAfter, ReplaceFails
    <2>2. cached[m] \union {r} \in SUBSET Regions
      BY <1>1 DEF TypeOK
    <2>3. ASSUME NEW c \in Columns, Owns(m, RegionOf[c]), RegionOf[c] \in cached[m] \union {r}
          PROVE  Overlaid(m, r, held[m].base)[c] \in promised'[c]
      <3>1. CASE RegionOf[c] = r
        BY <2>3, <3>1, <1>5 DEF Overlaid, ColumnsIn
      <3>2. CASE RegionOf[c] # r
        BY <2>3, <3>2, <1>3 DEF Overlaid, CacheKeepsPromise
      <3>3. QED
        BY <3>1, <3>2
    <2>4. QED
      BY <1>3, <2>1, <2>2, <2>3, CachePromise
  <1>8. HeldKeepsPromise'
    <2> SUFFICES ASSUME NEW n \in Managers, held'[n] # NoWrite
                 PROVE  /\ held'[n].region \in Writes[n]
                        /\ Owns(n, held'[n].region) =>
                             \A c \in ColumnsIn(held'[n].region) :
                               held'[n].base[c] \in promised'[c]
      BY DEF HeldKeepsPromise, Owns, ColumnsIn
    <2>1. held'[n] = held[n]
      BY DEF PFailsBefore, PFailsAfter, ReplaceFails, TypeOK
    <2>2. QED
      BY <1>3, <2>1 DEF HeldKeepsPromise, ColumnsIn
  <1>9. QED
    BY <1>6, <1>7, <1>8

\* Loading fills the cache from the disk, which keeps the promise.
LEMMA LoadPromise ==
  ASSUME PInv, NEW m \in Managers, NEW r \in Regions, Load(m, r), UNCHANGED promised
  PROVE  PromiseKept' /\ CacheKeepsPromise' /\ HeldKeepsPromise'
  <1> USE RegionAssumption DEF PInv, PTypeOK
  <1>1. PromiseKept' /\ HeldKeepsPromise'
    BY DEF Load, PromiseKept, HeldKeepsPromise, Owned, Owns, ColumnsIn
  <1>2. CacheKeepsPromise'
    <2>1. PICK kept \in SUBSET Regions, stamps \in SUBSET Regions, f \in [Columns -> Slots] :
            /\ CacheIs(m, kept, f, stamps)
            /\ \A c \in Columns : RegionOf[c] \in kept =>
                 f[c] = disk[c] \/ (RegionOf[c] \in cached[m] /\ f[c] = image[m][c])
      <3>1. CASE r \notin cached[m] /\ FileExists(r) /\ r \notin corrupt
        <4>1. PICK kept \in Keep(cached[m] \union {r}) :
                CacheIs(m, kept, Overlaid(m, r, disk),
                        (stamped[m] \union {r}) \ ((cached[m] \union {r}) \ kept))
          BY <3>1 DEF Load
        <4>2. /\ kept \in SUBSET Regions /\ kept \subseteq cached[m] \union {r}
              /\ (stamped[m] \union {r}) \ ((cached[m] \union {r}) \ kept) \in SUBSET Regions
          BY DEF Keep, TypeOK
        <4>3. /\ Overlaid(m, r, disk) \in [Columns -> Slots]
              /\ \A c \in Columns : RegionOf[c] \in kept =>
                   \/ Overlaid(m, r, disk)[c] = disk[c]
                   \/ RegionOf[c] \in cached[m] /\ Overlaid(m, r, disk)[c] = image[m][c]
          BY <4>2 DEF Overlaid, TypeOK
        <4>4. QED
          BY <4>1, <4>2, <4>3
      <3>2. CASE ~(r \notin cached[m] /\ FileExists(r) /\ r \notin corrupt)
        <4>1. PICK kept \in Keep(cached[m]) :
                CacheIs(m, kept, image[m], stamped[m] \ (cached[m] \ kept))
          BY <3>2 DEF Load
        <4>2. /\ kept \in SUBSET Regions /\ kept \subseteq cached[m]
              /\ stamped[m] \ (cached[m] \ kept) \in SUBSET Regions
              /\ image[m] \in [Columns -> Slots]
          BY DEF Keep, TypeOK
        <4>3. QED
          BY <4>1, <4>2
      <3>3. QED
        BY <3>1, <3>2
    <2>2. \A c \in Columns : Owns(m, RegionOf[c]) /\ RegionOf[c] \in kept
                              => f[c] \in promised'[c]
      BY <2>1 DEF CacheKeepsPromise, PromiseKept, Owned
    <2>3. \A n \in Managers \ {m}, c \in Columns :
            Owns(n, RegionOf[c]) => promised[c] \subseteq promised'[c]
      OBVIOUS
    <2>4. QED
      BY <2>1, <2>2, <2>3, CachePromise
  <1>3. QED
    BY <1>1, <1>2

\* The history variable stays in its domain.
LEMMA PromisedType ==
  ASSUME PTypeOK, [PNext]_pvars
  PROVE  promised' \in [Columns -> SUBSET Slots]
  <1>1. ASSUME NEW m \in Managers, PReplace(m) \/ PFailsAfter(m)
        PROVE  promised' \in [Columns -> SUBSET Slots]
    <2>1. /\ held[m].region \in Regions
          /\ held[m].entries \in Batches(held[m].region)
      BY <1>1 DEF PTypeOK, TypeOK, PReplace, PFailsAfter, Replace, ReplaceFails
    <2>2. \A c \in DOMAIN held[m].entries : held[m].entries[c] \in Slots
      BY <2>1, BatchType DEF Slots
    <2>3. promised \in [Columns -> SUBSET Slots]
      BY DEF PTypeOK
    <2>4. CASE Committed(m)
      BY <2>2, <2>3, <2>4 DEF Committed, Batch
    <2>5. CASE Uncertain(m)
      BY <2>2, <2>3, <2>5 DEF Uncertain, Batch
    <2>6. QED
      BY <1>1, <2>4, <2>5 DEF PReplace, PFailsAfter
  <1>2. CASE UNCHANGED promised
    BY <1>2 DEF PTypeOK
  <1>3. QED
    BY <1>1, <1>2 DEF PNext, PStep, PTake, PTakeFails, PFailsBefore, PLoad, PRestart, pvars

LEMMA PromiseInductive == PInv /\ [PNext]_pvars => PInv'
  <1> SUFFICES ASSUME PInv, [PNext]_pvars
               PROVE  PInv'
    OBVIOUS
  <1>1. TypeOK' /\ promised' \in [Columns -> SUBSET Slots]
    BY PromiseSteps, TypeInductive, PromisedType DEF PInv, PTypeOK
  <1>2. PromiseKept' /\ CacheKeepsPromise' /\ HeldKeepsPromise'
    <2>1. ASSUME NEW m \in Managers, PTake(m)
          PROVE  PromiseKept' /\ CacheKeepsPromise' /\ HeldKeepsPromise'
      BY <2>1, TakePromise DEF PTake
    <2>2. ASSUME NEW m \in Managers, PTakeFails(m)
          PROVE  PromiseKept' /\ CacheKeepsPromise' /\ HeldKeepsPromise'
      BY <2>2 DEF PTakeFails, TakeFails, CacheIs, PInv, PTypeOK, TypeOK, PromiseKept,
                  CacheKeepsPromise, HeldKeepsPromise, Owned, Owns, ColumnsIn
    <2>3. ASSUME NEW m \in Managers, PReplace(m)
          PROVE  PromiseKept' /\ CacheKeepsPromise' /\ HeldKeepsPromise'
      BY <2>3, ReplacePromise
    <2>4. ASSUME NEW m \in Managers, PFailsBefore(m) \/ PFailsAfter(m)
          PROVE  PromiseKept' /\ CacheKeepsPromise' /\ HeldKeepsPromise'
      BY <2>4, FailPromise
    <2>5. ASSUME NEW m \in Managers, PLoad(m)
          PROVE  PromiseKept' /\ CacheKeepsPromise' /\ HeldKeepsPromise'
      BY <2>5, LoadPromise DEF PLoad
    <2>6. CASE PRestart
      BY <2>6 DEF PRestart, Restart, PInv, PromiseKept, CacheKeepsPromise,
                  HeldKeepsPromise, Owned, Owns
    <2>7. CASE UNCHANGED pvars
      BY <2>7 DEF pvars, PInv, PromiseKept, CacheKeepsPromise, HeldKeepsPromise,
                  Owned, Owns, ColumnsIn
    <2>8. QED
      BY <2>1, <2>2, <2>3, <2>4, <2>5, <2>6, <2>7 DEF PNext, PStep
  <1>3. QED
    BY <1>1, <1>2 DEF PInv, PTypeOK

\* A saved column reads back as saved: for any number of managers and regions,
\* every region with one writer keeps the promise of its last successful save.
THEOREM PromiseIsKept == PSpec => [](PromiseKept /\ CacheKeepsPromise)
  <1>1. PInit => PInv
    BY DEF PInit, Init, PInv, PTypeOK, TypeOK, PromiseKept, CacheKeepsPromise,
           HeldKeepsPromise, Slots
  <1>2. PInv => PromiseKept /\ CacheKeepsPromise
    BY DEF PInv
  <1>3. QED
    BY <1>1, <1>2, PromiseInductive, PTL DEF PSpec

-----------------------------------------------------------------------------
\* What a step does to a batch of columns it does to one file, and a file is owned or not.
LEMMA BatchIsOwned ==
  ASSUME PInv, NEW m \in Managers, held[m] # NoWrite
  PROVE  /\ held[m].region \in Regions
         /\ Owned(held[m].region) =>
              Batch(m) \in Durable!Batches /\ DOMAIN Batch(m) \subseteq OwnedColumns
         /\ ~Owned(held[m].region) =>
              \A c \in OwnedColumns : RegionOf[c] # held[m].region /\ c \notin DOMAIN Batch(m)
  <1>1. /\ held[m].region \in Regions
        /\ Batch(m) \in Batches(held[m].region)
    BY DEF PInv, PTypeOK, TypeOK, Batch
  <1>2. /\ Batch(m) \in [DOMAIN Batch(m) -> Payloads]
        /\ DOMAIN Batch(m) \in (SUBSET ColumnsIn(held[m].region)) \ {{}}
    BY <1>1 DEF Batches
  <1>3. ASSUME Owned(held[m].region)
        PROVE  Batch(m) \in Durable!Batches /\ DOMAIN Batch(m) \subseteq OwnedColumns
    <2>1. DOMAIN Batch(m) \subseteq OwnedColumns
      BY <1>2, <1>3 DEF ColumnsIn, OwnedColumns
    <2>2. QED
      BY <1>2, <2>1 DEF Durable!Batches
  <1>4. ASSUME ~Owned(held[m].region), NEW c \in OwnedColumns
        PROVE  RegionOf[c] # held[m].region /\ c \notin DOMAIN Batch(m)
    BY <1>2, <1>4 DEF ColumnsIn, OwnedColumns
  <1>5. QED
    BY <1>1, <1>3, <1>4

\* A write to a file with one writer is a write to the abstract map; every other step of the
\* store, a write to another file, a failure before the rename and a restart included, is a
\* stutter.
LEMMA DurableStep ==
  ASSUME PInv, PInv', [PNext]_pvars
  PROVE  [Durable!Next]_(Durable!vars)
  <1>1. Durable!Readable
    BY RegionAssumption DEF PInv, PTypeOK, TypeOK, PromiseKept, Durable!Readable,
                            Slots, Durable!Slots, OwnedColumns
  <1>2. ASSUME NEW m \in Managers, PReplace(m) \/ PFailsAfter(m)
        PROVE  Durable!Next \/ UNCHANGED Durable!vars
    <2>1. held[m] # NoWrite /\ DiskHolds(m, NewImage(m)) /\ (Committed(m) \/ Uncertain(m))
      BY <1>2 DEF PReplace, PFailsAfter, Replace, ReplaceFails
    <2>2. CASE Owned(held[m].region)
      <3>1. held[m].entries \in Durable!Batches /\ DOMAIN held[m].entries \subseteq OwnedColumns
        BY <2>1, <2>2, BatchIsOwned DEF Batch
      <3>2. CASE Committed(m)
        <4>1. \E entries \in Durable!Batches : Durable!Commit(entries)
          BY <1>1, <3>1, <3>2 DEF Committed, Batch, Durable!Commit, OwnedColumns
        <4>2. QED
          BY <4>1 DEF Durable!Next
      <3>3. CASE Uncertain(m)
        <4>1. \E entries \in Durable!Batches : Durable!Abort(entries)
          BY <1>1, <3>1, <3>3 DEF Uncertain, Batch, Durable!Abort, OwnedColumns
        <4>2. QED
          BY <4>1 DEF Durable!Next
      <3>4. QED
        BY <2>1, <3>2, <3>3
    <2>3. CASE ~Owned(held[m].region)
      <3>1. \A c \in OwnedColumns : RegionOf[c] # held[m].region /\ c \notin DOMAIN Batch(m)
        BY <2>1, <2>3, BatchIsOwned
      <3>2. \A c \in OwnedColumns : disk'[c] = disk[c] /\ promised'[c] = promised[c]
        BY <2>1, <3>1 DEF DiskHolds, Committed, Uncertain, OwnedColumns
      <3>3. QED
        BY <3>2 DEF Durable!vars
    <2>4. QED
      BY <2>2, <2>3
  <1>3. CASE UNCHANGED <<disk, promised>>
    BY <1>3 DEF Durable!vars
  <1>4. QED
    BY <1>2, <1>3 DEF PNext, PStep, PTake, PTakeFails, PFailsBefore, PLoad, PRestart, pvars,
       Take, TakeFails, ReplaceFails, Load, Restart

\* Whoever else writes beside them, the files with one writer implement DurableColumns:
\* nothing but the results of the saves decides what a restart reads of their columns.
THEOREM FilesImplementDurableColumns == PSpec => ImplementsDurableColumns
  <1>1. PInit => Durable!Init
    BY DEF PInit, Init, Durable!Init, Slots, Durable!Slots, OwnedColumns
  <1>2. PInit => PInv
    BY DEF PInit, Init, PInv, PTypeOK, TypeOK, PromiseKept, CacheKeepsPromise,
           HeldKeepsPromise, Slots
  <1>3. PInv /\ PInv' /\ [PNext]_pvars => [Durable!Next]_(Durable!vars)
    BY DurableStep
  <1>4. QED
    BY <1>1, <1>2, <1>3, PromiseInductive, PTL
       DEF PSpec, ImplementsDurableColumns, Durable!Spec

-----------------------------------------------------------------------------
\* No cache ever holds a region whose file does not decode, and none is being
\* rewritten.  Inductive: a region enters a cache by a load or a write, a load
\* needs a file that decodes, and a write starts from a cached image or such a
\* file.
CorruptIsShunned ==
  \A m \in Managers :
    /\ cached[m] \cap corrupt = {}
    /\ held[m] # NoWrite => held[m].region \notin corrupt

CorruptInv == TypeOK /\ CorruptIsShunned

\* A manager whose cache changes to readable regions only keeps to itself.
LEMMA CacheShuns ==
  ASSUME TypeOK, CorruptIsShunned, UNCHANGED corrupt, NEW m \in Managers,
         NEW kept, NEW images, NEW stamps, CacheIs(m, kept, images, stamps),
         kept \cap corrupt = {}
  PROVE  \A n \in Managers : cached'[n] \cap corrupt' = {}
  BY DEF CorruptIsShunned, CacheIs, TypeOK

\* A write, done or failed, shuns the corrupt files: the region it puts back
\* into the cache is the one it took.
LEMMA WriteShuns ==
  ASSUME CorruptInv, NEW m \in Managers,
         Replace(m) \/ \E renamed \in BOOLEAN : ReplaceFails(m, renamed)
  PROVE  CorruptIsShunned'
  <1> USE DEF CorruptInv
  <1>1. held[m] # NoWrite /\ held[m].region \notin corrupt
    BY DEF Replace, ReplaceFails, CorruptIsShunned
  <1>2. UNCHANGED corrupt /\ held' = [held EXCEPT ![m] = NoWrite]
    BY DEF Replace, ReplaceFails
  <1>3. (cached[m] \union {held[m].region}) \cap corrupt = {}
    BY <1>1 DEF CorruptIsShunned
  <1>4. PICK kept \in SUBSET (cached[m] \union {held[m].region}) :
          \E images, stamps : CacheIs(m, kept, images, stamps)
    <2>1. CASE Replace(m)
      BY <2>1 DEF Replace, Keep
    <2>2. CASE \E renamed \in BOOLEAN : ReplaceFails(m, renamed)
      BY <2>2 DEF ReplaceFails
    <2>3. QED
      BY <2>1, <2>2
  <1>5. kept \cap corrupt = {}
    BY <1>3, <1>4
  <1>6. \A n \in Managers : cached'[n] \cap corrupt' = {}
    BY <1>2, <1>4, <1>5, CacheShuns
  <1>7. \A n \in Managers : held'[n] # NoWrite => held'[n].region \notin corrupt'
    BY <1>2 DEF TypeOK, CorruptIsShunned
  <1>8. QED
    BY <1>6, <1>7 DEF CorruptIsShunned

\* Only a stamped cache entry or a file that decodes is taken for writing.
LEMMA TakeShuns ==
  ASSUME CorruptInv, NEW m \in Managers, NEW r \in Writes[m],
         NEW entries \in Batches(r), Take(m, r, entries)
  PROVE  CorruptIsShunned'
  <1> USE DEF CorruptInv
  <1>1. UNCHANGED corrupt
    BY DEF Take
  <1>2. r \notin corrupt
    BY DEF Take, Hit, Decodes, CorruptIsShunned
  <1>3. PICK kept \in SUBSET cached[m] :
          \E stamps : CacheIs(m, kept, image[m], stamps)
    <2>1. CASE Hit(m, r)
      <3>1. CacheIs(m, cached[m] \ {r}, image[m], stamped[m])
        BY <2>1 DEF Take
      <3>2. QED
        BY <3>1
    <2>2. CASE ~Hit(m, r)
      <3>1. CacheIs(m, cached[m], image[m], stamped[m] \ {r})
        BY <2>2 DEF Take
      <3>2. QED
        BY <3>1
    <2>3. QED
      BY <2>1, <2>2
  <1>4. kept \cap corrupt = {}
    BY <1>3 DEF CorruptIsShunned
  <1>5. \A n \in Managers : cached'[n] \cap corrupt' = {}
    BY <1>1, <1>3, <1>4, CacheShuns
  <1>6. \A n \in Managers : held'[n] # NoWrite => held'[n].region \notin corrupt'
    <2> SUFFICES ASSUME NEW n \in Managers, held'[n] # NoWrite
                 PROVE  held'[n].region \notin corrupt'
      OBVIOUS
    <2>1. CASE n = m
      BY <1>1, <1>2, <2>1 DEF Take, TypeOK
    <2>2. CASE n # m
      BY <1>1, <2>2 DEF Take, TypeOK, CorruptIsShunned
    <2>3. QED
      BY <2>1, <2>2
  <1>7. QED
    BY <1>5, <1>6 DEF CorruptIsShunned

\* A load fills the cache only from a file that decodes.
LEMMA LoadShuns ==
  ASSUME CorruptInv, NEW m \in Managers, NEW r \in Regions, Load(m, r)
  PROVE  CorruptIsShunned'
  <1> USE DEF CorruptInv
  <1>1. UNCHANGED <<corrupt, held>>
    BY DEF Load
  <1>2. PICK kept, images, stamps :
          /\ CacheIs(m, kept, images, stamps)
          /\ kept \cap corrupt = {}
    <2>1. CASE r \notin cached[m] /\ FileExists(r) /\ r \notin corrupt
      <3>1. PICK kept \in SUBSET (cached[m] \union {r}) :
              CacheIs(m, kept, Overlaid(m, r, disk),
                      (stamped[m] \union {r}) \ ((cached[m] \union {r}) \ kept))
        BY <2>1 DEF Load, Keep
      <3>2. kept \cap corrupt = {}
        BY <2>1, <3>1 DEF CorruptIsShunned
      <3>3. QED
        BY <3>1, <3>2
    <2>2. CASE ~(r \notin cached[m] /\ FileExists(r) /\ r \notin corrupt)
      <3>1. PICK kept \in SUBSET cached[m] :
              CacheIs(m, kept, image[m], stamped[m] \ (cached[m] \ kept))
        BY <2>2 DEF Load, Keep
      <3>2. kept \cap corrupt = {}
        BY <3>1 DEF CorruptIsShunned
      <3>3. QED
        BY <3>1, <3>2
    <2>3. QED
      BY <2>1, <2>2
  <1>3. \A n \in Managers : cached'[n] \cap corrupt' = {}
    BY <1>1, <1>2, CacheShuns
  <1>4. QED
    BY <1>1, <1>3 DEF CorruptIsShunned

LEMMA CorruptInductive == CorruptInv /\ [Next]_vars => CorruptInv'
  <1> SUFFICES ASSUME CorruptInv, [Next]_vars
               PROVE  CorruptInv'
    OBVIOUS
  <1>1. TypeOK'
    BY TypeInductive DEF CorruptInv
  <1>2. CorruptIsShunned'
    <2>1. ASSUME NEW m \in Managers, NEW r \in Writes[m], NEW entries \in Batches(r),
                 Take(m, r, entries)
          PROVE  CorruptIsShunned'
      BY <2>1, TakeShuns
    <2>2. ASSUME NEW m \in Managers, NEW r \in Writes[m], TakeFails(m, r)
          PROVE  CorruptIsShunned'
      <3>1. /\ CacheIs(m, cached[m], image[m], stamped[m] \ {r})
            /\ UNCHANGED <<corrupt, held>>
        BY <2>2 DEF TakeFails
      <3>2. cached[m] \cap corrupt = {}
        BY DEF CorruptInv, CorruptIsShunned
      <3>3. \A n \in Managers : cached'[n] \cap corrupt' = {}
        BY <3>1, <3>2, CacheShuns DEF CorruptInv
      <3>4. QED
        BY <3>1, <3>3 DEF CorruptInv, CorruptIsShunned
    <2>3. ASSUME NEW m \in Managers,
                 Replace(m) \/ \E renamed \in BOOLEAN : ReplaceFails(m, renamed)
          PROVE  CorruptIsShunned'
      BY <2>3, WriteShuns
    <2>4. ASSUME NEW m \in Managers, NEW r \in Regions, Load(m, r)
          PROVE  CorruptIsShunned'
      BY <2>4, LoadShuns
    <2>5. CASE Restart
      BY <2>5 DEF Restart, CorruptIsShunned
    <2>6. CASE UNCHANGED vars
      BY <2>6 DEF vars, CorruptInv, CorruptIsShunned
    <2>7. QED
      BY <2>1, <2>2, <2>3, <2>4, <2>5, <2>6 DEF Next, Step
  <1>3. QED
    BY <1>1, <1>2 DEF CorruptInv

\* The columns of a corrupt file outlast every step: only the region being
\* written changes on the disk.
LEMMA CorruptStep ==
  ASSUME CorruptInv, [PNext]_pvars, NEW c \in Columns, RegionOf[c] \in corrupt
  PROVE  disk'[c] = disk[c]
  <1>1. ASSUME NEW m \in Managers, Replace(m) \/ ReplaceFails(m, TRUE)
        PROVE  disk'[c] = disk[c]
    <2>1. held[m] # NoWrite /\ DiskHolds(m, NewImage(m))
      BY <1>1 DEF Replace, ReplaceFails
    <2>2. RegionOf[c] # held[m].region
      BY <2>1 DEF CorruptInv, CorruptIsShunned
    <2>3. QED
      BY <2>1, <2>2 DEF DiskHolds
  <1>2. CASE UNCHANGED disk
    BY <1>2
  <1>3. QED
    BY <1>1, <1>2 DEF PNext, PStep, PTake, PTakeFails, PReplace, PFailsBefore, PFailsAfter,
       PLoad, PRestart, pvars, Take, TakeFails, ReplaceFails, Load, Restart

\* A region file that does not decode is never replaced, whichever manager
\* saves into it and however its cache was filled, so what is left in it can
\* still be salvaged.
THEOREM CorruptFilesStay == PSpec => CorruptFileStays
  <1>1. PInit => CorruptInv
    BY DEF PInit, Init, CorruptInv, CorruptIsShunned, TypeOK, Slots
  <1>2. CorruptInv /\ [PNext]_pvars => CorruptInv'
    BY PromiseSteps, CorruptInductive
  <1>3. CorruptInv /\ [PNext]_pvars
          => [\A c \in Columns : RegionOf[c] \in corrupt => disk'[c] = disk[c]]_pvars
    BY CorruptStep
  <1>4. QED
    BY <1>1, <1>2, <1>3, PTL DEF PSpec, CorruptFileStays
=============================================================================
