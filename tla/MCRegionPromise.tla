--------------------------- MODULE MCRegionPromise ---------------------------
(***************************************************************************)
(* Two regions, the first with two columns: enough for a sibling write to  *)
(* carry a stale or undone payload of the other column.                    *)
(***************************************************************************)
EXTENDS RegionPromise, TLC

CONSTANTS save, flush, r1, r2, a, b, c, p

MCRegionOf == (a :> r1) @@ (b :> r1) @@ (c :> r2)

\* The manager of the save thread writes both files, that of the tick thread the second:
\* the first region has one writer, the second two.
WritesShared == (save :> {r1, r2}) @@ (flush :> {r2})

\* The worlds to start from: nothing saved yet, or b saved by an earlier run.
MCInit == PInit /\ disk[a] = NoData /\ disk[c] = NoData /\ disk[b] \in {NoData, p}

MCSpec == MCInit /\ [][PNext]_pvars
=============================================================================
