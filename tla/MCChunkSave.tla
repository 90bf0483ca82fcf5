----------------------------- MODULE MCChunkSave -----------------------------
(***************************************************************************)
(* Region 1 has columns a and b, region 2 column e, region 3 (in another   *)
(* dimension) column n.  Each configuration takes the columns and regions  *)
(* its question needs.                                                     *)
(***************************************************************************)
EXTENDS ChunkSave, TLC

CONSTANTS a, b, e, n

MCRegionOf == [c \in Columns |-> IF c \in {a, b} THEN 1 ELSE IF c = e THEN 2 ELSE 3]
MCDimensionOf == [r \in Regions |-> IF r = 3 THEN 2 ELSE 1]

\* Nothing saved before.
NewWorldInit == Init /\ disk = [c \in Columns |-> NoData]
NewWorld == NewWorldInit /\ [][Next]_vars
=============================================================================
