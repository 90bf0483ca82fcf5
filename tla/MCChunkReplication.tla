------------------------- MODULE MCChunkReplication -------------------------
(* A small instance of ChunkReplication: two dimensions of two columns.     *)
EXTENDS ChunkReplication

\* The player joins near column 1 and may walk to where column 2 is in view too,
\* or on to where column 1 has been unloaded.
WalkView == [p \in 1 .. 3 |-> IF p = 1 THEN {1} ELSE IF p = 2 THEN {1, 2} ELSE {2}]
WalkRing == [p \in 1 .. 3 |-> IF p = 3 THEN {2} ELSE {1, 2}]

NoColumn == {}

\* A walk and two mutations, a transfer and two mutations, a walk and a transfer, or a
\* transfer there and back: what a session may not do any more counts as done.
MCInit ==
  /\ Joined
  /\ \/ mutations = 0 /\ moves = 0 /\ transfers = MaxTransfers
     \/ mutations = 0 /\ moves = MaxMoves /\ transfers = 1
     \/ mutations = MaxMutations /\ moves = 0 /\ transfers = 1
     \/ mutations = MaxMutations /\ moves = MaxMoves /\ transfers = 0

MCSpec == MCInit /\ [][Next]_vars /\ Fairness
=============================================================================
