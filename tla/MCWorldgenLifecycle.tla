------------------------- MODULE MCWorldgenLifecycle -------------------------
(* A row of three columns in each of two dimensions.                        *)
EXTENDS WorldgenLifecycle

\* A player needs its own column and the next; the ring has its neighbours too.
HereAndNext == [p \in Coords |-> {q \in Coords : q - p \in {0, 1}}]
Around == [p \in Coords |-> {q \in Coords : q - p \in {-1, 0, 1}}]

\* The players join at the ends of the row.
Apart == [p \in Players |-> [dim |-> 0, pos |-> IF p = 1 THEN 1 ELSE 3]]

Origin == {<<0, 1>>}
Undecodable == {<<0, 2>>}
=============================================================================
