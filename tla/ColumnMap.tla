------------------------------- MODULE ColumnMap -------------------------------
(***************************************************************************)
(* What a store of resident columns promises: a map from the coordinates   *)
(* of a column to its chunk, whatever the layout of the store.             *)
(***************************************************************************)
CONSTANTS
  Keys,    \* chunk coordinates
  Chunks,  \* contents of a column
  Absent   \* no column, not one of Chunks

VARIABLE columns

Init == columns = [k \in Keys |-> Absent]

Insert(k, chunk) == columns' = [columns EXCEPT ![k] = chunk]
Remove(k) == columns' = [columns EXCEPT ![k] = Absent]
Clear == columns' = [k \in Keys |-> Absent]

Next ==
  \/ \E k \in Keys, chunk \in Chunks : Insert(k, chunk)
  \/ \E k \in Keys : Remove(k)
  \/ Clear

Spec == Init /\ [][Next]_columns
================================================================================
