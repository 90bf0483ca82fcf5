----------------------------- MODULE MCColumnGrid -----------------------------
EXTENDS ColumnGrid

\* a row of columns and one off the row
Strip == {<<x, 0>> : x \in -1 .. 2} \union {<<0, 2>>}
===============================================================================
