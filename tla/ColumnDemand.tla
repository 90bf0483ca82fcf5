----------------------------- MODULE ColumnDemand -----------------------------
(***************************************************************************)
(* What a world promises about the columns it is asked for, without jobs,  *)
(* threads or budgets: a demanded column is generated once, unless the     *)
(* demand is withdrawn or a mutation cannot wait and makes the column at   *)
(* once; a column that is there keeps its edits until it leaves.           *)
(***************************************************************************)
EXTENDS Naturals

CONSTANTS
  Columns,
  Broken     \* columns that did not decode: never demanded, never made

VARIABLES
  resident, demanded,
  edits      \* [Columns -> edits of a resident column since it was made]

vars == <<resident, demanded, edits>>

Init ==
  /\ resident \subseteq Columns \ Broken
  /\ demanded = {}
  /\ edits = [c \in Columns |-> 0]

Demand(C) ==
  /\ demanded' = demanded \union C
  /\ UNCHANGED <<resident, edits>>

\* Late results of the generator make demanded columns and nothing else.
Generate(C) ==
  /\ demanded' = demanded \ C
  /\ resident' = resident \union C
  /\ UNCHANGED edits

\* What cannot wait for the generator makes a column at once and settles its demand.
Make(c) ==
  /\ c \notin resident \union Broken
  /\ demanded' = demanded \ {c}
  /\ resident' = resident \union {c}
  /\ UNCHANGED edits

\* An edit of a column that is not there makes it first.
Edit(c) ==
  /\ c \notin Broken
  /\ demanded' = demanded \ {c}
  /\ resident' = resident \union {c}
  /\ edits' = [edits EXCEPT ![c] = @ + 1]

\* Columns leave with their edits, which are on disk by then; demands of columns
\* nobody wants any more are withdrawn.
Leave ==
  /\ resident' \subseteq resident
  /\ demanded' \subseteq demanded
  /\ edits' = [c \in Columns |-> IF c \in resident' THEN edits[c] ELSE 0]

Next ==
  \/ \E C \in SUBSET (Columns \ (resident \union Broken)) : Demand(C)
  \/ \E C \in SUBSET demanded : Generate(C)
  \/ \E c \in Columns : Make(c) \/ Edit(c)
  \/ Leave

Spec == Init /\ [][Next]_vars

\* No column stays demanded for ever: this is what a projection that waits for a
\* column relies on.
Fairness == \A c \in Columns : WF_vars(\E C \in SUBSET demanded : c \in C /\ Generate(C))

FairSpec == Spec /\ Fairness
===============================================================================
