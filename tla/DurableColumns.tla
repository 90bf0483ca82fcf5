---------------------------- MODULE DurableColumns ----------------------------
(***************************************************************************)
(* What a caller of SaveManager::save_chunks_in may rely on, without files,*)
(* caches or temporary names: a column reads back as the payload of its    *)
(* last successful save, or of one of the failed saves since.  A failed    *)
(* save may have reached the disk, and what it wrote may be gone again     *)
(* after any later write.                                                  *)
(***************************************************************************)
CONSTANTS Columns, Payloads, NoData

VARIABLES
  value,     \* [Columns -> Slots]: what a restart would read
  promised   \* [Columns -> SUBSET Slots]: what it may read

vars == <<value, promised>>

Slots == Payloads \union {NoData}
Batches == UNION {[S -> Payloads] : S \in (SUBSET Columns) \ {{}}}

TypeOK ==
  /\ value \in [Columns -> Slots]
  /\ promised \in [Columns -> SUBSET Slots]

Init ==
  /\ value \in [Columns -> Slots]
  /\ promised = [c \in Columns |-> {value[c]}]

Readable == value' \in [Columns -> Slots] /\ \A c \in Columns : value'[c] \in promised'[c]

\* A save that returned Ok: nothing but the new payload may be read.
Commit(entries) ==
  /\ promised' = [c \in Columns |->
       IF c \in DOMAIN entries THEN {entries[c]} ELSE promised[c]]
  /\ Readable

\* A save that returned Err after the rename.
Abort(entries) ==
  /\ promised' = [c \in Columns |->
       IF c \in DOMAIN entries THEN promised[c] \union {entries[c]} ELSE promised[c]]
  /\ Readable

Next == \E entries \in Batches : Commit(entries) \/ Abort(entries)

Spec == Init /\ [][Next]_vars
=============================================================================
