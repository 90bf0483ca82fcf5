-------------------------- MODULE MCSessionLifecycle --------------------------
(* Small instances of SessionLifecycle. *)
EXTENDS SessionLifecycle

\* Two connections in the name of Ann, one in that of Bob; a host who is Bob too, or Eve.
Visitors == [c \in Connections \union Hosts |->
               CASE c \in {1, 3} -> "ann" [] c \in {2, 8} -> "bob" [] c = 9 -> "eve"]

\* What else may happen: a file that cannot be read, a client that stops reading, or
\* that and a broadcast and a save that fails.
MaySpoil ==
  /\ spoils = 0
  /\ stalls = MaxStalls /\ broadcasts = MaxBroadcasts /\ saveFailures = MaxSaveFailures
MayStall ==
  /\ stalls = 0
  /\ spoils = MaxSpoils /\ broadcasts = MaxBroadcasts /\ saveFailures = MaxSaveFailures
MayStallAndFail ==
  /\ stalls = 0 /\ broadcasts = 0 /\ saveFailures = 0
  /\ spoils = MaxSpoils

MCInit ==
  /\ Init
  /\ \/ MaySpoil
     \/ players # {} /\ MayStall
     \/ players = {} /\ MayStallAndFail
MCSpec == MCInit /\ [][Next]_vars
=============================================================================
