-------------------------- MODULE MCGameplayRequests --------------------------
(* Small instances of GameplayRequests.                                     *)
EXTENDS GameplayRequests

Revisions == [d \in Dimensions |-> IF d = StartDimension THEN 2 ELSE 1]

\* How many envelopes may still be sent again, how many transfers may still come, and
\* whether the worlds elsewhere go on changing.
Left(copies, travels, running) ==
  /\ resends = MaxResends - copies /\ transfers = MaxTransfers - travels
  /\ \A d \in Dimensions \ {StartDimension} :
       clock[d] = IF running THEN 0 ELSE MaxRevision[d]

MCInit == Init /\ (Left(2, 0, FALSE) \/ Left(1, 1, FALSE) \/ Left(0, 1, TRUE))
MCSpec == MCInit /\ [][Next]_vars /\ Fairness
=============================================================================
