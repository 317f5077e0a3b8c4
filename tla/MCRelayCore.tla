----------------------------- MODULE MCRelayCore -----------------------------
(***************************************************************************)
(* Instances of RelayCore for TLC.                                         *)
(***************************************************************************)
EXTENDS RelayCore

Forward(d) == [kind |-> "forward", delay |-> d]
Dropped    == [kind |-> "drop", delay |-> 0]

\* A loss-free engine ("clean") and one that delays, duplicates and drops.
MCEngines == {"clean", "impair"}
MCPlans ==
  [e \in MCEngines |->
     IF e = "clean" THEN {<<Forward(0)>>}
     ELSE {<<Forward(MaxDelay)>>, <<Dropped, Forward(1)>>, <<Forward(1), Forward(0)>>}]
==============================================================================
