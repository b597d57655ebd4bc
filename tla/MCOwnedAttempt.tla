---------------------------- MODULE MCOwnedAttempt ----------------------------
(***************************************************************************)
(* Instances of OwnedAttempt for TLC.  Behaviours end when the bounds are  *)
(* used up and everything queued is handled, so every run is finite.       *)
(***************************************************************************)
EXTENDS OwnedAttempt

ASSUME BoundsAssumption ==
  /\ MaxOffers \in Nat \ {0}
  /\ {MaxCancels, MaxDrops, MaxCrashes, MaxTimeouts, MaxFailures} \subseteq Nat
===============================================================================
