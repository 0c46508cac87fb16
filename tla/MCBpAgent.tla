----------------------------- MODULE MCBpAgent -----------------------------
(* Instances of BpAgent for TLC.                                             *)
EXTENDS BpAgent, TLC

CONSTANTS ours, multi, urgent, n1, n2

\* A bundle of ours, one for a group that comes in, and a critical one.
ThreeDest == ours :> "away" @@ multi :> "group" @@ urgent :> "away"
AtMostOnce == ours :> 1 @@ multi :> 1 @@ urgent :> 1
Same == Permutations(Neighbor)

\* A bundle of ours that a neighbor sends back to us.
BackDest == ours :> "away"
Back == ours :> 1
=============================================================================
