----------------------------- MODULE BpCustody -----------------------------
(***************************************************************************)
(* What the agent promises for a bundle it has taken on: until it is done  *)
(* with the bundle, one party is responsible for it.  The node is while it *)
(* is in a list; a convergence-layer adapter is from the time it has       *)
(* accepted stewardship until it reports success or failure.  A bundle an  *)
(* application detains may outlast both.                                   *)
(***************************************************************************)
EXTENDS Naturals

CONSTANT MaxBundles

VARIABLE custodian     \* of each bundle, by the order they were made in

Id == 1..MaxBundles

Init == custodian = [b \in Id |-> "none"]

Moves == {<<"none", "node">>, <<"none", "done">>,
          <<"node", "adapter">>, <<"adapter", "node">>,
          <<"node", "kept">>, <<"adapter", "kept">>,
          <<"node", "done">>, <<"adapter", "done">>, <<"kept", "done">>}

Next == custodian' \in [Id -> {"none", "node", "adapter", "kept", "done"}]
        /\ \A b \in Id : custodian'[b] # custodian[b] => <<custodian[b], custodian'[b]>> \in Moves

Spec == Init /\ [][Next]_custodian
=============================================================================
