------------------------------ MODULE LtpBlock ------------------------------
(***************************************************************************)
(* What an LTP session promises for the red part of one block: its source  *)
(* is told that the session is complete only when the destination has all  *)
(* of it, and the client at the destination is given it whole and once.    *)
(***************************************************************************)
EXTENDS Integers

CONSTANT RedLength

VARIABLES
    accepted,   \* units the destination has taken
    outcome,    \* what the client of the source has been told
    blocks      \* how often the client of the destination has been given the block

vars == <<accepted, outcome, blocks>>
Unit == 1..RedLength

Init == accepted = {} /\ outcome = "none" /\ blocks = 0

Accept ==
    /\ \E u \in Unit \ accepted : accepted' = accepted \cup {u}
    /\ UNCHANGED <<outcome, blocks>>

Complete ==
    /\ outcome = "none" /\ accepted = Unit
    /\ outcome' = "complete"
    /\ UNCHANGED <<accepted, blocks>>

Abandon ==
    /\ outcome = "none"
    /\ outcome' = "canceled"
    /\ UNCHANGED <<accepted, blocks>>

Deliver ==
    /\ blocks = 0 /\ accepted = Unit
    /\ blocks' = 1
    /\ UNCHANGED <<accepted, outcome>>

Next == Accept \/ Complete \/ Abandon \/ Deliver
Spec == Init /\ [][Next]_vars
=============================================================================
