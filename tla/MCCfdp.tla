------------------------------- MODULE MCCfdp -------------------------------
(* Instances of Cfdp for TLC.                                                *)
EXTENDS Cfdp

CONSTANTS photo

\* A file of two segments, whose metadata ask for one handler only.
Sizes == [t \in AnyTxn |-> 3]
Types == [t \in AnyTxn |-> "crc"]
Handlers == [t \in AnyTxn |-> [f \in Fault |-> IF f = "checksum" THEN "cancel" ELSE "none"]]
Defaults == [f \in Fault |-> IF f \in {"reject", "limit"} THEN "cancel" ELSE "ignore"]
Unsent == [t \in Foreign |-> <<>>]

\* The handlers that bpcp asks for.
CopyHandlers ==
    [t \in AnyTxn |-> [f \in Fault |-> IF f = "reject" THEN "ignore" ELSE "cancel"]]

\* A file of three units that comes as the middle one and then in one piece.
Overlapping == [t \in Foreign |-> <<[offset |-> 1, end |-> 2], [offset |-> 0, end |-> 3]>>]

\* Merging segments into extents, for all segments of a file of five units.
ASSUME ExtentsAgree ==
    \A S \in SUBSET (0 .. 4) : \A a \in 0 .. 4 : \A b \in a + 1 .. 5 :
        LET extents == {e \in [offset : 0 .. 4, end : 1 .. 5] :
                           /\ e.offset < e.end /\ e.offset .. e.end - 1 \subseteq S
                           /\ e.end \notin S /\ (e.offset = 0 \/ e.offset - 1 \notin S)}
            seg == [offset |-> a, end |-> b]
        IN  /\ Separate(Merged(extents, seg))
            /\ Covered(Merged(extents, seg)) = S \cup (a .. b - 1)
            /\ NewUnits(extents, seg) = (a .. b - 1) \ S
            /\ Known(extents, seg) <=> (a .. b - 1) \subseteq S
=============================================================================
