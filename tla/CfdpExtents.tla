---------------------------- MODULE CfdpExtents ----------------------------
(***************************************************************************)
(* The extents of a file that is being received, and what a file data PDU  *)
(* adds to them: the middle of handleFileDataPdu (cfdp/library/libcfdpP.c).*)
(* A segment or an extent covers offset .. end - 1; the units of a file    *)
(* are named by the place where they belong.  The list of the extents is   *)
(* sorted by offset, so that their set says as much.                       *)
(***************************************************************************)
EXTENDS Integers, FiniteSets, FiniteSetsExt

\* What segments and extents of a file of N units are made of.
Extent(N) == [offset : 0 .. N, end : 0 .. N]

Units(e) == e.offset .. e.end - 1
Covered(extents) == UNION {Units(e) : e \in extents}

\* So far apart that no two of them touch.
Separate(extents) ==
    /\ \A e \in extents : e.offset < e.end
    /\ \A d, e \in extents : d = e \/ d.end < e.offset \/ e.end < d.offset

\* The extents that the segment touches or overlaps.
Touched(extents, seg) == {e \in extents : e.end >= seg.offset /\ e.offset <= seg.end}

Known(extents, seg) == \E e \in extents : e.offset <= seg.offset /\ seg.end <= e.end

\* The segment extends the extent it starts in, or becomes a new one, and
\* later ones are subsumed "until an unbridged gap in continuity is reached".
Merged(extents, seg) ==
    LET touched == Touched(extents, seg)
    IN  (extents \ touched) \cup
            {[offset |-> Min({e.offset : e \in touched \cup {seg}}),
              end    |-> Max({e.end : e \in touched \cup {seg}})]}

\* "bytesToWrite": what lies between one extent and the next.
NewUnits(extents, seg) == Units(seg) \ Covered(extents)

\* The n-th number of a set.
Nth(S, n) == CHOOSE i \in S : Cardinality({j \in S : j <= i}) = n

\* Mutant: data are written one after the other as they arrive.
WrittenInTurn(extents, seg) ==
    LET start == Cardinality(Covered(extents))
        units == NewUnits(extents, seg)
    IN  [p \in start .. start + Cardinality(units) - 1 |-> Nth(units, p - start + 1)]

\* The file is positioned once, at the first unit that is new; what the loop
\* skips in the segment, it does not skip in the file.
WrittenAt(extents, seg) ==
    LET begun == {e \in Touched(extents, seg) : e.offset <= seg.offset}
        start == IF begun = {} THEN seg.offset ELSE Max({e.end : e \in begun})
        units == NewUnits(extents, seg)
    IN  [p \in start .. start + Cardinality(units) - 1 |-> Nth(units, p - start + 1)]
=============================================================================
