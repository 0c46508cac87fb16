------------------------------ MODULE ZcoBooks ------------------------------
(***************************************************************************)
(* The accounting of zero-copy objects: ici/library/zco.c.                 *)
(* A file reference stands for a file; a lien stands for a piece of it     *)
(* that was put into an object once, and the objects that are copies of    *)
(* each other cite the same liens.  Counts are kept per account, and the   *)
(* bytes of a lien occupy an account while that account's count is not 0.  *)
(*                                                                         *)
(* The books are a record of                                               *)
(*   file       the file references, by file: the count, okayToDestroy;    *)
(*   lien       the liens, by address: file, length, counts;               *)
(*   zco        the objects, by address: account, liens of its extents;    *)
(*   occupancy  the file space occupied, by account.                       *)
(* Bulk items and heap objects are counted by the same code in the same    *)
(* way and are left out, as are headers, trailers and the objects' own     *)
(* size.  Objects are copied whole, and each extent of an object has a     *)
(* lien of its own, so that the extents are a set.                         *)
(***************************************************************************)
EXTENDS Integers, Sequences, SequencesExt, FiniteSets, FiniteSetsExt, Functions

CONSTANTS
    File,         \* files that clients make objects of
    MaxAddr       \* bound: addresses for liens, and for objects

ASSUME ZcoBooksAssumption == MaxAddr \in Nat \ {0}

Acct == {"in", "out"}
NoRefs == [a \in Acct |-> 0]

Blank == [file      |-> [f \in File |-> [refs |-> NoRefs, okay |-> FALSE]],
          lien      |-> <<>>,
          zco       |-> <<>>,
          occupancy |-> NoRefs]

\* Addresses are used again, as in the heap.
Free(objects) == (1 .. MaxAddr) \ DOMAIN objects
NewAddr(objects) == CHOOSE n \in Free(objects) : \A k \in Free(objects) : n <= k

With(objects, n, new) ==
    [k \in DOMAIN objects \cup {n} |-> IF k = n THEN new ELSE objects[k]]
Without(objects, n) == Restrict(objects, DOMAIN objects \ {n})

-----------------------------------------------------------------------------

\* A sum, as the number of the units that it sums.
Total(amount, S) == Cardinality(UNION {{x} \X (1 .. amount[x]) : x \in S})

Bytes(b, liens) == Total([l \in liens |-> b.lien[l].len], liens)

\* Mutant: the account is charged for every object that cites a lien.
CiteEach(b, a, liens, d) ==
    [b EXCEPT
        !.lien = [l \in DOMAIN @ |->
                     IF l \in liens THEN [@[l] EXCEPT !.refs[a] = @ + d] ELSE @[l]],
        !.occupancy[a] = @ + d * Bytes(b, liens),
        !.file = [f \in DOMAIN @ |->
                     [@[f] EXCEPT !.refs[a] =
                         @ + d * Cardinality({l \in liens : b.lien[l].file = f})]]]

\* Account a cites some liens once more, or (d = -1) once less.  Those that are
\* cited for the first time, or no longer, are charged to it, or given back,
\* and counted as references to their file.
Cite(b, a, liens, d) ==
    LET turned == {l \in liens : b.lien[l].refs[a] = IF d = 1 THEN 0 ELSE 1}
    IN  [file      |-> [f \in DOMAIN b.file |->
                           [b.file[f] EXCEPT !.refs[a] =
                               @ + d * Cardinality({l \in turned : b.lien[l].file = f})]],
         lien      |-> [l \in DOMAIN b.lien |->
                           IF l \in liens THEN [b.lien[l] EXCEPT !.refs[a] = @ + d] ELSE b.lien[l]],
         zco       |-> b.zco,
         occupancy |-> [b.occupancy EXCEPT ![a] = @ + d * Bytes(b, turned)]]

\* zco_create without an extent.
CreateZco(b, z, a) == [b EXCEPT !.zco = With(@, z, [acct |-> a, liens |-> {}])]

\* appendExtent: a new lien on the file.
AppendExtent(b, z, f, len) ==
    LET l == NewAddr(b.lien)
        new == [b EXCEPT !.lien = With(@, l, [file |-> f, len |-> len, refs |-> NoRefs]),
                         !.zco[z].liens = @ \cup {l}]
    IN  Cite(new, b.zco[z].acct, {l}, 1)

\* appendExtentOfExistingZco in zco_create from another object and in
\* zco_clone: the account tells which.
CopyZco(b, z, source, a) ==
    LET liens == b.zco[source].liens
    IN  Cite([b EXCEPT !.zco = With(@, z, [acct |-> a, liens |-> liens])], a, liens, 1)

-----------------------------------------------------------------------------

\* The file reference is destroyed (and the file unlinked) once the
\* application has let go of it and no lien cites it.
Unneeded(file) == file.okay /\ \A a \in Acct : file.refs[a] = 0
Needed(files) == {f \in DOMAIN files : ~Unneeded(files[f])}

\* zco_destroy_file_ref
DestroyFileRef(b, f) ==
    LET okay == [b.file EXCEPT ![f].okay = TRUE]
    IN  [b EXCEPT !.file = Restrict(okay, Needed(okay))]

\* destroyZco, but for the callback at its end: destroyExtentText for each extent.
DestroyZco(b, z) ==
    LET bare == Cite(b, b.zco[z].acct, b.zco[z].liens, -1)
    IN  [bare EXCEPT !.zco = Without(@, z),
                     !.file = Restrict(@, Needed(@)),
                     !.lien = Restrict(@, {l \in DOMAIN @ : @[l].refs # NoRefs})]

\* zco_get_aggregate_length, for a whole object.
LengthOf(b, z) == Bytes(b, b.zco[z].liens)

-----------------------------------------------------------------------------
(* What the books should say.                                                *)

Citations(b, a, l) == Cardinality({z \in DOMAIN b.zco : b.zco[z].acct = a /\ l \in b.zco[z].liens})
LiensIn(b, a) == {l \in DOMAIN b.lien : b.lien[l].refs[a] > 0}

\* Every count is the number of things that are counted, an account is
\* charged once for a lien however many of its objects cite it, and a file
\* reference is there exactly as long as the application or a lien needs it.
Balanced(b) ==
    /\ \A l \in DOMAIN b.lien :
          /\ \A a \in Acct : b.lien[l].refs[a] = Citations(b, a, l)
          /\ b.lien[l].refs # NoRefs
          /\ b.lien[l].file \in DOMAIN b.file
    /\ \A a \in Acct :
          /\ b.occupancy[a] = Bytes(b, LiensIn(b, a))
          /\ \A f \in DOMAIN b.file :
                b.file[f].refs[a] = Cardinality({l \in LiensIn(b, a) : b.lien[l].file = f})
    /\ \A f \in DOMAIN b.file : ~Unneeded(b.file[f])
=============================================================================
