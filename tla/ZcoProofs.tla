----------------------------- MODULE ZcoProofs -----------------------------
(***************************************************************************)
(* Proofs about ZcoSpace, for any number of makers, movers, files, objects *)
(* and clones, pieces of any length and limits of any size.                *)
(*                                                                         *)
(* The books of the accounts balance, however objects are made, copied,    *)
(* cloned and destroyed.  With binary semaphores a task that comes out of  *)
(* its wait was served; and if, besides, the tasks of an account have the  *)
(* same rank, what is occupied and what is promised stay within the limit. *)
(***************************************************************************)
EXTENDS ZcoSpace, FiniteSetTheorems, SequenceTheorems, WellFoundedInduction, TLAPS

(* Sums.                                                                      *)

Units(amount, S) == UNION {{x} \X (1 .. amount[x]) : x \in S}

\* One is as much as it is.
LEMMA TotalOne ==
    ASSUME NEW f, NEW x, f[x] \in Nat
    PROVE  /\ IsFiniteSet({x} \X (1 .. f[x])) /\ Total(f, {x}) = f[x]
<1> DEFINE n == f[x]
           T == 1 .. n
<1>1. IsFiniteSet({x}) /\ Cardinality({x}) = 1
  BY FS_Singleton
<1>2. IsFiniteSet(T) /\ Cardinality(T) = n
  BY FS_Interval
<1> HIDE DEF T
<1>3. /\ IsFiniteSet({x} \X T)
      /\ Cardinality({x} \X T) = Cardinality({x}) * Cardinality(T)
  BY <1>1, <1>2, FS_Product
<1> HIDE DEF n
<1>4. Cardinality({x} \X T) = n
  BY <1>1, <1>2, <1>3 DEF n
<1>5. UNION {{y} \X (1 .. f[y]) : y \in {x}} = {x} \X T
  BY DEF T, n
<1>. QED
  BY <1>3, <1>4, <1>5 DEF Total, T, n

\* A sum of finitely many numbers is a number.
LEMMA TotalType ==
    ASSUME NEW S, IsFiniteSet(S), NEW f, \A x \in S : f[x] \in Nat
    PROVE  IsFiniteSet(Units(f, S)) /\ Total(f, S) \in Nat
<1> DEFINE g == [x \in S |-> {x} \X (1 .. f[x])]
           R == {g[x] : x \in S}
<1>1. g \in Surjection(S, R)
  BY DEF Surjection
<1>2. \A x \in S : IsFiniteSet({x} \X (1 .. f[x]))
  BY TotalOne
<1>3. \A T \in R : IsFiniteSet(T)
  BY <1>2
<1>4. Units(f, S) = UNION R
  BY DEF Units
<1> HIDE DEF R, g
<1>5. IsFiniteSet(R)
  BY <1>1, FS_Surjection
<1>6. IsFiniteSet(Units(f, S))
  BY <1>3, <1>4, <1>5, FS_UNION
<1>. QED
  BY <1>6, FS_CardinalityType DEF Total, Units

\* The sum of nothing.
LEMMA TotalNothing == ASSUME NEW f PROVE Total(f, {}) = 0
BY FS_EmptySet DEF Total

\* What is summed up is all that matters.
LEMMA TotalSame ==
    ASSUME NEW S, NEW f, NEW g, \A x \in S : f[x] = g[x]
    PROVE  Total(f, S) = Total(g, S)
<1>1. {{x} \X (1 .. f[x]) : x \in S} = {{x} \X (1 .. g[x]) : x \in S}
  OBVIOUS
<1>. QED
  BY <1>1 DEF Total

\* Sums of different things may be added.
LEMMA TotalAdds ==
    ASSUME NEW S, NEW T, IsFiniteSet(S), IsFiniteSet(T), S \cap T = {},
           NEW f, \A x \in S \cup T : f[x] \in Nat
    PROVE  Total(f, S \cup T) = Total(f, S) + Total(f, T)
<1>1. IsFiniteSet(Units(f, S)) /\ IsFiniteSet(Units(f, T))
  BY TotalType
<1>2. Units(f, S) \cap Units(f, T) = {}
  BY DEF Units
<1>3. Units(f, S \cup T) = Units(f, S) \cup Units(f, T)
  BY DEF Units
<1>4. Cardinality(Units(f, S \cup T)) =
         Cardinality(Units(f, S)) + Cardinality(Units(f, T)) - Cardinality(Units(f, S) \cap Units(f, T))
  BY <1>1, <1>3, FS_Union
<1>5. Cardinality(Units(f, S) \cap Units(f, T)) = 0
  BY <1>2, FS_EmptySet
<1>6. Cardinality(Units(f, S)) \in Nat /\ Cardinality(Units(f, T)) \in Nat
  BY <1>1, FS_CardinalityType
<1>. QED
  BY <1>4, <1>5, <1>6 DEF Total, Units

\* A part of a sum is no more than the whole.
LEMMA TotalPart ==
    ASSUME NEW T, IsFiniteSet(T), NEW S \in SUBSET T, NEW f, \A x \in T : f[x] \in Nat
    PROVE  /\ IsFiniteSet(S) /\ Total(f, S) \in Nat /\ Total(f, T) \in Nat
           /\ Total(f, T) = Total(f, S) + Total(f, T \ S)
           /\ Total(f, S) <= Total(f, T)
<1>1. IsFiniteSet(S) /\ IsFiniteSet(T \ S)
  BY FS_Subset
<1>2. S \cup (T \ S) = T /\ S \cap (T \ S) = {}
  OBVIOUS
<1>3. Total(f, S) \in Nat /\ Total(f, T) \in Nat /\ Total(f, T \ S) \in Nat
  BY <1>1, TotalType
<1>4. Total(f, S \cup (T \ S)) = Total(f, S) + Total(f, T \ S)
  BY <1>1, <1>2, TotalAdds
<1>5. Total(f, T) = Total(f, S) + Total(f, T \ S)
  BY <1>2, <1>4
<1>6. Total(f, S) <= Total(f, T)
  BY <1>3, <1>5
<1>. QED
  BY <1>1, <1>3, <1>5, <1>6

\* A set of numbers has a least one.
LEMMA LeastExists ==
    ASSUME NEW S \in SUBSET Nat, S # {}
    PROVE  \E n \in S : \A m \in S : n <= m
<1> DEFINE R == OpToRel(<, Nat)
<1>1. IsWellFoundedOn(R, Nat)
  BY NatLessThanWellFounded
<1>2. \A m, n \in Nat : m < n => <<m, n>> \in R
  BY DEF OpToRel
<1> HIDE DEF R
<1>3. PICK n \in S : \A m \in S : ~(<<m, n>> \in R)
  BY <1>1, WFMin
<1>4. \A m \in S : ~(m < n)
  BY <1>2, <1>3
<1>. QED
  BY <1>4

\* As long as there is an address, a new one is new.
LEMMA NewIsFree ==
    ASSUME NEW objects, Free(objects) # {}
    PROVE  NewAddr(objects) \in 1 .. MaxAddr /\ NewAddr(objects) \notin DOMAIN objects
<1>1. Free(objects) \in SUBSET Nat
  BY ZcoBooksAssumption DEF Free
<1>2. \E n \in Free(objects) : \A k \in Free(objects) : n <= k
  BY <1>1, LeastExists
<1>3. NewAddr(objects) \in Free(objects)
  BY <1>2 DEF NewAddr
<1>. QED
  BY <1>3 DEF Free

-----------------------------------------------------------------------------
(* Books: their types, and what citing does to them.                          *)

LienType == [file : File, len : Nat, refs : [Acct -> Int]]
RefType == [refs : [Acct -> Int], okay : BOOLEAN]
TypedBooks(b) ==
    /\ b = [file |-> b.file, lien |-> b.lien, zco |-> b.zco, occupancy |-> b.occupancy]
    /\ b.file = [f \in DOMAIN b.file |-> b.file[f]]
    /\ b.lien = [l \in DOMAIN b.lien |-> b.lien[l]]
    /\ b.zco = [z \in DOMAIN b.zco |-> b.zco[z]]
    /\ DOMAIN b.file \subseteq File /\ DOMAIN b.lien \subseteq 1 .. MaxAddr
    /\ DOMAIN b.zco \subseteq 1 .. MaxAddr
    /\ \A f \in DOMAIN b.file : b.file[f] \in RefType
    /\ \A l \in DOMAIN b.lien : b.lien[l] \in LienType
    /\ \A z \in DOMAIN b.zco : b.zco[z] \in [acct : Acct, liens : SUBSET DOMAIN b.lien]
    /\ b.occupancy \in [Acct -> Int]

\* What is occupied and referenced is what liens say.
Charged(b) ==
    \A a \in Acct :
        /\ b.occupancy[a] = Bytes(b, LiensIn(b, a))
        /\ \A f \in DOMAIN b.file :
              b.file[f].refs[a] = Cardinality({l \in LiensIn(b, a) : b.lien[l].file = f})

\* Each lien is cited by as many objects as it says, and its file is there.
Counted(b) ==
    \A l \in DOMAIN b.lien :
        /\ \A a \in Acct : b.lien[l].refs[a] = Citations(b, a, l)
        /\ b.lien[l].refs # NoRefs
        /\ b.lien[l].file \in DOMAIN b.file

AllNeeded(b) == \A f \in DOMAIN b.file : ~Unneeded(b.file[f])

\* Books that are charged and counted right balance.
LEMMA BalancedParts ==
    ASSUME NEW b
    PROVE  Balanced(b) <=> Charged(b) /\ Counted(b) /\ AllNeeded(b)
BY Zenon DEF Balanced, Charged, Counted, AllNeeded

\* What the liens of an account have to look like for a citation of some.
CitedWell(b, c, a, L, d) ==
    /\ DOMAIN c.lien = DOMAIN b.lien
    /\ \A l \in DOMAIN b.lien :
          /\ c.lien[l].file = b.lien[l].file /\ c.lien[l].len = b.lien[l].len
          /\ \A x \in Acct : c.lien[l].refs[x] =
                                IF l \in L /\ x = a THEN b.lien[l].refs[x] + d ELSE b.lien[l].refs[x]

Turned(b, a, L, d) == {l \in L : b.lien[l].refs[a] = IF d = 1 THEN 0 ELSE 1}

\* A lien that some object cites is there, and counts it.
LEMMA LienCited ==
    ASSUME NEW r \in LienType, NEW a \in Acct, NEW d \in Int
    PROVE  /\ [r EXCEPT !.refs[a] = @ + d] \in LienType
           /\ [r EXCEPT !.refs[a] = @ + d].file = r.file
           /\ [r EXCEPT !.refs[a] = @ + d].len = r.len
           /\ \A x \in Acct : [r EXCEPT !.refs[a] = @ + d].refs[x] =
                                IF x = a THEN r.refs[x] + d ELSE r.refs[x]
BY DEF LienType

\* Citing liens, or no longer citing them, counts what is cited by one more or less.
LEMMA CiteLiens ==
    ASSUME NEW b, TypedBooks(b), NEW a \in Acct, NEW L \in SUBSET DOMAIN b.lien, NEW d \in {1, -1},
           NEW c, c = Cite(b, a, L, d)
    PROVE  /\ CitedWell(b, c, a, L, d)
           /\ \A l \in DOMAIN b.lien : c.lien[l] \in LienType
           /\ c.lien = [l \in DOMAIN b.lien |-> c.lien[l]]
<1>1. \A l \in DOMAIN b.lien : b.lien[l] \in LienType
  BY DEF TypedBooks
<1>2. c.lien =
         [l \in DOMAIN b.lien |->
             IF l \in L THEN [b.lien[l] EXCEPT !.refs[a] = @ + d] ELSE b.lien[l]]
  BY DEF Cite, TypedBooks
<1>3. \A l \in DOMAIN b.lien : c.lien[l] =
             IF l \in L THEN [b.lien[l] EXCEPT !.refs[a] = @ + d] ELSE b.lien[l]
  BY <1>2
<1>4. DOMAIN c.lien = DOMAIN b.lien
  BY <1>2
<1>5. ASSUME NEW l \in DOMAIN b.lien
      PROVE  /\ c.lien[l] \in LienType
             /\ c.lien[l].file = b.lien[l].file
             /\ c.lien[l].len = b.lien[l].len
             /\ \A x \in Acct : c.lien[l].refs[x] =
                    IF l \in L /\ x = a THEN b.lien[l].refs[x] + d ELSE b.lien[l].refs[x]
  <2>1. b.lien[l] \in LienType /\ d \in Int
    BY <1>1
  <2>2. CASE l \in L
    <3>1. c.lien[l] = [b.lien[l] EXCEPT !.refs[a] = @ + d]
      BY <1>3, <2>2
    <3>. QED
      BY <2>1, <2>2, <3>1, LienCited
  <2>3. CASE l \notin L
    BY <1>3, <2>1, <2>3
  <2>. QED
    BY <2>2, <2>3
<1>. QED
  BY <1>2, <1>4, <1>5 DEF CitedWell

\* ... leaves the rest alone, and charges what an account cites for the first time.
LEMMA CiteRest ==
    ASSUME NEW b, TypedBooks(b), NEW a \in Acct, NEW L \in SUBSET DOMAIN b.lien, NEW d \in {1, -1},
           NEW c, c = Cite(b, a, L, d)
    PROVE  /\ c = [file |-> c.file, lien |-> c.lien, zco |-> c.zco, occupancy |-> c.occupancy]
           /\ c.zco = b.zco /\ DOMAIN c.file = DOMAIN b.file
           /\ c.file = [f \in DOMAIN b.file |-> c.file[f]]
           /\ DOMAIN c.occupancy = Acct /\ c.occupancy = [x \in Acct |-> c.occupancy[x]]
           /\ \A x \in Acct : c.occupancy[x] = IF x = a
                 THEN b.occupancy[x] + d * Bytes(b, Turned(b, a, L, d)) ELSE b.occupancy[x]
<1>1. b = [file |-> b.file, lien |-> b.lien, zco |-> b.zco, occupancy |-> b.occupancy]
  BY DEF TypedBooks
<1>2. /\ c.occupancy = [b.occupancy EXCEPT ![a] = @ + d * Bytes(b, Turned(b, a, L, d))]
      /\ c.zco = b.zco
  BY <1>1 DEF Cite, Turned
<1>3. c.file = [f \in DOMAIN b.file |->
          [b.file[f] EXCEPT !.refs[a] =
              @ + d * Cardinality({l \in Turned(b, a, L, d) : b.lien[l].file = f})]]
  BY <1>1 DEF Cite, Turned
<1>4. c = [file |-> c.file, lien |-> c.lien, zco |-> c.zco, occupancy |-> c.occupancy]
  BY <1>1 DEF Cite
<1>5. /\ DOMAIN c.occupancy = Acct /\ c.occupancy = [x \in Acct |-> c.occupancy[x]]
      /\ \A x \in Acct : c.occupancy[x] = IF x = a
            THEN b.occupancy[x] + d * Bytes(b, Turned(b, a, L, d)) ELSE b.occupancy[x]
  <2>1. b.occupancy \in [Acct -> Int]
    BY DEF TypedBooks
  <2>. QED
    BY <1>2, <2>1
<1>. QED
  BY <1>2, <1>3, <1>4, <1>5

OnFile(b, S, f) == {l \in S : b.lien[l].file = f}

\* ... and counts for a file what became, or ceased to be, of an account.
LEMMA CiteFiles ==
    ASSUME NEW b, TypedBooks(b), NEW a \in Acct, NEW L \in SUBSET DOMAIN b.lien, NEW d \in {1, -1},
           NEW c, c = Cite(b, a, L, d), NEW f \in DOMAIN b.file
    PROVE  /\ Cardinality(OnFile(b, Turned(b, a, L, d), f)) \in Nat /\ c.file[f] \in RefType
           /\ c.file[f].okay = b.file[f].okay
           /\ c.file[f].refs[a] = b.file[f].refs[a] + d * Cardinality(OnFile(b, Turned(b, a, L, d), f))
           /\ \A x \in Acct : x # a => c.file[f].refs[x] = b.file[f].refs[x]
<1> DEFINE S == OnFile(b, Turned(b, a, L, d), f)
           n == Cardinality(S)
<1>1. b.file[f] \in RefType
  BY DEF TypedBooks
<1>2. c.file[f] = [b.file[f] EXCEPT !.refs[a] = @ + d * n]
  BY DEF Cite, Turned, TypedBooks, OnFile
<1>3. IsFiniteSet(1 .. MaxAddr)
  BY ZcoBooksAssumption, FS_Interval
<1>4. S \subseteq 1 .. MaxAddr
  BY DEF Turned, TypedBooks, OnFile
<1>5. IsFiniteSet(S)
  BY <1>3, <1>4, FS_Subset
<1>6. n \in Nat
  BY <1>5, FS_CardinalityType
<1> HIDE DEF n
<1>7. d * n \in Int
  BY <1>6
<1>8. /\ c.file[f] \in RefType
      /\ c.file[f].okay = b.file[f].okay
      /\ c.file[f].refs[a] = b.file[f].refs[a] + d * n
      /\ \A x \in Acct : x # a => c.file[f].refs[x] = b.file[f].refs[x]
  BY <1>1, <1>2, <1>7 DEF RefType
<1>. QED
  BY <1>6, <1>8 DEF n

Lens(b) == [l \in DOMAIN b.lien |-> b.lien[l].len]

\* The bytes of liens are a sum of their lengths.
LEMMA BytesType ==
    ASSUME NEW b, TypedBooks(b), NEW S \in SUBSET DOMAIN b.lien
    PROVE  /\ IsFiniteSet(S) /\ Bytes(b, S) = Total(Lens(b), S) /\ Bytes(b, S) \in Nat
           /\ \A l \in S : Lens(b)[l] \in Nat
<1>1. IsFiniteSet(1 .. MaxAddr)
  BY ZcoBooksAssumption, FS_Interval
<1>2. IsFiniteSet(S)
  <2>1. S \subseteq 1 .. MaxAddr
    BY DEF TypedBooks
  <2>. QED
    BY <1>1, <2>1, FS_Subset
<1> DEFINE g == [l \in S |-> b.lien[l].len]
<1>3. \A l \in S : g[l] = Lens(b)[l] /\ Lens(b)[l] \in Nat
  BY DEF TypedBooks, LienType, Lens
<1>4. Bytes(b, S) = Total(g, S)
  BY DEF Bytes
<1> HIDE DEF g
<1>5. Total(g, S) = Total(Lens(b), S)
  BY <1>3, TotalSame
<1>6. Total(Lens(b), S) \in Nat
  BY <1>2, <1>3, TotalType
<1>. QED
  BY <1>2, <1>3, <1>4, <1>5, <1>6

Add(b, S, T, U) ==
           /\ Bytes(b, S) \in Nat /\ Bytes(b, T) \in Nat
           /\ Bytes(b, U) = Bytes(b, S) + Bytes(b, T)
           /\ \A f : /\ Cardinality(OnFile(b, S, f)) \in Nat
                     /\ Cardinality(OnFile(b, T, f)) \in Nat
                     /\ Cardinality(OnFile(b, U, f)) =
                           Cardinality(OnFile(b, S, f)) + Cardinality(OnFile(b, T, f))

\* What is charged for different liens may be added.
LEMMA ChargesAdd ==
    ASSUME NEW b, TypedBooks(b), NEW S \in SUBSET DOMAIN b.lien, NEW T \in SUBSET DOMAIN b.lien,
           S \cap T = {}, NEW U, U = S \cup T
    PROVE  Add(b, S, T, U)
<1>1. /\ IsFiniteSet(S) /\ Bytes(b, S) = Total(Lens(b), S) /\ Bytes(b, S) \in Nat
      /\ \A l \in S : Lens(b)[l] \in Nat
  BY BytesType
<1>2. /\ IsFiniteSet(T) /\ Bytes(b, T) = Total(Lens(b), T) /\ Bytes(b, T) \in Nat
      /\ \A l \in T : Lens(b)[l] \in Nat
  BY BytesType
<1>3. U \in SUBSET DOMAIN b.lien
  OBVIOUS
<1>4. Bytes(b, U) = Total(Lens(b), U)
  BY <1>3, BytesType
<1>5. Total(Lens(b), U) = Total(Lens(b), S) + Total(Lens(b), T)
  BY <1>1, <1>2, TotalAdds
<1>6. ASSUME NEW f
      PROVE  /\ Cardinality(OnFile(b, S, f)) \in Nat
             /\ Cardinality(OnFile(b, T, f)) \in Nat
             /\ Cardinality(OnFile(b, U, f)) =
                   Cardinality(OnFile(b, S, f)) + Cardinality(OnFile(b, T, f))
  <2>1. OnFile(b, S, f) \subseteq S /\ OnFile(b, T, f) \subseteq T
    BY DEF OnFile
  <2>2. IsFiniteSet(OnFile(b, S, f)) /\ IsFiniteSet(OnFile(b, T, f))
    BY <1>1, <1>2, <2>1, FS_Subset
  <2>3. OnFile(b, U, f) = OnFile(b, S, f) \cup OnFile(b, T, f)
    BY DEF OnFile
  <2>4. OnFile(b, S, f) \cap OnFile(b, T, f) = {}
    BY <2>1
  <2>5. /\ Cardinality(OnFile(b, S, f)) \in Nat /\ Cardinality(OnFile(b, T, f)) \in Nat
    BY <2>2, FS_CardinalityType
  <2>6. Cardinality(OnFile(b, S, f) \cap OnFile(b, T, f)) = 0
    BY <2>4, FS_EmptySet
  <2>7. Cardinality(OnFile(b, U, f)) =
          Cardinality(OnFile(b, S, f)) + Cardinality(OnFile(b, T, f))
            - Cardinality(OnFile(b, S, f) \cap OnFile(b, T, f))
    BY <2>2, <2>3, FS_Union
  <2>. QED
    BY <2>5, <2>6, <2>7
<1>. QED
  BY <1>1, <1>2, <1>4, <1>5, <1>6 DEF Add

\* Citing keeps the types.
LEMMA CitedTyped ==
    ASSUME NEW b, TypedBooks(b), NEW a \in Acct, NEW L \in SUBSET DOMAIN b.lien, NEW d \in {1, -1},
           NEW c, c = Cite(b, a, L, d)
    PROVE  TypedBooks(c)
<1> DEFINE T == Turned(b, a, L, d)
<1>1. /\ c = [file |-> c.file, lien |-> c.lien, zco |-> c.zco, occupancy |-> c.occupancy]
      /\ c.zco = b.zco /\ DOMAIN c.file = DOMAIN b.file
      /\ c.file = [f \in DOMAIN b.file |-> c.file[f]]
      /\ DOMAIN c.occupancy = Acct /\ c.occupancy = [x \in Acct |-> c.occupancy[x]]
      /\ \A x \in Acct : c.occupancy[x] = IF x = a THEN b.occupancy[x] + d * Bytes(b, T)
                                                    ELSE b.occupancy[x]
  BY CiteRest
<1>2. /\ DOMAIN c.lien = DOMAIN b.lien
      /\ \A l \in DOMAIN b.lien : c.lien[l] \in LienType
      /\ c.lien = [l \in DOMAIN b.lien |-> c.lien[l]]
  BY CiteLiens DEF CitedWell
<1>3. \A f \in DOMAIN b.file : c.file[f] \in RefType
  BY CiteFiles
<1>4. Bytes(b, T) \in Nat
  BY BytesType DEF Turned
<1> HIDE DEF T
<1>5. d * Bytes(b, T) \in Int
  BY <1>4
<1>6. c.occupancy \in [Acct -> Int]
  BY <1>1, <1>5 DEF TypedBooks
<1>. QED
  BY <1>1, <1>2, <1>3, <1>6 DEF TypedBooks

\* ... and what is charged remains what the liens say.
LEMMA CitedCharged ==
    ASSUME NEW b, TypedBooks(b), Charged(b),
           NEW a \in Acct, NEW L \in SUBSET DOMAIN b.lien, NEW d \in {1, -1},
           \A l \in DOMAIN b.lien : \A x \in Acct : b.lien[l].refs[x] >= 0,
           d = -1 => \A l \in L : b.lien[l].refs[a] >= 1,
           NEW c, c = Cite(b, a, L, d)
    PROVE  Charged(c)
<1> DEFINE T == Turned(b, a, L, d)
<1>1. CitedWell(b, c, a, L, d)
  BY CiteLiens
<1>2. TypedBooks(c)
  BY CitedTyped
<1>3. /\ c = [file |-> c.file, lien |-> c.lien, zco |-> c.zco, occupancy |-> c.occupancy]
      /\ c.zco = b.zco /\ DOMAIN c.file = DOMAIN b.file
      /\ c.file = [f \in DOMAIN b.file |-> c.file[f]]
      /\ DOMAIN c.occupancy = Acct /\ c.occupancy = [x \in Acct |-> c.occupancy[x]]
      /\ \A x \in Acct : c.occupancy[x] = IF x = a THEN b.occupancy[x] + d * Bytes(b, T)
                                                    ELSE b.occupancy[x]
  BY CiteRest
<1>4. \A f \in DOMAIN b.file :
          /\ c.file[f].refs[a] = b.file[f].refs[a] + d * Cardinality(OnFile(b, T, f))
          /\ \A x \in Acct : x # a => c.file[f].refs[x] = b.file[f].refs[x]
  BY CiteFiles
<1>5. /\ DOMAIN c.lien = DOMAIN b.lien
      /\ \A l \in DOMAIN b.lien : /\ c.lien[l].file = b.lien[l].file
                                  /\ c.lien[l].len = b.lien[l].len
                                  /\ b.lien[l].refs \in [Acct -> Int]
  BY <1>1 DEF CitedWell, TypedBooks, LienType
<1>6. \A S \in SUBSET DOMAIN b.lien : Bytes(c, S) = Bytes(b, S)
  <2>1. ASSUME NEW S \in SUBSET DOMAIN b.lien PROVE Bytes(c, S) = Bytes(b, S)
    <3>1. [l \in S |-> c.lien[l].len] = [l \in S |-> b.lien[l].len]
      BY <1>5
    <3>. QED
      BY <3>1 DEF Bytes
  <2>. QED
    BY <2>1
<1>7. \A S \in SUBSET DOMAIN b.lien : \A f : OnFile(c, S, f) = OnFile(b, S, f)
  BY <1>5 DEF OnFile
<1>8. \A x \in Acct : x # a => LiensIn(c, x) = LiensIn(b, x)
  BY <1>1, <1>5 DEF CitedWell, LiensIn
<1> HIDE DEF T
<1>9. /\ T \in SUBSET DOMAIN b.lien
      /\ \A x \in Acct : LiensIn(b, x) \in SUBSET DOMAIN b.lien
      /\ \A x \in Acct : LiensIn(c, x) \in SUBSET DOMAIN b.lien
  BY <1>5 DEF T, Turned, LiensIn
<1>10. \A x \in Acct : /\ b.occupancy[x] = Bytes(b, LiensIn(b, x))
                       /\ \A f \in DOMAIN b.file :
                             b.file[f].refs[x] = Cardinality(OnFile(b, LiensIn(b, x), f))
  BY DEF Charged, OnFile
<1>11. ASSUME NEW x \in Acct, x # a
       PROVE  /\ c.occupancy[x] = Bytes(c, LiensIn(c, x))
              /\ \A f \in DOMAIN c.file :
                    c.file[f].refs[x] = Cardinality(OnFile(c, LiensIn(c, x), f))
  <2>1. c.occupancy[x] = b.occupancy[x]
    BY <1>3, <1>11
  <2>2. LiensIn(c, x) = LiensIn(b, x) /\ LiensIn(b, x) \in SUBSET DOMAIN b.lien
    BY <1>8, <1>9, <1>11
  <2>3. c.occupancy[x] = Bytes(c, LiensIn(c, x))
    BY <1>6, <1>10, <2>1, <2>2
  <2>4. ASSUME NEW f \in DOMAIN c.file
        PROVE  c.file[f].refs[x] = Cardinality(OnFile(c, LiensIn(c, x), f))
    <3>1. f \in DOMAIN b.file
      BY <1>3
    <3>2. c.file[f].refs[x] = b.file[f].refs[x]
      BY <1>4, <1>11, <3>1
    <3>3. OnFile(c, LiensIn(c, x), f) = OnFile(b, LiensIn(b, x), f)
      BY <1>7, <2>2
    <3>. QED
      BY <1>10, <3>1, <3>2, <3>3
  <2>. QED
    BY <2>3, <2>4
<1>12. /\ c.occupancy[a] = Bytes(c, LiensIn(c, a))
       /\ \A f \in DOMAIN c.file :
             c.file[f].refs[a] = Cardinality(OnFile(c, LiensIn(c, a), f))
  <2>1. c.occupancy[a] = b.occupancy[a] + d * Bytes(b, T)
    BY <1>3
  <2>2. CASE d = 1
    <3>1. LiensIn(c, a) = LiensIn(b, a) \cup T /\ LiensIn(b, a) \cap T = {}
      BY <1>1, <1>5, <2>2 DEF CitedWell, LiensIn, Turned, T
    <3>2. LiensIn(b, a) \in SUBSET DOMAIN b.lien
      BY <1>9
    <3>3. Add(b, LiensIn(b, a), T, LiensIn(c, a))
      BY <1>9, <3>1, <3>2, ChargesAdd, Zenon
    <3>4. Bytes(c, LiensIn(c, a)) = Bytes(b, LiensIn(c, a))
      BY <1>6, <1>9
    <3>5. c.occupancy[a] = Bytes(c, LiensIn(c, a))
      BY <1>10, <2>1, <2>2, <3>3, <3>4 DEF Add
    <3>6. ASSUME NEW f \in DOMAIN c.file
          PROVE  c.file[f].refs[a] = Cardinality(OnFile(c, LiensIn(c, a), f))
      <4>1. f \in DOMAIN b.file
        BY <1>3
      <4>2. c.file[f].refs[a] = b.file[f].refs[a] + d * Cardinality(OnFile(b, T, f))
        BY <1>4, <4>1
      <4>3. OnFile(c, LiensIn(c, a), f) = OnFile(b, LiensIn(c, a), f)
        BY <1>7, <1>9
      <4>4. b.file[f].refs[a] = Cardinality(OnFile(b, LiensIn(b, a), f))
        BY <1>10, <4>1
      <4>. QED
        BY <2>2, <3>3, <4>2, <4>3, <4>4 DEF Add
    <3>. QED
      BY <3>5, <3>6
  <2>3. CASE d = -1
    <3>1. LiensIn(b, a) = LiensIn(c, a) \cup T /\ LiensIn(c, a) \cap T = {}
      BY <1>1, <1>5, <2>3 DEF CitedWell, LiensIn, Turned, T
    <3>2. LiensIn(c, a) \in SUBSET DOMAIN b.lien
      BY <1>9
    <3>3. Add(b, LiensIn(c, a), T, LiensIn(b, a))
      BY <1>9, <3>1, <3>2, ChargesAdd, Zenon
    <3>4. Bytes(c, LiensIn(c, a)) = Bytes(b, LiensIn(c, a))
      BY <1>6, <1>9
    <3>5. c.occupancy[a] = Bytes(c, LiensIn(c, a))
      BY <1>10, <2>1, <2>3, <3>3, <3>4 DEF Add
    <3>6. ASSUME NEW f \in DOMAIN c.file
          PROVE  c.file[f].refs[a] = Cardinality(OnFile(c, LiensIn(c, a), f))
      <4>1. f \in DOMAIN b.file
        BY <1>3
      <4>2. c.file[f].refs[a] = b.file[f].refs[a] + d * Cardinality(OnFile(b, T, f))
        BY <1>4, <4>1
      <4>3. OnFile(c, LiensIn(c, a), f) = OnFile(b, LiensIn(c, a), f)
        BY <1>7, <1>9
      <4>4. b.file[f].refs[a] = Cardinality(OnFile(b, LiensIn(b, a), f))
        BY <1>10, <4>1
      <4>. QED
        BY <2>3, <3>3, <4>2, <4>3, <4>4 DEF Add
    <3>. QED
      BY <3>5, <3>6
  <2>. QED
    BY <2>2, <2>3
<1>. QED
  BY <1>11, <1>12 DEF Charged, OnFile

-----------------------------------------------------------------------------
(* Objects, extents and copies.                                              *)

BooksOK(b) == TypedBooks(b) /\ Charged(b) /\ Counted(b) /\ AllNeeded(b)

Citing(b, a, l) == {z \in DOMAIN b.zco : b.zco[z].acct = a /\ l \in b.zco[z].liens}

\* Citations of typed books can be counted.
LEMMA CitingFinite ==
    ASSUME NEW b, TypedBooks(b), NEW a, NEW l
    PROVE  /\ IsFiniteSet(Citing(b, a, l)) /\ Citations(b, a, l) = Cardinality(Citing(b, a, l))
           /\ Citations(b, a, l) \in Nat /\ (Citations(b, a, l) = 0 <=> Citing(b, a, l) = {})
<1>1. IsFiniteSet(1 .. MaxAddr)
  BY ZcoBooksAssumption, FS_Interval
<1>2. Citing(b, a, l) \subseteq 1 .. MaxAddr
  BY DEF TypedBooks, Citing
<1>3. IsFiniteSet(Citing(b, a, l))
  BY <1>1, <1>2, FS_Subset
<1>4. Citations(b, a, l) = Cardinality(Citing(b, a, l))
  BY DEF Citations, Citing
<1>5. Cardinality(Citing(b, a, l)) \in Nat
  BY <1>3, FS_CardinalityType
<1>6. Cardinality(Citing(b, a, l)) = 0 <=> Citing(b, a, l) = {}
  BY <1>3, FS_EmptySet
<1>. QED
  BY <1>3, <1>4, <1>5, <1>6

\* The counts of good books are numbers, and the counts of a file tell
\* whether a lien cites it.
LEMMA CountsType ==
    ASSUME NEW b, TypedBooks(b), Charged(b), Counted(b)
    PROVE  /\ \A l \in DOMAIN b.lien : \A a \in Acct :
                 /\ b.lien[l].refs[a] \in Nat /\ b.lien[l].refs[a] >= 0
                 /\ b.lien[l].refs[a] = Cardinality(Citing(b, a, l))
                 /\ (b.lien[l].refs[a] = 0 <=> Citing(b, a, l) = {})
           /\ b.occupancy \in [Acct -> Nat]
<1>1. ASSUME NEW l \in DOMAIN b.lien, NEW a \in Acct
      PROVE  /\ b.lien[l].refs[a] \in Nat /\ b.lien[l].refs[a] >= 0
             /\ b.lien[l].refs[a] = Cardinality(Citing(b, a, l))
             /\ (b.lien[l].refs[a] = 0 <=> Citing(b, a, l) = {})
  <2>1. b.lien[l].refs[a] = Citations(b, a, l)
    BY DEF Counted
  <2>2. /\ Citations(b, a, l) = Cardinality(Citing(b, a, l))
        /\ Citations(b, a, l) \in Nat /\ (Citations(b, a, l) = 0 <=> Citing(b, a, l) = {})
    BY CitingFinite
  <2>. QED
    BY <2>1, <2>2
<1>2. ASSUME NEW a \in Acct PROVE b.occupancy[a] \in Nat
  <2>1. LiensIn(b, a) \in SUBSET DOMAIN b.lien
    BY DEF LiensIn
  <2>2. Bytes(b, LiensIn(b, a)) \in Nat
    BY <2>1, BytesType
  <2>. QED
    BY <2>2 DEF Charged
<1>. QED
  BY <1>1, <1>2 DEF TypedBooks

\* What a file counts is a number.
LEMMA FileCounts ==
    ASSUME NEW b, TypedBooks(b), Charged(b), NEW f \in DOMAIN b.file, NEW a \in Acct
    PROVE  /\ b.file[f].refs[a] \in Nat
           /\ (b.file[f].refs[a] = 0 <=> OnFile(b, LiensIn(b, a), f) = {})
<1>1. LiensIn(b, a) \in SUBSET DOMAIN b.lien
  BY DEF LiensIn
<1>2. IsFiniteSet(LiensIn(b, a))
  BY <1>1, BytesType
<1>3. OnFile(b, LiensIn(b, a), f) \subseteq LiensIn(b, a)
  BY DEF OnFile
<1>4. IsFiniteSet(OnFile(b, LiensIn(b, a), f))
  BY <1>2, <1>3, FS_Subset
<1>5. /\ Cardinality(OnFile(b, LiensIn(b, a), f)) \in Nat
      /\ (Cardinality(OnFile(b, LiensIn(b, a), f)) = 0 <=> OnFile(b, LiensIn(b, a), f) = {})
  BY <1>4, FS_CardinalityType, FS_EmptySet
<1>6. b.file[f].refs[a] = Cardinality(OnFile(b, LiensIn(b, a), f))
  BY DEF Charged, OnFile
<1>. QED
  BY <1>5, <1>6

\* The books of a new node.
LEMMA BlankOK == BooksOK(Blank)
<1>1. TypedBooks(Blank)
  BY DEF TypedBooks, Blank, RefType, NoRefs
<1>2. \A a \in Acct : LiensIn(Blank, a) = {}
  BY DEF LiensIn, Blank
<1>3. Bytes(Blank, {}) = 0
  BY TotalNothing DEF Bytes
<1>4. \A f : Cardinality({l \in {} : Blank.lien[l].file = f}) = 0
  <2>1. \A f : {l \in {} : Blank.lien[l].file = f} = {}
    OBVIOUS
  <2>. QED
    BY <2>1, FS_EmptySet
<1>5. Charged(Blank)
  <2>1. ASSUME NEW a \in Acct
        PROVE  /\ Blank.occupancy[a] = Bytes(Blank, LiensIn(Blank, a))
               /\ \A f \in DOMAIN Blank.file : Blank.file[f].refs[a] =
                     Cardinality({l \in LiensIn(Blank, a) : Blank.lien[l].file = f})
    <3>1. LiensIn(Blank, a) = {}
      BY <1>2
    <3>2. Blank.occupancy[a] = 0 /\ \A f \in DOMAIN Blank.file : Blank.file[f].refs[a] = 0
      BY DEF Blank, NoRefs
    <3>. QED
      BY <1>3, <1>4, <3>1, <3>2
  <2>. QED
    BY <2>1 DEF Charged
<1>6. Counted(Blank)
  BY DEF Counted, Blank
<1>7. AllNeeded(Blank)
  <2>1. \A f \in DOMAIN Blank.file : ~Blank.file[f].okay
    BY DEF Blank
  <2>. QED
    BY <2>1 DEF AllNeeded, Unneeded
<1>. QED
  BY <1>1, <1>5, <1>6, <1>7 DEF BooksOK

\* Books whose liens, files and occupancy are the same, and whose objects
\* cite the same, are as good.
LEMMA SameCharges ==
    ASSUME NEW b, TypedBooks(b), Charged(b), NEW c,
           DOMAIN b.lien \subseteq DOMAIN c.lien,
           \A l \in DOMAIN b.lien : c.lien[l] = b.lien[l],
           \A l \in DOMAIN c.lien \ DOMAIN b.lien : c.lien[l].refs = NoRefs,
           c.file = b.file, c.occupancy = b.occupancy
    PROVE  Charged(c)
<1>1. ASSUME NEW a \in Acct
      PROVE  /\ c.occupancy[a] = Bytes(c, LiensIn(c, a))
             /\ \A f \in DOMAIN c.file :
                   c.file[f].refs[a] = Cardinality({l \in LiensIn(c, a) : c.lien[l].file = f})
  <2>1. LiensIn(c, a) = LiensIn(b, a)
    BY DEF LiensIn, NoRefs
  <2>2. \A l \in LiensIn(b, a) : c.lien[l] = b.lien[l]
    BY DEF LiensIn
  <2>3. [l \in LiensIn(b, a) |-> c.lien[l].len] = [l \in LiensIn(b, a) |-> b.lien[l].len]
    BY <2>2
  <2>4. Bytes(c, LiensIn(c, a)) = Bytes(b, LiensIn(b, a))
    BY <2>1, <2>3 DEF Bytes
  <2>5. ASSUME NEW f \in DOMAIN c.file
        PROVE  c.file[f].refs[a] = Cardinality({l \in LiensIn(c, a) : c.lien[l].file = f})
    <3>1. {l \in LiensIn(c, a) : c.lien[l].file = f} = {l \in LiensIn(b, a) : b.lien[l].file = f}
      BY <2>1, <2>2
    <3>2. b.file[f].refs[a] = Cardinality({l \in LiensIn(b, a) : b.lien[l].file = f})
      BY DEF Charged
    <3>. QED
      BY <3>1, <3>2
  <2>6. b.occupancy[a] = Bytes(b, LiensIn(b, a))
    BY DEF Charged
  <2>. QED
    BY <2>4, <2>5, <2>6
<1>. QED
  BY <1>1 DEF Charged

\* A new object cites nothing.
LEMMA CreateZcoOK ==
    ASSUME NEW b, BooksOK(b), NEW z \in 1 .. MaxAddr, z \notin DOMAIN b.zco, NEW a \in Acct,
           NEW c, c = CreateZco(b, z, a)
    PROVE  /\ BooksOK(c) /\ DOMAIN c.zco = DOMAIN b.zco \cup {z}
           /\ c.zco[z] = [acct |-> a, liens |-> {}]
           /\ \A y \in DOMAIN b.zco : c.zco[y] = b.zco[y]
           /\ c.lien = b.lien /\ c.file = b.file /\ c.occupancy = b.occupancy
<1>1. TypedBooks(b) /\ Charged(b) /\ Counted(b) /\ AllNeeded(b)
  BY DEF BooksOK
<1>2. c = [file |-> b.file, lien |-> b.lien, zco |-> With(b.zco, z, [acct |-> a, liens |-> {}]),
           occupancy |-> b.occupancy]
  BY <1>1 DEF TypedBooks, CreateZco
<1>3. /\ DOMAIN c.zco = DOMAIN b.zco \cup {z} /\ c.zco[z] = [acct |-> a, liens |-> {}]
      /\ \A y \in DOMAIN b.zco : c.zco[y] = b.zco[y]
      /\ c.zco = [y \in DOMAIN c.zco |-> c.zco[y]]
      /\ c.lien = b.lien /\ c.file = b.file /\ c.occupancy = b.occupancy
      /\ c = [file |-> c.file, lien |-> c.lien, zco |-> c.zco, occupancy |-> c.occupancy]
  BY <1>2 DEF With
<1>4. TypedBooks(c)
  <2>1. \A y \in DOMAIN c.zco : c.zco[y] \in [acct : Acct, liens : SUBSET DOMAIN c.lien]
    BY <1>1, <1>3 DEF TypedBooks
  <2>2. DOMAIN c.zco \subseteq 1 .. MaxAddr
    BY <1>1, <1>3 DEF TypedBooks
  <2>. QED
    BY <1>1, <1>3, <2>1, <2>2 DEF TypedBooks
<1>5. Charged(c)
  BY <1>1, <1>3, SameCharges
<1>7. ASSUME NEW x, NEW l PROVE Citations(c, x, l) = Citations(b, x, l)
  <2>1. Citing(c, x, l) = Citing(b, x, l)
    BY <1>3 DEF Citing
  <2>. QED
    BY <2>1 DEF Citations, Citing
<1>8. Counted(c) /\ AllNeeded(c)
  BY <1>1, <1>3, <1>7 DEF Counted, AllNeeded
<1>. QED
  BY <1>3, <1>4, <1>5, <1>8 DEF BooksOK

\* Files that are needed still are when they are cited once more.
LEMMA CitedNeeded ==
    ASSUME NEW b, TypedBooks(b), Charged(b), AllNeeded(b),
           NEW a \in Acct, NEW L \in SUBSET DOMAIN b.lien,
           NEW c, c = Cite(b, a, L, 1)
    PROVE  AllNeeded(c)
<1>1. DOMAIN c.file = DOMAIN b.file
  BY DEF Cite
<1>2. ASSUME NEW f \in DOMAIN b.file, Unneeded(c.file[f]) PROVE FALSE
  <2>1. 1 \in {1, -1}
    OBVIOUS
  <2>2. /\ Cardinality(OnFile(b, Turned(b, a, L, 1), f)) \in Nat
        /\ c.file[f].okay = b.file[f].okay
        /\ c.file[f].refs[a] = b.file[f].refs[a] + 1 * Cardinality(OnFile(b, Turned(b, a, L, 1), f))
        /\ \A x \in Acct : x # a => c.file[f].refs[x] = b.file[f].refs[x]
    BY <2>1, CiteFiles
  <2>3. \A x \in Acct : b.file[f].refs[x] \in Nat
    BY FileCounts
  <2>4. \A x \in Acct : c.file[f].refs[x] = 0
    BY <1>2 DEF Unneeded
  <2>5. b.file[f].refs[a] = 0
    BY <2>2, <2>3, <2>4
  <2>6. \A x \in Acct : b.file[f].refs[x] = 0
    BY <2>2, <2>4, <2>5
  <2>7. b.file[f].okay
    BY <1>2, <2>2 DEF Unneeded
  <2>8. Unneeded(b.file[f])
    BY <2>6, <2>7 DEF Unneeded
  <2>. QED
    BY <2>8 DEF AllNeeded
<1>. QED
  BY <1>1, <1>2 DEF AllNeeded

\* What a citation does to the files, and what it may do to what is occupied.
LEMMA CitedOnce ==
    ASSUME NEW b, TypedBooks(b), Charged(b), NEW a \in Acct, NEW L \in SUBSET DOMAIN b.lien,
           \A l \in DOMAIN b.lien : \A x \in Acct : b.lien[l].refs[x] >= 0,
           NEW c, c = Cite(b, a, L, 1)
    PROVE  /\ TypedBooks(c) /\ Charged(c) /\ c.zco = b.zco /\ DOMAIN c.file = DOMAIN b.file
           /\ \A f \in DOMAIN b.file : c.file[f].okay = b.file[f].okay
           /\ CitedWell(b, c, a, L, 1)
           /\ \A x \in Acct : c.occupancy[x] = IF x = a THEN b.occupancy[x] + Bytes(b, Turned(b, a, L, 1))
                                                        ELSE b.occupancy[x]
<1>1. 1 \in {1, -1} /\ ~(1 = -1)
  OBVIOUS
<1>2. TypedBooks(c)
  BY <1>1, CitedTyped
<1>3. Charged(c)
  BY <1>1, CitedCharged
<1>4. /\ c = [file |-> c.file, lien |-> c.lien, zco |-> c.zco, occupancy |-> c.occupancy]
      /\ c.zco = b.zco /\ DOMAIN c.file = DOMAIN b.file
      /\ c.file = [f \in DOMAIN b.file |-> c.file[f]]
      /\ DOMAIN c.occupancy = Acct /\ c.occupancy = [x \in Acct |-> c.occupancy[x]]
      /\ \A x \in Acct : c.occupancy[x] = IF x = a
             THEN b.occupancy[x] + 1 * Bytes(b, Turned(b, a, L, 1)) ELSE b.occupancy[x]
  BY <1>1, CiteRest
<1>5. \A f \in DOMAIN b.file : c.file[f].okay = b.file[f].okay
  BY <1>1, CiteFiles
<1>6. CitedWell(b, c, a, L, 1)
  BY <1>1, CiteLiens
<1>7. Bytes(b, Turned(b, a, L, 1)) \in Nat
  BY BytesType DEF Turned
<1>. QED
  BY <1>2, <1>3, <1>4, <1>5, <1>6, <1>7

\* An extent is charged once, by its length.
LEMMA AppendExtentOK ==
    ASSUME NEW b, BooksOK(b), Free(b.lien) # {}, NEW z \in DOMAIN b.zco,
           NEW f \in DOMAIN b.file, NEW len \in Nat,
           NEW c, c = AppendExtent(b, z, f, len)
    PROVE  /\ BooksOK(c) /\ DOMAIN c.zco = DOMAIN b.zco
           /\ \A y \in DOMAIN b.zco : c.zco[y].acct = b.zco[y].acct
           /\ DOMAIN c.file = DOMAIN b.file
           /\ \A g \in DOMAIN b.file : c.file[g].okay = b.file[g].okay
           /\ \A x \in Acct : x # b.zco[z].acct => c.occupancy[x] = b.occupancy[x]
           /\ c.occupancy[b.zco[z].acct] = b.occupancy[b.zco[z].acct] + len
<1> DEFINE l == NewAddr(b.lien)
           a == b.zco[z].acct
           r == [file |-> f, len |-> len, refs |-> NoRefs]
           n == [b EXCEPT !.lien = With(@, l, r), !.zco[z].liens = @ \cup {l}]
<1>1. TypedBooks(b) /\ Charged(b) /\ Counted(b) /\ AllNeeded(b)
  BY DEF BooksOK
<1>2. l \in 1 .. MaxAddr /\ l \notin DOMAIN b.lien
  BY NewIsFree
<1>3. a \in Acct
  BY <1>1 DEF TypedBooks
<1>4. c = Cite(n, a, {l}, 1)
  BY DEF AppendExtent
<1>5. n = [file |-> b.file, lien |-> With(b.lien, l, r),
           zco |-> [b.zco EXCEPT ![z].liens = @ \cup {l}], occupancy |-> b.occupancy]
  <2>1. b = [file |-> b.file, lien |-> b.lien, zco |-> b.zco, occupancy |-> b.occupancy]
    BY <1>1 DEF TypedBooks
  <2> DEFINE w == With(b.lien, l, r)
             v == [b.zco EXCEPT ![z].liens = @ \cup {l}]
  <2>2. n = [b EXCEPT !.lien = w, !.zco = v]
    BY <2>1
  <2> HIDE DEF w, v, n
  <2>3. n = [file |-> b.file, lien |-> w, zco |-> v, occupancy |-> b.occupancy]
    BY <2>1, <2>2
  <2>. QED
    BY <2>3 DEF w, v
<1> HIDE DEF n, l, a
<1>6. /\ n = [file |-> n.file, lien |-> n.lien, zco |-> n.zco, occupancy |-> n.occupancy]
      /\ n.file = b.file /\ n.occupancy = b.occupancy
      /\ n.lien = With(b.lien, l, r) /\ n.zco = [b.zco EXCEPT ![z].liens = @ \cup {l}]
  BY <1>5
<1>7. /\ DOMAIN n.lien = DOMAIN b.lien \cup {l} /\ n.lien[l] = r
      /\ \A k \in DOMAIN b.lien : n.lien[k] = b.lien[k]
      /\ n.lien = [k \in DOMAIN n.lien |-> n.lien[k]]
  BY <1>2, <1>6 DEF With
<1>8. r \in LienType
  BY <1>1 DEF LienType, TypedBooks, NoRefs
<1>9. /\ DOMAIN n.zco = DOMAIN b.zco /\ n.zco = [y \in DOMAIN n.zco |-> n.zco[y]]
      /\ \A y \in DOMAIN b.zco : /\ n.zco[y].acct = b.zco[y].acct
                                 /\ n.zco[y].liens = IF y = z THEN b.zco[y].liens \cup {l}
                                                              ELSE b.zco[y].liens
                                 /\ n.zco[y] \in [acct : Acct, liens : SUBSET DOMAIN n.lien]
  <2>1. DOMAIN n.zco = DOMAIN b.zco /\ n.zco = [y \in DOMAIN n.zco |-> n.zco[y]]
    BY <1>1, <1>6 DEF TypedBooks
  <2>2. ASSUME NEW y \in DOMAIN b.zco
        PROVE  /\ n.zco[y].acct = b.zco[y].acct
               /\ n.zco[y].liens = IF y = z THEN b.zco[y].liens \cup {l} ELSE b.zco[y].liens
               /\ n.zco[y] \in [acct : Acct, liens : SUBSET DOMAIN n.lien]
    <3>1. b.zco[y] \in [acct : Acct, liens : SUBSET DOMAIN b.lien]
      BY <1>1 DEF TypedBooks
    <3>2. n.zco[y] = IF y = z THEN [b.zco[y] EXCEPT !.liens = @ \cup {l}] ELSE b.zco[y]
      BY <1>6, <1>1 DEF TypedBooks
    <3>. QED
      BY <1>7, <3>1, <3>2
  <2>. QED
    BY <2>1, <2>2
<1>10. TypedBooks(n)
  <2>1. DOMAIN n.lien \subseteq 1 .. MaxAddr
    BY <1>1, <1>2, <1>7 DEF TypedBooks
  <2>2. \A k \in DOMAIN n.lien : n.lien[k] \in LienType
    BY <1>1, <1>7, <1>8 DEF TypedBooks
  <2>. QED
    BY <1>1, <1>6, <1>7, <1>9, <2>1, <2>2 DEF TypedBooks
<1>11. Charged(n)
  <2>1. n.lien[l].refs = NoRefs
    BY <1>7
  <2>2. \A k \in DOMAIN n.lien \ DOMAIN b.lien : n.lien[k].refs = NoRefs
    BY <1>7, <2>1
  <2>3. DOMAIN b.lien \subseteq DOMAIN n.lien
    BY <1>7
  <2>. QED
    BY <1>1, <1>6, <1>7, <2>2, <2>3, SameCharges
<1>12. \A k \in DOMAIN b.lien : \A x \in Acct :
            /\ b.lien[k].refs[x] \in Nat /\ b.lien[k].refs[x] = Cardinality(Citing(b, x, k))
  BY <1>1, CountsType
<1>13. \A k \in DOMAIN n.lien : \A x \in Acct : n.lien[k].refs[x] >= 0
  BY <1>7, <1>12 DEF NoRefs
<1>14. {l} \in SUBSET DOMAIN n.lien
  BY <1>7
<1>15. /\ TypedBooks(c) /\ Charged(c) /\ c.zco = n.zco /\ DOMAIN c.file = DOMAIN n.file
       /\ \A g \in DOMAIN n.file : c.file[g].okay = n.file[g].okay
       /\ CitedWell(n, c, a, {l}, 1)
       /\ \A x \in Acct : c.occupancy[x] = IF x = a THEN n.occupancy[x] + Bytes(n, Turned(n, a, {l}, 1))
                                                    ELSE n.occupancy[x]
  BY <1>3, <1>4, <1>10, <1>11, <1>13, <1>14, CitedOnce
<1>16. AllNeeded(c)
  <2>1. AllNeeded(n)
    BY <1>1, <1>6 DEF AllNeeded
  <2>. QED
    BY <1>3, <1>4, <1>10, <1>11, <1>14, <2>1, CitedNeeded
<1>17. Bytes(n, Turned(n, a, {l}, 1)) = len
  <2>1. Turned(n, a, {l}, 1) = {l}
    BY <1>3, <1>7 DEF Turned, NoRefs
  <2>2. Lens(n)[l] = len
    BY <1>7 DEF Lens
  <2>3. Bytes(n, {l}) = Total(Lens(n), {l})
    BY <1>10, <1>14, BytesType
  <2>4. Total(Lens(n), {l}) = Lens(n)[l]
    BY <2>2, TotalOne
  <2>. QED
    BY <2>1, <2>2, <2>3, <2>4
<1>18. Counted(c)
  <2>1. ASSUME NEW k \in DOMAIN b.lien
        PROVE  /\ \A x \in Acct : c.lien[k].refs[x] = Citations(c, x, k)
               /\ c.lien[k].refs # NoRefs /\ c.lien[k].file \in DOMAIN c.file
    <3>1. k # l /\ k \in DOMAIN n.lien
      BY <1>2, <1>7
    <3>2. c.lien[k].file = b.lien[k].file /\ \A x \in Acct : c.lien[k].refs[x] = b.lien[k].refs[x]
      BY <1>7, <1>15, <3>1 DEF CitedWell
    <3>3. ASSUME NEW x \in Acct PROVE c.lien[k].refs[x] = Citations(c, x, k)
      <4>1. Citing(c, x, k) = Citing(b, x, k)
        BY <1>9, <1>15, <3>1 DEF Citing
      <4>. QED
        BY <1>12, <3>2, <4>1 DEF Citations, Citing
    <3>4. b.lien[k].refs # NoRefs /\ b.lien[k].file \in DOMAIN b.file
      BY <1>1 DEF Counted
    <3>5. b.lien[k].refs \in [Acct -> Int]
      BY <1>1 DEF TypedBooks, LienType
    <3>6. \E x \in Acct : b.lien[k].refs[x] # 0
      BY <3>4, <3>5 DEF NoRefs
    <3>7. c.lien[k].refs # NoRefs
      BY <3>2, <3>6 DEF NoRefs
    <3>. QED
      BY <1>6, <1>15, <3>2, <3>3, <3>4, <3>7
  <2>2. /\ \A x \in Acct : c.lien[l].refs[x] = Citations(c, x, l)
        /\ c.lien[l].refs # NoRefs /\ c.lien[l].file \in DOMAIN c.file
    <3>1. c.lien[l].file = f /\ \A x \in Acct : c.lien[l].refs[x] = IF x = a THEN 1 ELSE 0
      BY <1>7, <1>15 DEF CitedWell, NoRefs
    <3>2. ASSUME NEW x \in Acct PROVE c.lien[l].refs[x] = Citations(c, x, l)
      <4>1. \A y \in DOMAIN b.zco : l \notin b.zco[y].liens
        BY <1>1, <1>2 DEF TypedBooks
      <4>5. \A y \in DOMAIN b.zco : l \in c.zco[y].liens <=> y = z
        BY <1>9, <1>15, <4>1
      <4>6. Citing(c, x, l) = {y \in DOMAIN b.zco : b.zco[y].acct = x /\ y = z}
        <5>1. /\ DOMAIN c.zco = DOMAIN b.zco
              /\ \A y \in DOMAIN b.zco : c.zco[y].acct = b.zco[y].acct
          BY <1>9, <1>15
        <5>. QED
          BY <4>5, <5>1 DEF Citing
      <4>2. Citing(c, x, l) = IF x = a THEN {z} ELSE {}
        BY <4>6 DEF a
      <4>3. Cardinality({z}) = 1 /\ Cardinality({}) = 0
        BY FS_Singleton, FS_EmptySet
      <4>4. Citations(c, x, l) = Cardinality(Citing(c, x, l))
        BY DEF Citations, Citing
      <4>. QED
        BY <3>1, <4>2, <4>3, <4>4
    <3>3. c.lien[l].refs # NoRefs
      BY <1>3, <3>1 DEF NoRefs
    <3>. QED
      BY <1>6, <1>15, <3>1, <3>2, <3>3
  <2>3. DOMAIN c.lien = DOMAIN b.lien \cup {l}
    BY <1>7, <1>15 DEF CitedWell
  <2>. QED
    BY <2>1, <2>2, <2>3 DEF Counted
<1>19. BooksOK(c)
  BY <1>15, <1>16, <1>18 DEF BooksOK
<1>20. /\ \A x \in Acct : x # a => c.occupancy[x] = b.occupancy[x]
       /\ c.occupancy[a] = b.occupancy[a] + len
  BY <1>3, <1>6, <1>15, <1>17
<1>. QED
  BY <1>6, <1>9, <1>15, <1>19, <1>20 DEF a

\* A copy costs no more than the length of its source, and nothing if it is
\* in the same account.
LEMMA CopyZcoOK ==
    ASSUME NEW b, BooksOK(b), NEW z \in 1 .. MaxAddr, z \notin DOMAIN b.zco,
           NEW s \in DOMAIN b.zco, NEW a \in Acct,
           NEW c, c = CopyZco(b, z, s, a)
    PROVE  /\ BooksOK(c) /\ DOMAIN c.zco = DOMAIN b.zco \cup {z}
           /\ \A y \in DOMAIN b.zco : c.zco[y].acct = b.zco[y].acct
           /\ c.zco[z].acct = a
           /\ DOMAIN c.file = DOMAIN b.file
           /\ \A g \in DOMAIN b.file : c.file[g].okay = b.file[g].okay
           /\ \A x \in Acct : x # a => c.occupancy[x] = b.occupancy[x]
           /\ LengthOf(b, s) \in Nat
           /\ c.occupancy[a] <= b.occupancy[a] + LengthOf(b, s)
           /\ b.zco[s].acct = a => c.occupancy[a] = b.occupancy[a]
<1> DEFINE L == b.zco[s].liens
           w == With(b.zco, z, [acct |-> a, liens |-> L])
           n == [b EXCEPT !.zco = w]
<1>1. TypedBooks(b) /\ Charged(b) /\ Counted(b) /\ AllNeeded(b)
  BY DEF BooksOK
<1>2. L \in SUBSET DOMAIN b.lien
  BY <1>1 DEF TypedBooks
<1>3. c = Cite(n, a, L, 1)
  BY DEF CopyZco
<1>4. n = [file |-> b.file, lien |-> b.lien, zco |-> w, occupancy |-> b.occupancy]
  <2>1. b = [file |-> b.file, lien |-> b.lien, zco |-> b.zco, occupancy |-> b.occupancy]
    BY <1>1 DEF TypedBooks
  <2> HIDE DEF w
  <2>. QED
    BY <2>1
<1> HIDE DEF n, w
<1>5. /\ n = [file |-> n.file, lien |-> n.lien, zco |-> n.zco, occupancy |-> n.occupancy]
      /\ n.file = b.file /\ n.occupancy = b.occupancy /\ n.lien = b.lien /\ n.zco = w
  BY <1>4
<1>6. /\ DOMAIN n.zco = DOMAIN b.zco \cup {z} /\ n.zco[z] = [acct |-> a, liens |-> L]
      /\ \A y \in DOMAIN b.zco : n.zco[y] = b.zco[y]
      /\ n.zco = [y \in DOMAIN n.zco |-> n.zco[y]]
  BY <1>5 DEF With, w
<1> HIDE DEF L
<1>7. TypedBooks(n)
  <2>1. \A y \in DOMAIN n.zco : n.zco[y] \in [acct : Acct, liens : SUBSET DOMAIN n.lien]
    BY <1>1, <1>2, <1>5, <1>6 DEF TypedBooks
  <2>2. DOMAIN n.zco \subseteq 1 .. MaxAddr
    BY <1>1, <1>6 DEF TypedBooks
  <2>. QED
    BY <1>1, <1>5, <1>6, <2>1, <2>2 DEF TypedBooks
<1>8. Charged(n)
  BY <1>1, <1>5, SameCharges
<1>9. \A k \in DOMAIN b.lien : \A x \in Acct :
          /\ b.lien[k].refs[x] \in Nat /\ b.lien[k].refs[x] >= 0
          /\ b.lien[k].refs[x] = Cardinality(Citing(b, x, k))
          /\ (b.lien[k].refs[x] = 0 <=> Citing(b, x, k) = {})
  BY <1>1, CountsType
<1>10. \A k \in DOMAIN n.lien : \A x \in Acct : n.lien[k].refs[x] >= 0
  BY <1>5, <1>9
<1>11. L \in SUBSET DOMAIN n.lien
  BY <1>2, <1>5
<1>12. /\ TypedBooks(c) /\ Charged(c) /\ c.zco = n.zco /\ DOMAIN c.file = DOMAIN n.file
       /\ \A g \in DOMAIN n.file : c.file[g].okay = n.file[g].okay
       /\ CitedWell(n, c, a, L, 1)
       /\ \A x \in Acct : c.occupancy[x] = IF x = a THEN n.occupancy[x] + Bytes(n, Turned(n, a, L, 1))
                                                    ELSE n.occupancy[x]
  BY <1>3, <1>7, <1>8, <1>10, <1>11, CitedOnce
<1>13. AllNeeded(c)
  <2>1. AllNeeded(n)
    BY <1>1, <1>5 DEF AllNeeded
  <2>. QED
    BY <1>3, <1>7, <1>8, <1>11, <2>1, CitedNeeded
<1>14. Counted(c)
  <2>1. ASSUME NEW k \in DOMAIN b.lien
        PROVE  /\ \A x \in Acct : c.lien[k].refs[x] = Citations(c, x, k)
               /\ c.lien[k].refs # NoRefs /\ c.lien[k].file \in DOMAIN c.file
    <3>1. /\ c.lien[k].file = b.lien[k].file
          /\ \A x \in Acct : c.lien[k].refs[x] = IF k \in L /\ x = a THEN b.lien[k].refs[x] + 1
                                                                     ELSE b.lien[k].refs[x]
      BY <1>5, <1>12 DEF CitedWell
    <3>2. ASSUME NEW x \in Acct PROVE c.lien[k].refs[x] = Citations(c, x, k)
      <4>1. CASE k \in L /\ x = a
        <5>1. Citing(c, x, k) = Citing(b, x, k) \cup {z}
          BY <1>6, <1>12, <4>1 DEF Citing
        <5>2. z \notin Citing(b, x, k)
          BY DEF Citing
        <5>3. IsFiniteSet(Citing(b, x, k))
          BY <1>1, CitingFinite
        <5>4. Cardinality(Citing(b, x, k) \cup {z}) = Cardinality(Citing(b, x, k)) + 1
          BY <5>2, <5>3, FS_AddElement
        <5>. QED
          BY <1>9, <3>1, <4>1, <5>1, <5>4 DEF Citations, Citing
      <4>2. CASE ~(k \in L /\ x = a)
        <5>1. Citing(c, x, k) = Citing(b, x, k)
          BY <1>6, <1>12, <4>2 DEF Citing
        <5>. QED
          BY <1>9, <3>1, <4>2, <5>1 DEF Citations, Citing
      <4>. QED
        BY <4>1, <4>2
    <3>3. b.lien[k].refs # NoRefs /\ b.lien[k].file \in DOMAIN b.file
      BY <1>1 DEF Counted
    <3>4. b.lien[k].refs \in [Acct -> Int]
      BY <1>1 DEF TypedBooks, LienType
    <3>5. PICK x \in Acct : b.lien[k].refs[x] # 0
      BY <3>3, <3>4 DEF NoRefs
    <3>6. c.lien[k].refs[x] # 0
      BY <1>9, <3>1, <3>5
    <3>7. c.lien[k].refs # NoRefs
      BY <3>6 DEF NoRefs
    <3>. QED
      BY <1>5, <1>12, <3>1, <3>2, <3>3, <3>7
  <2>2. DOMAIN c.lien = DOMAIN b.lien
    BY <1>5, <1>12 DEF CitedWell
  <2>. QED
    BY <2>1, <2>2 DEF Counted
<1>15. BooksOK(c)
  BY <1>12, <1>13, <1>14 DEF BooksOK
<1>16. /\ LengthOf(b, s) \in Nat /\ LengthOf(b, s) = Bytes(n, L)
       /\ Bytes(n, Turned(n, a, L, 1)) \in Nat
       /\ Bytes(n, Turned(n, a, L, 1)) <= Bytes(n, L)
  <2> DEFINE T == Turned(n, a, L, 1)
  <2>1. T \in SUBSET DOMAIN n.lien /\ L \ T \in SUBSET DOMAIN n.lien /\ T \cap (L \ T) = {}
        /\ L = T \cup (L \ T)
    BY <1>11 DEF Turned
  <2> HIDE DEF T
  <2>2. Add(n, T, L \ T, L)
    BY <1>7, <2>1, ChargesAdd
  <2>3. /\ Bytes(n, T) \in Nat /\ Bytes(n, L \ T) \in Nat
        /\ Bytes(n, L) = Bytes(n, T) + Bytes(n, L \ T)
    BY <2>2 DEF Add
  <2>4. LengthOf(b, s) = Bytes(n, L)
    BY <1>5 DEF LengthOf, Bytes, L
  <2>. QED
    BY <2>3, <2>4 DEF T
<1>17. b.zco[s].acct = a => Bytes(n, Turned(n, a, L, 1)) = 0
  <2>1. SUFFICES ASSUME b.zco[s].acct = a PROVE Bytes(n, Turned(n, a, L, 1)) = 0
    OBVIOUS
  <2>2. ASSUME NEW k \in L PROVE n.lien[k].refs[a] # 0
    <3>1. s \in Citing(b, a, k)
      BY <2>1 DEF Citing, L
    <3>. QED
      BY <1>2, <1>5, <1>9, <3>1
  <2>3. Turned(n, a, L, 1) = {}
    BY <2>2 DEF Turned
  <2>. QED
    BY <2>3, TotalNothing DEF Bytes
<1>18. b.occupancy[a] \in Nat
  BY <1>1, CountsType
<1>19. c.occupancy[a] = b.occupancy[a] + Bytes(n, Turned(n, a, L, 1))
  BY <1>5, <1>12
<1>20. /\ c.occupancy[a] <= b.occupancy[a] + LengthOf(b, s)
       /\ b.zco[s].acct = a => c.occupancy[a] = b.occupancy[a]
  BY <1>16, <1>17, <1>18, <1>19
<1>. QED
  BY <1>5, <1>6, <1>12, <1>15, <1>16, <1>20

\* A file that is still cited by a lien is needed.
LEMMA CitedIsNeeded ==
    ASSUME NEW b, TypedBooks(b), Charged(b), NEW l \in DOMAIN b.lien, b.lien[l].refs # NoRefs,
           \A a \in Acct : b.lien[l].refs[a] >= 0, b.lien[l].file \in DOMAIN b.file
    PROVE  \E a \in Acct : b.file[b.lien[l].file].refs[a] # 0
<1>1. b.lien[l].refs \in [Acct -> Int]
  BY DEF TypedBooks, LienType
<1>2. PICK a \in Acct : b.lien[l].refs[a] # 0
  BY <1>1 DEF NoRefs
<1>3. l \in OnFile(b, LiensIn(b, a), b.lien[l].file)
  BY <1>1, <1>2 DEF OnFile, LiensIn
<1>4. b.file[b.lien[l].file].refs[a] # 0
  BY <1>3, FileCounts
<1>. QED
  BY <1>4

\* A reference that is let go of costs nothing, and its file goes once nothing cites it.
LEMMA DestroyFileRefOK ==
    ASSUME NEW b, BooksOK(b), NEW f \in DOMAIN b.file, NEW c, c = DestroyFileRef(b, f)
    PROVE  /\ BooksOK(c) /\ c.zco = b.zco /\ c.lien = b.lien /\ c.occupancy = b.occupancy
           /\ \A g \in DOMAIN b.file : g # f /\ ~b.file[g].okay => g \in DOMAIN c.file /\ ~c.file[g].okay
<1>1. TypedBooks(b) /\ Charged(b) /\ Counted(b) /\ AllNeeded(b)
  BY DEF BooksOK
<1>2. b = [file |-> b.file, lien |-> b.lien, zco |-> b.zco, occupancy |-> b.occupancy]
  BY <1>1 DEF TypedBooks
<1> DEFINE k == [b.file EXCEPT ![f].okay = TRUE]
<1>3. /\ DOMAIN k = DOMAIN b.file
      /\ \A g \in DOMAIN k : /\ k[g] \in RefType /\ k[g].refs = b.file[g].refs
                             /\ g # f => k[g] = b.file[g]
  <2>1. ASSUME NEW g \in DOMAIN b.file
        PROVE  /\ k[g] \in RefType /\ k[g].refs = b.file[g].refs
               /\ g # f => k[g] = b.file[g]
    <3>1. b.file[g] \in RefType
      BY <1>1 DEF TypedBooks
    <3> DEFINE now == TRUE
    <3>2. now \in BOOLEAN
      OBVIOUS
    <3>3. k = [b.file EXCEPT ![f].okay = now]
      OBVIOUS
    <3> HIDE DEF now
    <3> HIDE DEF k
    <3>4. g # f => k[g] = b.file[g]
      BY <3>3
    <3>5. g = f => k[g] = [b.file[g] EXCEPT !.okay = now]
      BY <3>3
    <3>. QED
      BY <3>1, <3>2, <3>4, <3>5 DEF RefType
  <2>2. DOMAIN k = DOMAIN b.file
    OBVIOUS
  <2>. QED
    BY <2>1, <2>2
<1>4. c = [b EXCEPT !.file = Restrict(k, Needed(k))]
  BY DEF DestroyFileRef
<1> HIDE DEF k
<1>5. c = [file |-> Restrict(k, Needed(k)), lien |-> b.lien, zco |-> b.zco, occupancy |-> b.occupancy]
  BY <1>2, <1>4
<1>6. /\ c = [file |-> c.file, lien |-> c.lien, zco |-> c.zco, occupancy |-> c.occupancy]
      /\ c.lien = b.lien /\ c.zco = b.zco /\ c.occupancy = b.occupancy
      /\ c.file = Restrict(k, Needed(k))
  BY <1>5
<1>7. /\ DOMAIN c.file = Needed(k) /\ DOMAIN c.file \subseteq DOMAIN b.file
      /\ \A g \in DOMAIN c.file : c.file[g] = k[g]
      /\ c.file = [g \in DOMAIN c.file |-> c.file[g]]
  BY <1>3, <1>6 DEF Restrict, Needed
<1>8. TypedBooks(c)
  <2>1. \A g \in DOMAIN c.file : c.file[g] \in RefType
    BY <1>3, <1>7
  <2>2. DOMAIN c.file \subseteq File
    BY <1>1, <1>7 DEF TypedBooks
  <2>. QED
    BY <1>1, <1>6, <1>7, <2>1, <2>2 DEF TypedBooks
<1>9. \A x \in Acct : LiensIn(c, x) = LiensIn(b, x)
  BY <1>6 DEF LiensIn
<1>10. Charged(c)
  <2>1. ASSUME NEW x \in Acct
        PROVE  /\ c.occupancy[x] = Bytes(c, LiensIn(c, x))
               /\ \A g \in DOMAIN c.file :
                     c.file[g].refs[x] = Cardinality({l \in LiensIn(c, x) : c.lien[l].file = g})
    <3>1. b.occupancy[x] = Bytes(b, LiensIn(b, x))
      BY <1>1 DEF Charged
    <3>2. c.occupancy[x] = Bytes(c, LiensIn(c, x))
      BY <1>6, <1>9, <3>1 DEF Bytes
    <3>3. ASSUME NEW g \in DOMAIN c.file
          PROVE  c.file[g].refs[x] = Cardinality({l \in LiensIn(c, x) : c.lien[l].file = g})
      <4>1. b.file[g].refs[x] = Cardinality({l \in LiensIn(b, x) : b.lien[l].file = g})
        BY <1>1, <1>7 DEF Charged
      <4>. QED
        BY <1>3, <1>6, <1>7, <1>9, <4>1
    <3>. QED
      BY <3>2, <3>3
  <2>. QED
    BY <2>1 DEF Charged
<1>11. \A l \in DOMAIN b.lien : \A x \in Acct : b.lien[l].refs[x] >= 0
  BY <1>1, CountsType
<1>12. Counted(c)
  <2>1. ASSUME NEW l \in DOMAIN b.lien PROVE b.lien[l].file \in DOMAIN c.file
    <3>1. b.lien[l].refs # NoRefs /\ b.lien[l].file \in DOMAIN b.file
      BY <1>1 DEF Counted
    <3>2. PICK x \in Acct : b.file[b.lien[l].file].refs[x] # 0
      BY <1>1, <1>11, <3>1, CitedIsNeeded
    <3>3. ~Unneeded(k[b.lien[l].file])
      BY <1>3, <3>1, <3>2 DEF Unneeded
    <3>. QED
      BY <1>3, <1>7, <3>1, <3>3 DEF Needed
  <2>2. ASSUME NEW x, NEW l PROVE Citations(c, x, l) = Citations(b, x, l)
    BY <1>6 DEF Citations
  <2>. QED
    BY <1>1, <1>6, <2>1, <2>2 DEF Counted
<1>13. AllNeeded(c)
  BY <1>7 DEF AllNeeded, Needed
<1>14. ASSUME NEW g \in DOMAIN b.file, g # f, ~b.file[g].okay
       PROVE  g \in DOMAIN c.file /\ ~c.file[g].okay
  <2>1. k[g] = b.file[g]
    BY <1>3, <1>14
  <2>2. ~Unneeded(k[g])
    BY <1>14, <2>1 DEF Unneeded
  <2>. QED
    BY <1>3, <1>7, <1>14, <2>1, <2>2 DEF Needed
<1>. QED
  BY <1>6, <1>8, <1>10, <1>12, <1>13, <1>14 DEF BooksOK

\* What is destroyed is given back, and nothing else.
LEMMA DestroyZcoOK ==
    ASSUME NEW b, BooksOK(b), NEW z \in DOMAIN b.zco, NEW c, c = DestroyZco(b, z)
    PROVE  /\ BooksOK(c) /\ DOMAIN c.zco = DOMAIN b.zco \ {z}
           /\ \A y \in DOMAIN c.zco : c.zco[y] = b.zco[y]
           /\ \A g \in DOMAIN b.file : ~b.file[g].okay => g \in DOMAIN c.file /\ ~c.file[g].okay
           /\ \A x \in Acct : c.occupancy[x] <= b.occupancy[x]
<1> DEFINE L == b.zco[z].liens
           a == b.zco[z].acct
           n == Cite(b, a, L, -1)
<1>1. TypedBooks(b) /\ Charged(b) /\ Counted(b) /\ AllNeeded(b)
  BY DEF BooksOK
<1>2. L \in SUBSET DOMAIN b.lien /\ a \in Acct
  BY <1>1 DEF TypedBooks
<1> HIDE DEF L, a
<1>3. -1 \in {1, -1} /\ -1 = -1
  OBVIOUS
<1>4. \A k \in DOMAIN b.lien : \A x \in Acct :
          /\ b.lien[k].refs[x] \in Nat /\ b.lien[k].refs[x] >= 0
          /\ b.lien[k].refs[x] = Cardinality(Citing(b, x, k))
          /\ (b.lien[k].refs[x] = 0 <=> Citing(b, x, k) = {})
  BY <1>1, CountsType
<1>5. \A k \in L : z \in Citing(b, a, k) /\ b.lien[k].refs[a] >= 1
  <2>1. ASSUME NEW k \in L PROVE z \in Citing(b, a, k)
    BY DEF Citing, L, a
  <2>. QED
    BY <1>2, <1>4, <2>1
<1>6. PICK m : m = n
  OBVIOUS
<1> HIDE DEF n
<1>7. m = Cite(b, a, L, -1)
  BY <1>6 DEF n
<1>8. TypedBooks(m)
  BY <1>1, <1>2, <1>3, <1>7, CitedTyped
<1>9. Charged(m)
  BY <1>1, <1>2, <1>3, <1>4, <1>5, <1>7, CitedCharged
<1>10. CitedWell(b, m, a, L, -1)
  BY <1>1, <1>2, <1>3, <1>7, CiteLiens
<1>11. /\ m = [file |-> m.file, lien |-> m.lien, zco |-> m.zco, occupancy |-> m.occupancy]
       /\ m.zco = b.zco /\ DOMAIN m.file = DOMAIN b.file
       /\ m.file = [f \in DOMAIN b.file |-> m.file[f]]
       /\ DOMAIN m.occupancy = Acct /\ m.occupancy = [x \in Acct |-> m.occupancy[x]]
       /\ \A x \in Acct : m.occupancy[x] = IF x = a
              THEN b.occupancy[x] + (-1) * Bytes(b, Turned(b, a, L, -1)) ELSE b.occupancy[x]
  BY <1>1, <1>2, <1>3, <1>7, CiteRest
<1>12. \A f \in DOMAIN b.file : m.file[f].okay = b.file[f].okay
  BY <1>1, <1>2, <1>3, <1>7, CiteFiles
<1> DEFINE kept == {l \in DOMAIN m.lien : m.lien[l].refs # NoRefs}
<1>13. c = [m EXCEPT !.zco = Without(@, z), !.file = Restrict(@, Needed(@)), !.lien = Restrict(@, kept)]
  BY <1>6 DEF DestroyZco, n, L, a
<1>14. /\ c = [file |-> c.file, lien |-> c.lien, zco |-> c.zco, occupancy |-> c.occupancy]
       /\ c.file = Restrict(m.file, Needed(m.file)) /\ c.lien = Restrict(m.lien, kept)
       /\ c.zco = Without(m.zco, z) /\ c.occupancy = m.occupancy
  <2> DEFINE u == Without(m.zco, z)
             v == Restrict(m.file, Needed(m.file))
             w == Restrict(m.lien, kept)
  <2>1. c = [m EXCEPT !.zco = u, !.file = v, !.lien = w]
    BY <1>11, <1>13
  <2> HIDE DEF u, v, w
  <2>2. c = [file |-> v, lien |-> w, zco |-> u, occupancy |-> m.occupancy]
    BY <1>11, <2>1
  <2>. QED
    BY <2>2 DEF u, v, w
<1>15. /\ DOMAIN c.file = Needed(m.file) /\ DOMAIN c.file \subseteq DOMAIN m.file
       /\ \A g \in DOMAIN c.file : c.file[g] = m.file[g]
       /\ c.file = [g \in DOMAIN c.file |-> c.file[g]]
  BY <1>14 DEF Restrict, Needed
<1>16. /\ DOMAIN c.lien = kept /\ DOMAIN c.lien \subseteq DOMAIN m.lien
       /\ \A l \in DOMAIN c.lien : c.lien[l] = m.lien[l]
       /\ c.lien = [l \in DOMAIN c.lien |-> c.lien[l]]
  BY <1>14 DEF Restrict
<1>17. /\ DOMAIN c.zco = DOMAIN b.zco \ {z}
       /\ \A y \in DOMAIN c.zco : c.zco[y] = b.zco[y]
       /\ c.zco = [y \in DOMAIN c.zco |-> c.zco[y]]
  BY <1>11, <1>14 DEF Restrict, Without
<1>18. DOMAIN m.lien = DOMAIN b.lien
  BY <1>10 DEF CitedWell
<1>19. \A k \in DOMAIN b.lien : \A x \in Acct :
          /\ m.lien[k].refs[x] = IF k \in L /\ x = a THEN b.lien[k].refs[x] - 1 ELSE b.lien[k].refs[x]
          /\ m.lien[k].refs[x] >= 0
  <2>1. ASSUME NEW k \in DOMAIN b.lien, NEW x \in Acct
        PROVE  /\ m.lien[k].refs[x] = IF k \in L /\ x = a THEN b.lien[k].refs[x] - 1 ELSE b.lien[k].refs[x]
               /\ m.lien[k].refs[x] >= 0
    <3>1. m.lien[k].refs[x] = IF k \in L /\ x = a THEN b.lien[k].refs[x] + (-1) ELSE b.lien[k].refs[x]
      BY <1>10 DEF CitedWell
    <3>. QED
      BY <1>4, <1>5, <3>1
  <2>. QED
    BY <2>1
<1>20. \A k \in DOMAIN b.lien : \A x \in Acct : m.lien[k].refs[x] = Citations(c, x, k)
  <2>1. ASSUME NEW k \in DOMAIN b.lien, NEW x \in Acct PROVE m.lien[k].refs[x] = Citations(c, x, k)
    <3>1. CASE k \in L /\ x = a
      <4>1. Citing(c, x, k) = Citing(b, x, k) \ {z}
        BY <1>17 DEF Citing
      <4>2. z \in Citing(b, x, k)
        BY <1>5, <3>1
      <4>3. IsFiniteSet(Citing(b, x, k))
        BY <1>1, CitingFinite
      <4>4. Cardinality(Citing(b, x, k) \ {z}) = Cardinality(Citing(b, x, k)) - 1
        BY <4>2, <4>3, FS_RemoveElement
      <4>. QED
        <5>1. Citations(c, x, k) = Cardinality(Citing(b, x, k) \ {z})
          BY <4>1 DEF Citations, Citing
        <5>2. b.lien[k].refs[x] = Cardinality(Citing(b, x, k))
          BY <1>4
        <5>3. m.lien[k].refs[x] = b.lien[k].refs[x] - 1
          BY <1>19, <3>1
        <5>. QED
          BY <4>4, <5>1, <5>2, <5>3
    <3>2. CASE ~(k \in L /\ x = a)
      <4>1. z \notin Citing(b, x, k)
        BY <3>2 DEF Citing, L, a
      <4>2. Citing(c, x, k) = Citing(b, x, k)
        BY <1>17, <4>1 DEF Citing
      <4>. QED
        BY <1>4, <1>19, <3>2, <4>2 DEF Citations, Citing
    <3>. QED
      BY <3>1, <3>2
  <2>. QED
    BY <2>1
<1>21. TypedBooks(c)
  <2>1. ASSUME NEW y \in DOMAIN c.zco, NEW l \in c.zco[y].liens PROVE l \in DOMAIN c.lien
    <3>1. l \in DOMAIN b.lien /\ c.zco[y].acct \in Acct
      BY <1>1, <1>17 DEF TypedBooks
    <3>2. y \in Citing(c, c.zco[y].acct, l)
      BY DEF Citing
    <3>3. IsFiniteSet(Citing(c, c.zco[y].acct, l))
      <4>1. IsFiniteSet(1 .. MaxAddr)
        BY ZcoBooksAssumption, FS_Interval
      <4>2. Citing(c, c.zco[y].acct, l) \subseteq 1 .. MaxAddr
        BY <1>1, <1>17 DEF TypedBooks, Citing
      <4>. QED
        BY <4>1, <4>2, FS_Subset
    <3>4. Citations(c, c.zco[y].acct, l) # 0
      BY <3>2, <3>3, FS_EmptySet DEF Citations, Citing
    <3>5. m.lien[l].refs[c.zco[y].acct] # 0
      BY <1>20, <3>1, <3>4
    <3>6. m.lien[l].refs # NoRefs
      BY <3>1, <3>5 DEF NoRefs
    <3>. QED
      BY <1>16, <1>18, <3>1, <3>6
  <2>2. \A y \in DOMAIN c.zco : c.zco[y] \in [acct : Acct, liens : SUBSET DOMAIN c.lien]
    <3>1. \A y \in DOMAIN c.zco : c.zco[y] \in [acct : Acct, liens : SUBSET DOMAIN b.lien]
      BY <1>1, <1>17 DEF TypedBooks
    <3>. QED
      BY <2>1, <3>1
  <2>3. /\ DOMAIN c.file \subseteq File /\ DOMAIN c.lien \subseteq 1 .. MaxAddr
        /\ DOMAIN c.zco \subseteq 1 .. MaxAddr
    BY <1>1, <1>8, <1>15, <1>16, <1>17 DEF TypedBooks
  <2>4. /\ \A f \in DOMAIN c.file : c.file[f] \in RefType
        /\ \A l \in DOMAIN c.lien : c.lien[l] \in LienType
        /\ c.occupancy \in [Acct -> Int]
    BY <1>8, <1>14, <1>15, <1>16 DEF TypedBooks
  <2>. QED
    BY <1>14, <1>15, <1>16, <1>17, <2>2, <2>3, <2>4 DEF TypedBooks
<1>22. Charged(c)
  <2>1. ASSUME NEW x \in Acct
        PROVE  /\ c.occupancy[x] = Bytes(c, LiensIn(c, x))
               /\ \A g \in DOMAIN c.file :
                     c.file[g].refs[x] = Cardinality({l \in LiensIn(c, x) : c.lien[l].file = g})
    <3>1. LiensIn(c, x) = LiensIn(m, x)
      BY <1>16 DEF LiensIn, NoRefs
    <3>2. \A l \in LiensIn(m, x) : c.lien[l] = m.lien[l]
      BY <1>16, <3>1 DEF LiensIn
    <3>3. [l \in LiensIn(m, x) |-> c.lien[l].len] = [l \in LiensIn(m, x) |-> m.lien[l].len]
      BY <3>2
    <3>4. Bytes(c, LiensIn(c, x)) = Bytes(m, LiensIn(m, x))
      BY <3>1, <3>3 DEF Bytes
    <3>5. m.occupancy[x] = Bytes(m, LiensIn(m, x))
      BY <1>9 DEF Charged
    <3>6. ASSUME NEW g \in DOMAIN c.file
          PROVE  c.file[g].refs[x] = Cardinality({l \in LiensIn(c, x) : c.lien[l].file = g})
      <4>1. {l \in LiensIn(c, x) : c.lien[l].file = g} = {l \in LiensIn(m, x) : m.lien[l].file = g}
        BY <3>1, <3>2
      <4>2. m.file[g].refs[x] = Cardinality({l \in LiensIn(m, x) : m.lien[l].file = g})
        BY <1>9, <1>15 DEF Charged
      <4>. QED
        BY <1>15, <4>1, <4>2
    <3>. QED
      BY <1>14, <3>4, <3>5, <3>6
  <2>. QED
    BY <2>1 DEF Charged
<1>23. Counted(c)
  <2>1. ASSUME NEW l \in DOMAIN c.lien
        PROVE  /\ \A x \in Acct : c.lien[l].refs[x] = Citations(c, x, l)
               /\ c.lien[l].refs # NoRefs /\ c.lien[l].file \in DOMAIN c.file
    <3>1. /\ l \in DOMAIN b.lien /\ l \in DOMAIN m.lien /\ c.lien[l] = m.lien[l]
          /\ m.lien[l].refs # NoRefs /\ m.lien[l].file = b.lien[l].file
      BY <1>10, <1>16, <1>18 DEF CitedWell
    <3>2. m.lien[l].file \in DOMAIN m.file
      BY <1>1, <1>11, <3>1 DEF Counted
    <3>3. \A x \in Acct : m.lien[l].refs[x] >= 0
      BY <1>19, <3>1
    <3>4. \E x \in Acct : m.file[m.lien[l].file].refs[x] # 0
      BY <1>8, <1>9, <3>1, <3>2, <3>3, CitedIsNeeded
    <3>5. m.lien[l].file \in Needed(m.file)
      BY <3>2, <3>4 DEF Needed, Unneeded
    <3>. QED
      BY <1>15, <1>20, <3>1, <3>5
  <2>. QED
    BY <2>1 DEF Counted
<1>24. AllNeeded(c)
  BY <1>15 DEF AllNeeded, Needed
<1>25. ASSUME NEW g \in DOMAIN b.file, ~b.file[g].okay
       PROVE  g \in DOMAIN c.file /\ ~c.file[g].okay
  <2>1. ~m.file[g].okay /\ g \in DOMAIN m.file
    BY <1>11, <1>12, <1>25
  <2>2. g \in Needed(m.file)
    BY <2>1 DEF Needed, Unneeded
  <2>. QED
    BY <1>15, <2>1, <2>2
<1>26. \A x \in Acct : c.occupancy[x] <= b.occupancy[x]
  <2>1. Bytes(b, Turned(b, a, L, -1)) \in Nat
    BY <1>1, <1>2, BytesType DEF Turned
  <2>2. \A x \in Acct : b.occupancy[x] \in Nat
    BY <1>1, CountsType
  <2>. QED
    BY <1>11, <1>14, <2>1, <2>2
<1>. QED
  BY <1>17, <1>21, <1>22, <1>23, <1>24, <1>25, <1>26 DEF BooksOK

-----------------------------------------------------------------------------
(* Queues of requisitions.                                                    *)

Req == [task : Task, need : Nat, served : BOOLEAN]
TaskIn(q, t) == \E i \in DOMAIN q : q[i].task = t
ServedIn(q, t) == \E i \in DOMAIN q : q[i].task = t /\ q[i].served
GoodQueue(q, a) ==
    /\ q \in Seq(Req)
    /\ \A i \in DOMAIN q : Account(q[i].task) = a
    /\ \A i, j \in DOMAIN q : i # j => q[i].task # q[j].task
NeedOf(q) == [j \in DOMAIN q |-> q[j].need]
Claimed(q, i) == Total(NeedOf(q), 1 .. i)

\* A task has one requisition.
LEMMA PositionIs ==
    ASSUME NEW a, NEW q, GoodQueue(q, a), NEW i \in DOMAIN q, NEW t, q[i].task = t
    PROVE  PositionOf(q, t) = i /\ (q[PositionOf(q, t)].served <=> ServedIn(q, t))
<1>1. PositionOf(q, t) = i
  BY DEF PositionOf, GoodQueue
<1>2. \A j \in DOMAIN q : q[j].task = t => j = i
  BY DEF GoodQueue
<1>. QED
  BY <1>1, <1>2 DEF ServedIn

\* A queue is a sequence of requisitions.
LEMMA Queue ==
    ASSUME NEW a, NEW q, GoodQueue(q, a)
    PROVE  /\ Len(q) \in Nat /\ DOMAIN q = 1 .. Len(q)
           /\ \A i \in DOMAIN q : q[i] \in Req
BY DEF GoodQueue

\* Max is the greatest of a set of numbers.
LEMMA GreatestExists ==
    ASSUME NEW n \in Nat, NEW S \in SUBSET (1 .. n), S # {}
    PROVE  Max(S) \in S /\ \A y \in S : Max(S) >= y
<1> DEFINE T == {k \in Nat : \A y \in S : y <= k}
<1>1. n \in T
  OBVIOUS
<1>2. PICK m \in T : \A k \in T : m <= k
  BY <1>1, LeastExists
<1>3. m \in S
  <2>1. SUFFICES ASSUME m \notin S PROVE FALSE
    OBVIOUS
  <2>2. \A y \in S : y <= m - 1
    BY <1>2, <2>1
  <2>3. m - 1 \in Nat
    <3>1. PICK y \in S : y \in 1 .. n
      OBVIOUS
    <3>2. y <= m - 1 /\ m \in Nat
      BY <1>2, <2>2
    <3>. QED
      BY <3>1, <3>2
  <2>. QED
    BY <1>2, <2>2, <2>3
<1>4. \A y \in S : m >= y
  BY <1>2
<1>. QED
  BY <1>3, <1>4 DEF Max

\* What a removal leaves.
LEMMA Removed ==
    ASSUME NEW a, NEW q, GoodQueue(q, a), NEW p \in DOMAIN q, NEW s, s = RemoveAt(q, p)
    PROVE  /\ Len(s) = Len(q) - 1 /\ s \in Seq(Req)
           /\ \A i \in 1 .. Len(q) - 1 : s[i] = IF i < p THEN q[i] ELSE q[i + 1]
<1>1. q \in Seq(Req) /\ p \in 1 .. Len(q) /\ Len(q) \in Nat
  BY DEF GoodQueue
<1> DEFINE u == SubSeq(q, 1, p - 1)
           v == SubSeq(q, p + 1, Len(q))
<1>2. u \in Seq(Req) /\ Len(u) = p - 1 /\ \A i \in 1 .. p - 1 : u[i] = q[i]
  BY <1>1
<1>3. v \in Seq(Req) /\ Len(v) = Len(q) - p /\ \A i \in 1 .. Len(q) - p : v[i] = q[p + i]
  BY <1>1
<1>4. s = u \o v
  BY DEF RemoveAt
<1> HIDE DEF u, v
<1>9. u \in Seq(Req) /\ v \in Seq(Req)
  BY <1>2, <1>3
<1>5. s \in Seq(Req) /\ Len(s) = Len(u) + Len(v)
  BY <1>4, <1>9, ConcatProperties
<1>6. \A i \in 1 .. Len(u) + Len(v) : s[i] = IF i <= Len(u) THEN u[i] ELSE v[i - Len(u)]
  BY <1>2, <1>3, <1>4
<1>7. Len(s) = Len(q) - 1
  BY <1>1, <1>2, <1>3, <1>5
<1>8. ASSUME NEW i \in 1 .. Len(q) - 1 PROVE s[i] = IF i < p THEN q[i] ELSE q[i + 1]
  <2>1. s[i] = IF i <= p - 1 THEN u[i] ELSE v[i - (p - 1)]
    BY <1>1, <1>2, <1>3, <1>6
  <2>2. CASE i < p
    BY <1>1, <1>2, <2>1, <2>2
  <2>3. CASE ~(i < p)
    <3>1. i - (p - 1) \in 1 .. Len(q) - p
      BY <1>1, <2>3
    <3>2. v[i - (p - 1)] = q[p + (i - (p - 1))]
      BY <1>3, <3>1
    <3>3. p + (i - (p - 1)) = i + 1 /\ ~(i <= p - 1)
      BY <1>1, <2>3
    <3>. QED
      BY <2>1, <2>3, <3>2, <3>3
  <2>. QED
    BY <2>2, <2>3
<1>. QED
  BY <1>5, <1>7, <1>8

\* A queue without one of its requisitions.
LEMMA RemovedQueue ==
    ASSUME NEW a, NEW q, GoodQueue(q, a), NEW p \in DOMAIN q, NEW s, s = RemoveAt(q, p)
    PROVE  /\ GoodQueue(s, a)
           /\ \A t : TaskIn(s, t) <=> TaskIn(q, t) /\ t # q[p].task
           /\ \A t : t # q[p].task => (ServedIn(s, t) <=> ServedIn(q, t))
           /\ InTurn(q) => InTurn(s)
           /\ \A i \in DOMAIN s : \E j \in DOMAIN q : s[i] = q[j]
<1>1. /\ Len(s) = Len(q) - 1 /\ s \in Seq(Req)
      /\ \A i \in 1 .. Len(q) - 1 : s[i] = IF i < p THEN q[i] ELSE q[i + 1]
  BY Removed
<1>2. Len(q) \in Nat /\ DOMAIN q = 1 .. Len(q) /\ DOMAIN s = 1 .. Len(q) - 1
  BY <1>1, Queue
<1> DEFINE at(i) == IF i < p THEN i ELSE i + 1
<1>3. \A i \in DOMAIN s : at(i) \in DOMAIN q /\ at(i) # p /\ s[i] = q[at(i)]
  BY <1>1, <1>2
<1>4. \A i, j \in DOMAIN s : (i # j => at(i) # at(j)) /\ (i < j => at(i) < at(j))
  BY <1>2
<1>5. \A j \in DOMAIN q : j # p => \E i \in DOMAIN s : at(i) = j
  <2>1. ASSUME NEW j \in DOMAIN q, j # p PROVE \E i \in DOMAIN s : at(i) = j
    <3>1. CASE j < p
      <4>1. j \in DOMAIN s /\ at(j) = j
        BY <1>2, <3>1
      <4>. QED
        BY <4>1
    <3>2. CASE p < j
      <4>1. j - 1 \in DOMAIN s /\ at(j - 1) = j
        BY <1>2, <3>2
      <4>. QED
        BY <4>1
    <3>. QED
      BY <1>2, <2>1, <3>1, <3>2
  <2>. QED
    BY <2>1
<1> HIDE DEF at
<1>6. \A i, j \in DOMAIN q : i # j => q[i].task # q[j].task
  BY DEF GoodQueue
<1>7. GoodQueue(s, a)
  BY <1>1, <1>3, <1>4, <1>6 DEF GoodQueue
<1>8. \A t : TaskIn(s, t) <=> TaskIn(q, t) /\ t # q[p].task
  BY <1>3, <1>5, <1>6 DEF TaskIn
<1>9. \A t : t # q[p].task => (ServedIn(s, t) <=> ServedIn(q, t))
  BY <1>3, <1>5 DEF ServedIn
<1>10. InTurn(q) => InTurn(s)
  BY <1>3, <1>4 DEF InTurn
<1>. QED
  BY <1>3, <1>7, <1>8, <1>9, <1>10

\* What an insertion puts where.
LEMMA Inserted ==
    ASSUME NEW a, NEW q, GoodQueue(q, a), NEW p \in 1 .. Len(q) + 1, NEW r \in Req,
           NEW s, s = InsertAt(q, p, r)
    PROVE  /\ Len(s) = Len(q) + 1 /\ s \in Seq(Req)
           /\ \A i \in 1 .. Len(q) + 1 :
                 s[i] = IF i < p THEN q[i] ELSE IF i = p THEN r ELSE q[i - 1]
<1>1. q \in Seq(Req) /\ Len(q) \in Nat
  BY DEF GoodQueue
<1> DEFINE u == SubSeq(q, 1, p - 1)
           v == SubSeq(q, p, Len(q))
<1>2. u \in Seq(Req) /\ Len(u) = p - 1 /\ \A i \in 1 .. p - 1 : u[i] = q[i]
  BY <1>1
<1>3. v \in Seq(Req) /\ Len(v) = Len(q) - p + 1 /\ \A i \in 1 .. Len(q) - p + 1 : v[i] = q[p + i - 1]
  BY <1>1
<1>4. s = u \o <<r>> \o v
  BY DEF InsertAt
<1> HIDE DEF u, v
<1> DEFINE w == u \o <<r>>
<1>5. <<r>> \in Seq(Req) /\ Len(<<r>>) = 1 /\ <<r>>[1] = r
  OBVIOUS
<1>6. /\ w \in Seq(Req) /\ Len(w) = Len(u) + 1
      /\ \A i \in 1 .. Len(u) + 1 : w[i] = IF i <= Len(u) THEN u[i] ELSE <<r>>[i - Len(u)]
  <2>1. u \in Seq(Req)
    BY <1>2
  <2>. QED
    BY <1>5, <2>1, ConcatProperties
<1>7. s = w \o v
  BY <1>4
<1> HIDE DEF w
<1>8. /\ s \in Seq(Req) /\ Len(s) = Len(w) + Len(v)
      /\ \A i \in 1 .. Len(w) + Len(v) : s[i] = IF i <= Len(w) THEN w[i] ELSE v[i - Len(w)]
  <2>1. w \in Seq(Req) /\ v \in Seq(Req)
    BY <1>3, <1>6
  <2>. QED
    BY <1>7, <2>1, ConcatProperties
<1>9. Len(w) = p /\ Len(s) = Len(q) + 1
  BY <1>1, <1>2, <1>3, <1>6, <1>8
<1>10. ASSUME NEW i \in 1 .. Len(q) + 1
       PROVE  s[i] = IF i < p THEN q[i] ELSE IF i = p THEN r ELSE q[i - 1]
  <2>1. s[i] = IF i <= p THEN w[i] ELSE v[i - p]
    BY <1>8, <1>9
  <2>2. CASE i < p
    <3>1. w[i] = u[i]
      BY <1>1, <1>2, <1>6, <2>2
    <3>. QED
      BY <1>1, <1>2, <2>1, <2>2, <3>1
  <2>3. CASE i = p
    <3>1. w[i] = <<r>>[1]
      BY <1>1, <1>2, <1>6, <2>3
    <3>. QED
      BY <1>5, <2>1, <2>3, <3>1
  <2>4. CASE p < i
    <3>1. i - p \in 1 .. Len(q) - p + 1
      BY <1>1, <2>4
    <3>2. v[i - p] = q[p + (i - p) - 1]
      BY <1>3, <3>1
    <3>3. p + (i - p) - 1 = i - 1
      BY <1>1
    <3>. QED
      BY <2>1, <2>4, <3>2, <3>3
  <2>. QED
    BY <1>1, <2>2, <2>3, <2>4
<1>. QED
  BY <1>8, <1>9, <1>10

\* A queue with one more.
LEMMA InsertedQueue ==
    ASSUME NEW a, NEW q, GoodQueue(q, a), NEW r \in Req, Account(r.task) = a, ~r.served,
           ~TaskIn(q, r.task), NEW s, s = Insert(q, r)
    PROVE  /\ GoodQueue(s, a)
           /\ \A t : TaskIn(s, t) <=> TaskIn(q, t) \/ t = r.task
           /\ \A t : ServedIn(s, t) <=> ServedIn(q, t)
           /\ \A i \in DOMAIN s : s[i] = r \/ \E j \in DOMAIN q : s[i] = q[j]
<1> DEFINE ahead == {i \in DOMAIN q : Rank[q[i].task] >= Rank[r.task]}
           p == IF ahead = {} THEN 1 ELSE Max(ahead) + 1
<1>1. Len(q) \in Nat /\ DOMAIN q = 1 .. Len(q) /\ \A i \in DOMAIN q : q[i] \in Req
  BY Queue
<1>2. s = InsertAt(q, p, r)
  BY DEF Insert
<1>3. ahead \in SUBSET (1 .. Len(q))
  BY <1>1
<1>4. ahead # {} => Max(ahead) \in ahead /\ \A y \in ahead : Max(ahead) >= y
  <2>1. ASSUME NEW S \in SUBSET (1 .. Len(q)), S # {} PROVE Max(S) \in S /\ \A y \in S : Max(S) >= y
    BY <1>1, <2>1, GreatestExists
  <2> HIDE DEF ahead
  <2>. QED
    BY <1>3, <2>1
<1>6. p \in 1 .. Len(q) + 1
  <2>1. CASE ahead = {}
    BY <1>1, <2>1
  <2>2. CASE ahead # {}
    <3>1. Max(ahead) \in 1 .. Len(q)
      BY <1>3, <1>4, <2>2
    <3>. QED
      BY <1>1, <2>2, <3>1
  <2>. QED
    BY <2>1, <2>2
<1> HIDE DEF p
<1>7. /\ Len(s) = Len(q) + 1 /\ s \in Seq(Req)
      /\ \A i \in 1 .. Len(q) + 1 : s[i] = IF i < p THEN q[i] ELSE IF i = p THEN r ELSE q[i - 1]
  BY <1>2, <1>6, Inserted
<1>8. DOMAIN s = 1 .. Len(q) + 1
  BY <1>7
<1> DEFINE at(i) == IF i < p THEN i ELSE i - 1
<1>9. s[p] = r /\ p \in DOMAIN s
  BY <1>6, <1>7, <1>8
<1>10. \A i \in DOMAIN s : i # p => at(i) \in DOMAIN q /\ s[i] = q[at(i)]
  <2>1. ASSUME NEW i \in DOMAIN s, i # p PROVE at(i) \in DOMAIN q /\ s[i] = q[at(i)]
    <3>1. i \in 1 .. Len(q) + 1 /\ p \in 1 .. Len(q) + 1
      BY <1>6, <1>8
    <3>2. at(i) \in DOMAIN q
      BY <1>1, <2>1, <3>1
    <3>3. s[i] = q[at(i)]
      BY <1>1, <1>7, <2>1, <3>1
    <3>. QED
      BY <3>2, <3>3
  <2>. QED
    BY <2>1
<1>11. \A i, j \in DOMAIN s : i # p /\ j # p => (i # j => at(i) # at(j)) /\ (i < j => at(i) < at(j))
  BY <1>1, <1>6, <1>8
<1>12. \A j \in DOMAIN q : \E i \in DOMAIN s : i # p /\ at(i) = j
  <2>1. ASSUME NEW j \in DOMAIN q PROVE \E i \in DOMAIN s : i # p /\ at(i) = j
    <3>1. CASE j < p
      <4>1. j \in DOMAIN s /\ at(j) = j /\ j # p
        BY <1>1, <1>6, <1>8, <3>1
      <4>. QED
        BY <4>1
    <3>2. CASE ~(j < p)
      <4>1. j + 1 \in DOMAIN s /\ at(j + 1) = j /\ j + 1 # p
        BY <1>1, <1>6, <1>8, <3>2
      <4>. QED
        BY <4>1
    <3>. QED
      BY <3>1, <3>2
  <2>. QED
    BY <2>1
<1> HIDE DEF at
<1>13. \A i, j \in DOMAIN q : i # j => q[i].task # q[j].task
  BY DEF GoodQueue
<1>14. \A j \in DOMAIN q : q[j].task # r.task
  BY DEF TaskIn
<1>15. GoodQueue(s, a)
  <2>1. ASSUME NEW i \in DOMAIN s PROVE Account(s[i].task) = a
    BY <1>9, <1>10 DEF GoodQueue
  <2>2. ASSUME NEW i \in DOMAIN s, NEW j \in DOMAIN s, i # j PROVE s[i].task # s[j].task
    BY <1>9, <1>10, <1>11, <1>13, <1>14, <2>2
  <2>. QED
    BY <1>7, <2>1, <2>2 DEF GoodQueue
<1>16. \A t : TaskIn(s, t) <=> TaskIn(q, t) \/ t = r.task
  <2>1. ASSUME NEW t PROVE TaskIn(s, t) => TaskIn(q, t) \/ t = r.task
    BY <1>9, <1>10 DEF TaskIn
  <2>2. ASSUME NEW t PROVE TaskIn(q, t) \/ t = r.task => TaskIn(s, t)
    BY <1>9, <1>10, <1>12 DEF TaskIn
  <2>. QED
    BY <2>1, <2>2
<1>17. \A t : ServedIn(s, t) <=> ServedIn(q, t)
  BY <1>9, <1>10, <1>12 DEF ServedIn
<1>. QED
  BY <1>9, <1>10, <1>15, <1>16, <1>17

\* Serving some changes neither who waits nor in which order.
LEMMA ProvidedQueue ==
    ASSUME NEW a, NEW q, GoodQueue(q, a), NEW room, NEW s, s = Provided(q, room)
    PROVE  /\ GoodQueue(s, a) /\ DOMAIN s = DOMAIN q
           /\ \A i \in DOMAIN q : /\ s[i].task = q[i].task /\ s[i].need = q[i].need
                                  /\ s[i].served <=> \/ q[i].served
                                                     \/ \A j \in 1 .. i : q[j].served \/ Claimed(q, j) <= room
           /\ \A t : TaskIn(s, t) <=> TaskIn(q, t)
           /\ \A t : ServedIn(q, t) => ServedIn(s, t)
           /\ InTurn(q) => InTurn(s)
<1>1. Len(q) \in Nat /\ DOMAIN q = 1 .. Len(q) /\ \A i \in DOMAIN q : q[i] \in Req
  BY Queue
<1> DEFINE fits(i) == \A j \in 1 .. i : q[j].served \/ Claimed(q, j) <= room
<1>2. s = [i \in DOMAIN q |-> [q[i] EXCEPT !.served = q[i].served \/ fits(i)]]
  BY DEF Provided, Claimed, NeedOf
<1> HIDE DEF fits
<1>3. ASSUME NEW i \in DOMAIN q
      PROVE  /\ s[i] \in Req /\ s[i].task = q[i].task /\ s[i].need = q[i].need
             /\ s[i].served <=> q[i].served \/ fits(i)
  <2>1. PICK now \in BOOLEAN : now <=> q[i].served \/ fits(i)
    <3>1. (q[i].served \/ fits(i)) \in BOOLEAN
      OBVIOUS
    <3>. QED
      BY <3>1
  <2>2. s[i] = [q[i] EXCEPT !.served = q[i].served \/ fits(i)]
    BY <1>2
  <2>3. now = (q[i].served \/ fits(i))
    BY <2>1
  <2>4. s[i] = [q[i] EXCEPT !.served = now]
    BY <2>2, <2>3
  <2>5. q[i] \in Req
    BY <1>1
  <2>6. /\ s[i] \in Req /\ s[i].task = q[i].task /\ s[i].need = q[i].need
        /\ s[i].served = now
    BY <2>1, <2>4, <2>5 DEF Req
  <2>. QED
    BY <2>1, <2>6
<1>4. DOMAIN s = DOMAIN q
  BY <1>2
<1>5. s \in Seq(Req)
  <2>1. s \in [1 .. Len(q) -> Req]
    BY <1>1, <1>2, <1>3
  <2>. QED
    BY <1>1, <2>1, SeqDef
<1>6. GoodQueue(s, a)
  BY <1>3, <1>4, <1>5 DEF GoodQueue
<1>7. \A t : TaskIn(s, t) <=> TaskIn(q, t)
  BY <1>3, <1>4 DEF TaskIn
<1>8. \A t : ServedIn(q, t) => ServedIn(s, t)
  BY <1>3, <1>4 DEF ServedIn
<1>9. InTurn(q) => InTurn(s)
  <2>1. SUFFICES ASSUME InTurn(q), NEW i \in DOMAIN s, NEW j \in DOMAIN s, i < j, s[j].served
                 PROVE  s[i].served
    BY DEF InTurn
  <2>2. CASE q[j].served
    BY <1>3, <1>4, <2>1, <2>2 DEF InTurn
  <2>3. CASE fits(j)
    <3>1. \A k \in 1 .. i : k \in 1 .. j
      BY <1>1, <1>4, <2>1
    <3>2. fits(i)
      BY <2>3, <3>1 DEF fits
    <3>. QED
      BY <1>3, <1>4, <3>2
  <2>. QED
    BY <1>3, <1>4, <2>1, <2>2, <2>3
<1>10. \A i \in DOMAIN q : /\ s[i].task = q[i].task /\ s[i].need = q[i].need
                           /\ s[i].served <=> q[i].served \/ fits(i)
  BY <1>3
<1>. QED
  BY <1>4, <1>6, <1>7, <1>8, <1>9, <1>10 DEF fits

GoodQueues(qs) == qs \in [Acct -> Seq(Req)] /\ \A a \in Acct : GoodQueue(qs[a], a)
Queued(qs, t) == TaskIn(qs[Account(t)], t)
Granted(qs, t) == ServedIn(qs[Account(t)], t)
\* A requisition is for what its task needs.
Asked(qs, n) == \A a \in Acct : \A i \in DOMAIN qs[a] : qs[a][i].need = n[qs[a][i].task]

\* Every task has an account.
LEMMA AccountType == ASSUME NEW t \in Task PROVE Account(t) \in Acct
BY ZcoSpaceAssumption DEF Account, Task, Acct

\* ... and the state's Served is what its queue says.
LEMMA ServedIsGranted ==
    ASSUME NEW qs, GoodQueues(qs), NEW t \in Task, Queued(qs, t)
    PROVE  qs[Account(t)][PositionOf(qs[Account(t)], t)].served <=> Granted(qs, t)
<1> DEFINE q == qs[Account(t)]
<1>1. GoodQueue(q, Account(t))
  BY AccountType DEF GoodQueues
<1> HIDE DEF q
<1>2. PICK i \in DOMAIN q : q[i].task = t
  BY DEF Queued, TaskIn, q
<1>3. q[PositionOf(q, t)].served <=> ServedIn(q, t)
  BY <1>1, <1>2, PositionIs
<1>. QED
  BY <1>3 DEF Granted, q

Changed(m, k, t, n) == k[t] = n /\ \A u \in Task : u # t => k[u] = m[u]

\* All queues, with one more requisition in one of them,
LEMMA RequestQueues ==
    ASSUME NEW qs, GoodQueues(qs), NEW t \in Task, ~Queued(qs, t), NEW n \in Nat,
           NEW r \in Req, r.task = t, r.need = n, ~r.served,
           NEW qt, qt = [x \in Acct |-> qt[x]], qt[Account(t)] = Insert(qs[Account(t)], r),
           \A x \in Acct : x # Account(t) => qt[x] = qs[x]
    PROVE  /\ GoodQueues(qt)
           /\ \A u \in Task : Queued(qt, u) <=> Queued(qs, u) \/ u = t
           /\ \A u \in Task : Granted(qt, u) <=> Granted(qs, u)
           /\ \A m : Asked(qs, m) => \A k : Changed(m, k, t, n) => Asked(qt, k)
<1> DEFINE a == Account(t)
           s == Insert(qs[a], r)
<1>1. a \in Acct
  BY AccountType
<1>2. GoodQueue(qs[a], a)
  BY <1>1 DEF GoodQueues
<1>3. r \in Req /\ r.task = t /\ r.need = n /\ ~r.served
  OBVIOUS
<1>4. ~TaskIn(qs[a], r.task)
  BY <1>3 DEF Queued
<1>5. /\ GoodQueue(s, a)
      /\ \A u : TaskIn(s, u) <=> TaskIn(qs[a], u) \/ u = r.task
      /\ \A u : ServedIn(s, u) <=> ServedIn(qs[a], u)
      /\ \A i \in DOMAIN s : s[i] = r \/ \E j \in DOMAIN qs[a] : s[i] = qs[a][j]
  BY <1>2, <1>3, <1>4, InsertedQueue
<1> HIDE DEF s
<1>6. /\ qt \in [Acct -> Seq(Req)] /\ qt[a] = s /\ \A x \in Acct : x # a => qt[x] = qs[x]
  <2>1. qt[a] = s /\ \A x \in Acct : x # a => qt[x] = qs[x]
    BY DEF s
  <2>2. \A x \in Acct : qt[x] \in Seq(Req)
    BY <1>5, <2>1 DEF GoodQueues, GoodQueue
  <2>. QED
    BY <2>1, <2>2
<1>7. GoodQueues(qt)
  BY <1>5, <1>6 DEF GoodQueues
<1>8. ASSUME NEW u \in Task
      PROVE  /\ Queued(qt, u) <=> Queued(qs, u) \/ u = t
             /\ Granted(qt, u) <=> Granted(qs, u)
  <2>1. CASE Account(u) = a
    BY <1>3, <1>5, <1>6, <2>1 DEF Queued, Granted
  <2>2. CASE Account(u) # a
    <3>1. qt[Account(u)] = qs[Account(u)] /\ u # t
      BY <1>6, <2>2, AccountType
    <3>. QED
      BY <3>1 DEF Queued, Granted
  <2>. QED
    BY <2>1, <2>2
<1>10. ASSUME NEW m, NEW k, Asked(qs, m), Changed(m, k, t, n) PROVE Asked(qt, k)
  <2>. k[t] = n /\ \A u \in Task : u # t => k[u] = m[u]
    BY <1>10 DEF Changed
  <2>0. \A x \in Acct : \A j \in DOMAIN qs[x] : /\ qs[x][j].task \in Task /\ Account(qs[x][j].task) = x
                                               /\ qs[x][j].need = m[qs[x][j].task]
    BY <1>10, Queue DEF GoodQueues, GoodQueue, Req, Asked
  <2>1. \A j \in DOMAIN qs[a] : qs[a][j].task # t
    BY <1>3, <1>4 DEF TaskIn
  <2>2. ASSUME NEW i \in DOMAIN s PROVE s[i].need = k[s[i].task]
    <3>1. CASE s[i] = r
      BY <1>3, <1>10, <3>1
    <3>2. CASE \E j \in DOMAIN qs[a] : s[i] = qs[a][j]
      BY <1>1, <1>10, <2>0, <2>1, <3>2
    <3>. QED
      BY <1>5, <3>1, <3>2
  <2>3. ASSUME NEW x \in Acct, x # a, NEW i \in DOMAIN qs[x] PROVE qs[x][i].need = k[qs[x][i].task]
    BY <1>10, <2>0, <2>3
  <2>. QED
    BY <1>6, <2>2, <2>3 DEF Asked
<1>. QED
  BY <1>7, <1>8, <1>10

\* with one less,
LEMMA DismissQueues ==
    ASSUME GoodQueues(requisitions), NEW t \in Task, Queued(requisitions, t),
           NEW qt, qt = Dismissed(t)
    PROVE  /\ GoodQueues(qt)
           /\ \A u \in Task : Queued(qt, u) <=> Queued(requisitions, u) /\ u # t
           /\ \A u \in Task : u # t => (Granted(qt, u) <=> Granted(requisitions, u))
           /\ \A x \in Acct : InTurn(requisitions[x]) => InTurn(qt[x])
           /\ \A m : Asked(requisitions, m) => Asked(qt, m)
<1> DEFINE a == Account(t)
           q == requisitions[a]
           p == PositionOf(q, t)
           s == RemoveAt(q, p)
<1>1. a \in Acct
  BY AccountType
<1>2. GoodQueue(q, a)
  BY <1>1 DEF GoodQueues
<1>3. p \in DOMAIN q /\ q[p].task = t
  <2>1. PICK i \in DOMAIN q : q[i].task = t
    BY DEF Queued, TaskIn
  <2> HIDE DEF q
  <2>2. PositionOf(q, t) = i
    BY <1>2, <2>1, PositionIs
  <2>. QED
    BY <2>1, <2>2
<1>4. qt = [requisitions EXCEPT ![a] = s]
  BY DEF Dismissed
<1> HIDE DEF p
<1>5. /\ GoodQueue(s, a)
      /\ \A u : TaskIn(s, u) <=> TaskIn(q, u) /\ u # q[p].task
      /\ \A u : u # q[p].task => (ServedIn(s, u) <=> ServedIn(q, u))
      /\ InTurn(q) => InTurn(s)
      /\ \A i \in DOMAIN s : \E j \in DOMAIN q : s[i] = q[j]
  BY <1>2, <1>3, RemovedQueue
<1> HIDE DEF s
<1>6. /\ qt \in [Acct -> Seq(Req)] /\ qt[a] = s /\ \A x \in Acct : x # a => qt[x] = requisitions[x]
  BY <1>1, <1>4, <1>5 DEF GoodQueues, GoodQueue
<1>7. GoodQueues(qt)
  BY <1>5, <1>6 DEF GoodQueues
<1>8. ASSUME NEW u \in Task
      PROVE  /\ Queued(qt, u) <=> Queued(requisitions, u) /\ u # t
             /\ u # t => (Granted(qt, u) <=> Granted(requisitions, u))
  <2>1. CASE Account(u) = a
    BY <1>3, <1>5, <1>6, <2>1 DEF Queued, Granted
  <2>2. CASE Account(u) # a
    <3>1. qt[Account(u)] = requisitions[Account(u)] /\ u # t
      BY <1>6, <2>2, AccountType
    <3>. QED
      BY <3>1 DEF Queued, Granted
  <2>. QED
    BY <2>1, <2>2
<1>9. \A x \in Acct : InTurn(requisitions[x]) => InTurn(qt[x])
  BY <1>1, <1>5, <1>6
<1>10. ASSUME NEW m, Asked(requisitions, m) PROVE Asked(qt, m)
  BY <1>1, <1>5, <1>6, <1>10 DEF Asked
<1>. QED
  BY <1>7, <1>8, <1>9, <1>10

\* and served.
LEMMA ProvideQueues ==
    ASSUME NEW qs, GoodQueues(qs), NEW b, NEW a \in Acct, Provide(qs, b, a)
    PROVE  /\ GoodQueues(requisitions')
           /\ \A u \in Task : Queued(requisitions', u) <=> Queued(qs, u)
           /\ \A u \in Task : Granted(qs, u) => Granted(requisitions', u)
           /\ \A x \in Acct : InTurn(qs[x]) => InTurn(requisitions'[x])
           /\ \A m : Asked(qs, m) => Asked(requisitions', m)
           /\ \A x \in Acct : x # a => requisitions'[x] = qs[x]
           /\ requisitions'[a] = Provided(qs[a], Room(b, a))
           /\ sem' = [t \in Task |-> sem'[t]]
           /\ \A t \in Task : sem'[t] = sem[t] \/ (/\ sem'[t] = Given(sem[t]) /\ t \notin Impatient
                                                   /\ Granted(requisitions', t))
<1> DEFINE q == Provided(qs[a], Room(b, a))
           awarded == {q[i].task : i \in {k \in DOMAIN q : q[k].served /\ ~qs[a][k].served}}
<1>1. GoodQueue(qs[a], a)
  BY DEF GoodQueues
<1>2. /\ requisitions' = [qs EXCEPT ![a] = q]
      /\ sem' = [t \in Task |-> IF t \in awarded \ Impatient THEN Given(sem[t]) ELSE sem[t]]
  BY DEF Provide
<1> HIDE DEF q
<1>3. /\ GoodQueue(q, a) /\ DOMAIN q = DOMAIN qs[a]
      /\ \A i \in DOMAIN qs[a] : q[i].task = qs[a][i].task /\ q[i].need = qs[a][i].need
      /\ \A t : TaskIn(q, t) <=> TaskIn(qs[a], t)
      /\ \A t : ServedIn(qs[a], t) => ServedIn(q, t)
      /\ InTurn(qs[a]) => InTurn(q)
  BY <1>1, ProvidedQueue DEF q
<1>4. /\ requisitions' \in [Acct -> Seq(Req)] /\ requisitions'[a] = q
      /\ \A x \in Acct : x # a => requisitions'[x] = qs[x]
  BY <1>2, <1>3 DEF GoodQueues, GoodQueue
<1>5. GoodQueues(requisitions')
  BY <1>3, <1>4 DEF GoodQueues
<1>6. ASSUME NEW u \in Task
      PROVE  /\ Queued(requisitions', u) <=> Queued(qs, u)
             /\ Granted(qs, u) => Granted(requisitions', u)
  <2>1. CASE Account(u) = a
    BY <1>3, <1>4, <2>1 DEF Queued, Granted
  <2>2. CASE Account(u) # a
    <3>1. requisitions'[Account(u)] = qs[Account(u)]
      BY <1>4, <2>2, AccountType
    <3>. QED
      BY <3>1 DEF Queued, Granted
  <2>. QED
    BY <2>1, <2>2
<1>7. \A x \in Acct : InTurn(qs[x]) => InTurn(requisitions'[x])
  BY <1>3, <1>4
<1>8. ASSUME NEW m, Asked(qs, m) PROVE Asked(requisitions', m)
  BY <1>3, <1>4, <1>8 DEF Asked
<1>9. ASSUME NEW t \in Task
      PROVE  sem'[t] = sem[t] \/ (/\ sem'[t] = Given(sem[t]) /\ t \notin Impatient
                                  /\ Granted(requisitions', t))
  <2>1. CASE t \in awarded \ Impatient
    <3>1. PICK i \in DOMAIN q : q[i].task = t /\ q[i].served
      BY <2>1
    <3>2. Account(t) = a
      BY <1>3, <3>1 DEF GoodQueue
    <3>3. Granted(requisitions', t)
      BY <1>4, <3>1, <3>2 DEF Granted, ServedIn
    <3>. QED
      BY <1>2, <2>1, <3>3
  <2>2. CASE ~(t \in awarded \ Impatient)
    BY <1>2, <2>2
  <2>. QED
    BY <2>1, <2>2
<1>10. sem' = [t \in Task |-> sem'[t]]
  BY <1>2
<1>. QED
  BY <1>4, <1>5, <1>6, <1>7, <1>8, <1>9, <1>10 DEF q

-----------------------------------------------------------------------------
(* The inductive invariant behind the types and the balance of the books.     *)

Places == {"idle", "provide", "check", "ready", "awarded", "wait",
           "create", "cancel", "dismiss", "stopped"}
Absent == {"idle", "stopped"}

StateInv ==
    /\ sem \in [Task -> Nat] /\ ended \subseteq Task
    /\ ~Counting => \A t \in Task : sem[t] \in {0, 1}
    /\ pc \in [Task -> Places]
    /\ mine \in [Task -> 0 .. MaxAddr] /\ left \in [Maker -> Nat] /\ need \in [Task -> Nat]

QueueInv ==
    /\ GoodQueues(requisitions) /\ Asked(requisitions, need)
    /\ \A t \in Task : Queued(requisitions, t) <=> pc[t] \notin Absent

\* A maker that is at work, or has pieces to ask for, has not let go of its file.
Working(t) == pc[t] # "stopped" /\ (left[t] > 0 \/ pc[t] # "idle")

BookInv ==
    /\ BooksOK(books)
    /\ \A t \in Maker : mine[t] # 0 => /\ mine[t] \in DOMAIN books.zco
                                       /\ books.zco[mine[t]].acct = AcctOf[t]
    /\ \A t, u \in Maker : t # u /\ mine[t] # 0 => mine[t] # mine[u]
    /\ \A t \in Maker : Working(t) => /\ FileOf[t] \in DOMAIN books.file
                                      /\ ~books.file[FileOf[t]].okay

TypeInv == StateInv /\ QueueInv /\ BookInv

\* The value of a semaphore that is given.
LEMMA GivenType ==
    ASSUME NEW n \in Nat PROVE Given(n) \in Nat \ {0} /\ (~Counting => Given(n) = 1)
BY DEF Given

\* It holds initially.
LEMMA InitTypeInv == Init => TypeInv
<1>. SUFFICES ASSUME Init PROVE TypeInv
  OBVIOUS
<1>1. StateInv
  BY ZcoBooksAssumption, ZcoSpaceAssumption DEF Init, StateInv, Places
<1>2. QueueInv
  <2>1. (\A a \in Acct : requisitions[a] = <<>>) /\ requisitions \in [Acct -> Seq(Req)]
    BY DEF Init
  <2>2. \A a \in Acct : GoodQueue(requisitions[a], a)
    BY <2>1 DEF GoodQueue
  <2>3. Asked(requisitions, need)
    BY <2>1 DEF Asked
  <2>4. \A t \in Task : ~Queued(requisitions, t) /\ pc[t] = "idle"
    BY <2>1, AccountType DEF Queued, TaskIn, Init
  <2>. QED
    BY <2>1, <2>2, <2>3, <2>4, AccountType DEF QueueInv, GoodQueues, Absent
<1>3. BookInv
  <2>1. BooksOK(books)
    BY BlankOK DEF Init
  <2>2. \A t \in Task : mine[t] = 0
    BY DEF Init
  <2>3. \A f \in File : f \in DOMAIN books.file /\ ~books.file[f].okay
    BY DEF Init, Blank
  <2>. QED
    BY <2>1, <2>2, <2>3, ZcoSpaceAssumption DEF BookInv, Task
<1>. QED
  BY <1>1, <1>2, <1>3 DEF TypeInv

\* Who neither makes nor lets go of anything but his own object leaves the books be.
LEMMA BooksLeft ==
    ASSUME BookInv, books' = books,
           \A t \in Maker : mine'[t] = 0 \/ mine'[t] = mine[t],
           \A t \in Maker : Working(t)' => Working(t)
    PROVE  BookInv'
BY DEF BookInv

\* A task that remains with its requisition leaves the queues be.
LEMMA QueuesLeft ==
    ASSUME QueueInv, requisitions' = requisitions, need' = need,
           \A t \in Task : pc[t] \in Absent <=> pc'[t] \in Absent
    PROVE  QueueInv'
BY DEF QueueInv

\* What serving does to the queues of tasks that remain.
LEMMA QueuesServed ==
    ASSUME QueueInv, NEW a \in Acct, NEW b, Provide(requisitions, b, a), need' = need,
           \A t \in Task : pc[t] \in Absent <=> pc'[t] \in Absent
    PROVE  QueueInv'
<1>1. GoodQueues(requisitions)
  BY DEF QueueInv
<1>2. /\ GoodQueues(requisitions')
      /\ \A u \in Task : Queued(requisitions', u) <=> Queued(requisitions, u)
      /\ \A m : Asked(requisitions, m) => Asked(requisitions', m)
  BY <1>1, ProvideQueues
<1>. QED
  BY <1>2 DEF QueueInv

\* Semaphores that are given keep their types.
LEMMA SemServed ==
    ASSUME StateInv, NEW qs, GoodQueues(qs), NEW a \in Acct, NEW b, Provide(qs, b, a)
    PROVE  sem' \in [Task -> Nat] /\ (~Counting => \A t \in Task : sem'[t] \in {0, 1})
<1>1. /\ sem' = [t \in Task |-> sem'[t]]
      /\ \A t \in Task : sem'[t] = sem[t] \/ (/\ sem'[t] = Given(sem[t]) /\ t \notin Impatient
                                              /\ Granted(requisitions', t))
  BY ProvideQueues
<1>2. ASSUME NEW t \in Task PROVE sem'[t] \in Nat /\ (~Counting => sem'[t] \in {0, 1})
  BY <1>1, GivenType DEF StateInv
<1>. QED
  BY <1>1, <1>2

\* TypeInv is kept: by a new requisition,
LEMMA RequestInv ==
    ASSUME TypeInv, NEW t \in Task, Request(t)
    PROVE  TypeInv'
<1>1. StateInv /\ QueueInv /\ BookInv
  BY DEF TypeInv
<1>2. /\ pc[t] = "idle" /\ t \notin ended /\ pc' = [pc EXCEPT ![t] = "provide"]
      /\ requisitions' = [requisitions EXCEPT ![Account(t)] =
                             Insert(@, [task |-> t, need |-> need'[t], served |-> FALSE])]
      /\ books' = books /\ sem' = sem /\ ended' = ended
  BY DEF Request
<1>3. TypedBooks(books)
  BY <1>1 DEF BookInv, BooksOK
<1>4. /\ need' \in [Task -> Nat] /\ \A u \in Task : u # t => need'[u] = need[u]
      /\ left' \in [Maker -> Nat] /\ mine' \in [Task -> 0 .. MaxAddr]
      /\ \A u \in Maker : mine'[u] = mine[u]
      /\ t \in Maker => left[t] > 0 /\ left' = [left EXCEPT ![t] = @ - 1]
      /\ t \notin Maker => left' = left
  <2>1. CASE t \in Maker
    <3>1. RequestPiece(t)
      BY <2>1 DEF Request
    <3>2. Piece[t] \in Nat /\ left[t] \in Nat
      BY <1>1, <2>1, ZcoSpaceAssumption DEF StateInv
    <3>. QED
      BY <1>1, <2>1, <3>1, <3>2 DEF RequestPiece, StateInv
  <2>2. CASE t \notin Maker
    <3>1. RequestCopy(t)
      BY <2>2 DEF Request
    <3>2. PICK z \in DOMAIN books.zco : /\ mine' = [mine EXCEPT ![t] = z]
                                        /\ need' = [need EXCEPT ![t] = LengthOf(books, z)]
                                        /\ left' = left
      BY <3>1 DEF RequestCopy
    <3>3. LengthOf(books, z) \in Nat
      <4>1. books.zco[z].liens \in SUBSET DOMAIN books.lien
        BY <1>3 DEF TypedBooks
      <4>. QED
        BY <1>3, <4>1, BytesType DEF LengthOf
    <3>4. z \in 0 .. MaxAddr
      BY <1>3, ZcoBooksAssumption DEF TypedBooks
    <3>. QED
      BY <1>1, <2>2, <3>2, <3>3, <3>4 DEF StateInv, Task
  <2>. QED
    BY <2>1, <2>2
<1>5. StateInv'
  BY <1>1, <1>2, <1>4 DEF StateInv, Places
<1>6. QueueInv'
  <2>1. GoodQueues(requisitions) /\ ~Queued(requisitions, t) /\ Asked(requisitions, need)
    BY <1>1, <1>2 DEF QueueInv, Absent
  <2>2. need'[t] \in Nat
    BY <1>4
  <2>3. /\ GoodQueues(requisitions')
        /\ \A u \in Task : Queued(requisitions', u) <=> Queued(requisitions, u) \/ u = t
        /\ \A u \in Task : Granted(requisitions', u) <=> Granted(requisitions, u)
        /\ \A m : Asked(requisitions, m) =>
              \A k : Changed(m, k, t, need'[t]) => Asked(requisitions', k)
    <3> DEFINE r == [task |-> t, need |-> need'[t], served |-> FALSE]
    <3>1. r \in Req /\ r.task = t /\ r.need = need'[t] /\ ~r.served
      BY <2>2 DEF Req
    <3>2. requisitions' = [requisitions EXCEPT ![Account(t)] = Insert(@, r)]
      BY <1>2
    <3> HIDE DEF r
    <3>3. /\ requisitions' = [x \in Acct |-> requisitions'[x]]
          /\ requisitions'[Account(t)] = Insert(requisitions[Account(t)], r)
          /\ \A x \in Acct : x # Account(t) => requisitions'[x] = requisitions[x]
      BY <2>1, <3>2, AccountType DEF GoodQueues
    <3>. QED
      BY <2>1, <2>2, <3>1, <3>3, RequestQueues
  <2>4. Asked(requisitions', need')
    BY <1>4, <2>1, <2>3 DEF Changed
  <2>5. \A u \in Task : pc'[u] \notin Absent <=> pc[u] \notin Absent \/ u = t
    BY <1>1, <1>2 DEF StateInv, Absent
  <2>. QED
    BY <1>1, <2>3, <2>4, <2>5 DEF QueueInv
<1>7. BookInv'
  <2>1. \A u \in Maker : Working(u)' => Working(u)
    BY <1>1, <1>2, <1>4 DEF Working, StateInv, Task
  <2>. QED
    BY <1>1, <1>2, <1>4, <2>1, BooksLeft
<1>. QED
  BY <1>5, <1>6, <1>7 DEF TypeInv

\* A step of a task from its place to another, with the rest of TypeInv left alone.
LEMMA Moved ==
    ASSUME TypeInv, NEW t \in Task, pc[t] \notin Absent,
           NEW new \in Places \ Absent, pc' = [pc EXCEPT ![t] = new]
    PROVE  /\ pc' \in [Task -> Places]
           /\ \A u \in Task : pc[u] \in Absent <=> pc'[u] \in Absent
           /\ left' = left => \A u \in Maker : Working(u)' => Working(u)
<1>1. pc \in [Task -> Places]
  BY DEF TypeInv, StateInv
<1>2. pc' \in [Task -> Places] /\ pc'[t] = new /\ \A u \in Task : u # t => pc'[u] = pc[u]
  BY <1>1
<1>. QED
  BY <1>2 DEF Working, Task, Absent

\* by the steps of a task that waits,
LEMMA TryNowInv == ASSUME TypeInv, NEW t \in Task, TryNow(t) PROVE TypeInv'
<1>1. StateInv /\ QueueInv /\ BookInv
  BY DEF TypeInv
<1>2. /\ pc[t] = "provide" /\ Provide(requisitions, books, Account(t))
      /\ pc' = [pc EXCEPT ![t] = "check"]
      /\ books' = books /\ ended' = ended /\ mine' = mine /\ need' = need /\ left' = left
  BY DEF TryNow
<1>3. /\ pc' \in [Task -> Places] /\ \A u \in Task : pc[u] \in Absent <=> pc'[u] \in Absent
      /\ left' = left => \A u \in Maker : Working(u)' => Working(u)
  <2>1. pc[t] \notin Absent /\ "check" \in Places \ Absent
    BY <1>2 DEF Places, Absent
  <2>. QED
    BY <1>2, <2>1, Moved
<1>4. sem' \in [Task -> Nat] /\ (~Counting => \A u \in Task : sem'[u] \in {0, 1})
  BY <1>1, <1>2, AccountType, SemServed DEF QueueInv
<1>5. StateInv'
  BY <1>1, <1>2, <1>3, <1>4 DEF StateInv
<1>6. QueueInv'
  BY <1>1, <1>2, <1>3, AccountType, QueuesServed
<1>7. BookInv'
  BY <1>1, <1>2, <1>3, BooksLeft
<1>. QED
  BY <1>5, <1>6, <1>7 DEF TypeInv

\* A task goes on without a change to books or queues.
LEMMA GoesOn ==
    ASSUME TypeInv, NEW t \in Task, pc[t] \notin Absent,
           NEW new \in Places \ Absent, pc' = [pc EXCEPT ![t] = new],
           books' = books, requisitions' = requisitions, ended' = ended, mine' = mine,
           need' = need, left' = left,
           sem' \in [Task -> Nat], ~Counting => \A u \in Task : sem'[u] \in {0, 1}
    PROVE  TypeInv'
<1>1. StateInv /\ QueueInv /\ BookInv
  BY DEF TypeInv
<1>2. /\ pc' \in [Task -> Places] /\ \A u \in Task : pc[u] \in Absent <=> pc'[u] \in Absent
      /\ left' = left => \A u \in Maker : Working(u)' => Working(u)
  BY Moved
<1>3. StateInv'
  BY <1>1, <1>2 DEF StateInv
<1>4. QueueInv'
  BY <1>1, <1>2, QueuesLeft
<1>5. BookInv'
  BY <1>1, <1>2, BooksLeft
<1>. QED
  BY <1>3, <1>4, <1>5 DEF TypeInv

LEMMA CheckInv == ASSUME TypeInv, NEW t \in Task, Check(t) PROVE TypeInv'
<1> DEFINE new == IF Served(t) THEN "awarded" ELSE IF t \in Impatient THEN "cancel" ELSE "ready"
<1>1. /\ pc[t] = "check" /\ pc' = [pc EXCEPT ![t] = new]
      /\ books' = books /\ requisitions' = requisitions /\ ended' = ended /\ mine' = mine
      /\ need' = need /\ left' = left /\ sem' = sem
  BY DEF Check
<1>2. new \in Places \ Absent /\ pc[t] \notin Absent
  BY <1>1 DEF Places, Absent
<1> HIDE DEF new
<1>3. sem' \in [Task -> Nat] /\ (~Counting => \A u \in Task : sem'[u] \in {0, 1})
  BY <1>1 DEF TypeInv, StateInv
<1>. QED
  BY <1>1, <1>2, <1>3, GoesOn

LEMMA ReadyInv == ASSUME TypeInv, NEW t \in Task, Ready(t) PROVE TypeInv'
<1>1. /\ pc[t] = "ready" /\ pc' = [pc EXCEPT ![t] = "awarded"]
      /\ books' = books /\ requisitions' = requisitions /\ ended' = ended /\ mine' = mine
      /\ need' = need /\ left' = left /\ sem' = [sem EXCEPT ![t] = Given(sem[t]) - 1]
  BY DEF Ready
<1>2. "awarded" \in Places \ Absent /\ pc[t] \notin Absent
  BY <1>1 DEF Places, Absent
<1>3. sem' \in [Task -> Nat] /\ (~Counting => \A u \in Task : sem'[u] \in {0, 1})
  <2>1. sem \in [Task -> Nat] /\ (~Counting => \A u \in Task : sem[u] \in {0, 1})
    BY DEF TypeInv, StateInv
  <2>2. Given(sem[t]) \in Nat \ {0} /\ (~Counting => Given(sem[t]) = 1)
    BY <2>1, GivenType
  <2>. QED
    BY <1>1, <2>1, <2>2
<1>. QED
  BY <1>1, <1>2, <1>3, GoesOn

LEMMA SpaceAwardedInv == ASSUME TypeInv, NEW t \in Task, SpaceAwarded(t) PROVE TypeInv'
<1> DEFINE new == IF Served(t) THEN "create" ELSE "wait"
<1>1. /\ pc[t] = "awarded" /\ pc' = [pc EXCEPT ![t] = new]
      /\ books' = books /\ requisitions' = requisitions /\ ended' = ended /\ mine' = mine
      /\ need' = need /\ left' = left /\ sem' = sem
  BY DEF SpaceAwarded
<1>2. new \in Places \ Absent /\ pc[t] \notin Absent
  BY <1>1 DEF Places, Absent
<1> HIDE DEF new
<1>3. sem' \in [Task -> Nat] /\ (~Counting => \A u \in Task : sem'[u] \in {0, 1})
  BY <1>1 DEF TypeInv, StateInv
<1>. QED
  BY <1>1, <1>2, <1>3, GoesOn

LEMMA TakeInv == ASSUME TypeInv, NEW t \in Task, Take(t) PROVE TypeInv'
<1> DEFINE new == IF t \in ended THEN "cancel" ELSE "create"
<1>1. /\ pc[t] = "wait" /\ sem[t] > 0 /\ pc' = [pc EXCEPT ![t] = new]
      /\ books' = books /\ requisitions' = requisitions /\ ended' = ended /\ mine' = mine
      /\ need' = need /\ left' = left
      /\ sem' = [sem EXCEPT ![t] = IF t \in ended THEN sem[t] ELSE sem[t] - 1]
  BY DEF Take
<1>2. new \in Places \ Absent /\ pc[t] \notin Absent
  BY <1>1 DEF Places, Absent
<1> HIDE DEF new
<1>3. sem' \in [Task -> Nat] /\ (~Counting => \A u \in Task : sem'[u] \in {0, 1})
  <2>1. sem \in [Task -> Nat] /\ (~Counting => \A u \in Task : sem[u] \in {0, 1})
    BY DEF TypeInv, StateInv
  <2>2. sem[t] \in Nat /\ sem[t] > 0
    BY <1>1, <2>1
  <2>3. sem[t] - 1 \in Nat
    BY <2>2
  <2>4. ~Counting => sem[t] - 1 \in {0, 1}
    BY <2>1, <2>2
  <2>. QED
    BY <1>1, <2>1, <2>3, <2>4
<1>. QED
  BY <1>1, <1>2, <1>3, GoesOn

\* by the end of a request or of a task,
LEMMA ShredInv == ASSUME TypeInv, NEW t \in Task, Shred(t) PROVE TypeInv'
<1> DEFINE over == t \in Mover \/ pc[t] = "cancel" \/ left[t] = 0
<1>1. StateInv /\ QueueInv /\ BookInv
  BY DEF TypeInv
<1>2. /\ pc[t] \in {"cancel", "dismiss"} /\ requisitions' = Dismissed(t)
      /\ books' = books /\ sem' = sem /\ ended' = ended /\ need' = need
      /\ mine' = IF over THEN [mine EXCEPT ![t] = 0] ELSE mine
      /\ left' = IF over /\ t \in Maker THEN [left EXCEPT ![t] = 0] ELSE left
      /\ pc' = [pc EXCEPT ![t] = IF pc[t] = "cancel" /\ t \in ended THEN "stopped" ELSE "idle"]
  BY DEF Shred
<1>3. Queued(requisitions, t)
  BY <1>1, <1>2 DEF QueueInv, Absent
<1>4. /\ GoodQueues(requisitions')
      /\ \A u \in Task : Queued(requisitions', u) <=> Queued(requisitions, u) /\ u # t
      /\ \A u \in Task : u # t => (Granted(requisitions', u) <=> Granted(requisitions, u))
      /\ \A x \in Acct : InTurn(requisitions[x]) => InTurn(requisitions'[x])
      /\ \A m : Asked(requisitions, m) => Asked(requisitions', m)
  BY <1>1, <1>2, <1>3, DismissQueues DEF QueueInv
<1>5. /\ pc' \in [Task -> Places] /\ pc'[t] \in Absent /\ \A u \in Task : u # t => pc'[u] = pc[u]
  BY <1>1, <1>2 DEF StateInv, Places, Absent
<1>6. /\ mine' \in [Task -> 0 .. MaxAddr] /\ left' \in [Maker -> Nat]
      /\ \A u \in Maker : mine'[u] = 0 \/ mine'[u] = mine[u]
      /\ \A u \in Maker : left'[u] = 0 \/ left'[u] = left[u]
  <2>1. 0 \in 0 .. MaxAddr
    BY ZcoBooksAssumption
  <2> HIDE DEF over
  <2>. QED
    BY <1>1, <1>2, <2>1 DEF StateInv, Task
<1>7. StateInv'
  BY <1>1, <1>2, <1>5, <1>6 DEF StateInv
<1>8. QueueInv'
  BY <1>1, <1>2, <1>4, <1>5 DEF QueueInv
<1>9. BookInv'
  <2>1. \A u \in Maker : Working(u)' => Working(u)
    <3>1. pc[t] # "stopped" /\ pc[t] # "idle"
      BY <1>2
    <3>. QED
      BY <1>1, <1>5, <1>6, <3>1 DEF Working, StateInv, Task
  <2>. QED
    BY <1>1, <1>2, <1>6, <2>1, BooksLeft
<1>. QED
  BY <1>7, <1>8, <1>9 DEF TypeInv

LEMMA QuitInv == ASSUME TypeInv, NEW t \in Task, Quit(t) PROVE TypeInv'
<1>1. StateInv /\ QueueInv /\ BookInv
  BY DEF TypeInv
<1>2. /\ pc[t] = "idle" /\ pc' = [pc EXCEPT ![t] = "stopped"] /\ mine' = [mine EXCEPT ![t] = 0]
      /\ books' = books /\ requisitions' = requisitions /\ sem' = sem /\ ended' = ended
      /\ need' = need /\ left' = left
  BY DEF Quit
<1>3. pc' \in [Task -> Places] /\ pc'[t] = "stopped" /\ \A u \in Task : u # t => pc'[u] = pc[u]
  BY <1>1, <1>2 DEF StateInv, Places
<1>4. mine' \in [Task -> 0 .. MaxAddr] /\ \A u \in Maker : mine'[u] = 0 \/ mine'[u] = mine[u]
  <2>1. 0 \in 0 .. MaxAddr
    BY ZcoBooksAssumption
  <2>. QED
    BY <1>1, <1>2, <2>1 DEF StateInv, Task
<1>5. StateInv'
  BY <1>1, <1>2, <1>3, <1>4 DEF StateInv
<1>6. QueueInv'
  <2>1. \A u \in Task : pc[u] \in Absent <=> pc'[u] \in Absent
    BY <1>2, <1>3 DEF Absent
  <2>. QED
    BY <1>1, <1>2, <2>1, QueuesLeft
<1>7. BookInv'
  <2>1. \A u \in Maker : Working(u)' => Working(u)
    BY <1>2, <1>3 DEF Working, Task
  <2>. QED
    BY <1>1, <1>2, <1>4, <2>1, BooksLeft
<1>. QED
  BY <1>5, <1>6, <1>7 DEF TypeInv

\* by the signal handler,
LEMMA PauseInv == ASSUME TypeInv, NEW t \in Task, Pause(t) PROVE TypeInv'
<1>1. StateInv /\ QueueInv /\ BookInv
  BY DEF TypeInv
<1>2. /\ ended' = ended \cup {t} /\ sem' = [sem EXCEPT ![t] = Given(sem[t])]
      /\ books' = books /\ requisitions' = requisitions /\ pc' = pc /\ mine' = mine
      /\ need' = need /\ left' = left
  BY DEF Pause
<1>3. Given(sem[t]) \in Nat \ {0} /\ (~Counting => Given(sem[t]) = 1)
  BY <1>1, GivenType DEF StateInv
<1>4. StateInv'
  BY <1>1, <1>2, <1>3 DEF StateInv
<1>5. QueueInv'
  BY <1>1, <1>2, QueuesLeft
<1>6. BookInv'
  BY <1>1, <1>2, BooksLeft DEF Working
<1>. QED
  BY <1>4, <1>5, <1>6 DEF TypeInv

\* by those who let go of files, clone and destroy,
LEMMA ReleaseFileInv == ASSUME TypeInv, NEW t \in Maker, ReleaseFile(t) PROVE TypeInv'
<1>1. StateInv /\ QueueInv /\ BookInv
  BY DEF TypeInv
<1>2. /\ pc[t] \in {"idle", "stopped"} /\ (left[t] = 0 \/ pc[t] = "stopped")
      /\ FileOf[t] \in DOMAIN books.file /\ books' = DestroyFileRef(books, FileOf[t])
      /\ requisitions' = requisitions /\ sem' = sem /\ ended' = ended /\ pc' = pc
      /\ mine' = mine /\ need' = need /\ left' = left
  BY DEF ReleaseFile
<1>3. /\ BooksOK(books') /\ books'.zco = books.zco
      /\ \A g \in DOMAIN books.file : g # FileOf[t] /\ ~books.file[g].okay
                                          => g \in DOMAIN books'.file /\ ~books'.file[g].okay
  <2>1. BooksOK(books)
    BY <1>1 DEF BookInv
  <2>2. /\ BooksOK(books') /\ books'.zco = books.zco /\ books'.lien = books.lien
        /\ books'.occupancy = books.occupancy
        /\ \A g \in DOMAIN books.file : g # FileOf[t] /\ ~books.file[g].okay
                                          => g \in DOMAIN books'.file /\ ~books'.file[g].okay
    BY <1>2, <2>1, DestroyFileRefOK
  <2>. QED
    BY <2>2
<1>4. StateInv'
  BY <1>1, <1>2 DEF StateInv
<1>5. QueueInv'
  BY <1>1, <1>2, QueuesLeft
<1>6. BookInv'
  <2>1. ASSUME NEW u \in Maker, Working(u)'
        PROVE  FileOf[u] \in DOMAIN books'.file /\ ~books'.file[FileOf[u]].okay
    <3>1. Working(u) /\ u # t
      <4>1. left[t] \in Nat
        BY <1>1 DEF StateInv
      <4>. QED
        BY <1>2, <2>1, <4>1 DEF Working
    <3>2. FileOf[u] # FileOf[t]
      BY <3>1, ZcoSpaceAssumption
    <3>3. FileOf[u] \in DOMAIN books.file /\ ~books.file[FileOf[u]].okay
      BY <1>1, <3>1 DEF BookInv
    <3>. QED
      BY <1>3, <3>2, <3>3
  <2>. QED
    BY <1>1, <1>2, <1>3, <2>1 DEF BookInv
<1>. QED
  BY <1>4, <1>5, <1>6 DEF TypeInv

LEMMA CloneInv == ASSUME TypeInv, NEW z \in DOMAIN books.zco, Clone(z) PROVE TypeInv'
<1>1. StateInv /\ QueueInv /\ BookInv
  BY DEF TypeInv
<1> DEFINE n == NewAddr(books.zco)
           a == books.zco[z].acct
<1>2. /\ Free(books.zco) # {} /\ books' = CopyZco(books, n, z, a)
      /\ requisitions' = requisitions /\ sem' = sem /\ ended' = ended /\ pc' = pc
      /\ mine' = mine /\ need' = need /\ left' = left
  BY DEF Clone, Addressable
<1>3. n \in 1 .. MaxAddr /\ n \notin DOMAIN books.zco
  BY <1>2, NewIsFree
<1>4. BooksOK(books) /\ a \in Acct
  BY <1>1 DEF BookInv, BooksOK, TypedBooks
<1> HIDE DEF n, a
<1>5. /\ BooksOK(books') /\ DOMAIN books'.zco = DOMAIN books.zco \cup {n}
      /\ \A y \in DOMAIN books.zco : books'.zco[y].acct = books.zco[y].acct
      /\ books'.zco[n].acct = a
      /\ DOMAIN books'.file = DOMAIN books.file
      /\ \A g \in DOMAIN books.file : books'.file[g].okay = books.file[g].okay
      /\ \A x \in Acct : x # a => books'.occupancy[x] = books.occupancy[x]
      /\ LengthOf(books, z) \in Nat
      /\ books'.occupancy[a] <= books.occupancy[a] + LengthOf(books, z)
      /\ books.zco[z].acct = a => books'.occupancy[a] = books.occupancy[a]
  BY <1>2, <1>3, <1>4, CopyZcoOK
<1>6. StateInv'
  BY <1>1, <1>2 DEF StateInv
<1>7. QueueInv'
  BY <1>1, <1>2, QueuesLeft
<1>8. BookInv'
  BY <1>1, <1>2, <1>5 DEF BookInv, Working
<1>. QED
  BY <1>6, <1>7, <1>8 DEF TypeInv

LEMMA DestroyInv == ASSUME TypeInv, NEW z \in DOMAIN books.zco, Destroy(z) PROVE TypeInv'
<1>1. StateInv /\ QueueInv /\ BookInv
  BY DEF TypeInv
<1>2. /\ \A t \in Maker : mine[t] # z
      /\ books' = DestroyZco(books, z) /\ Provide(requisitions, books', books.zco[z].acct)
      /\ ended' = ended /\ pc' = pc /\ mine' = mine /\ need' = need /\ left' = left
  BY DEF Destroy, Released
<1>3. BooksOK(books) /\ books.zco[z].acct \in Acct
  BY <1>1 DEF BookInv, BooksOK, TypedBooks
<1>4. /\ BooksOK(books') /\ DOMAIN books'.zco = DOMAIN books.zco \ {z}
      /\ \A y \in DOMAIN books'.zco : books'.zco[y] = books.zco[y]
      /\ \A g \in DOMAIN books.file : ~books.file[g].okay => g \in DOMAIN books'.file /\ ~books'.file[g].okay
      /\ \A x \in Acct : books'.occupancy[x] <= books.occupancy[x]
  BY <1>2, <1>3, DestroyZcoOK
<1>5. sem' \in [Task -> Nat] /\ (~Counting => \A u \in Task : sem'[u] \in {0, 1})
  BY <1>1, <1>2, <1>3, SemServed DEF QueueInv
<1>6. StateInv'
  BY <1>1, <1>2, <1>5 DEF StateInv
<1>7. QueueInv'
  BY <1>1, <1>2, <1>3, QueuesServed
<1>8. BookInv'
  BY <1>1, <1>2, <1>4 DEF BookInv, Working
<1>. QED
  BY <1>6, <1>7, <1>8 DEF TypeInv

\* by a piece that is appended,
LEMMA CreatePieceInv ==
    ASSUME TypeInv, NEW t \in Maker, Create(t)
    PROVE  /\ TypeInv' /\ pc' = [pc EXCEPT ![t] = "dismiss"] /\ requisitions' = requisitions
           /\ \A x \in Acct : x # AcctOf[t] => books'.occupancy[x] = books.occupancy[x]
           /\ books'.occupancy[AcctOf[t]] = books.occupancy[AcctOf[t]] + Piece[t]
<1>1. StateInv /\ QueueInv /\ BookInv
  BY DEF TypeInv
<1> DEFINE z == IF mine[t] = 0 THEN NewAddr(books.zco) ELSE mine[t]
           begun == IF mine[t] = 0 THEN CreateZco(books, z, AcctOf[t]) ELSE books
<1>2. /\ pc[t] = "create" /\ Free(books.zco) # {} /\ Free(books.lien) # {}
      /\ books' = AppendExtent(begun, z, FileOf[t], Piece[t])
      /\ mine' = [mine EXCEPT ![t] = z] /\ pc' = [pc EXCEPT ![t] = "dismiss"]
      /\ requisitions' = requisitions /\ sem' = sem
      /\ ended' = ended /\ need' = need /\ left' = left
  BY DEF Create, Addressable, CreatePiece
<1>3. BooksOK(books) /\ AcctOf[t] \in Acct /\ Piece[t] \in Nat /\ t \in Task
  BY <1>1, ZcoSpaceAssumption DEF BookInv, Task
<1>4. z \in 1 .. MaxAddr /\ (z \in DOMAIN books.zco => z = mine[t])
  <2>1. CASE mine[t] = 0
    BY <1>2, <2>1, NewIsFree
  <2>2. CASE mine[t] # 0
    BY <1>1, <1>3, <2>2 DEF StateInv
  <2>. QED
    BY <2>1, <2>2
<1>5. /\ BooksOK(begun) /\ z \in DOMAIN begun.zco /\ begun.zco[z].acct = AcctOf[t]
      /\ DOMAIN books.zco \subseteq DOMAIN begun.zco
      /\ \A y \in DOMAIN books.zco : begun.zco[y].acct = books.zco[y].acct
      /\ begun.lien = books.lien /\ begun.file = books.file /\ begun.occupancy = books.occupancy
  <2>1. CASE mine[t] = 0
    <3> DEFINE n == NewAddr(books.zco)
               c == CreateZco(books, n, AcctOf[t])
    <3>1. n \in 1 .. MaxAddr /\ n \notin DOMAIN books.zco
      BY <1>2, NewIsFree
    <3>2. z = n /\ begun = c
      BY <2>1
    <3> HIDE DEF n
    <3>3. /\ BooksOK(c) /\ DOMAIN c.zco = DOMAIN books.zco \cup {n}
          /\ c.zco[n] = [acct |-> AcctOf[t], liens |-> {}]
          /\ \A y \in DOMAIN books.zco : c.zco[y] = books.zco[y]
          /\ c.lien = books.lien /\ c.file = books.file /\ c.occupancy = books.occupancy
      BY <1>3, <3>1, CreateZcoOK
    <3> HIDE DEF z, begun, c
    <3>. QED
      BY <3>2, <3>3
  <2>2. CASE mine[t] # 0
    <3>1. z = mine[t] /\ begun = books
      BY <2>2
    <3>. QED
      BY <1>1, <1>3, <2>2, <3>1 DEF BookInv
  <2>. QED
    BY <2>1, <2>2
<1>6. FileOf[t] \in DOMAIN begun.file /\ ~books.file[FileOf[t]].okay /\ Working(t)
  BY <1>1, <1>2, <1>5 DEF BookInv, Working
<1> HIDE DEF z, begun
<1>7. /\ BooksOK(books') /\ DOMAIN books'.zco = DOMAIN begun.zco
      /\ \A y \in DOMAIN begun.zco : books'.zco[y].acct = begun.zco[y].acct
      /\ DOMAIN books'.file = DOMAIN begun.file
      /\ \A g \in DOMAIN begun.file : books'.file[g].okay = begun.file[g].okay
      /\ \A x \in Acct : x # begun.zco[z].acct => books'.occupancy[x] = begun.occupancy[x]
      /\ books'.occupancy[begun.zco[z].acct] = begun.occupancy[begun.zco[z].acct] + Piece[t]
  <2>1. Free(begun.lien) # {}
    BY <1>2, <1>5
  <2>2. BooksOK(begun) /\ z \in DOMAIN begun.zco /\ FileOf[t] \in DOMAIN begun.file /\ Piece[t] \in Nat
    BY <1>3, <1>5, <1>6
  <2>3. books' = AppendExtent(begun, z, FileOf[t], Piece[t])
    BY <1>2
  <2>. QED
    BY <2>1, <2>2, <2>3, AppendExtentOK
<1>8. /\ pc' \in [Task -> Places] /\ \A u \in Task : pc[u] \in Absent <=> pc'[u] \in Absent
      /\ left' = left => \A u \in Maker : Working(u)' => Working(u)
  <2>1. pc[t] \notin Absent /\ "dismiss" \in Places \ Absent
    BY <1>2 DEF Places, Absent
  <2>. QED
    BY <1>2, <1>3, <2>1, Moved
<1>9. StateInv'
  <2>1. z \in 0 .. MaxAddr
    BY <1>4
  <2>. QED
    BY <1>1, <1>2, <1>8, <2>1 DEF StateInv
<1>10. QueueInv'
  BY <1>1, <1>2, <1>8, QueuesLeft
<1>11. BookInv'
  <2>1. mine'[t] = z /\ \A u \in Maker : u # t => mine'[u] = mine[u]
    BY <1>1, <1>2, <1>3 DEF StateInv, Task
  <2>2. ASSUME NEW u \in Maker, mine'[u] # 0
        PROVE  mine'[u] \in DOMAIN books'.zco /\ books'.zco[mine'[u]].acct = AcctOf[u]
    BY <1>1, <1>5, <1>7, <2>1, <2>2 DEF BookInv
  <2>3. \A u \in Maker : u # t /\ mine[u] # 0 => mine[u] # z
    <3>1. ASSUME NEW u \in Maker, u # t, mine[u] # 0, mine[u] = z PROVE FALSE
      <4>1. z \in DOMAIN books.zco
        BY <1>1, <3>1 DEF BookInv
      <4>2. mine[t] = mine[u]
        BY <1>4, <3>1, <4>1
      <4>. QED
        BY <1>1, <3>1, <4>2 DEF BookInv
    <3>. QED
      BY <3>1
  <2>4. ASSUME NEW u \in Maker, NEW v \in Maker, u # v, mine'[u] # 0 PROVE mine'[u] # mine'[v]
    <3>1. z # 0
      BY <1>4
    <3>. QED
      BY <1>1, <2>1, <2>3, <2>4, <3>1 DEF BookInv
  <2>5. ASSUME NEW u \in Maker, Working(u)'
        PROVE  FileOf[u] \in DOMAIN books'.file /\ ~books'.file[FileOf[u]].okay
    <3>1. Working(u)
      BY <1>2, <1>8, <2>5
    <3>2. FileOf[u] \in DOMAIN books.file /\ ~books.file[FileOf[u]].okay
      BY <1>1, <3>1 DEF BookInv
    <3>. QED
      BY <1>5, <1>7, <3>2
  <2>. QED
    BY <1>7, <2>2, <2>4, <2>5 DEF BookInv
<1>12. /\ \A x \in Acct : x # AcctOf[t] => books'.occupancy[x] = books.occupancy[x]
       /\ books'.occupancy[AcctOf[t]] = books.occupancy[AcctOf[t]] + Piece[t]
  BY <1>5, <1>7
<1>. QED
  BY <1>2, <1>9, <1>10, <1>11, <1>12 DEF TypeInv

\* What it takes to move an object from the inbound to the outbound account.
LEMMA MovedBooks ==
    ASSUME NEW b, BooksOK(b), Free(b.zco) # {}, NEW m \in DOMAIN b.zco, b.zco[m].acct = "in",
           NEW c, c = DestroyZco(CopyZco(b, NewAddr(b.zco), m, "out"), m)
    PROVE  /\ BooksOK(c) /\ DOMAIN b.zco \ {m} \subseteq DOMAIN c.zco
           /\ \A y \in DOMAIN b.zco : y # m => c.zco[y].acct = b.zco[y].acct
           /\ \A g \in DOMAIN b.file : ~b.file[g].okay => g \in DOMAIN c.file /\ ~c.file[g].okay
           /\ c.occupancy["in"] <= b.occupancy["in"]
           /\ c.occupancy["out"] <= b.occupancy["out"] + LengthOf(b, m)
<1> DEFINE n == NewAddr(b.zco)
           d == CopyZco(b, n, m, "out")
<1>1. n \in 1 .. MaxAddr /\ n \notin DOMAIN b.zco
  BY NewIsFree
<1>2. "out" \in Acct /\ "in" \in Acct
  BY DEF Acct
<1> HIDE DEF n
<1>3. PICK e : e = d
  OBVIOUS
<1>4. /\ BooksOK(e) /\ DOMAIN e.zco = DOMAIN b.zco \cup {n}
      /\ \A y \in DOMAIN b.zco : e.zco[y].acct = b.zco[y].acct
      /\ e.zco[n].acct = "out"
      /\ DOMAIN e.file = DOMAIN b.file
      /\ \A g \in DOMAIN b.file : e.file[g].okay = b.file[g].okay
      /\ \A x \in Acct : x # "out" => e.occupancy[x] = b.occupancy[x]
      /\ LengthOf(b, m) \in Nat
      /\ e.occupancy["out"] <= b.occupancy["out"] + LengthOf(b, m)
      /\ b.zco[m].acct = "out" => e.occupancy["out"] = b.occupancy["out"]
  BY <1>1, <1>2, <1>3, CopyZcoOK
<1>5. m \in DOMAIN e.zco /\ c = DestroyZco(e, m)
  BY <1>3, <1>4 DEF n
<1>6. /\ BooksOK(c) /\ DOMAIN c.zco = DOMAIN e.zco \ {m}
      /\ \A y \in DOMAIN c.zco : c.zco[y] = e.zco[y]
      /\ \A g \in DOMAIN e.file : ~e.file[g].okay => g \in DOMAIN c.file /\ ~c.file[g].okay
      /\ \A x \in Acct : c.occupancy[x] <= e.occupancy[x]
  BY <1>4, <1>5, DestroyZcoOK
<1>7. \A x \in Acct : b.occupancy[x] \in Nat /\ e.occupancy[x] \in Nat /\ c.occupancy[x] \in Nat
  BY <1>4, <1>6, CountsType DEF BooksOK
<1>8. c.occupancy["in"] <= b.occupancy["in"]
  BY <1>2, <1>4, <1>6, <1>7
<1>9. c.occupancy["out"] <= b.occupancy["out"] + LengthOf(b, m)
  BY <1>2, <1>4, <1>6, <1>7
<1>. QED
  BY <1>4, <1>6, <1>8, <1>9

\* by a copy that replaces its source,
LEMMA CreateCopyInv ==
    ASSUME TypeInv, NEW t \in Mover, Create(t), Intact(t)
    PROVE  /\ TypeInv' /\ pc' = [pc EXCEPT ![t] = "idle"]
           /\ mine[t] \in DOMAIN books.zco /\ books.zco[mine[t]].acct = "in"
           /\ \A u \in Maker : mine[u] # mine[t]
           /\ need' = need /\ GoodQueues(Dismissed(t)) /\ Provide(Dismissed(t), books', "in")
           /\ books'.occupancy["in"] <= books.occupancy["in"]
           /\ books'.occupancy["out"] <= books.occupancy["out"] + need[t]
<1>1. StateInv /\ QueueInv /\ BookInv
  BY DEF TypeInv
<1>2. t \in Task /\ t \notin Maker
  BY ZcoSpaceAssumption DEF Task
<1>3. /\ pc[t] = "create" /\ Free(books.zco) # {}
      /\ mine[t] \in DOMAIN books.zco /\ books.zco[mine[t]].acct = "in"
      /\ \A u \in Maker : mine[u] # mine[t]
      /\ LengthOf(books, mine[t]) = need[t]
      /\ books' = DestroyZco(CopyZco(books, NewAddr(books.zco), mine[t], "out"), mine[t])
      /\ Provide(Dismissed(t), books', "in")
      /\ pc' = [pc EXCEPT ![t] = "idle"] /\ mine' = [mine EXCEPT ![t] = 0]
      /\ ended' = ended /\ need' = need /\ left' = left
  BY <1>2 DEF Create, Addressable, CreateCopy, Intact, Released
<1>4. BooksOK(books)
  BY <1>1 DEF BookInv
<1>5. /\ BooksOK(books') /\ DOMAIN books.zco \ {mine[t]} \subseteq DOMAIN books'.zco
      /\ \A y \in DOMAIN books.zco : y # mine[t] => books'.zco[y].acct = books.zco[y].acct
      /\ \A g \in DOMAIN books.file : ~books.file[g].okay => g \in DOMAIN books'.file /\ ~books'.file[g].okay
      /\ books'.occupancy["in"] <= books.occupancy["in"]
      /\ books'.occupancy["out"] <= books.occupancy["out"] + LengthOf(books, mine[t])
  BY <1>3, <1>4, MovedBooks
<1>6. Queued(requisitions, t)
  BY <1>1, <1>2, <1>3 DEF QueueInv, Absent
<1> DEFINE qt == Dismissed(t)
<1>7. /\ GoodQueues(qt)
      /\ \A u \in Task : Queued(qt, u) <=> Queued(requisitions, u) /\ u # t
      /\ \A u \in Task : u # t => (Granted(qt, u) <=> Granted(requisitions, u))
      /\ \A x \in Acct : InTurn(requisitions[x]) => InTurn(qt[x])
      /\ \A m : Asked(requisitions, m) => Asked(qt, m)
  BY <1>1, <1>2, <1>6, DismissQueues DEF QueueInv
<1>8. "in" \in Acct
  BY DEF Acct
<1> HIDE DEF qt
<1>9. /\ GoodQueues(requisitions')
      /\ \A u \in Task : Queued(requisitions', u) <=> Queued(qt, u)
      /\ \A m : Asked(qt, m) => Asked(requisitions', m)
  BY <1>3, <1>7, <1>8, ProvideQueues DEF qt
<1>10. sem' \in [Task -> Nat] /\ (~Counting => \A u \in Task : sem'[u] \in {0, 1})
  BY <1>1, <1>3, <1>7, <1>8, SemServed DEF qt
<1>11. /\ pc' \in [Task -> Places] /\ pc'[t] = "idle" /\ \A u \in Task : u # t => pc'[u] = pc[u]
       /\ mine' \in [Task -> 0 .. MaxAddr] /\ \A u \in Maker : mine'[u] = mine[u]
  <2>1. "idle" \in Places /\ 0 \in 0 .. MaxAddr
    BY ZcoBooksAssumption DEF Places
  <2>. QED
    BY <1>1, <1>2, <1>3, <2>1 DEF StateInv, Task
<1>12. StateInv'
  BY <1>1, <1>3, <1>10, <1>11 DEF StateInv
<1>13. QueueInv'
  <2>1. \A u \in Task : pc'[u] \notin Absent <=> pc[u] \notin Absent /\ u # t
    BY <1>11 DEF Absent
  <2>. QED
    BY <1>1, <1>3, <1>7, <1>9, <2>1 DEF QueueInv
<1>14. BookInv'
  <2>1. \A u \in Maker : Working(u)' => Working(u)
    BY <1>2, <1>3, <1>11 DEF Working, Task
  <2>2. ASSUME NEW u \in Maker, mine'[u] # 0
        PROVE  mine'[u] \in DOMAIN books'.zco /\ books'.zco[mine'[u]].acct = AcctOf[u]
    BY <1>1, <1>3, <1>5, <1>11, <2>2 DEF BookInv
  <2>3. ASSUME NEW u \in Maker, Working(u)'
        PROVE  FileOf[u] \in DOMAIN books'.file /\ ~books'.file[FileOf[u]].okay
    BY <1>1, <1>5, <2>1, <2>3 DEF BookInv
  <2>4. \A u, v \in Maker : u # v /\ mine'[u] # 0 => mine'[u] # mine'[v]
    BY <1>1, <1>11 DEF BookInv
  <2>. QED
    BY <1>5, <2>2, <2>3, <2>4 DEF BookInv
<1>. QED
  BY <1>3, <1>5, <1>7, <1>12, <1>13, <1>14 DEF TypeInv, qt

\* and by one that is given up, or nothing at all.
LEMMA CreateNotInv ==
    ASSUME TypeInv, NEW t \in Mover, Create(t), ~Intact(t)
    PROVE  /\ TypeInv' /\ pc' = [pc EXCEPT ![t] = "cancel"]
           /\ books' = books /\ requisitions' = requisitions /\ sem' = sem /\ need' = need
<1>1. t \in Task /\ t \notin Maker
  BY ZcoSpaceAssumption DEF Task
<1>2. /\ pc[t] = "create" /\ pc' = [pc EXCEPT ![t] = "cancel"]
      /\ books' = books /\ requisitions' = requisitions /\ sem' = sem /\ mine' = mine
      /\ ended' = ended /\ need' = need /\ left' = left
  BY <1>1 DEF Create, CreateCopy
<1>3. pc[t] \notin Absent /\ "cancel" \in Places \ Absent
  BY <1>2 DEF Places, Absent
<1>4. sem' \in [Task -> Nat] /\ (~Counting => \A u \in Task : sem'[u] \in {0, 1})
  BY <1>2 DEF TypeInv, StateInv
<1>5. TypeInv'
  BY <1>1, <1>2, <1>3, <1>4, GoesOn
<1>. QED
  BY <1>2, <1>5

LEMMA StutterInv == ASSUME TypeInv, UNCHANGED vars PROVE TypeInv'
<1>1. /\ books' = books /\ requisitions' = requisitions /\ sem' = sem /\ ended' = ended /\ pc' = pc
      /\ mine' = mine /\ need' = need /\ left' = left
  BY DEF vars
<1>2. StateInv' /\ QueueInv'
  BY <1>1 DEF TypeInv, StateInv, QueueInv
<1>3. BookInv'
  BY <1>1, BooksLeft DEF TypeInv, Working
<1>. QED
  BY <1>2, <1>3 DEF TypeInv

\* So that every step keeps it.
LEMMA NextTypeInv == TypeInv /\ [Next]_vars => TypeInv'
<1>. SUFFICES ASSUME TypeInv, [Next]_vars PROVE TypeInv'
  OBVIOUS
<1>1. ASSUME NEW t \in Task, Create(t) PROVE TypeInv'
  BY <1>1, CreatePieceInv, CreateCopyInv, CreateNotInv DEF Task
<1>2. ASSUME NEW t \in Task, Request(t) \/ Proceed(t) \/ Pause(t) PROVE TypeInv'
  BY <1>1, <1>2, RequestInv, TryNowInv, CheckInv, ReadyInv, SpaceAwardedInv, TakeInv, ShredInv,
     QuitInv, PauseInv DEF Proceed
<1>3. ASSUME NEW t \in Maker, ReleaseFile(t) PROVE TypeInv'
  BY <1>3, ReleaseFileInv
<1>4. ASSUME NEW z \in DOMAIN books.zco, Clone(z) \/ Destroy(z) PROVE TypeInv'
  BY <1>4, CloneInv, DestroyInv
<1>. QED
  BY <1>2, <1>3, <1>4, StutterInv DEF Next

\* TypeInv holds.
LEMMA TypeInvHolds == Spec => []TypeInv
BY InitTypeInv, NextTypeInv, PTL DEF Spec

\* The types of the state, and the distinct requisitions of the tasks that
\* have one, in the queue of their account (ion.c).
THEOREM TypeCorrect == Spec => []TypeOK
<1>1. TypeInv => TypeOK
  <2>. SUFFICES ASSUME TypeInv PROVE TypeOK
    OBVIOUS
  <2>1. StateInv /\ QueueInv
    BY DEF TypeInv
  <2>2. GoodQueues(requisitions)
    BY <2>1 DEF QueueInv
  <2>3. /\ requisitions \in [Acct -> Seq([task : Task, need : Nat, served : BOOLEAN])]
        /\ \A a \in Acct : \A i, j \in DOMAIN requisitions[a] :
              /\ Account(requisitions[a][i].task) = a
              /\ i # j => requisitions[a][i].task # requisitions[a][j].task
    BY <2>2 DEF GoodQueues, GoodQueue, Req
  <2>4. \A t \in Task : (\E i \in DOMAIN requisitions[Account(t)] :
                            requisitions[Account(t)][i].task = t)
                          <=> pc[t] \notin {"idle", "stopped"}
    BY <2>1 DEF QueueInv, Queued, TaskIn, Absent
  <2>. QED
    BY <2>1, <2>3, <2>4 DEF TypeOK, StateInv, Places
<1>. QED
  BY <1>1, TypeInvHolds, PTL

\* The books balance, whatever is appended, copied and destroyed (zco.c).
THEOREM Balance == Spec => []BooksBalance
<1>1. TypeInv => BooksBalance
  BY BalancedParts DEF TypeInv, BookInv, BooksOK, BooksBalance
<1>. QED
  BY <1>1, TypeInvHolds, PTL

\* A sum is no more than another that has a place for each of its summands.
LEMMA TotalInjects ==
    ASSUME NEW S, NEW T, IsFiniteSet(S), IsFiniteSet(T), NEW f, NEW g, NEW h,
           \A x \in S : h[x] \in T /\ f[x] \in Nat /\ f[x] = g[h[x]],
           \A y \in T : g[y] \in Nat,
           \A x, y \in S : x # y => h[x] # h[y]
    PROVE  /\ Total(f, S) \in Nat /\ Total(g, T) \in Nat /\ Total(f, S) <= Total(g, T)
<1>1. IsFiniteSet(Units(f, S)) /\ Total(f, S) \in Nat /\ IsFiniteSet(Units(g, T)) /\ Total(g, T) \in Nat
  BY TotalType
<1> DEFINE m == [u \in Units(f, S) |-> <<h[u[1]], u[2]>>]
<1>2. \A u \in Units(f, S) : u[1] \in S /\ u[2] \in 1 .. f[u[1]] /\ u = <<u[1], u[2]>>
  BY DEF Units
<1>3. \A u \in Units(f, S) : m[u] \in Units(g, T)
  <2>1. ASSUME NEW u \in Units(f, S) PROVE <<h[u[1]], u[2]>> \in Units(g, T)
    <3>1. h[u[1]] \in T /\ u[2] \in 1 .. g[h[u[1]]]
      BY <1>2
    <3>. QED
      BY <3>1 DEF Units
  <2>. QED
    BY <2>1
<1>4. \A u, v \in Units(f, S) : m[u] = m[v] => u = v
  <2>1. ASSUME NEW u \in Units(f, S), NEW v \in Units(f, S), <<h[u[1]], u[2]>> = <<h[v[1]], v[2]>>
        PROVE  u = v
    <3>1. h[u[1]] = h[v[1]] /\ u[2] = v[2]
      BY <2>1
    <3>2. u[1] = v[1]
      BY <1>2, <3>1
    <3>. QED
      BY <1>2, <3>1, <3>2
  <2>. QED
    BY <2>1
<1>5. m \in Injection(Units(f, S), Units(g, T))
  <2>1. m \in [Units(f, S) -> Units(g, T)]
    BY <1>3
  <2> HIDE DEF m
  <2>. QED
    BY <1>4, <2>1 DEF Injection, IsInjective
<1>6. Cardinality(Units(f, S)) <= Cardinality(Units(g, T))
  BY <1>1, <1>5, FS_Injection
<1>. QED
  BY <1>1, <1>6 DEF Total, Units

-----------------------------------------------------------------------------
(* What is promised and not used yet.                                         *)

\* Who is promised what he has not used yet, and that it is within the limit.
Owed(qs, P, a) == {t \in P : Account(t) = a /\ Granted(qs, t)}
Within(b, qs, P, n, a) == b.occupancy[a] + Total(n, Owed(qs, P, a)) <= MaxOccupancy[a]

\* What is owed is a number.
LEMMA OwedType ==
    ASSUME NEW qs, NEW P \in SUBSET Task, NEW n \in [Task -> Nat], NEW a
    PROVE  /\ IsFiniteSet(Owed(qs, P, a)) /\ Owed(qs, P, a) \in SUBSET Task
           /\ Total(n, Owed(qs, P, a)) \in Nat
<1>1. Owed(qs, P, a) \in SUBSET Task /\ IsFiniteSet(Task)
  BY ZcoSpaceAssumption DEF Owed
<1>2. IsFiniteSet(Owed(qs, P, a))
  BY <1>1, FS_Subset
<1>3. Total(n, Owed(qs, P, a)) \in Nat
  <2>1. \A x \in Owed(qs, P, a) : n[x] \in Nat
    BY <1>1
  <2>. QED
    BY <1>2, <2>1, TotalType
<1>. QED
  BY <1>1, <1>2, <1>3

\* Those of P in account a that a queue has been served to.
ServedOf(P, a, q) == {t \in P : Account(t) = a /\ ServedIn(q, t)}

\* A queue that is served in turn promises no more than there is room.
LEMMA ProvidedWithin ==
    ASSUME NEW a \in Acct, NEW q, GoodQueue(q, a), InTurn(q), NEW n \in [Task -> Nat],
           \A i \in DOMAIN q : q[i].need = n[q[i].task],
           NEW P \in SUBSET Task, NEW room \in Int, NEW s, s = Provided(q, room),
           NEW O, O = ServedOf(P, a, s), O # ServedOf(P, a, q)
    PROVE  Total(n, O) <= room
<1>1. Len(q) \in Nat /\ DOMAIN q = 1 .. Len(q) /\ \A i \in DOMAIN q : q[i] \in Req
  BY Queue
<1>2. /\ GoodQueue(s, a) /\ DOMAIN s = DOMAIN q
      /\ \A i \in DOMAIN q : /\ s[i].task = q[i].task /\ s[i].need = q[i].need
                             /\ s[i].served <=> \/ q[i].served
                                                \/ \A j \in 1 .. i : q[j].served \/ Claimed(q, j) <= room
      /\ \A t : TaskIn(s, t) <=> TaskIn(q, t)
      /\ \A t : ServedIn(q, t) => ServedIn(s, t)
      /\ InTurn(q) => InTurn(s)
  BY ProvidedQueue
<1> DEFINE N == {i \in DOMAIN q : s[i].served /\ ~q[i].served}
           top == Max(N)
<1>3. N # {}
  <2>1. PICK t \in P : ServedIn(s, t) /\ ~ServedIn(q, t)
    BY <1>2 DEF ServedOf
  <2>2. PICK i \in DOMAIN s : s[i].task = t /\ s[i].served
    BY <2>1 DEF ServedIn
  <2>3. i \in N
    BY <1>2, <2>1, <2>2 DEF ServedIn
  <2>. QED
    BY <2>3
<1>4. N \in SUBSET (1 .. Len(q))
  BY <1>1
<1>5. top \in N /\ \A y \in N : top >= y
  <2> HIDE DEF N
  <2>. QED
    BY <1>1, <1>3, <1>4, GreatestExists
<1> HIDE DEF top
<1>6. top \in 1 .. Len(q) /\ ~q[top].served /\ s[top].served
  BY <1>1, <1>5
<1>7. Claimed(q, top) <= room
  <2>1. \A j \in 1 .. top : q[j].served \/ Claimed(q, j) <= room
    BY <1>1, <1>2, <1>6
  <2>2. top \in 1 .. top
    BY <1>6
  <2>. QED
    BY <1>6, <2>1, <2>2
<1>8. \A i \in DOMAIN q : s[i].served => i \in 1 .. top
  <2>1. ASSUME NEW i \in DOMAIN q, s[i].served, top < i PROVE FALSE
    <3>1. CASE q[i].served
      BY <1>1, <1>6, <2>1, <3>1 DEF InTurn
    <3>2. CASE ~q[i].served
      <4>1. i \in N
        BY <2>1, <3>2
      <4>2. top >= i
        BY <1>5, <4>1
      <4>. QED
        BY <1>1, <1>6, <2>1, <4>2
    <3>. QED
      BY <3>1, <3>2
  <2>. QED
    BY <1>1, <1>6, <2>1
<1> HIDE DEF N
<1> DEFINE h == [t \in Task |-> PositionOf(q, t)]
           T == 1 .. top
<1>9. ASSUME NEW t \in O
      PROVE  /\ t \in Task /\ h[t] \in T /\ q[h[t]].task = t /\ NeedOf(q)[h[t]] = n[t]
  <2>1. t \in Task /\ ServedIn(s, t)
    BY DEF ServedOf
  <2>2. PICK i \in DOMAIN s : s[i].task = t /\ s[i].served
    BY <2>1 DEF ServedIn
  <2>3. i \in DOMAIN q /\ q[i].task = t /\ i \in 1 .. top
    BY <1>2, <1>8, <2>2
  <2>4. PositionOf(q, t) = i
    BY <2>3, PositionIs
  <2>5. NeedOf(q)[i] = n[t]
    BY <2>3 DEF NeedOf
  <2>. QED
    BY <2>1, <2>3, <2>4, <2>5
<1> HIDE DEF h
<1>10. IsFiniteSet(T) /\ T \subseteq DOMAIN q
  <2>1. IsFiniteSet(1 .. top)
    BY <1>6, FS_Interval
  <2>. QED
    BY <1>1, <1>6, <2>1
<1>11. IsFiniteSet(O)
  <2>1. O \subseteq Task /\ IsFiniteSet(Task)
    BY ZcoSpaceAssumption DEF ServedOf
  <2>. QED
    BY <2>1, FS_Subset
<1>12. \A y \in T : NeedOf(q)[y] \in Nat
  BY <1>1, <1>10 DEF NeedOf, Req
<1> HIDE DEF T
<1>13. PICK g : g = NeedOf(q)
  OBVIOUS
<1>14. \A y \in T : g[y] \in Nat
  BY <1>12, <1>13
<1>15. \A x \in O : h[x] \in T /\ n[x] \in Nat /\ n[x] = g[h[x]]
  BY <1>9, <1>13
<1>16. \A x, y \in O : x # y => h[x] # h[y]
  BY <1>9
<1>17. PICK S : S = O
  OBVIOUS
<1>18. /\ IsFiniteSet(S) /\ \A x \in S : h[x] \in T /\ n[x] \in Nat /\ n[x] = g[h[x]]
       /\ \A x, y \in S : x # y => h[x] # h[y]
  BY <1>11, <1>15, <1>16, <1>17
<1>19. Total(n, S) \in Nat /\ Total(g, T) \in Nat /\ Total(n, S) <= Total(g, T)
  BY <1>10, <1>14, <1>18, TotalInjects
<1>20. Total(g, T) <= room
  BY <1>7, <1>13 DEF Claimed, T
<1>. QED
  BY <1>17, <1>19, <1>20

-----------------------------------------------------------------------------
(* What a task that creates has been promised.                                *)

\* A task that will create without another look has been served, and an
\* attendant that would wake up its task before has been paused.
ServedAt(t) ==
    /\ pc[t] = "create" => Granted(requisitions, t)
    /\ pc[t] \in {"awarded", "wait"} /\ sem[t] > 0 /\ t \notin ended => Granted(requisitions, t)
    /\ t \in Impatient => /\ pc[t] \notin {"ready", "wait"}
                          /\ pc[t] = "awarded" => Granted(requisitions, t)

ServeInv == \A t \in Task : ServedAt(t)

\* The others do not notice, except that their own requisitions may be served.
LEMMA OthersServed ==
    ASSUME NEW u \in Task, ServedAt(u), pc'[u] = pc[u], u \in ended => u \in ended',
           Granted(requisitions, u) => Granted(requisitions', u),
           sem'[u] = sem[u] \/ Granted(requisitions', u)
    PROVE  ServedAt(u)'
BY DEF ServedAt

\* What a task sees when it looks at its requisition.
LEMMA Looks ==
    ASSUME TypeInv, NEW t \in Task, pc[t] \notin Absent
    PROVE  Served(t) <=> Granted(requisitions, t)
<1>1. GoodQueues(requisitions) /\ Queued(requisitions, t)
  BY DEF TypeInv, QueueInv
<1>. QED
  BY <1>1, ServedIsGranted DEF Served

\* It holds initially.
LEMMA InitServeInv == Init => ServeInv
<1>1. Init => \A t \in Task : pc[t] = "idle"
  BY DEF Init
<1>. QED
  BY <1>1 DEF ServeInv, ServedAt

\* What lodging a requisition does to those that are there.
LEMMA Lodged ==
    ASSUME TypeInv, NEW t \in Task, Request(t)
    PROVE  /\ \A u \in Task : Granted(requisitions', u) <=> Granted(requisitions, u)
           /\ ~Granted(requisitions, t)
<1> DEFINE r == [task |-> t, need |-> need'[t], served |-> FALSE]
<1>1. GoodQueues(requisitions) /\ ~Queued(requisitions, t)
  BY DEF TypeInv, QueueInv, Absent, Request
<1>2. need'[t] \in Nat
  BY RequestInv DEF TypeInv, StateInv
<1>3. r \in Req /\ r.task = t /\ r.need = need'[t] /\ ~r.served
  BY <1>2 DEF Req
<1>4. requisitions' = [requisitions EXCEPT ![Account(t)] = Insert(@, r)]
  BY DEF Request
<1> HIDE DEF r
<1>5. /\ requisitions' = [x \in Acct |-> requisitions'[x]]
      /\ requisitions'[Account(t)] = Insert(requisitions[Account(t)], r)
      /\ \A x \in Acct : x # Account(t) => requisitions'[x] = requisitions[x]
  BY <1>1, <1>4, AccountType DEF GoodQueues
<1>6. /\ GoodQueues(requisitions')
      /\ \A u \in Task : Queued(requisitions', u) <=> Queued(requisitions, u) \/ u = t
      /\ \A u \in Task : Granted(requisitions', u) <=> Granted(requisitions, u)
      /\ \A m : Asked(requisitions, m) =>
            \A k : Changed(m, k, t, need'[t]) => Asked(requisitions', k)
  BY <1>1, <1>2, <1>3, <1>5, RequestQueues
<1>7. ~Granted(requisitions, t)
  BY <1>1 DEF Granted, Queued, ServedIn, TaskIn
<1>. QED
  BY <1>6, <1>7

\* ServeInv is kept by every action; with binary semaphores, by Ready as well.
LEMMA RequestServe ==
    ASSUME TypeInv, ServeInv, NEW t \in Task, Request(t) PROVE ServeInv'
<1>1. StateInv /\ QueueInv
  BY DEF TypeInv
<1>2. /\ pc[t] = "idle" /\ pc' = [pc EXCEPT ![t] = "provide"] /\ sem' = sem /\ ended' = ended
      /\ requisitions' = [requisitions EXCEPT ![Account(t)] =
                             Insert(@, [task |-> t, need |-> need'[t], served |-> FALSE])]
  BY DEF Request
<1>4. \A u \in Task : Granted(requisitions', u) <=> Granted(requisitions, u)
  BY Lodged
<1>5. pc'[t] = "provide" /\ \A u \in Task : u # t => pc'[u] = pc[u]
  BY <1>1, <1>2 DEF StateInv
<1>6. ServedAt(t)'
  BY <1>5 DEF ServedAt
<1>7. ASSUME NEW u \in Task, u # t PROVE ServedAt(u)'
  BY <1>2, <1>4, <1>5, <1>7, OthersServed DEF ServeInv
<1>. QED
  BY <1>6, <1>7 DEF ServeInv

LEMMA TryNowServe ==
    ASSUME TypeInv, ServeInv, NEW t \in Task, TryNow(t) PROVE ServeInv'
<1>1. StateInv /\ QueueInv
  BY DEF TypeInv
<1>2. /\ Provide(requisitions, books, Account(t)) /\ pc' = [pc EXCEPT ![t] = "check"]
      /\ ended' = ended
  BY DEF TryNow
<1>3. /\ \A u \in Task : Granted(requisitions, u) => Granted(requisitions', u)
      /\ \A u \in Task : sem'[u] = sem[u] \/ (/\ sem'[u] = Given(sem[u]) /\ u \notin Impatient
                                              /\ Granted(requisitions', u))
  BY <1>1, <1>2, AccountType, ProvideQueues DEF QueueInv
<1>4. pc'[t] = "check" /\ \A u \in Task : u # t => pc'[u] = pc[u]
  BY <1>1, <1>2 DEF StateInv
<1>5. ServedAt(t)'
  BY <1>4 DEF ServedAt
<1>6. ASSUME NEW u \in Task, u # t PROVE ServedAt(u)'
  BY <1>2, <1>3, <1>4, <1>6, OthersServed DEF ServeInv
<1>. QED
  BY <1>5, <1>6 DEF ServeInv

\* A step of a task that leaves the queues and the other semaphores alone.
LEMMA OwnServe ==
    ASSUME TypeInv, ServeInv, NEW t \in Task, requisitions' = requisitions, ended' = ended,
           \A u \in Task : u # t => pc'[u] = pc[u] /\ sem'[u] = sem[u],
           ServedAt(t)'
    PROVE  ServeInv'
<1>1. ASSUME NEW u \in Task, u # t PROVE ServedAt(u)'
  BY <1>1, OthersServed DEF ServeInv
<1>. QED
  BY <1>1 DEF ServeInv

LEMMA CheckServe ==
    ASSUME TypeInv, ServeInv, NEW t \in Task, Check(t) PROVE ServeInv'
<1> DEFINE new == IF Served(t) THEN "awarded" ELSE IF t \in Impatient THEN "cancel" ELSE "ready"
<1>1. /\ pc[t] = "check" /\ pc' = [pc EXCEPT ![t] = new] /\ requisitions' = requisitions
      /\ ended' = ended /\ sem' = sem
  BY DEF Check
<1>2. pc'[t] = new /\ \A u \in Task : u # t => pc'[u] = pc[u]
  BY <1>1 DEF TypeInv, StateInv
<1>3. Served(t) <=> Granted(requisitions, t)
  BY <1>1, Looks DEF Absent
<1>4. ServedAt(t)'
  BY <1>1, <1>2, <1>3 DEF ServedAt
<1>. QED
  BY <1>1, <1>2, <1>4, OwnServe

LEMMA ReadyServe ==
    ASSUME ~Counting, TypeInv, ServeInv, NEW t \in Task, Ready(t) PROVE ServeInv'
<1>1. /\ pc[t] = "ready" /\ pc' = [pc EXCEPT ![t] = "awarded"] /\ requisitions' = requisitions
      /\ ended' = ended /\ sem' = [sem EXCEPT ![t] = Given(sem[t]) - 1]
  BY DEF Ready
<1>2. /\ pc'[t] = "awarded" /\ sem'[t] = Given(sem[t]) - 1
      /\ \A u \in Task : u # t => pc'[u] = pc[u] /\ sem'[u] = sem[u]
  BY <1>1 DEF TypeInv, StateInv
<1>3. sem'[t] = 0
  BY <1>2 DEF Given
<1>4. t \notin Impatient
  BY <1>1 DEF ServeInv, ServedAt
<1>5. ServedAt(t)'
  BY <1>2, <1>3, <1>4 DEF ServedAt
<1>. QED
  BY <1>1, <1>2, <1>5, OwnServe

LEMMA SpaceAwardedServe ==
    ASSUME TypeInv, ServeInv, NEW t \in Task, SpaceAwarded(t) PROVE ServeInv'
<1> DEFINE new == IF Served(t) THEN "create" ELSE "wait"
<1>1. /\ pc[t] = "awarded" /\ pc' = [pc EXCEPT ![t] = new] /\ requisitions' = requisitions
      /\ ended' = ended /\ sem' = sem
  BY DEF SpaceAwarded
<1>2. pc'[t] = new /\ \A u \in Task : u # t => pc'[u] = pc[u]
  BY <1>1 DEF TypeInv, StateInv
<1>3. Served(t) <=> Granted(requisitions, t)
  BY <1>1, Looks DEF Absent
<1>4. ServedAt(t)
  BY DEF ServeInv
<1>5. ServedAt(t)'
  BY <1>1, <1>2, <1>3, <1>4 DEF ServedAt
<1>. QED
  BY <1>1, <1>2, <1>5, OwnServe

LEMMA TakeServe ==
    ASSUME TypeInv, ServeInv, NEW t \in Task, Take(t) PROVE ServeInv'
<1> DEFINE new == IF t \in ended THEN "cancel" ELSE "create"
<1>1. /\ pc[t] = "wait" /\ sem[t] > 0 /\ pc' = [pc EXCEPT ![t] = new]
      /\ requisitions' = requisitions /\ ended' = ended
      /\ sem' = [sem EXCEPT ![t] = IF t \in ended THEN sem[t] ELSE sem[t] - 1]
  BY DEF Take
<1>2. /\ pc'[t] = new /\ \A u \in Task : u # t => pc'[u] = pc[u] /\ sem'[u] = sem[u]
  BY <1>1 DEF TypeInv, StateInv
<1>3. ServedAt(t)
  BY DEF ServeInv
<1>4. ServedAt(t)'
  BY <1>1, <1>2, <1>3 DEF ServedAt
<1>. QED
  BY <1>1, <1>2, <1>4, OwnServe

LEMMA ShredServe ==
    ASSUME TypeInv, ServeInv, NEW t \in Task, Shred(t) PROVE ServeInv'
<1>1. StateInv /\ QueueInv
  BY DEF TypeInv
<1>2. /\ pc[t] \in {"cancel", "dismiss"} /\ requisitions' = Dismissed(t)
      /\ sem' = sem /\ ended' = ended
      /\ pc' = [pc EXCEPT ![t] = IF pc[t] = "cancel" /\ t \in ended THEN "stopped" ELSE "idle"]
  BY DEF Shred
<1>3. GoodQueues(requisitions) /\ Queued(requisitions, t)
  BY <1>1, <1>2 DEF QueueInv, Absent
<1>4. /\ GoodQueues(requisitions')
      /\ \A u \in Task : Queued(requisitions', u) <=> Queued(requisitions, u) /\ u # t
      /\ \A u \in Task : u # t => (Granted(requisitions', u) <=> Granted(requisitions, u))
      /\ \A x \in Acct : InTurn(requisitions[x]) => InTurn(requisitions'[x])
      /\ \A m : Asked(requisitions, m) => Asked(requisitions', m)
  BY <1>2, <1>3, DismissQueues
<1>5. pc'[t] \in Absent /\ \A u \in Task : u # t => pc'[u] = pc[u]
  BY <1>1, <1>2 DEF StateInv, Absent
<1>6. ServedAt(t)'
  BY <1>5 DEF ServedAt, Absent
<1>7. ASSUME NEW u \in Task, u # t PROVE ServedAt(u)'
  BY <1>2, <1>4, <1>5, <1>7, OthersServed DEF ServeInv
<1>. QED
  BY <1>6, <1>7 DEF ServeInv

LEMMA QuitServe ==
    ASSUME TypeInv, ServeInv, NEW t \in Task, Quit(t) PROVE ServeInv'
<1>1. /\ pc' = [pc EXCEPT ![t] = "stopped"] /\ requisitions' = requisitions
      /\ sem' = sem /\ ended' = ended
  BY DEF Quit
<1>2. pc'[t] = "stopped" /\ \A u \in Task : u # t => pc'[u] = pc[u]
  BY <1>1 DEF TypeInv, StateInv
<1>3. ServedAt(t)'
  BY <1>2 DEF ServedAt
<1>. QED
  BY <1>1, <1>2, <1>3, OwnServe

LEMMA PauseServe ==
    ASSUME TypeInv, ServeInv, NEW t \in Task, Pause(t) PROVE ServeInv'
<1>1. /\ t \in Mortal /\ ended' = ended \cup {t} /\ sem' = [sem EXCEPT ![t] = Given(sem[t])]
      /\ requisitions' = requisitions /\ pc' = pc
  BY DEF Pause
<1>2. \A u \in Task : u # t => sem'[u] = sem[u]
  BY <1>1 DEF TypeInv, StateInv
<1>3. ServedAt(t)'
  BY <1>1 DEF ServeInv, ServedAt
<1>4. ASSUME NEW u \in Task, u # t PROVE ServedAt(u)'
  BY <1>1, <1>2, <1>4, OthersServed DEF ServeInv
<1>. QED
  BY <1>3, <1>4 DEF ServeInv

LEMMA CreateServe ==
    ASSUME TypeInv, ServeInv, NEW t \in Task, Create(t) PROVE ServeInv'
<1>1. StateInv /\ QueueInv
  BY DEF TypeInv
<1>2. pc[t] = "create" /\ ended' = ended
  BY DEF Create
<1>3. CASE t \in Maker
  <2>1. pc' = [pc EXCEPT ![t] = "dismiss"] /\ requisitions' = requisitions /\ sem' = sem
    BY <1>3 DEF Create, CreatePiece
  <2>2. pc'[t] = "dismiss" /\ \A u \in Task : u # t => pc'[u] = pc[u]
    BY <1>1, <2>1 DEF StateInv
  <2>3. ServedAt(t)'
    BY <2>2 DEF ServedAt
  <2>. QED
    BY <1>2, <2>1, <2>2, <2>3, OwnServe
<1>4. CASE t \notin Maker /\ Intact(t)
  <2>1. t \in Mover
    BY <1>4 DEF Task
  <2>2. /\ TypeInv' /\ pc' = [pc EXCEPT ![t] = "idle"]
        /\ GoodQueues(Dismissed(t)) /\ Provide(Dismissed(t), books', "in")
    BY <1>4, <2>1, CreateCopyInv
  <2> DEFINE qt == Dismissed(t)
  <2>3. Queued(requisitions, t) /\ GoodQueues(requisitions)
    BY <1>1, <1>2 DEF QueueInv, Absent
  <2>4. /\ GoodQueues(qt)
        /\ \A u \in Task : Queued(qt, u) <=> Queued(requisitions, u) /\ u # t
        /\ \A u \in Task : u # t => (Granted(qt, u) <=> Granted(requisitions, u))
        /\ \A x \in Acct : InTurn(requisitions[x]) => InTurn(qt[x])
        /\ \A m : Asked(requisitions, m) => Asked(qt, m)
    BY <2>3, DismissQueues
  <2>5. "in" \in Acct
    BY DEF Acct
  <2>6. Provide(qt, books', "in")
    BY <2>2
  <2> HIDE DEF qt
  <2>7. /\ \A u \in Task : Granted(qt, u) => Granted(requisitions', u)
        /\ \A u \in Task : sem'[u] = sem[u] \/ (/\ sem'[u] = Given(sem[u]) /\ u \notin Impatient
                                                /\ Granted(requisitions', u))
    BY <2>4, <2>5, <2>6, ProvideQueues
  <2>8. pc'[t] = "idle" /\ \A u \in Task : u # t => pc'[u] = pc[u]
    BY <1>1, <2>2 DEF StateInv
  <2>9. ServedAt(t)'
    BY <2>8 DEF ServedAt
  <2>10. ASSUME NEW u \in Task, u # t PROVE ServedAt(u)'
    BY <1>2, <2>4, <2>7, <2>8, <2>10, OthersServed DEF ServeInv
  <2>. QED
    BY <2>9, <2>10 DEF ServeInv
<1>5. CASE t \notin Maker /\ ~Intact(t)
  <2>1. pc' = [pc EXCEPT ![t] = "cancel"] /\ requisitions' = requisitions /\ sem' = sem
    BY <1>5 DEF Create, CreateCopy
  <2>2. pc'[t] = "cancel" /\ \A u \in Task : u # t => pc'[u] = pc[u]
    BY <1>1, <2>1 DEF StateInv
  <2>3. ServedAt(t)'
    BY <2>2 DEF ServedAt
  <2>. QED
    BY <1>2, <2>1, <2>2, <2>3, OwnServe
<1>. QED
  BY <1>3, <1>4, <1>5

LEMMA DestroyServe ==
    ASSUME TypeInv, ServeInv, NEW z \in DOMAIN books.zco, Destroy(z) PROVE ServeInv'
<1>1. /\ Provide(requisitions, books', books.zco[z].acct) /\ ended' = ended /\ pc' = pc
  BY DEF Destroy
<1>2. GoodQueues(requisitions) /\ books.zco[z].acct \in Acct
  BY DEF TypeInv, QueueInv, BookInv, BooksOK, TypedBooks
<1>3. /\ \A u \in Task : Granted(requisitions, u) => Granted(requisitions', u)
      /\ \A u \in Task : sem'[u] = sem[u] \/ (/\ sem'[u] = Given(sem[u]) /\ u \notin Impatient
                                              /\ Granted(requisitions', u))
  BY <1>1, <1>2, ProvideQueues
<1>4. ASSUME NEW u \in Task PROVE ServedAt(u)'
  BY <1>1, <1>3, OthersServed DEF ServeInv
<1>. QED
  BY <1>4 DEF ServeInv

\* Steps that leave tasks, attendants and requisitions alone.
LEMMA StillServed ==
    ASSUME ServeInv, requisitions' = requisitions, sem' = sem, ended' = ended, pc' = pc
    PROVE  ServeInv'
BY DEF ServeInv, ServedAt

\* So that every step keeps it.
LEMMA NextServeInv == ASSUME ~Counting PROVE TypeInv /\ ServeInv /\ [Next]_vars => ServeInv'
<1>. SUFFICES ASSUME TypeInv, ServeInv, [Next]_vars PROVE ServeInv'
  OBVIOUS
<1>1. ASSUME NEW t \in Task, Request(t) \/ Proceed(t) \/ Pause(t) PROVE ServeInv'
  BY <1>1, RequestServe, TryNowServe, CheckServe, ReadyServe, SpaceAwardedServe, TakeServe,
     ShredServe, QuitServe, PauseServe, CreateServe DEF Proceed
<1>2. ASSUME NEW t \in Maker, ReleaseFile(t) PROVE ServeInv'
  BY <1>2, StillServed DEF ReleaseFile
<1>3. ASSUME NEW z \in DOMAIN books.zco, Clone(z) \/ Destroy(z) PROVE ServeInv'
  BY <1>3, StillServed, DestroyServe DEF Clone
<1>4. CASE UNCHANGED vars
  BY <1>4, StillServed DEF vars
<1>. QED
  BY <1>1, <1>2, <1>3, <1>4 DEF Next

\* With binary semaphores, what an earlier award has left behind in an
\* attendant is gone before its task waits again, so that a task that comes
\* out of its wait, and does not look at its requisition again, was served.
THEOREM ServedBeforeCreate == ASSUME ~Counting PROVE Spec => []CreatesServed
<1>1. Spec => []ServeInv
  BY InitServeInv, NextServeInv, TypeInvHolds, PTL DEF Spec
<1>2. TypeInv /\ ServeInv => CreatesServed
  <2>. SUFFICES ASSUME TypeInv, ServeInv, NEW t \in Task, pc[t] = "create" PROVE Served(t)
    BY DEF CreatesServed
  <2>. QED
    BY Looks DEF ServeInv, ServedAt, Absent
<1>. QED
  BY <1>1, <1>2, TypeInvHolds, PTL

-----------------------------------------------------------------------------
(* What is occupied and promised of an account stays within its limit.        *)

Active == {t \in Task : pc[t] \notin {"idle", "dismiss", "stopped"}}

\* What Fits says, in terms of the queues.
Owes(a) == Within(books, requisitions, Active, need, a)

\* The tasks of an account that create were served.
Sure(a) == \A t \in Task : Account(t) = a /\ pc[t] = "create" => Granted(requisitions, t)

\* What is occupied is a number.
LEMMA BooksCounts == ASSUME TypeInv PROVE books.occupancy \in [Acct -> Nat]
BY CountsType DEF TypeInv, BookInv, BooksOK

\* The same on the way from one account to its next state.
LEMMA FitsLess ==
    ASSUME NEW x \in Nat, NEW y \in Nat, x <= y, NEW S \in SUBSET Task, NEW T \in SUBSET S,
           NEW n \in [Task -> Nat], NEW k \in [Task -> Nat], \A t \in T : k[t] = n[t],
           NEW limit \in Nat, y + Total(n, S) <= limit
    PROVE  x + Total(k, T) <= limit
<1>1. IsFiniteSet(S)
  BY ZcoSpaceAssumption, FS_Subset
<1>2. \A t \in S : n[t] \in Nat
  OBVIOUS
<1>3. Total(n, T) \in Nat /\ Total(n, S) \in Nat /\ Total(n, T) <= Total(n, S)
  BY <1>1, <1>2, TotalPart
<1>4. Total(k, T) = Total(n, T)
  BY TotalSame
<1>. QED
  BY <1>3, <1>4

\* Who is served in turn is promised no more than there is room.
LEMMA ProvideWithin ==
    ASSUME NEW qs, GoodQueues(qs), NEW n \in [Task -> Nat], Asked(qs, n),
           NEW P \in SUBSET Task, NEW b, b.occupancy \in [Acct -> Nat],
           NEW c \in Acct, Provide(qs, b, c),
           NEW a \in Acct, InTurn(qs[a]), Within(b, qs, P, n, a)
    PROVE  Within(b, requisitions', P, n, a)
<1>1. /\ \A x \in Acct : x # c => requisitions'[x] = qs[x]
      /\ requisitions'[c] = Provided(qs[c], Room(b, c))
  BY ProvideQueues
<1>2. CASE a # c
  <2>1. requisitions'[a] = qs[a]
    BY <1>1, <1>2
  <2>2. Owed(requisitions', P, a) = Owed(qs, P, a)
    BY <2>1 DEF Owed, Granted
  <2>. QED
    BY <2>2 DEF Within
<1>3. CASE a = c
  <2>1. /\ Owed(requisitions', P, a) = ServedOf(P, a, requisitions'[a])
        /\ Owed(qs, P, a) = ServedOf(P, a, qs[a])
    BY DEF Owed, Granted, ServedOf
  <2>2. CASE ServedOf(P, a, requisitions'[a]) = ServedOf(P, a, qs[a])
    BY <2>1, <2>2 DEF Within
  <2>3. CASE ServedOf(P, a, requisitions'[a]) # ServedOf(P, a, qs[a])
    <3>1. GoodQueue(qs[a], a) /\ \A i \in DOMAIN qs[a] : qs[a][i].need = n[qs[a][i].task]
      BY DEF GoodQueues, Asked
    <3>2. b.occupancy[a] \in Nat /\ MaxOccupancy[a] \in Nat
          /\ Room(b, a) = MaxOccupancy[a] - b.occupancy[a] /\ Room(b, a) \in Int
      BY ZcoSpaceAssumption DEF Room
    <3>3. requisitions'[a] = Provided(qs[a], Room(b, a))
      BY <1>1, <1>3
    <3>4. Total(n, ServedOf(P, a, requisitions'[a])) <= Room(b, a)
      BY <2>3, <3>1, <3>2, <3>3, ProvidedWithin
    <3>5. Total(n, Owed(requisitions', P, a)) \in Nat
      BY OwedType
    <3>. QED
      BY <2>1, <3>2, <3>4, <3>5 DEF Within
  <2>. QED
    BY <2>2, <2>3
<1>. QED
  BY <1>2, <1>3

\* Steps after which no more is owed than before, and no more is occupied.
LEMMA OverLess ==
    ASSUME TypeInv, TypeInv', NEW a \in Acct, Owes(a),
           books'.occupancy[a] <= books.occupancy[a],
           \A t \in Task : Account(t) = a /\ t \in Active' /\ Granted(requisitions', t)
               => t \in Active /\ Granted(requisitions, t) /\ need'[t] = need[t]
    PROVE  Owes(a)'
<1>1. need \in [Task -> Nat] /\ need' \in [Task -> Nat] /\ Active \in SUBSET Task /\ Active' \in SUBSET Task
  BY DEF TypeInv, StateInv, Active
<1>2. books.occupancy \in [Acct -> Nat] /\ books'.occupancy \in [Acct -> Nat]
  <2>1. books.occupancy \in [Acct -> Nat]
    BY BooksCounts
  <2>2. books'.occupancy \in [Acct -> Nat]
    BY CountsType DEF TypeInv, BookInv, BooksOK
  <2>. QED
    BY <2>1, <2>2
<1>3. /\ Owed(requisitions', Active', a) \subseteq Owed(requisitions, Active, a)
      /\ \A t \in Owed(requisitions', Active', a) : need'[t] = need[t]
  BY <1>1 DEF Owed
<1>4. PICK S : S = Owed(requisitions, Active, a)
  OBVIOUS
<1>5. PICK T : T = Owed(requisitions', Active', a)
  OBVIOUS
<1>6. PICK x : x = books'.occupancy[a]
  OBVIOUS
<1>7. PICK y : y = books.occupancy[a]
  OBVIOUS
<1>8. PICK limit : limit = MaxOccupancy[a]
  OBVIOUS
<1>9. PICK k : k = need'
  OBVIOUS
<1>10. y + Total(need, S) <= limit
  BY <1>4, <1>7, <1>8 DEF Owes, Within
<1>11. S \in SUBSET Task
  BY <1>1, <1>4 DEF Owed
<1>12. T \in SUBSET S
  BY <1>3, <1>4, <1>5
<1>13. \A t \in T : k[t] = need[t]
  BY <1>3, <1>5, <1>9
<1>14. k \in [Task -> Nat] /\ need \in [Task -> Nat]
  BY <1>1, <1>9
<1>15. x \in Nat /\ y \in Nat /\ limit \in Nat /\ x <= y
  BY <1>2, <1>6, <1>7, <1>8, ZcoSpaceAssumption
<1>16. x + Total(k, T) <= limit
  BY <1>10, <1>11, <1>12, <1>13, <1>14, <1>15, FitsLess
<1>. QED
  BY <1>5, <1>6, <1>8, <1>9, <1>16 DEF Owes, Within

\* Serving, after steps that free space or leave it alone.
LEMMA OverServed ==
    ASSUME TypeInv, TypeInv', NEW c \in Acct, Provide(requisitions, books', c),
           need' = need, Active' = Active,
           NEW a \in Acct, Owes(a), InTurn(requisitions[a]),
           books'.occupancy[a] <= books.occupancy[a]
    PROVE  Owes(a)'
<1>1. /\ GoodQueues(requisitions) /\ Asked(requisitions, need) /\ need \in [Task -> Nat]
      /\ Active \in SUBSET Task
  BY DEF TypeInv, QueueInv, StateInv, Active
<1>2. books.occupancy \in [Acct -> Nat] /\ books'.occupancy \in [Acct -> Nat]
  <2>1. books.occupancy \in [Acct -> Nat]
    BY BooksCounts
  <2>2. books'.occupancy \in [Acct -> Nat]
    BY CountsType DEF TypeInv, BookInv, BooksOK
  <2>. QED
    BY <2>1, <2>2
<1>3. Within(books', requisitions, Active, need, a)
  <2>1. Total(need, Owed(requisitions, Active, a)) \in Nat
    BY <1>1, OwedType
  <2>. QED
    BY <1>2, <2>1, ZcoSpaceAssumption DEF Owes, Within
<1>4. Within(books', requisitions', Active, need, a)
  BY <1>1, <1>2, <1>3, ProvideWithin
<1>. QED
  BY <1>4 DEF Owes

\* What a task spends it no longer holds.
LEMMA SpentWithin ==
    ASSUME NEW x \in Nat, NEW y \in Nat, NEW S \in SUBSET Task, NEW t \in S, NEW T \in SUBSET S,
           t \notin T, NEW n \in [Task -> Nat], NEW limit \in Nat,
           x <= y + n[t], y + Total(n, S) <= limit
    PROVE  x + Total(n, T) <= limit
<1>1. IsFiniteSet(S)
  BY ZcoSpaceAssumption, FS_Subset
<1>2. \A u \in S : n[u] \in Nat
  OBVIOUS
<1>3. IsFiniteSet(T) /\ IsFiniteSet({t}) /\ T \cap {t} = {} /\ T \cup {t} \in SUBSET S
  BY <1>1, FS_Subset, FS_Singleton
<1>4. Total(n, T \cup {t}) = Total(n, T) + Total(n, {t})
  BY <1>2, <1>3, TotalAdds
<1>5. Total(n, T \cup {t}) \in Nat /\ Total(n, S) \in Nat /\ Total(n, T \cup {t}) <= Total(n, S)
  BY <1>1, <1>2, <1>3, TotalPart
<1>6. Total(n, {t}) = n[t]
  BY <1>2, TotalOne
<1>7. Total(n, T) \in Nat /\ n[t] \in Nat
  BY <1>2, <1>3, TotalType
<1>. QED
  BY <1>4, <1>5, <1>6, <1>7

\* A task that creates has spent what it was promised.
LEMMA OverSpent ==
    ASSUME TypeInv, NEW t \in Task, t \in Active, Granted(requisitions, t),
           NEW b, b.occupancy \in [Acct -> Nat], NEW qt,
           \A u \in Task : u # t => (Granted(qt, u) <=> Granted(requisitions, u)),
           NEW a \in Acct, Owes(a),
           b.occupancy[a] <= books.occupancy[a]
               \/ (a = Account(t) /\ b.occupancy[a] <= books.occupancy[a] + need[t])
    PROVE  Within(b, qt, Active \ {t}, need, a)
<1>1. need \in [Task -> Nat] /\ Active \in SUBSET Task
  BY DEF TypeInv, StateInv, Active
<1>2. books.occupancy \in [Acct -> Nat]
  BY BooksCounts
<1>3. PICK S : S = Owed(requisitions, Active, a)
  OBVIOUS
<1>4. PICK T : T = Owed(qt, Active \ {t}, a)
  OBVIOUS
<1>5. PICK x : x = b.occupancy[a]
  OBVIOUS
<1>6. PICK y : y = books.occupancy[a]
  OBVIOUS
<1>7. PICK limit : limit = MaxOccupancy[a]
  OBVIOUS
<1>8. PICK n : n = need
  OBVIOUS
<1>9. y + Total(n, S) <= limit
  BY <1>3, <1>6, <1>7, <1>8 DEF Owes, Within
<1>10. S \in SUBSET Task /\ n \in [Task -> Nat]
  BY <1>1, <1>3, <1>8 DEF Owed
<1>11. x \in Nat /\ y \in Nat /\ limit \in Nat
  BY <1>2, <1>5, <1>6, <1>7, ZcoSpaceAssumption
<1>12. T \in SUBSET S /\ t \notin T
  BY <1>1, <1>3, <1>4 DEF Owed
<1>13. x + Total(n, T) <= limit
  <2>1. CASE x <= y
    <3>1. \A u \in T : n[u] = n[u]
      OBVIOUS
    <3>. QED
      BY <1>9, <1>10, <1>11, <1>12, <2>1, <3>1, FitsLess
  <2>2. CASE a = Account(t) /\ x <= y + n[t]
    <3>1. t \in S
      BY <1>3, <2>2 DEF Owed
    <3>. QED
      BY <1>9, <1>10, <1>11, <1>12, <2>2, <3>1, SpentWithin
  <2>. QED
    BY <1>5, <1>6, <1>8, <2>1, <2>2
<1>. QED
  BY <1>4, <1>5, <1>7, <1>8, <1>13 DEF Within

-----------------------------------------------------------------------------
(* Step by step.                                                              *)

\* A maker that asks asks for a piece.
NeedInv == \A t \in Maker : pc[t] \notin Absent => need[t] = Piece[t]

LEMMA NeedStays ==
    ASSUME NeedInv, need' = need, \A t \in Task : pc[t] \in Absent => pc'[t] \in Absent
    PROVE  NeedInv'
BY DEF NeedInv, Task

\* What goes on of a task that is at its requisition.
LEMMA NeedMoves ==
    ASSUME TypeInv, NeedInv, NEW t \in Task, need' = need, NEW new, pc' = [pc EXCEPT ![t] = new],
           pc[t] \notin Absent \/ new \in Absent
    PROVE  NeedInv'
<1>1. \A u \in Task : pc[u] \in Absent => pc'[u] \in Absent
  BY DEF TypeInv, StateInv
<1>. QED
  BY <1>1, NeedStays

LEMMA NextNeedInv == TypeInv /\ NeedInv /\ [Next]_vars => NeedInv'
<1>. SUFFICES ASSUME TypeInv, NeedInv, [Next]_vars PROVE NeedInv'
  OBVIOUS
<1>1. ASSUME NEW t \in Task, Request(t) PROVE NeedInv'
  <2>1. /\ pc' = [pc EXCEPT ![t] = "provide"]
        /\ t \in Maker => need' = [need EXCEPT ![t] = Piece[t]]
        /\ \A u \in Task : u # t => need'[u] = need[u]
    BY <1>1 DEF Request, RequestPiece, RequestCopy, TypeInv, StateInv
  <2>2. \A u \in Task : u # t => pc'[u] = pc[u] /\ need'[u] = need[u]
    BY <2>1 DEF TypeInv, StateInv
  <2>3. t \in Maker => need'[t] = Piece[t]
    BY <2>1 DEF TypeInv, StateInv
  <2>. QED
    BY <2>2, <2>3 DEF NeedInv, Task
<1>2. ASSUME NEW t \in Task, Proceed(t) PROVE NeedInv'
  <2>1. need' = need
    BY <1>2 DEF Proceed, TryNow, Check, Ready, SpaceAwarded, Take, Create, Shred, Quit
  <2>2. \E new : pc' = [pc EXCEPT ![t] = new] /\ (pc[t] \notin Absent \/ new \in Absent)
    <3>1. CASE TryNow(t) \/ Check(t) \/ Ready(t) \/ SpaceAwarded(t) \/ Take(t)
      BY <3>1 DEF TryNow, Check, Ready, SpaceAwarded, Take, Absent
    <3>2. CASE Create(t)
      BY <3>2 DEF Create, CreatePiece, CreateCopy, Absent
    <3>3. CASE Shred(t) \/ Quit(t)
      BY <3>3 DEF Shred, Quit, Absent
    <3>. QED
      BY <1>2, <3>1, <3>2, <3>3 DEF Proceed
  <2>. QED
    BY <2>1, <2>2, NeedMoves
<1>3. ASSUME NEW t \in Task, Pause(t) PROVE NeedInv'
  BY <1>3, NeedStays DEF Pause
<1>4. ASSUME NEW t \in Maker, ReleaseFile(t) PROVE NeedInv'
  BY <1>4, NeedStays DEF ReleaseFile
<1>5. ASSUME NEW z \in DOMAIN books.zco, Clone(z) \/ Destroy(z) PROVE NeedInv'
  BY <1>5, NeedStays DEF Clone, Destroy
<1>6. CASE UNCHANGED vars
  BY <1>6, NeedStays DEF vars
<1>. QED
  BY <1>1, <1>2, <1>3, <1>4, <1>5, <1>6 DEF Next

\* An account is kept within its limit by tasks that stay with their requisitions,
LEMMA OverStays ==
    ASSUME TypeInv, TypeInv', requisitions' = requisitions, need' = need,
           NEW a \in Acct, Owes(a), books'.occupancy[a] = books.occupancy[a],
           \A u \in Task : \/ pc'[u] = pc[u]
                           \/ pc[u] \notin {"idle", "dismiss", "stopped"}
                           \/ pc'[u] \in Absent
    PROVE  Owes(a)'
<1>1. books'.occupancy[a] <= books.occupancy[a]
  BY BooksCounts
<1>2. \A t \in Task : t \in Active' /\ Granted(requisitions', t)
          => t \in Active /\ Granted(requisitions, t) /\ need'[t] = need[t]
  BY DEF Active, Absent
<1>. QED
  BY <1>1, <1>2, OverLess

\* by a new requisition, wherever in the queue it goes,
LEMMA RequestOver ==
    ASSUME TypeInv, NEW t \in Task, Request(t), NEW a \in Acct, Owes(a) PROVE Owes(a)'
<1>1. /\ books' = books /\ pc' = [pc EXCEPT ![t] = "provide"]
      /\ \A u \in Task : u # t => need'[u] = need[u]
  BY DEF Request, RequestPiece, RequestCopy, TypeInv, StateInv
<1>2. TypeInv'
  BY RequestInv
<1>3. /\ \A u \in Task : Granted(requisitions', u) <=> Granted(requisitions, u)
      /\ ~Granted(requisitions, t)
  BY Lodged
<1>4. \A u \in Task : u # t => pc'[u] = pc[u] /\ need'[u] = need[u]
  BY <1>1 DEF TypeInv, StateInv
<1>5. books'.occupancy[a] <= books.occupancy[a]
  BY <1>1, BooksCounts
<1>6. \A u \in Task : u \in Active' /\ Granted(requisitions', u)
          => u \in Active /\ Granted(requisitions, u) /\ need'[u] = need[u]
  BY <1>3, <1>4 DEF Active
<1>. QED
  BY <1>2, <1>5, <1>6, OverLess

\* by serving in turn,
LEMMA TryNowOver ==
    ASSUME TypeInv, NEW t \in Task, TryNow(t), NEW a \in Acct, Owes(a), InTurn(requisitions[a])
    PROVE  Owes(a)'
<1>1. /\ pc[t] = "provide" /\ Provide(requisitions, books, Account(t)) /\ books' = books
      /\ pc' = [pc EXCEPT ![t] = "check"] /\ need' = need
  BY DEF TryNow
<1>2. TypeInv'
  BY TryNowInv
<1>3. pc'[t] = "check" /\ \A u \in Task : u # t => pc'[u] = pc[u]
  BY <1>1 DEF TypeInv, StateInv
<1>4. Active' = Active
  BY <1>1, <1>3 DEF Active
<1>5. books'.occupancy[a] <= books.occupancy[a]
  BY <1>1, BooksCounts
<1>6. Account(t) \in Acct /\ Provide(requisitions, books', Account(t))
  BY <1>1, AccountType
<1>. QED
  BY <1>1, <1>2, <1>4, <1>5, <1>6, OverServed

\* by steps that neither promise nor spend,
LEMMA StepOver ==
    ASSUME TypeInv, TypeInv', NEW t \in Task, NEW new,
           pc' = [pc EXCEPT ![t] = new], requisitions' = requisitions, need' = need,
           books' = books, pc[t] \notin {"idle", "dismiss", "stopped"} \/ new \in Absent,
           NEW a \in Acct, Owes(a)
    PROVE  Owes(a)'
<1>1. pc'[t] = new /\ \A u \in Task : u # t => pc'[u] = pc[u]
  BY DEF TypeInv, StateInv
<1>. QED
  BY <1>1, OverStays

LEMMA WaitOver ==
    ASSUME TypeInv, NEW t \in Task,
           Check(t) \/ Ready(t) \/ SpaceAwarded(t) \/ Take(t) \/ Quit(t), NEW a \in Acct, Owes(a)
    PROVE  Owes(a)'
<1>1. TypeInv'
  BY CheckInv, ReadyInv, SpaceAwardedInv, TakeInv, QuitInv
<1>2. \E new : /\ pc' = [pc EXCEPT ![t] = new]
               /\ pc[t] \notin {"idle", "dismiss", "stopped"} \/ new \in Absent
  <2>1. CASE Check(t) \/ SpaceAwarded(t)
    BY <2>1 DEF Check, SpaceAwarded
  <2>2. CASE Ready(t) \/ Take(t)
    BY <2>2 DEF Ready, Take
  <2>3. CASE Quit(t)
    BY <2>3 DEF Quit, Absent
  <2>. QED
    BY <2>1, <2>2, <2>3
<1>3. requisitions' = requisitions /\ need' = need /\ books' = books
  BY DEF Check, Ready, SpaceAwarded, Take, Quit
<1>. QED
  BY <1>1, <1>2, <1>3, StepOver

\* by a dismissal,
LEMMA ShredOver ==
    ASSUME TypeInv, NEW t \in Task, Shred(t), NEW a \in Acct, Owes(a) PROVE Owes(a)'
<1>1. /\ pc[t] \in {"cancel", "dismiss"} /\ requisitions' = Dismissed(t)
      /\ books' = books /\ need' = need
      /\ pc' = [pc EXCEPT ![t] = IF pc[t] = "cancel" /\ t \in ended THEN "stopped" ELSE "idle"]
  BY DEF Shred
<1>2. TypeInv'
  BY ShredInv
<1>3. GoodQueues(requisitions) /\ Queued(requisitions, t)
  BY <1>1 DEF TypeInv, QueueInv, Absent
<1>4. \A u \in Task : u # t => (Granted(requisitions', u) <=> Granted(requisitions, u))
  BY <1>1, <1>3, DismissQueues
<1>5. pc'[t] \in Absent /\ \A u \in Task : u # t => pc'[u] = pc[u]
  BY <1>1 DEF TypeInv, StateInv, Absent
<1>6. books'.occupancy[a] <= books.occupancy[a]
  BY <1>1, BooksCounts
<1>7. \A u \in Task : u \in Active' /\ Granted(requisitions', u)
          => u \in Active /\ Granted(requisitions, u) /\ need'[u] = need[u]
  BY <1>1, <1>4, <1>5 DEF Active, Absent
<1>. QED
  BY <1>2, <1>6, <1>7, OverLess

\* by steps that leave all tasks alone,
LEMMA BooksOver ==
    ASSUME TypeInv, TypeInv', requisitions' = requisitions, need' = need, pc' = pc,
           NEW a \in Acct, Owes(a), books'.occupancy[a] = books.occupancy[a]
    PROVE  Owes(a)'
BY OverStays

LEMMA ReleaseFileOver ==
    ASSUME TypeInv, NEW t \in Maker, ReleaseFile(t), NEW a \in Acct, Owes(a) PROVE Owes(a)'
<1>1. /\ FileOf[t] \in DOMAIN books.file /\ books' = DestroyFileRef(books, FileOf[t])
      /\ requisitions' = requisitions /\ pc' = pc /\ need' = need
  BY DEF ReleaseFile
<1>2. BooksOK(books)
  BY DEF TypeInv, BookInv
<1>3. books'.occupancy = books.occupancy
  BY <1>1, <1>2, DestroyFileRefOK
<1>4. TypeInv'
  BY ReleaseFileInv
<1>. QED
  BY <1>1, <1>3, <1>4, BooksOver

LEMMA CloneOver ==
    ASSUME TypeInv, NEW z \in DOMAIN books.zco, Clone(z), NEW a \in Acct, Owes(a) PROVE Owes(a)'
<1> DEFINE n == NewAddr(books.zco)
           c == books.zco[z].acct
<1>1. /\ Free(books.zco) # {} /\ books' = CopyZco(books, n, z, c)
      /\ requisitions' = requisitions /\ pc' = pc /\ need' = need
  BY DEF Clone, Addressable
<1>2. n \in 1 .. MaxAddr /\ n \notin DOMAIN books.zco
  BY <1>1, NewIsFree
<1>3. BooksOK(books) /\ c \in Acct
  BY DEF TypeInv, BookInv, BooksOK, TypedBooks
<1>4. books.zco[z].acct = c
  OBVIOUS
<1> HIDE DEF n, c
<1>5. /\ \A x \in Acct : x # c => books'.occupancy[x] = books.occupancy[x]
      /\ books.zco[z].acct = c => books'.occupancy[c] = books.occupancy[c]
  BY <1>1, <1>2, <1>3, CopyZcoOK
<1>6. books'.occupancy[a] = books.occupancy[a]
  BY <1>4, <1>5
<1>7. TypeInv'
  BY CloneInv
<1>. QED
  BY <1>1, <1>6, <1>7, BooksOver

\* by a destruction, which makes room and serves,
LEMMA DestroyOver ==
    ASSUME TypeInv, NEW z \in DOMAIN books.zco, Destroy(z),
           NEW a \in Acct, Owes(a), InTurn(requisitions[a])
    PROVE  Owes(a)'
<1>1. /\ books' = DestroyZco(books, z) /\ Provide(requisitions, books', books.zco[z].acct)
      /\ pc' = pc /\ need' = need
  BY DEF Destroy
<1>2. BooksOK(books) /\ books.zco[z].acct \in Acct
  BY DEF TypeInv, BookInv, BooksOK, TypedBooks
<1>3. \A x \in Acct : books'.occupancy[x] <= books.occupancy[x]
  BY <1>1, <1>2, DestroyZcoOK
<1>4. TypeInv'
  BY DestroyInv
<1>5. Active' = Active
  BY <1>1 DEF Active
<1>. QED
  BY <1>1, <1>2, <1>3, <1>4, <1>5, OverServed

\* by a piece, which takes what was promised for it,
LEMMA CreatePieceOver ==
    ASSUME TypeInv, NeedInv, NEW t \in Maker, Create(t), NEW a \in Acct, Owes(a), Sure(a)
    PROVE  Owes(a)'
<1>1. /\ TypeInv' /\ pc' = [pc EXCEPT ![t] = "dismiss"] /\ requisitions' = requisitions
      /\ \A x \in Acct : x # AcctOf[t] => books'.occupancy[x] = books.occupancy[x]
      /\ books'.occupancy[AcctOf[t]] = books.occupancy[AcctOf[t]] + Piece[t]
  BY CreatePieceInv
<1>2. t \in Task /\ need' = need /\ pc[t] = "create" /\ t \in Active /\ Account(t) = AcctOf[t]
  BY DEF Task, Create, Active, Account
<1>3. pc'[t] = "dismiss" /\ \A u \in Task : u # t => pc'[u] = pc[u]
  BY <1>1, <1>2 DEF TypeInv, StateInv
<1>4. need \in [Task -> Nat] /\ need[t] = Piece[t]
  BY <1>2 DEF TypeInv, StateInv, NeedInv, Absent
<1>5. books.occupancy \in [Acct -> Nat]
  BY BooksCounts
<1>6. books'.occupancy \in [Acct -> Nat]
  BY <1>1, CountsType DEF TypeInv, BookInv, BooksOK
<1>7. CASE a = Account(t)
  <2>1. Granted(requisitions, t)
    BY <1>2, <1>7 DEF Sure
  <2>2. books'.occupancy[a] <= books.occupancy[a] + need[t]
    BY <1>1, <1>2, <1>4, <1>5, <1>7
  <2>3. PICK b : b = books'
    OBVIOUS
  <2>4. Within(b, requisitions, Active \ {t}, need, a)
    BY <1>2, <1>6, <1>7, <2>1, <2>2, <2>3, OverSpent
  <2>5. Active' = Active \ {t}
    BY <1>2, <1>3 DEF Active
  <2>. QED
    BY <1>1, <1>2, <2>3, <2>4, <2>5 DEF Owes
<1>8. CASE a # Account(t)
  <2>1. books'.occupancy[a] <= books.occupancy[a]
    BY <1>1, <1>2, <1>5, <1>8
  <2>2. \A u \in Task : Account(u) = a /\ u \in Active' /\ Granted(requisitions', u)
          => u \in Active /\ Granted(requisitions, u) /\ need'[u] = need[u]
    BY <1>1, <1>2, <1>3, <1>8 DEF Active
  <2>. QED
    BY <1>1, <2>1, <2>2, OverLess
<1>. QED
  BY <1>7, <1>8

\* and by a copy, which takes it outbound and serves inbound.
LEMMA CreateCopyOver ==
    ASSUME TypeInv, NEW t \in Mover, Create(t), Intact(t),
           NEW a \in Acct, Owes(a), Sure(a), InTurn(requisitions[a])
    PROVE  Owes(a)'
<1>1. /\ TypeInv' /\ pc' = [pc EXCEPT ![t] = "idle"]
      /\ need' = need /\ Provide(Dismissed(t), books', "in")
      /\ books'.occupancy["in"] <= books.occupancy["in"]
      /\ books'.occupancy["out"] <= books.occupancy["out"] + need[t]
  BY CreateCopyInv
<1>2. t \in Task /\ pc[t] = "create" /\ t \in Active /\ Account(t) = "out"
  BY ZcoSpaceAssumption DEF Task, Create, Active, Account
<1>3. pc'[t] = "idle" /\ \A u \in Task : u # t => pc'[u] = pc[u]
  BY <1>1, <1>2 DEF TypeInv, StateInv
<1>4. Active' = Active \ {t} /\ Active \in SUBSET Task
  BY <1>2, <1>3 DEF Active
<1>5. need \in [Task -> Nat]
  BY DEF TypeInv, StateInv
<1>6. books.occupancy \in [Acct -> Nat]
  BY BooksCounts
<1>7. books'.occupancy \in [Acct -> Nat]
  BY <1>1, CountsType DEF TypeInv, BookInv, BooksOK
<1>8. GoodQueues(requisitions) /\ Queued(requisitions, t) /\ Asked(requisitions, need)
  BY <1>2 DEF TypeInv, QueueInv, Absent
<1>9. PICK qt : qt = Dismissed(t)
  OBVIOUS
<1>10. /\ GoodQueues(qt)
       /\ \A u \in Task : u # t => (Granted(qt, u) <=> Granted(requisitions, u))
       /\ \A x \in Acct : InTurn(requisitions[x]) => InTurn(qt[x])
       /\ \A m : Asked(requisitions, m) => Asked(qt, m)
  BY <1>2, <1>8, <1>9, DismissQueues
<1>11. PICK b : b = books'
  OBVIOUS
<1>12. PICK P : P = Active \ {t}
  OBVIOUS
<1>13. Within(b, qt, P, need, a)
  <2>1. CASE a = "out"
    <3>1. Granted(requisitions, t)
      BY <1>2, <2>1 DEF Sure
    <3>2. b.occupancy[a] <= books.occupancy[a] + need[t] /\ a = Account(t)
      BY <1>1, <1>2, <1>11, <2>1
    <3>. QED
      BY <1>2, <1>7, <1>10, <1>11, <1>12, <3>1, <3>2, OverSpent
  <2>2. CASE a # "out"
    <3>1. a = "in"
      BY <2>2 DEF Acct
    <3>2. b.occupancy[a] <= books.occupancy[a]
      BY <1>1, <1>11, <3>1
    <3>3. Owed(qt, P, a) = Owed(requisitions, Active, a)
      BY <1>2, <1>4, <1>10, <1>12, <2>2 DEF Owed
    <3>4. Total(need, Owed(requisitions, Active, a)) \in Nat
      BY <1>4, <1>5, OwedType
    <3>. QED
      BY <1>6, <1>7, <1>11, <3>2, <3>3, <3>4, ZcoSpaceAssumption DEF Owes, Within
  <2>. QED
    BY <2>1, <2>2
<1>14. InTurn(qt[a]) /\ Asked(qt, need)
  BY <1>8, <1>10
<1>15. Provide(qt, b, "in") /\ "in" \in Acct /\ P \in SUBSET Task
  BY <1>1, <1>4, <1>9, <1>11, <1>12 DEF Acct
<1>16. Within(b, requisitions', P, need, a)
  BY <1>5, <1>7, <1>10, <1>11, <1>13, <1>14, <1>15, ProvideWithin
<1>. QED
  BY <1>1, <1>4, <1>11, <1>12, <1>16 DEF Owes

LEMMA CreateNotOver ==
    ASSUME TypeInv, NEW t \in Mover, Create(t), ~Intact(t), NEW a \in Acct, Owes(a)
    PROVE  Owes(a)'
<1>1. /\ TypeInv' /\ pc' = [pc EXCEPT ![t] = "cancel"]
      /\ books' = books /\ requisitions' = requisitions /\ sem' = sem /\ need' = need
  BY CreateNotInv
<1>2. t \in Task /\ pc[t] \notin {"idle", "dismiss", "stopped"}
  BY DEF Task, Create
<1>. QED
  BY <1>1, <1>2, StepOver

\* So that every step keeps it there.
LEMMA NextOver ==
    ASSUME TypeInv, NeedInv, [Next]_vars, NEW a \in Acct, Owes(a), Sure(a), InTurn(requisitions[a])
    PROVE  Owes(a)'
<1>1. ASSUME NEW t \in Task, Create(t) PROVE Owes(a)'
  BY <1>1, CreatePieceOver, CreateCopyOver, CreateNotOver DEF Task
<1>2. ASSUME NEW t \in Task, Proceed(t) PROVE Owes(a)'
  BY <1>1, <1>2, TryNowOver, WaitOver, ShredOver DEF Proceed
<1>3. ASSUME NEW t \in Task, Pause(t) PROVE Owes(a)'
  <2>1. /\ books' = books /\ requisitions' = requisitions /\ need' = need /\ pc' = pc
    BY <1>3 DEF Pause
  <2>2. TypeInv'
    BY <1>3, PauseInv
  <2>. QED
    BY <2>1, <2>2, BooksOver
<1>4. ASSUME NEW t \in Maker, ReleaseFile(t) PROVE Owes(a)'
  BY <1>4, ReleaseFileOver
<1>5. ASSUME NEW z \in DOMAIN books.zco, Clone(z) \/ Destroy(z) PROVE Owes(a)'
  BY <1>5, CloneOver, DestroyOver
<1>6. CASE UNCHANGED vars
  <2>1. /\ books' = books /\ requisitions' = requisitions /\ need' = need /\ pc' = pc
    BY <1>6 DEF vars
  <2>2. TypeInv'
    BY <1>6, StutterInv
  <2>. QED
    BY <2>1, <2>2, BooksOver
<1>. QED
  BY <1>2, <1>3, <1>4, <1>5, <1>6, RequestOver DEF Next

LEMMA FitsOwes ==
    ASSUME TypeInv, NEW a \in Acct
    PROVE  /\ Fits(a) <=> Owes(a)
           /\ Sure(a) <=> \A t \in Task : Account(t) = a /\ pc[t] = "create" => Served(t)
<1>1. {t \in Task : /\ Account(t) = a /\ pc[t] \notin {"idle", "dismiss", "stopped"}
                    /\ Served(t)} = Owed(requisitions, Active, a)
  BY Looks DEF Owed, Active, Absent
<1>2. \A t \in Task : pc[t] = "create" => (Served(t) <=> Granted(requisitions, t))
  BY Looks DEF Absent
<1>. QED
  BY <1>1, <1>2 DEF Fits, Reserved, Owes, Within, Sure

Promised == \A a \in Acct : Fits(a) <=> Owes(a)

\* The same of every account.
LEMMA FitsPromised == TypeInv => Promised
BY FitsOwes DEF Promised

\* NeedInv is an invariant.
LEMMA NeedInvHolds == Spec => []NeedInv
<1>1. Init => NeedInv
  BY DEF Init, NeedInv, Absent, Task
<1>. QED
  BY <1>1, NextNeedInv, TypeInvHolds, PTL DEF Spec

\* Whatever the semaphores and the ranks of tasks, a step takes an account over
\* its limit only while a task that was not served is about to create in it, or
\* a requisition has overtaken one that was served.
THEOREM LimitKept == Spec => LimitHolds
<1> DEFINE Safe(a) == /\ Fits(a) /\ InTurn(requisitions[a])
                      /\ \A t \in Task : Account(t) = a /\ pc[t] = "create" => Served(t)
           Kept == \A a \in Acct : Safe(a) => Fits(a)'
<1>0. TypeInv' => Promised'
  BY FitsPromised, PTL
<1>1. TypeInv /\ TypeInv' /\ NeedInv /\ [Next]_vars => [Kept]_vars
  <2>. SUFFICES ASSUME TypeInv, TypeInv', NeedInv, [Next]_vars, NEW a \in Acct, Safe(a) PROVE Fits(a)'
    OBVIOUS
  <2>1. Owes(a) /\ Sure(a) /\ InTurn(requisitions[a])
    BY FitsOwes
  <2>2. Owes(a)'
    BY <2>1, NextOver
  <2>3. Fits(a)' <=> Owes(a)'
    BY <1>0 DEF Promised
  <2>. QED
    BY <2>2, <2>3
<1> HIDE DEF Kept, Safe
<1>2. Spec => [][Kept]_vars
  BY <1>1, TypeInvHolds, NeedInvHolds, PTL DEF Spec
<1>. QED
  BY <1>2 DEF LimitHolds, Kept, Safe
=============================================================================
