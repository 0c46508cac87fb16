---------------------------- MODULE BpAgentProofs ----------------------------
(***************************************************************************)
(* Proofs about the bundles of a node, for every set of keys, neighbors    *)
(* and bundles.  F is a set of keys of which more is known: those that     *)
(* have not come to the node twice (Once).  Of the others a late report    *)
(* may move or destroy a bundle that is in transit (BpAgent_return.cfg).   *)
(*                                                                         *)
(* The invariant is Inv: the database is sound, and what the adapters      *)
(* carry leads to no bundle of F in transit.  A step either leaves a       *)
(* database Quiet (bundles move or go, none comes into transit) or brings  *)
(* in new ones of one key (Leads), which may leave F by it.                *)
(***************************************************************************)
EXTENDS BpAgent, FiniteSetTheorems, TLAPS

Bundle == [key : Key, in : SUBSET Lists, detained : BOOLEAN, suspended : BOOLEAN,
           overdue : BOOLEAN]

\* On its way out a bundle is in one place at most; one of F that is in transit
\* is nowhere else, and no alarm has been set for it.
Placed(r, F) ==
    /\ \A p, q \in r.in \cap Outward : p = q
    /\ r.key \in F /\ "transit" \in r.in => r.in = {"transit"} /\ ~r.overdue

DbOK(d, F) ==
    /\ d = [bundle |-> d.bundle, list |-> d.list, hash |-> d.hash]
    /\ d.bundle = [c \in DOMAIN d.bundle |-> d.bundle[c]]
    /\ \A c \in DOMAIN d.bundle : d.bundle[c] \in Bundle /\ Placed(d.bundle[c], F)
    /\ IsFiniteSet(DOMAIN d.bundle) /\ 0 \notin DOMAIN d.bundle

\* The lists, given the objects: what d's lists name that is no object stays there.
Referring(d, bundle) ==
    [q \in Lists |-> {b \in DOMAIN bundle : q \in bundle[b].in} \cup (d.list[q] \ DOMAIN d.bundle)]

\* Only the list of transit may name one, and only if F lacks a key.
Dangling(d, F) == \A q \in Lists :
    d.list[q] \subseteq DOMAIN d.bundle \/ (q = "transit" /\ ~(Key \subseteq F))

HashOK(d) ==
    /\ DOMAIN d.hash = {d.bundle[b].key : b \in DOMAIN d.bundle}
    /\ \A k \in DOMAIN d.hash :
          /\ d.hash[k].count = Cardinality(OfKey(d, DOMAIN d.bundle, k))
          /\ d.hash[k].obj = 0 \/ OfKey(d, DOMAIN d.bundle, k) = {d.hash[k].obj}

Sound(d, F) ==
    DbOK(d, F) /\ d.list = Referring(d, d.bundle) /\ Dangling(d, F) /\ HashOK(d)

\* From d to e bundles only move or go, and none comes into transit.
Quiet(d, e, F) ==
    /\ Sound(e, F)
    /\ DOMAIN e.bundle \subseteq DOMAIN d.bundle /\ e.list["transit"] \subseteq d.list["transit"]
    /\ \A c \in DOMAIN e.bundle :
          /\ e.bundle[c].key = d.bundle[c].key
          /\ "transit" \in e.bundle[c].in => "transit" \in d.bundle[c].in
    /\ \A k \in DOMAIN e.hash : k \in DOMAIN d.hash /\ e.hash[k].obj = d.hash[k].obj

LEMMA QuietTransitive ==
    ASSUME NEW F, NEW d, NEW e, NEW f, Quiet(d, e, F), Quiet(e, f, F)
    PROVE  Quiet(d, f, F)
BY DEF Quiet

LEMMA QuietStutter ==
    ASSUME NEW F, NEW d, Sound(d, F)
    PROVE  Quiet(d, d, F)
BY DEF Quiet

-----------------------------------------------------------------------------
(* What the operators of BpStore do to a sound database.                    *)

\* Where the bundles are in e, given where they were in d.
Spread(d, e, B, to) ==
    /\ DOMAIN e.bundle = DOMAIN d.bundle
    /\ \A c \in B : e.bundle[c].in = d.bundle[c].in \cup {to[c]}
    /\ \A c \in DOMAIN d.bundle \ B : e.bundle[c].in = d.bundle[c].in
Added(d, e, B, q) ==
    /\ DOMAIN e.bundle = DOMAIN d.bundle
    /\ \A c \in B : e.bundle[c].in = d.bundle[c].in \cup {q}
    /\ \A c \in DOMAIN d.bundle \ B : e.bundle[c].in = d.bundle[c].in
Dropped(d, e, B, queues) ==
    /\ DOMAIN e.bundle = DOMAIN d.bundle
    /\ \A c \in B : e.bundle[c].in = d.bundle[c].in \ queues
    /\ \A c \in DOMAIN d.bundle \ B : e.bundle[c].in = d.bundle[c].in
Marked(d, e) ==
    /\ DOMAIN e.bundle = DOMAIN d.bundle
    /\ \A c \in DOMAIN d.bundle : e.bundle[c].in = d.bundle[c].in

\* The objects that r names, in the lists they say, are a sound database.
Recast(d, r) == [bundle |-> r, list |-> Referring(d, r), hash |-> d.hash]

\* Of fewer keys more is sound.
LEMMA Fewer ==
    ASSUME NEW F, NEW G, G \subseteq F, NEW d, Sound(d, F)
    PROVE  Sound(d, G)
<1>1. \A r : Placed(r, F) => Placed(r, G)
  BY DEF Placed
<1>2. Dangling(d, F) => Dangling(d, G)
  BY DEF Dangling
<1>. QED
  BY <1>1, <1>2 DEF Sound, DbOK

LEMMA RecastSound ==
    ASSUME NEW F, NEW d, Sound(d, F), NEW r, r = [c \in DOMAIN d.bundle |-> r[c]],
           \A c \in DOMAIN d.bundle : r[c] \in Bundle /\ Placed(r[c], F) /\ r[c].key = d.bundle[c].key
    PROVE  Sound(Recast(d, r), F)
<1> DEFINE e == Recast(d, r)
<1>1. e.bundle = r /\ e.hash = d.hash /\ e.list = Referring(d, r) /\ DOMAIN r = DOMAIN d.bundle
  BY DEF Recast
<1>2. e = [bundle |-> e.bundle, list |-> e.list, hash |-> e.hash]
  BY <1>1 DEF Recast
<1> HIDE DEF e
<1>3. DbOK(e, F)
  BY <1>1, <1>2 DEF Sound, DbOK
<1>4. \A k : OfKey(e, DOMAIN e.bundle, k) = OfKey(d, DOMAIN d.bundle, k)
  BY <1>1 DEF OfKey
<1>5. {e.bundle[b].key : b \in DOMAIN e.bundle} = {d.bundle[b].key : b \in DOMAIN d.bundle}
  BY <1>1
<1>6. HashOK(e)
  BY <1>1, <1>4, <1>5 DEF Sound, HashOK
<1>7. \A q \in Lists : e.list[q] \ DOMAIN e.bundle = d.list[q] \ DOMAIN d.bundle
  BY <1>1 DEF Referring
<1>8. e.list = Referring(e, e.bundle)
  BY <1>1, <1>7 DEF Referring
<1>9. Dangling(e, F)
  BY <1>7 DEF Sound, Dangling
<1>. QED
  BY <1>3, <1>6, <1>8, <1>9 DEF Sound, e

LEMMA RecastQuiet ==
    ASSUME NEW F, NEW d, Sound(d, F), NEW r, r = [c \in DOMAIN d.bundle |-> r[c]],
           \A c \in DOMAIN d.bundle :
              /\ r[c] \in Bundle /\ Placed(r[c], F) /\ r[c].key = d.bundle[c].key
              /\ "transit" \in r[c].in => "transit" \in d.bundle[c].in
    PROVE  Quiet(d, Recast(d, r), F)
<1>1. Sound(Recast(d, r), F)
  BY RecastSound
<1>2. /\ Recast(d, r).bundle = r /\ Recast(d, r).hash = d.hash /\ DOMAIN r = DOMAIN d.bundle
  BY DEF Recast
<1>3. Recast(d, r).list["transit"] \subseteq d.list["transit"]
  <2>1. "transit" \in Lists /\ d.list = Referring(d, d.bundle) /\ Recast(d, r).list = Referring(d, r)
    BY DEF Sound, Recast, Lists
  <2>. QED
    BY <1>2, <2>1 DEF Referring
<1>. QED
  BY <1>1, <1>2, <1>3 DEF Quiet

\* The objects that PutEach leaves.
PutInto(d, B, to) == [c \in DOMAIN d.bundle |->
    IF c \in B THEN [d.bundle[c] EXCEPT !.in = @ \cup {to[c]}] ELSE d.bundle[c]]

PutRow(d, r, B, to) ==
    /\ DOMAIN r = DOMAIN d.bundle /\ r = [c \in DOMAIN d.bundle |-> r[c]]
    /\ \A c \in DOMAIN d.bundle :
          /\ r[c] \in Bundle /\ r[c].key = d.bundle[c].key /\ r[c].overdue = d.bundle[c].overdue
          /\ r[c].in = IF c \in B THEN d.bundle[c].in \cup {to[c]} ELSE d.bundle[c].in

LEMMA PutEachRecast ==
    ASSUME NEW F, NEW d, Sound(d, F), NEW B \in SUBSET DOMAIN d.bundle, NEW to \in [B -> Lists]
    PROVE  /\ PutEach(d, B, to) = Recast(d, PutInto(d, B, to))
           /\ PutRow(d, PutInto(d, B, to), B, to)
<1> DEFINE e == PutEach(d, B, to)
           r == PutInto(d, B, to)
<1>1. \A c \in DOMAIN d.bundle : d.bundle[c] \in Bundle
  BY DEF Sound, DbOK
<1>2. \A c \in DOMAIN d.bundle :
         /\ r[c] \in Bundle /\ r[c].key = d.bundle[c].key /\ r[c].overdue = d.bundle[c].overdue
         /\ r[c].in = IF c \in B THEN d.bundle[c].in \cup {to[c]} ELSE d.bundle[c].in
  BY <1>1 DEF Bundle, PutInto
<1>3. DOMAIN r = DOMAIN d.bundle /\ r = [c \in DOMAIN d.bundle |-> r[c]]
  BY DEF PutInto
<1>4. e = [bundle |-> r, list |-> [q \in Lists |-> d.list[q] \cup {c \in B : to[c] = q}],
           hash |-> d.hash]
  BY DEF PutEach, PutInto
<1> HIDE DEF r, e
<1>5. [q \in Lists |-> d.list[q] \cup {c \in B : to[c] = q}] = Referring(d, r)
  <2>1. d.list = Referring(d, d.bundle)
    BY DEF Sound
  <2>2. ASSUME NEW q \in Lists
        PROVE  d.list[q] \cup {c \in B : to[c] = q}
               = {b \in DOMAIN r : q \in r[b].in} \cup (d.list[q] \ DOMAIN d.bundle)
    <3>1. d.list[q] = {b \in DOMAIN d.bundle : q \in d.bundle[b].in} \cup (d.list[q] \ DOMAIN d.bundle)
      BY <2>1 DEF Referring
    <3>2. \A b \in DOMAIN d.bundle : q \in r[b].in <=> q \in d.bundle[b].in \/ (b \in B /\ to[b] = q)
      BY <1>2
    <3>. QED
      BY <1>3, <3>1, <3>2
  <2>. QED
    BY <2>2 DEF Referring
<1>6. e = Recast(d, r)
  BY <1>4, <1>5 DEF Recast
<1>. QED
  BY <1>2, <1>3, <1>6 DEF e, r, PutRow

LEMMA PutEachQuiet ==
    ASSUME NEW F, NEW d, Sound(d, F), NEW B \in SUBSET DOMAIN d.bundle,
           NEW to \in [B -> Lists \ {"transit"}],
           \A b \in B : /\ d.bundle[b].key \in F => "transit" \notin d.bundle[b].in
                        /\ to[b] \in Outward => d.bundle[b].in \cap Outward = {}
    PROVE  Quiet(d, PutEach(d, B, to), F) /\ Spread(d, PutEach(d, B, to), B, to)
<1> DEFINE r == PutInto(d, B, to)
<1>1. \A c \in DOMAIN d.bundle : Placed(d.bundle[c], F)
  BY DEF Sound, DbOK
<1>a. to \in [B -> Lists]
  OBVIOUS
<1>b. PutEach(d, B, to) = Recast(d, r) /\ PutRow(d, r, B, to)
  BY <1>a, PutEachRecast, Zenon
<1> HIDE DEF r
<1>2. /\ DOMAIN r = DOMAIN d.bundle /\ r = [c \in DOMAIN d.bundle |-> r[c]]
      /\ \A c \in DOMAIN d.bundle :
            /\ r[c] \in Bundle /\ r[c].key = d.bundle[c].key /\ r[c].overdue = d.bundle[c].overdue
            /\ r[c].in = IF c \in B THEN d.bundle[c].in \cup {to[c]} ELSE d.bundle[c].in
  BY <1>b DEF PutRow
<1>3. \A c \in DOMAIN d.bundle : /\ Placed(r[c], F)
                                 /\ "transit" \in r[c].in => "transit" \in d.bundle[c].in
  <2> SUFFICES ASSUME NEW c \in DOMAIN d.bundle
               PROVE  Placed(r[c], F) /\ ("transit" \in r[c].in => "transit" \in d.bundle[c].in)
    OBVIOUS
  <2>1. CASE c \in B
    <3>1. /\ to[c] # "transit" /\ r[c].in = d.bundle[c].in \cup {to[c]}
          /\ r[c].key \in F => "transit" \notin d.bundle[c].in
          /\ to[c] \in Outward => d.bundle[c].in \cap Outward = {}
      BY <1>2, <2>1
    <3>2. \A p, q \in r[c].in \cap Outward : p = q
      <4>1. CASE to[c] \in Outward
        BY <3>1, <4>1
      <4>2. CASE to[c] \notin Outward
        <5>1. r[c].in \cap Outward = d.bundle[c].in \cap Outward
          BY <3>1, <4>2
        <5>. QED
          BY <1>1, <5>1 DEF Placed
      <4>. QED
        BY <4>1, <4>2
    <3>. QED
      BY <3>1, <3>2 DEF Placed
  <2>2. CASE c \notin B
    BY <1>1, <1>2, <2>2 DEF Placed
  <2>. QED
    BY <2>1, <2>2
<1>4. Quiet(d, PutEach(d, B, to), F)
  <2>1. Quiet(d, Recast(d, r), F)
    BY <1>2, <1>3, RecastQuiet
  <2>. QED
    BY <1>b, <2>1, Zenon
<1>5. PutEach(d, B, to).bundle = r
  BY <1>b DEF Recast
<1>6. Spread(d, PutEach(d, B, to), B, to)
  BY <1>2, <1>5 DEF Spread
<1>. QED
  BY <1>4, <1>6

LEMMA PutQuiet ==
    ASSUME NEW F, NEW d, Sound(d, F), NEW B \in SUBSET DOMAIN d.bundle, NEW q \in Lists \ {"transit"},
           \A b \in B : /\ d.bundle[b].key \in F => "transit" \notin d.bundle[b].in
                        /\ q \in Outward => d.bundle[b].in \cap Outward = {}
    PROVE  Quiet(d, Put(d, B, q), F) /\ Added(d, Put(d, B, q), B, q)
<1> DEFINE to == [c \in B |-> q]
<1>1. to \in [B -> Lists \ {"transit"}] /\ \A c \in B : to[c] = q
  OBVIOUS
<1>2. Put(d, B, q) = PutEach(d, B, to)
  BY DEF Put
<1>3. \A b \in B : /\ d.bundle[b].key \in F => "transit" \notin d.bundle[b].in
                   /\ to[b] \in Outward => d.bundle[b].in \cap Outward = {}
  BY <1>1
<1> HIDE DEF to
<1>4. Quiet(d, PutEach(d, B, to), F) /\ Spread(d, PutEach(d, B, to), B, to)
  BY <1>1, <1>3, PutEachQuiet, Zenon
<1>. QED
  BY <1>1, <1>2, <1>4 DEF Added, Spread

LEMMA DropQuiet ==
    ASSUME NEW F, NEW d, Sound(d, F), NEW B \in SUBSET DOMAIN d.bundle, NEW queues
    PROVE  Quiet(d, Drop(d, B, queues), F) /\ Dropped(d, Drop(d, B, queues), B, queues)
<1> DEFINE e == Drop(d, B, queues)
           r == [c \in DOMAIN d.bundle |->
                    IF c \in B THEN [d.bundle[c] EXCEPT !.in = @ \ queues] ELSE d.bundle[c]]
           list == [q \in Lists |-> d.list[q] \ {b \in B : q \in queues \cap d.bundle[b].in}]
<1>1. \A c \in DOMAIN d.bundle : d.bundle[c] \in Bundle /\ Placed(d.bundle[c], F)
  BY DEF Sound, DbOK
<1>2. \A c \in DOMAIN d.bundle :
         /\ r[c] \in Bundle /\ r[c].key = d.bundle[c].key /\ r[c].overdue = d.bundle[c].overdue
         /\ r[c].in = IF c \in B THEN d.bundle[c].in \ queues ELSE d.bundle[c].in
  BY <1>1 DEF Bundle
<1>3. DOMAIN r = DOMAIN d.bundle /\ r = [c \in DOMAIN d.bundle |-> r[c]]
  OBVIOUS
<1>4. e = [bundle |-> r, list |-> list, hash |-> d.hash]
  BY DEF Drop
<1>5. list = Referring(d, r)
  <2>1. d.list = Referring(d, d.bundle)
    BY DEF Sound
  <2>2. ASSUME NEW q \in Lists
        PROVE  list[q] = {b \in DOMAIN r : q \in r[b].in} \cup (d.list[q] \ DOMAIN d.bundle)
    <3>1. d.list[q] = {b \in DOMAIN d.bundle : q \in d.bundle[b].in} \cup (d.list[q] \ DOMAIN d.bundle)
      BY <2>1 DEF Referring
    <3>2. list[q] = d.list[q] \ {b \in B : q \in queues \cap d.bundle[b].in}
      OBVIOUS
    <3> HIDE DEF r, list
    <3>3. \A b \in DOMAIN d.bundle : q \in r[b].in <=> q \in d.bundle[b].in /\ ~(b \in B /\ q \in queues)
      BY <1>2
    <3>. QED
      BY <1>3, <3>1, <3>2, <3>3
  <2>. QED
    BY <2>2 DEF Referring
<1> HIDE DEF r, e, list
<1>6. \A c \in DOMAIN d.bundle : /\ Placed(r[c], F)
                                 /\ "transit" \in r[c].in => "transit" \in d.bundle[c].in
  BY <1>1, <1>2 DEF Placed
<1>7. e = Recast(d, r)
  BY <1>4, <1>5 DEF Recast
<1>8. Quiet(d, e, F)
  BY <1>2, <1>3, <1>6, <1>7, RecastQuiet
<1>9. e.bundle = r
  BY <1>4
<1>10. Dropped(d, e, B, queues)
  BY <1>2, <1>3, <1>9 DEF Dropped
<1>. QED
  BY <1>8, <1>10 DEF e

\* Marks of the objects change, and not where they are.
LEMMA MarkQuiet ==
    ASSUME NEW F, NEW d, Sound(d, F), NEW r, r = [c \in DOMAIN d.bundle |-> r[c]],
           \A c \in DOMAIN d.bundle :
              /\ r[c] \in Bundle /\ r[c].key = d.bundle[c].key /\ r[c].in = d.bundle[c].in
              /\ r[c].overdue => d.bundle[c].overdue \/ d.bundle[c].key \notin F
                                    \/ "transit" \notin d.bundle[c].in
    PROVE  Quiet(d, [bundle |-> r, list |-> d.list, hash |-> d.hash], F)
<1>1. \A c \in DOMAIN d.bundle : Placed(d.bundle[c], F) /\ r[c].overdue \in BOOLEAN
  BY DEF Sound, DbOK, Bundle
<1>2. \A c \in DOMAIN d.bundle : Placed(r[c], F)
  BY <1>1 DEF Placed
<1>3. Referring(d, r) = d.list
  <2>1. \A q \in Lists : {b \in DOMAIN r : q \in r[b].in} = {b \in DOMAIN d.bundle : q \in d.bundle[b].in}
    OBVIOUS
  <2>. QED
    BY <2>1 DEF Referring, Sound
<1>. QED
  BY <1>2, <1>3, RecastQuiet DEF Recast

LEMMA OnTimeQuiet ==
    ASSUME NEW F, NEW d, Sound(d, F), NEW B
    PROVE  Quiet(d, OnTime(d, B), F) /\ Marked(d, OnTime(d, B))
<1> DEFINE r == [c \in DOMAIN d.bundle |->
                    IF c \in B THEN [d.bundle[c] EXCEPT !.overdue = FALSE] ELSE d.bundle[c]]
<1>1. \A c \in DOMAIN d.bundle : d.bundle[c] \in Bundle
  BY DEF Sound, DbOK
<1>2. \A c \in DOMAIN d.bundle :
         /\ r[c] \in Bundle /\ r[c].key = d.bundle[c].key /\ r[c].in = d.bundle[c].in
         /\ r[c].overdue => d.bundle[c].overdue
  BY <1>1 DEF Bundle
<1>3. DOMAIN r = DOMAIN d.bundle /\ r = [c \in DOMAIN d.bundle |-> r[c]]
  OBVIOUS
<1>4. OnTime(d, B) = [bundle |-> r, list |-> d.list, hash |-> d.hash]
  BY DEF OnTime
<1> HIDE DEF r
<1>. QED
  BY <1>2, <1>3, <1>4, MarkQuiet DEF Marked

LEMMA UndetainedQuiet ==
    ASSUME NEW F, NEW d, Sound(d, F), NEW B
    PROVE  Quiet(d, Undetained(d, B), F) /\ Marked(d, Undetained(d, B))
<1> DEFINE r == [c \in DOMAIN d.bundle |->
                    IF c \in B THEN [d.bundle[c] EXCEPT !.detained = FALSE] ELSE d.bundle[c]]
<1>1. \A c \in DOMAIN d.bundle : d.bundle[c] \in Bundle
  BY DEF Sound, DbOK
<1>2. \A c \in DOMAIN d.bundle :
         /\ r[c] \in Bundle /\ r[c].key = d.bundle[c].key /\ r[c].in = d.bundle[c].in
         /\ r[c].overdue => d.bundle[c].overdue
  BY <1>1 DEF Bundle
<1>3. DOMAIN r = DOMAIN d.bundle /\ r = [c \in DOMAIN d.bundle |-> r[c]]
  OBVIOUS
<1>4. Undetained(d, B) = [bundle |-> r, list |-> d.list, hash |-> d.hash]
  BY DEF Undetained
<1> HIDE DEF r
<1>. QED
  BY <1>2, <1>3, <1>4, MarkQuiet DEF Marked

LEMMA EraseQuiet ==
    ASSUME NEW F, NEW d, Sound(d, F), NEW B \in SUBSET DOMAIN d.bundle,
           \A b \in B : /\ d.bundle[b].in \subseteq {"transit"}
                        /\ d.bundle[b].key \in F => d.bundle[b].in = {}
    PROVE  Quiet(d, Erase(d, B), F)
<1> DEFINE e == Erase(d, B)
           S(k) == OfKey(d, DOMAIN d.bundle, k)
           T(k) == OfKey(d, B, k)
           r == [c \in DOMAIN d.bundle \ B |-> d.bundle[c]]
<1>1. DbOK(d, F) /\ HashOK(d) /\ d.list = Referring(d, d.bundle) /\ Dangling(d, F)
  BY DEF Sound
<1>2. e = [bundle |-> r, list |-> d.list, hash |-> Uncatalogue(d, B)]
  BY DEF Erase
<1>3. /\ r = [c \in DOMAIN r |-> r[c]] /\ DOMAIN r = DOMAIN d.bundle \ B
      /\ \A c \in DOMAIN r : r[c] = d.bundle[c]
  OBVIOUS
<1> HIDE DEF r
<1>4. e.bundle = r /\ e.list = d.list /\ e.hash = Uncatalogue(d, B)
  BY <1>2
<1>5. e = [bundle |-> e.bundle, list |-> e.list, hash |-> e.hash]
  BY <1>2, <1>4
<1> HIDE DEF e
<1>6. DbOK(e, F)
  <2>1. IsFiniteSet(DOMAIN r) /\ 0 \notin DOMAIN r
    BY <1>1, <1>3, FS_Subset DEF DbOK
  <2>. QED
    BY <1>1, <1>3, <1>4, <1>5, <2>1 DEF DbOK
<1>7. e.list = Referring(e, e.bundle) /\ Dangling(e, F)
  <2>1. ASSUME NEW q \in Lists
        PROVE  /\ d.list[q] = {b \in DOMAIN r : q \in r[b].in} \cup (d.list[q] \ DOMAIN r)
               /\ d.list[q] \subseteq DOMAIN r \/ (q = "transit" /\ ~(Key \subseteq F))
    <3>1. d.list[q] = {b \in DOMAIN d.bundle : q \in d.bundle[b].in} \cup (d.list[q] \ DOMAIN d.bundle)
      BY <1>1 DEF Referring
    <3>2. \A b \in DOMAIN d.bundle : b \in d.list[q] <=> q \in d.bundle[b].in
      BY <3>1
    <3>3. d.list[q] = {b \in DOMAIN r : q \in r[b].in} \cup (d.list[q] \ DOMAIN r)
      BY <1>3, <3>2
    <3>4. CASE q # "transit"
      <4>1. d.list[q] \subseteq DOMAIN d.bundle
        BY <1>1, <3>4 DEF Dangling
      <4>2. \A b \in B : q \notin d.bundle[b].in
        BY <3>4
      <4>. QED
        BY <1>3, <3>2, <3>3, <4>1, <4>2
    <3>5. CASE q = "transit" /\ Key \subseteq F
      <4>1. d.list[q] \subseteq DOMAIN d.bundle
        BY <1>1, <3>5 DEF Dangling
      <4>2. \A b \in B : q \notin d.bundle[b].in
        BY <1>1, <3>5 DEF DbOK, Bundle
      <4>. QED
        BY <1>3, <3>2, <3>3, <4>1, <4>2
    <3>. QED
      BY <3>3, <3>4, <3>5
  <2>2. d.list = [q \in Lists |-> d.list[q]]
    BY <1>1 DEF Referring
  <2>. QED
    BY <1>4, <2>1, <2>2 DEF Referring, Dangling
<1>8. ASSUME NEW k \in DOMAIN d.hash
      PROVE  /\ OfKey(e, DOMAIN e.bundle, k) = S(k) \ T(k)
             /\ d.hash[k].count - Cardinality(T(k)) = Cardinality(S(k) \ T(k))
             /\ d.hash[k].count # Cardinality(T(k)) <=> S(k) \ T(k) # {}
  <2>1. IsFiniteSet(S(k)) /\ T(k) \subseteq S(k)
    BY <1>1, FS_Subset DEF DbOK, OfKey
  <2>2. /\ IsFiniteSet(T(k)) /\ IsFiniteSet(S(k) \ T(k)) /\ S(k) \cap T(k) = T(k)
        /\ Cardinality(S(k)) \in Nat /\ Cardinality(T(k)) \in Nat
    BY <2>1, FS_Subset, FS_CardinalityType
  <2>3. Cardinality(S(k) \ T(k)) = Cardinality(S(k)) - Cardinality(T(k))
    BY <2>1, <2>2, FS_Difference
  <2>4. Cardinality(S(k) \ T(k)) = 0 <=> S(k) \ T(k) = {}
    BY <2>2, FS_EmptySet
  <2>5. d.hash[k].count = Cardinality(S(k))
    BY <1>1 DEF HashOK
  <2>6. OfKey(e, DOMAIN e.bundle, k) = S(k) \ T(k)
    BY <1>3, <1>4 DEF OfKey
  <2>. QED
    BY <2>2, <2>3, <2>4, <2>5, <2>6
<1>9. /\ DOMAIN e.hash = {k \in DOMAIN d.hash : d.hash[k].count # Cardinality(T(k))}
      /\ \A k \in DOMAIN e.hash : /\ e.hash[k].obj = d.hash[k].obj
                                  /\ e.hash[k].count = d.hash[k].count - Cardinality(T(k))
  BY <1>4 DEF Uncatalogue
<1>10. HashOK(e)
  <2>1. DOMAIN e.hash = {e.bundle[b].key : b \in DOMAIN e.bundle}
    <3>1. ASSUME NEW k \in DOMAIN e.hash
          PROVE  k \in {e.bundle[b].key : b \in DOMAIN e.bundle}
      <4>1. S(k) \ T(k) # {} /\ OfKey(e, DOMAIN e.bundle, k) = S(k) \ T(k)
        BY <1>8, <1>9
      <4>. QED
        BY <4>1 DEF OfKey
    <3>2. ASSUME NEW b \in DOMAIN e.bundle
          PROVE  e.bundle[b].key \in DOMAIN e.hash
      <4> DEFINE k == e.bundle[b].key
      <4>1. b \in DOMAIN d.bundle \ B /\ k = d.bundle[b].key
        BY <1>3, <1>4
      <4>2. k \in DOMAIN d.hash
        BY <1>1, <4>1 DEF HashOK
      <4>3. b \in S(k) \ T(k)
        BY <4>1 DEF OfKey
      <4> HIDE DEF k
      <4>. QED
        BY <1>8, <1>9, <4>2, <4>3 DEF k
    <3>. QED
      BY <3>1, <3>2
  <2>2. ASSUME NEW k \in DOMAIN e.hash
        PROVE  /\ e.hash[k].count = Cardinality(OfKey(e, DOMAIN e.bundle, k))
               /\ e.hash[k].obj = 0 \/ OfKey(e, DOMAIN e.bundle, k) = {e.hash[k].obj}
    <3>1. /\ k \in DOMAIN d.hash /\ e.hash[k].obj = d.hash[k].obj
          /\ e.hash[k].count = d.hash[k].count - Cardinality(T(k))
          /\ S(k) \ T(k) # {} /\ OfKey(e, DOMAIN e.bundle, k) = S(k) \ T(k)
          /\ d.hash[k].count - Cardinality(T(k)) = Cardinality(S(k) \ T(k))
      BY <1>8, <1>9
    <3>2. d.hash[k].obj = 0 \/ S(k) = {d.hash[k].obj}
      BY <1>1, <3>1 DEF HashOK
    <3>. QED
      BY <3>1, <3>2
  <2>. QED
    BY <2>1, <2>2 DEF HashOK
<1>11. Sound(e, F)
  BY <1>6, <1>7, <1>10 DEF Sound
<1>. QED
  BY <1>1, <1>3, <1>4, <1>9, <1>11 DEF Quiet, e

-----------------------------------------------------------------------------
(* The functions that are made of them.                                     *)

\* Bundles that are not in transit, if their keys are in F.
Movable(d, B, F) ==
    /\ B \subseteq DOMAIN d.bundle
    /\ \A b \in B : d.bundle[b].key \in F => "transit" \notin d.bundle[b].in

\* Those that are on their way nowhere.
Parked(d, B, F) == Movable(d, B, F) /\ \A b \in B : d.bundle[b].in \cap Outward = {}

LEMMA MovableStays ==
    ASSUME NEW F, NEW d, NEW e, Quiet(d, e, F), DOMAIN e.bundle = DOMAIN d.bundle,
           NEW B, Movable(d, B, F)
    PROVE  Movable(e, B, F)
BY DEF Movable, Quiet

LEMMA ListsOutward ==
    /\ Outward \subseteq Lists /\ "transit" \notin Outward
    /\ Neighbor \subseteq PlanXmit /\ PlanXmit \subseteq Outward
    /\ {"fwd", "limbo", "duct"} \subseteq Outward /\ "limbo" \in PlanXmit
    /\ "dlv" \in Lists /\ "dlv" \notin Outward
BY BpStoreAssumption DEF Outward, Lists, PlanXmit

LEMMA ForwardQuiet ==
    ASSUME NEW F, NEW d, Sound(d, F), NEW B, Movable(d, B, F)
    PROVE  Quiet(d, Forward(d, B), F)
<1> DEFINE C == {b \in B : d.bundle[b].in \cap Outward = {}}
<1>1. /\ C \in SUBSET DOMAIN d.bundle
      /\ \A b \in C : /\ d.bundle[b].key \in F => "transit" \notin d.bundle[b].in
                      /\ d.bundle[b].in \cap Outward = {}
  BY DEF Movable
<1>2. Forward(d, B) = Put(d, C, "fwd")
  BY DEF Forward
<1>3. "fwd" \in Lists \ {"transit"}
  BY ListsOutward
<1> HIDE DEF C
<1>. QED
  BY <1>1, <1>2, <1>3, PutQuiet

LEMMA OrdinaryMovable ==
    ASSUME NEW F, NEW d, NEW B, Movable(d, B, F)
    PROVE  Movable(d, Ordinary(d, B), F)
BY DEF Movable, Ordinary

LEMMA ReforwardQuiet ==
    ASSUME NEW F, NEW d, Sound(d, F), NEW B, Movable(d, B, F)
    PROVE  Quiet(d, Reforward(d, B), F)
<1> DEFINE R == Ordinary(d, B)
           e == Drop(d, R, Outward)
           f == OnTime(e, R)
<1>1. Movable(d, R, F)
  BY OrdinaryMovable
<1>2. Quiet(d, e, F) /\ Dropped(d, e, R, Outward)
  <2>1. R \in SUBSET DOMAIN d.bundle
    BY <1>1 DEF Movable
  <2>. QED
    BY <2>1, DropQuiet, Zenon
<1>3. Sound(e, F) /\ Movable(e, R, F)
  BY <1>1, <1>2, MovableStays DEF Quiet, Dropped
<1>4. Quiet(e, f, F) /\ Marked(e, f)
  BY <1>3, OnTimeQuiet
<1>5. Sound(f, F) /\ Movable(f, R, F)
  BY <1>3, <1>4, MovableStays DEF Quiet, Marked
<1>6. Quiet(f, Forward(f, R), F)
  BY <1>5, ForwardQuiet
<1>7. Reforward(d, B) = Forward(f, R)
  BY DEF Reforward
<1>. QED
  BY <1>2, <1>4, <1>6, <1>7, QuietTransitive

LEMMA ToLimboQuiet ==
    ASSUME NEW F, NEW d, Sound(d, F), NEW B, Parked(d, B, F)
    PROVE  Quiet(d, ToLimbo(d, B), F)
<1> DEFINE R == Ordinary(d, B)
<1>1. /\ R \in SUBSET DOMAIN d.bundle
      /\ \A b \in R : /\ d.bundle[b].key \in F => "transit" \notin d.bundle[b].in
                      /\ d.bundle[b].in \cap Outward = {}
  BY DEF Parked, Movable, Ordinary
<1>2. "limbo" \in Lists \ {"transit"}
  BY ListsOutward
<1>3. ToLimbo(d, B) = Put(d, R, "limbo")
  BY DEF ToLimbo
<1> HIDE DEF R
<1>. QED
  BY <1>1, <1>2, <1>3, PutQuiet

\* A bundle that gives up its place on the way out is parked.
LEMMA DropParks ==
    ASSUME NEW F, NEW d, Sound(d, F), NEW queues \in SUBSET Outward,
           NEW B \in SUBSET DOMAIN d.bundle, \A b \in B : d.bundle[b].in \cap queues # {}
    PROVE  Quiet(d, Drop(d, B, queues), F) /\ Parked(Drop(d, B, queues), B, F)
<1> DEFINE e == Drop(d, B, queues)
<1>1. Quiet(d, e, F) /\ Dropped(d, e, B, queues)
  BY DropQuiet, Zenon
<1> HIDE DEF e
<1>2. ASSUME NEW b \in B
      PROVE  /\ e.bundle[b].key \in F => "transit" \notin e.bundle[b].in
             /\ e.bundle[b].in \cap Outward = {}
  <2>1. /\ Placed(d.bundle[b], F) /\ e.bundle[b].in = d.bundle[b].in \ queues
        /\ e.bundle[b].key = d.bundle[b].key
    BY <1>1 DEF Sound, DbOK, Dropped, Quiet
  <2>2. PICK q : q \in d.bundle[b].in \cap queues
    OBVIOUS
  <2>3. q \in Outward /\ \A p \in d.bundle[b].in \cap Outward : p = q
    BY <2>1, <2>2 DEF Placed
  <2>4. d.bundle[b].key \in F => "transit" \notin d.bundle[b].in
    BY <2>1, <2>2, <2>3, ListsOutward DEF Placed
  <2>. QED
    BY <2>1, <2>2, <2>3, <2>4
<1>. QED
  BY <1>1, <1>2 DEF Parked, Movable, Dropped, e

LEMMA ReverseEnqueueQuiet ==
    ASSUME NEW F, NEW d, Sound(d, F), NEW sendToLimbo \in BOOLEAN,
           NEW B \in SUBSET DOMAIN d.bundle, \A b \in B : d.bundle[b].in \cap Neighbor # {}
    PROVE  Quiet(d, ReverseEnqueue(d, B, sendToLimbo), F)
<1> DEFINE e == Drop(d, B, Neighbor)
           R == Ordinary(d, B)
<1>1. Quiet(d, e, F) /\ Parked(e, B, F)
  BY DropParks, ListsOutward
<1>2. Sound(e, F) /\ Parked(e, R, F) /\ Movable(e, R, F)
  BY <1>1 DEF Parked, Movable, Ordinary, Quiet
<1>3. Quiet(e, Reforward(e, R), F)
  BY <1>2, ReforwardQuiet
<1>4. Quiet(e, OnTime(e, R), F) /\ Parked(OnTime(e, R), R, F)
  <2>1. Quiet(e, OnTime(e, R), F) /\ Marked(e, OnTime(e, R))
    BY <1>2, OnTimeQuiet
  <2>. QED
    BY <1>2, <2>1 DEF Parked, Movable, Marked, Quiet
<1>5. Quiet(OnTime(e, R), ToLimbo(OnTime(e, R), R), F)
  BY <1>4, ToLimboQuiet DEF Quiet
<1>6. ReverseEnqueue(d, B, sendToLimbo)
      = IF sendToLimbo THEN ToLimbo(OnTime(e, R), R) ELSE Reforward(e, R)
  BY DEF ReverseEnqueue
<1> HIDE DEF e, R
<1>. QED
  BY <1>1, <1>3, <1>4, <1>5, <1>6, QuietTransitive

LEMMA ReleaseFromLimboQuiet ==
    ASSUME NEW F, NEW d, Sound(d, F), NEW B, Movable(d, B, F)
    PROVE  Quiet(d, ReleaseFromLimbo(d, B), F)
<1> DEFINE free == {b \in B : ~d.bundle[b].suspended}
           e == Drop(d, free, PlanXmit)
<1>1. Movable(d, free, F)
  BY DEF Movable
<1>2. Quiet(d, e, F) /\ Dropped(d, e, free, PlanXmit)
  <2>1. free \in SUBSET DOMAIN d.bundle
    BY <1>1 DEF Movable
  <2>. QED
    BY <2>1, DropQuiet, Zenon
<1>3. Quiet(e, Reforward(e, free), F)
  <2>1. Sound(e, F) /\ Movable(e, free, F)
    BY <1>1, <1>2, MovableStays DEF Quiet, Dropped
  <2>. QED
    BY <2>1, ReforwardQuiet
<1>4. ReleaseFromLimbo(d, B) = Reforward(e, free)
  BY DEF ReleaseFromLimbo
<1>. QED
  BY <1>2, <1>3, <1>4, QuietTransitive

LEMMA DestroyQuiet ==
    ASSUME NEW F, NEW d, Sound(d, F), NEW unconditional \in BOOLEAN,
           NEW B \in SUBSET DOMAIN d.bundle, unconditional \/ Movable(d, B, F)
    PROVE  Quiet(d, Destroy(d, B, unconditional), F)
<1> DEFINE f == Drop(d, B, Lists)
           g == Undetained(f, B)
           e == IF unconditional THEN g ELSE d
           C == {b \in B : ~Constrained(e.bundle[b])}
<1>1. Quiet(d, f, F) /\ Dropped(d, f, B, Lists)
  BY DropQuiet, Zenon
<1>2. Quiet(f, g, F) /\ Marked(f, g)
  BY <1>1, UndetainedQuiet DEF Quiet
<1>3. Quiet(d, e, F) /\ DOMAIN e.bundle = DOMAIN d.bundle
  BY <1>1, <1>2, QuietTransitive, QuietStutter DEF Dropped, Marked
<1>4. \A b \in C : /\ e.bundle[b].in \subseteq {"transit"}
                   /\ e.bundle[b].key \in F => e.bundle[b].in = {}
  <2>1. \A b \in B : e.bundle[b].in \subseteq Lists /\ d.bundle[b].in \subseteq Lists
    BY <1>3 DEF Quiet, Sound, DbOK, Bundle
  <2>2. CASE unconditional
    BY <1>1, <1>2, <2>1, <2>2 DEF Dropped, Marked
  <2>3. CASE ~unconditional
    BY <2>1, <2>3 DEF Movable, Constrained
  <2>. QED
    BY <2>2, <2>3
<1>5. Quiet(e, Erase(e, C), F)
  BY <1>3, <1>4, EraseQuiet DEF Quiet
<1>6. Destroy(d, B, unconditional) = Erase(e, C)
  BY DEF Destroy
<1>. QED
  BY <1>3, <1>5, <1>6, QuietTransitive

LEMMA SuspendedMark ==
    ASSUME NEW bundle, NEW list, NEW hash, NEW d, d = [bundle |-> bundle, list |-> list, hash |-> hash],
           NEW b, NEW value
    PROVE  [d EXCEPT !.bundle[b].suspended = value]
           = [bundle |-> [bundle EXCEPT ![b] = [@ EXCEPT !.suspended = value]],
              list |-> list, hash |-> hash]
<1>1. [[bundle |-> bundle, list |-> list, hash |-> hash] EXCEPT !.bundle[b].suspended = value]
      = [bundle |-> [bundle EXCEPT ![b] = [@ EXCEPT !.suspended = value]], list |-> list, hash |-> hash]
  OBVIOUS
<1>. QED
  BY <1>1, Zenon

LEMMA OverdueMark ==
    ASSUME NEW bundle, NEW list, NEW hash, NEW d, d = [bundle |-> bundle, list |-> list, hash |-> hash],
           NEW b, NEW value
    PROVE  [d EXCEPT !.bundle[b].overdue = value]
           = [bundle |-> [bundle EXCEPT ![b] = [@ EXCEPT !.overdue = value]],
              list |-> list, hash |-> hash]
<1>1. [[bundle |-> bundle, list |-> list, hash |-> hash] EXCEPT !.bundle[b].overdue = value]
      = [bundle |-> [bundle EXCEPT ![b] = [@ EXCEPT !.overdue = value]], list |-> list, hash |-> hash]
  OBVIOUS
<1>. QED
  BY <1>1, Zenon

LEMMA SuspendedQuiet ==
    ASSUME NEW F, NEW d, Sound(d, F), NEW b \in DOMAIN d.bundle, NEW value \in BOOLEAN
    PROVE  Quiet(d, [d EXCEPT !.bundle[b].suspended = value], F)
<1> DEFINE e == [d EXCEPT !.bundle[b].suspended = value]
           r == [d.bundle EXCEPT ![b] = [@ EXCEPT !.suspended = value]]
<1>1. /\ d = [bundle |-> d.bundle, list |-> d.list, hash |-> d.hash]
      /\ \A c \in DOMAIN d.bundle : d.bundle[c] \in Bundle
  BY DEF Sound, DbOK
<1>2. \A c \in DOMAIN d.bundle :
         /\ r[c] \in Bundle /\ r[c].key = d.bundle[c].key /\ r[c].in = d.bundle[c].in
         /\ r[c].overdue = d.bundle[c].overdue
  BY <1>1 DEF Bundle
<1>3. DOMAIN r = DOMAIN d.bundle /\ r = [c \in DOMAIN d.bundle |-> r[c]]
  OBVIOUS
<1>4. e = [bundle |-> r, list |-> d.list, hash |-> d.hash]
  <2>1. ASSUME NEW u, NEW v, NEW w, d = [bundle |-> u, list |-> v, hash |-> w]
        PROVE  [d EXCEPT !.bundle[b].suspended = value]
               = [bundle |-> [u EXCEPT ![b] = [@ EXCEPT !.suspended = value]], list |-> v, hash |-> w]
    BY <2>1, SuspendedMark
  <2> HIDE DEF r
  <2>2. d = [bundle |-> d.bundle, list |-> d.list, hash |-> d.hash]
    BY <1>1
  <2>. QED
    BY <2>1, <2>2 DEF r
<1> HIDE DEF r, e
<1>5. Quiet(d, e, F)
  BY <1>2, <1>3, <1>4, MarkQuiet
<1>. QED
  BY <1>5 DEF e

LEMMA OverdueQuiet ==
    ASSUME NEW F, NEW d, Sound(d, F), NEW b \in DOMAIN d.bundle, NEW overdue \in BOOLEAN,
           d.bundle[b].key \in F => "transit" \notin d.bundle[b].in
    PROVE  /\ Quiet(d, [d EXCEPT !.bundle[b].overdue = overdue], F)
           /\ DOMAIN [d EXCEPT !.bundle[b].overdue = overdue].bundle = DOMAIN d.bundle
<1> DEFINE e == [d EXCEPT !.bundle[b].overdue = overdue]
           r == [d.bundle EXCEPT ![b] = [@ EXCEPT !.overdue = overdue]]
<1>1. /\ d = [bundle |-> d.bundle, list |-> d.list, hash |-> d.hash]
      /\ \A c \in DOMAIN d.bundle : d.bundle[c] \in Bundle
  BY DEF Sound, DbOK
<1>2. \A c \in DOMAIN d.bundle :
         /\ r[c] \in Bundle /\ r[c].key = d.bundle[c].key /\ r[c].in = d.bundle[c].in
         /\ r[c].overdue => d.bundle[c].overdue \/ d.bundle[c].key \notin F
                               \/ "transit" \notin d.bundle[c].in
  BY <1>1 DEF Bundle
<1>3. DOMAIN r = DOMAIN d.bundle /\ r = [c \in DOMAIN d.bundle |-> r[c]]
  OBVIOUS
<1>4. e = [bundle |-> r, list |-> d.list, hash |-> d.hash]
  <2>1. ASSUME NEW u, NEW v, NEW w, d = [bundle |-> u, list |-> v, hash |-> w]
        PROVE  [d EXCEPT !.bundle[b].overdue = overdue]
               = [bundle |-> [u EXCEPT ![b] = [@ EXCEPT !.overdue = overdue]], list |-> v, hash |-> w]
    BY <2>1, OverdueMark
  <2> HIDE DEF r
  <2>2. d = [bundle |-> d.bundle, list |-> d.list, hash |-> d.hash]
    BY <1>1
  <2>. QED
    BY <2>1, <2>2 DEF r
<1> HIDE DEF r, e
<1>5. Quiet(d, e, F)
  BY <1>2, <1>3, <1>4, MarkQuiet
<1>6. DOMAIN e.bundle = DOMAIN d.bundle
  BY <1>3, <1>4
<1>. QED
  BY <1>5, <1>6 DEF e

-----------------------------------------------------------------------------
(* New objects.                                                             *)

\* From d to e bundles move, go, and those of N come, which have the key k.
Leads(d, e, N, k, F) ==
    /\ Sound(e, F)
    /\ DOMAIN e.bundle \subseteq DOMAIN d.bundle \cup N
    /\ e.list["transit"] \subseteq d.list["transit"] \cup N
    /\ \A c \in DOMAIN e.bundle : IF c \in N THEN e.bundle[c].key = k
                                  ELSE /\ e.bundle[c].key = d.bundle[c].key
                                       /\ "transit" \in e.bundle[c].in => "transit" \in d.bundle[c].in
    /\ \A j \in DOMAIN e.hash : j = k \/ (j \in DOMAIN d.hash /\ e.hash[j].obj = d.hash[j].obj)

\* Those of N are in no list yet.
Grown(d, e, N) ==
    /\ DOMAIN e.bundle = DOMAIN d.bundle \cup N
    /\ \A c \in DOMAIN d.bundle : e.bundle[c] = d.bundle[c]
    /\ \A c \in N : e.bundle[c].in = {} /\ ~e.bundle[c].overdue

LEMMA LeadsOn ==
    ASSUME NEW F, NEW d, NEW e, NEW f, NEW N, NEW k, Leads(d, e, N, k, F), Quiet(e, f, F)
    PROVE  Leads(d, f, N, k, F)
BY DEF Leads, Quiet

LEMMA QuietLeads ==
    ASSUME NEW F, NEW d, NEW e, NEW f, NEW N, NEW k, Quiet(d, e, F), Leads(e, f, N, k, F),
           N \cap DOMAIN d.bundle = {}
    PROVE  Leads(d, f, N, k, F)
BY DEF Leads, Quiet

LEMMA Growth ==
    ASSUME NEW F, NEW d, Sound(d, F), NEW N, IsFiniteSet(N), N \cap DOMAIN d.bundle = {}, 0 \notin N, N # {},
           N \cap d.list["transit"] = {}, NEW k \in Key, NEW obj,
           NEW new \in Bundle, new.key = k, new.in = {}, ~new.overdue,
           obj = 0 \/ (OfKey(d, DOMAIN d.bundle, k) = {} /\ N = {obj}), NEW count,
           count = Cardinality(OfKey(d, DOMAIN d.bundle, k)) + Cardinality(N),
           NEW e, e = [bundle |-> Extended(d.bundle, N, new), list |-> d.list,
                       hash |-> Extended(d.hash, {k}, [obj |-> obj, count |-> count])]
    PROVE  Leads(d, e, N, k, F) /\ Grown(d, e, N) /\ e.hash[k].obj = obj
<1>1. DbOK(d, F) /\ HashOK(d) /\ d.list = Referring(d, d.bundle) /\ Dangling(d, F)
  BY DEF Sound
<1>2. new \in Bundle /\ Placed(new, F) /\ new.key = k /\ new.in = {} /\ ~new.overdue
  BY DEF Placed
<1>3. /\ DOMAIN e.bundle = DOMAIN d.bundle \cup N
      /\ e.bundle = [c \in DOMAIN e.bundle |-> e.bundle[c]]
      /\ \A c \in DOMAIN d.bundle : e.bundle[c] = d.bundle[c]
      /\ \A c \in N : e.bundle[c] = new
  BY DEF Extended
<1>4. /\ DOMAIN e.hash = DOMAIN d.hash \cup {k}
      /\ e.hash[k].obj = obj /\ e.hash[k].count = count
      /\ \A j \in DOMAIN d.hash \ {k} : e.hash[j] = d.hash[j]
  BY DEF Extended
<1>5. e.list = d.list /\ e = [bundle |-> e.bundle, list |-> e.list, hash |-> e.hash]
  OBVIOUS
<1>6. DbOK(e, F)
  <2>1. IsFiniteSet(DOMAIN e.bundle) /\ 0 \notin DOMAIN e.bundle
    <3>1. IsFiniteSet(DOMAIN d.bundle) /\ 0 \notin DOMAIN d.bundle
      BY <1>1 DEF DbOK
    <3>2. IsFiniteSet(DOMAIN d.bundle \cup N)
      BY <3>1, FS_Union, Zenon
    <3>. QED
      BY <1>3, <3>1, <3>2
  <2>. QED
    BY <1>1, <1>2, <1>3, <1>5, <2>1 DEF DbOK
<1>7. e.list = Referring(e, e.bundle) /\ Dangling(e, F)
  <2>1. ASSUME NEW q \in Lists
        PROVE  /\ d.list[q] = {b \in DOMAIN e.bundle : q \in e.bundle[b].in}
                              \cup (d.list[q] \ DOMAIN e.bundle)
               /\ d.list[q] \subseteq DOMAIN e.bundle \/ (q = "transit" /\ ~(Key \subseteq F))
    <3>1. d.list[q] = {b \in DOMAIN d.bundle : q \in d.bundle[b].in} \cup (d.list[q] \ DOMAIN d.bundle)
      BY <1>1 DEF Referring
    <3>2. {b \in DOMAIN d.bundle : q \in d.bundle[b].in} = {b \in DOMAIN e.bundle : q \in e.bundle[b].in}
      BY <1>2, <1>3
    <3>3. d.list[q] \subseteq DOMAIN d.bundle \/ (q = "transit" /\ ~(Key \subseteq F))
      BY <1>1 DEF Dangling
    <3>4. d.list[q] \cap N = {}
      BY <3>3
    <3>5. d.list[q] \ DOMAIN e.bundle = d.list[q] \ DOMAIN d.bundle
      BY <1>3, <3>4
    <3>. QED
      BY <1>3, <3>1, <3>2, <3>3, <3>5
  <2>2. d.list = [q \in Lists |-> d.list[q]]
    BY <1>1 DEF Referring
  <2>. QED
    BY <1>5, <2>1, <2>2 DEF Referring, Dangling
<1>8. \A j : OfKey(e, DOMAIN e.bundle, j)
             = OfKey(d, DOMAIN d.bundle, j) \cup (IF j = k THEN N ELSE {})
  BY <1>2, <1>3 DEF OfKey
<1>9. Cardinality(OfKey(e, DOMAIN e.bundle, k)) = count
  <2>1. OfKey(d, DOMAIN d.bundle, k) \subseteq DOMAIN d.bundle
    BY DEF OfKey
  <2>2. IsFiniteSet(OfKey(d, DOMAIN d.bundle, k)) /\ OfKey(d, DOMAIN d.bundle, k) \cap N = {}
    BY <1>1, <2>1, FS_Subset DEF DbOK
  <2>3. Cardinality(OfKey(d, DOMAIN d.bundle, k) \cup N)
        = Cardinality(OfKey(d, DOMAIN d.bundle, k)) + Cardinality(N) - Cardinality({})
    BY <2>2, FS_Union, Zenon
  <2>4. /\ Cardinality(OfKey(d, DOMAIN d.bundle, k)) \in Nat /\ Cardinality(N) \in Nat
        /\ Cardinality({}) = 0
    BY <2>2, FS_CardinalityType, FS_EmptySet
  <2>5. OfKey(e, DOMAIN e.bundle, k) = OfKey(d, DOMAIN d.bundle, k) \cup N
    BY <1>8
  <2> DEFINE m == Cardinality(OfKey(d, DOMAIN d.bundle, k))
             n == Cardinality(N)
  <2>6. /\ count = m + n /\ m \in Nat /\ n \in Nat
        /\ Cardinality(OfKey(d, DOMAIN d.bundle, k) \cup N) = m + n - 0
    BY <2>3, <2>4
  <2> HIDE DEF m, n
  <2>7. m + n - 0 = m + n
    BY <2>6
  <2>. QED
    BY <2>5, <2>6, <2>7, Zenon
<1>10. HashOK(e)
  <2>1. DOMAIN e.hash = {e.bundle[b].key : b \in DOMAIN e.bundle}
    <3>1. DOMAIN d.hash = {d.bundle[b].key : b \in DOMAIN d.bundle}
      BY <1>1 DEF HashOK
    <3>2. ASSUME NEW j \in DOMAIN e.hash PROVE j \in {e.bundle[b].key : b \in DOMAIN e.bundle}
      <4>1. CASE j = k
        <5>1. PICK b \in N : TRUE
          OBVIOUS
        <5>2. b \in DOMAIN e.bundle /\ e.bundle[b].key = k
          BY <1>2, <1>3
        <5>. QED
          BY <4>1, <5>2
      <4>2. CASE j # k
        <5>1. PICK b \in DOMAIN d.bundle : j = d.bundle[b].key
          BY <1>4, <3>1, <4>2
        <5>. QED
          BY <1>3, <5>1
      <4>. QED
        BY <4>1, <4>2
    <3>3. ASSUME NEW b \in DOMAIN e.bundle PROVE e.bundle[b].key \in DOMAIN e.hash
      BY <1>2, <1>3, <1>4, <3>1
    <3>4. DOMAIN e.hash \subseteq {e.bundle[b].key : b \in DOMAIN e.bundle}
      BY <3>2
    <3>5. {e.bundle[b].key : b \in DOMAIN e.bundle} \subseteq DOMAIN e.hash
      BY <3>3
    <3>. QED
      BY <3>4, <3>5, Zenon
  <2>2. ASSUME NEW j \in DOMAIN e.hash
        PROVE  /\ e.hash[j].count = Cardinality(OfKey(e, DOMAIN e.bundle, j))
               /\ e.hash[j].obj = 0 \/ OfKey(e, DOMAIN e.bundle, j) = {e.hash[j].obj}
    <3>1. CASE j = k
      BY <1>4, <1>8, <1>9, <3>1
    <3>2. CASE j # k
      <4>1. j \in DOMAIN d.hash /\ OfKey(e, DOMAIN e.bundle, j) = OfKey(d, DOMAIN d.bundle, j)
        <5>1. OfKey(e, DOMAIN e.bundle, j) = OfKey(d, DOMAIN d.bundle, j) \cup {}
          BY <1>8, <3>2
        <5>. QED
          BY <1>4, <3>2, <5>1
      <4>2. e.hash[j] = d.hash[j]
        BY <1>4, <3>2
      <4>3. /\ d.hash[j].count = Cardinality(OfKey(d, DOMAIN d.bundle, j))
            /\ d.hash[j].obj = 0 \/ OfKey(d, DOMAIN d.bundle, j) = {d.hash[j].obj}
        BY <1>1, <4>1 DEF HashOK
      <4>. QED
        BY <4>1, <4>2, <4>3
    <3>. QED
      BY <3>1, <3>2
  <2>. QED
    BY <2>1, <2>2 DEF HashOK
<1>. QED
  BY <1>2, <1>3, <1>4, <1>6, <1>7, <1>10 DEF Leads, Grown, Sound

LEMMA NewLeads ==
    ASSUME NEW F, NEW d, Sound(d, F), NEW b, b \notin DOMAIN d.bundle, b # 0,
           b \notin d.list["transit"], NEW k \in Key, NEW detained \in BOOLEAN
    PROVE  Leads(d, New(d, b, k, detained), {b}, k, F) /\ Grown(d, New(d, b, k, detained), {b})
<1> DEFINE S == OfKey(d, DOMAIN d.bundle, k)
           N == {b}
           new == NewBundle(k, detained)
           obj == IF k \in DOMAIN d.hash THEN 0 ELSE b
           count == IF k \in DOMAIN d.hash THEN d.hash[k].count + 1 ELSE 1
<1>1. k \notin DOMAIN d.hash => S = {}
  BY DEF OfKey, Sound, HashOK
<1>2. IsFiniteSet(N) /\ count = Cardinality(S) + Cardinality(N)
  <2>1. IsFiniteSet(N) /\ Cardinality(N) = 1
    BY FS_Singleton, Zenon
  <2>2. k \notin DOMAIN d.hash => Cardinality(S) = 0
    BY <1>1, FS_EmptySet
  <2>3. k \in DOMAIN d.hash => d.hash[k].count = Cardinality(S)
    BY DEF Sound, HashOK
  <2> HIDE DEF S, N
  <2>. QED
    BY <2>1, <2>2, <2>3
<1>3. New(d, b, k, detained)
      = [bundle |-> Extended(d.bundle, N, new), list |-> d.list,
         hash |-> Extended(d.hash, {k}, [obj |-> obj, count |-> count])]
  BY DEF New, Catalogue
<1>4. N \cap DOMAIN d.bundle = {} /\ 0 \notin N /\ N # {} /\ N \cap d.list["transit"] = {}
  OBVIOUS
<1>5. new \in Bundle /\ new.key = k /\ new.in = {} /\ ~new.overdue
  BY DEF NewBundle, Bundle
<1>6. obj = 0 \/ (S = {} /\ N = {obj})
  BY <1>1
<1> HIDE DEF N, new, obj, count
<1>7. Leads(d, New(d, b, k, detained), N, k, F) /\ Grown(d, New(d, b, k, detained), N)
  BY <1>2, <1>3, <1>4, <1>5, <1>6, Growth
<1>. QED
  BY <1>7 DEF N

LEMMA CloneLeads ==
    ASSUME NEW F, NEW d, Sound(d, F), NEW old \in DOMAIN d.bundle, NEW N, IsFiniteSet(N),
           N \cap DOMAIN d.bundle = {}, 0 \notin N, N \cap d.list["transit"] = {}
    PROVE  /\ Leads(d, Clone(d, old, N), N, d.bundle[old].key, F) /\ Grown(d, Clone(d, old, N), N)
           /\ Find(Clone(d, old, N), d.bundle[old].key) \in {0, Find(d, d.bundle[old].key)}
<1> DEFINE k == d.bundle[old].key
           new == [NewBundle(k, d.bundle[old].detained) EXCEPT !.suspended = d.bundle[old].suspended]
           e == Clone(d, old, N)
           count == d.hash[k].count + Cardinality(N)
<1>1. DbOK(d, F) /\ HashOK(d)
  BY DEF Sound
<1>2. k \in Key /\ new \in Bundle /\ new.key = k /\ new.in = {} /\ ~new.overdue
  BY <1>1 DEF DbOK, Bundle, NewBundle
<1>3. k \in DOMAIN d.hash /\ d.hash[k].count = Cardinality(OfKey(d, DOMAIN d.bundle, k))
  BY <1>1 DEF HashOK
<1>4. e = [bundle |-> Extended(d.bundle, N, new), list |-> d.list,
           hash |-> IF N = {} THEN d.hash ELSE Extended(d.hash, {k}, [obj |-> 0, count |-> count])]
  BY DEF Clone
<1> HIDE DEF e
<1>5. CASE N = {}
  <2>1. Extended(d.bundle, N, new) = d.bundle
    BY <1>1, <1>5 DEF Extended, DbOK
  <2>2. e = d
    BY <1>1, <1>4, <1>5, <2>1 DEF DbOK
  <2>. QED
    BY <1>5, <2>2 DEF Leads, Grown, e
<1>6. CASE N # {}
  <2>1. count = Cardinality(OfKey(d, DOMAIN d.bundle, k)) + Cardinality(N)
    BY <1>3
  <2>2. e = [bundle |-> Extended(d.bundle, N, new), list |-> d.list,
             hash |-> Extended(d.hash, {k}, [obj |-> 0, count |-> count])]
    BY <1>4, <1>6
  <2> HIDE DEF k, new, count
  <2>3. Leads(d, e, N, k, F) /\ Grown(d, e, N) /\ e.hash[k].obj = 0
    <3>1. \A obj, c : obj = 0 /\ c = count
             /\ e = [bundle |-> Extended(d.bundle, N, new), list |-> d.list,
                     hash |-> Extended(d.hash, {k}, [obj |-> obj, count |-> c])]
             => Leads(d, e, N, k, F) /\ Grown(d, e, N) /\ e.hash[k].obj = obj
      BY <1>2, <1>6, <2>1, Growth
    <3>. QED
      BY <2>2, <3>1
  <2>. QED
    BY <2>3 DEF Find, e, k
<1>. QED
  BY <1>5, <1>6

LEMMA LeadsTransitive ==
    ASSUME NEW F, NEW d, NEW e, NEW f, NEW N, NEW M, NEW k, Leads(d, e, N, k, F), Leads(e, f, M, k, F)
    PROVE  Leads(d, f, N \cup M, k, F)
BY DEF Leads

\* A bundle that is nowhere comes into transit.
LEMMA TransitLeads ==
    ASSUME NEW F, NEW d, Sound(d, F), NEW b \in DOMAIN d.bundle, d.bundle[b].in = {}, ~d.bundle[b].overdue
    PROVE  Leads(d, Put(d, {b}, "transit"), {b}, d.bundle[b].key, F)
<1> DEFINE to == [c \in {b} |-> "transit"]
           r == PutInto(d, {b}, to)
           e == Put(d, {b}, "transit")
<1>1. \A c \in DOMAIN d.bundle : Placed(d.bundle[c], F)
  BY DEF Sound, DbOK
<1>2. to \in [{b} -> Lists] /\ to[b] = "transit" /\ {b} \in SUBSET DOMAIN d.bundle
  BY DEF Lists
<1>3. e = PutEach(d, {b}, to)
  BY DEF Put
<1> HIDE DEF to, e
<1>a. PutEach(d, {b}, to) = Recast(d, r) /\ PutRow(d, r, {b}, to)
  BY <1>2, PutEachRecast, Zenon
<1> HIDE DEF r
<1>4. /\ e = Recast(d, r)
      /\ DOMAIN r = DOMAIN d.bundle /\ r = [c \in DOMAIN d.bundle |-> r[c]]
      /\ \A c \in DOMAIN d.bundle :
            /\ r[c] \in Bundle /\ r[c].key = d.bundle[c].key /\ r[c].overdue = d.bundle[c].overdue
            /\ r[c].in = IF c \in {b} THEN d.bundle[c].in \cup {to[c]} ELSE d.bundle[c].in
  BY <1>3, <1>a DEF PutRow
<1>5. \A c \in DOMAIN d.bundle : Placed(r[c], F)
  <2>1. r[b].in = {"transit"} /\ ~r[b].overdue
    BY <1>2, <1>4
  <2>2. \A c \in DOMAIN d.bundle \ {b} : /\ r[c].in = d.bundle[c].in /\ r[c].key = d.bundle[c].key
                                           /\ r[c].overdue = d.bundle[c].overdue
    BY <1>4
  <2>. QED
    BY <1>1, <2>1, <2>2 DEF Placed
<1>6. Sound(e, F)
  BY <1>4, <1>5, RecastSound
<1>b. e.list["transit"] \subseteq d.list["transit"] \cup {b}
  BY DEF Put, PutEach, Lists, e
<1>7. e.bundle = r /\ e.hash = d.hash
  BY <1>4 DEF Recast
<1>8. \A c \in DOMAIN e.bundle : IF c \in {b} THEN e.bundle[c].key = d.bundle[b].key
                                 ELSE /\ e.bundle[c].key = d.bundle[c].key
                                      /\ "transit" \in e.bundle[c].in => "transit" \in d.bundle[c].in
  BY <1>4, <1>7
<1>. QED
  BY <1>4, <1>6, <1>7, <1>8, <1>b DEF Leads, e

-----------------------------------------------------------------------------
(* What an adapter may report.                                              *)

\* No bundle of F that a report finds is in transit.
Carried(d, x, F) ==
    Find(d, x.key) \in DOMAIN d.bundle /\ x.key \in F
        => "transit" \notin d.bundle[Find(d, x.key)].in

LEMMA Found ==
    ASSUME NEW F, NEW d, Sound(d, F), NEW k, Find(d, k) # 0
    PROVE  /\ Find(d, k) \in DOMAIN d.bundle /\ d.bundle[Find(d, k)].key = k
           /\ k \in DOMAIN d.hash /\ d.hash[k].obj = Find(d, k)
<1>1. k \in DOMAIN d.hash /\ d.hash[k].obj = Find(d, k)
  BY DEF Find
<1>2. OfKey(d, DOMAIN d.bundle, k) = {Find(d, k)}
  BY <1>1 DEF Sound, HashOK
<1>. QED
  BY <1>1, <1>2 DEF OfKey

LEMMA FindQuiet ==
    ASSUME NEW F, NEW d, NEW e, Quiet(d, e, F), NEW k
    PROVE  Find(e, k) \in {0, Find(d, k)}
BY DEF Quiet, Find

LEMMA CarriedQuiet ==
    ASSUME NEW F, NEW d, Sound(d, F), NEW e, Quiet(d, e, F), NEW x, Carried(d, x, F)
    PROVE  Carried(e, x, F)
<1> DEFINE k == x.key
<1> SUFFICES ASSUME Find(e, k) \in DOMAIN e.bundle, k \in F
             PROVE  "transit" \notin e.bundle[Find(e, k)].in
  BY DEF Carried
<1>1. Sound(e, F) /\ Find(e, k) # 0
  BY DEF Quiet, Sound, DbOK
<1>2. k \in DOMAIN e.hash /\ e.hash[k].obj = Find(e, k)
  BY <1>1, Found
<1>3. Find(d, k) = Find(e, k)
  BY <1>2 DEF Quiet, Find
<1>4. Find(e, k) \in DOMAIN d.bundle
  BY DEF Quiet
<1>. QED
  BY <1>3, <1>4 DEF Quiet, Carried

\* New bundles come, of another key, or of one that leaves F or leads to none of them.
LEMMA CarriedLeads ==
    ASSUME NEW F, NEW d, Sound(d, F), NEW e, NEW N, NEW j, Leads(d, e, N, j, F),
           NEW x, Carried(d, x, F),
           N \cap DOMAIN d.bundle = {},
           x.key # j \/ j \notin F \/ Find(e, j) \in {0, Find(d, j)}
    PROVE  Carried(e, x, F)
<1> DEFINE k == x.key
<1> SUFFICES ASSUME Find(e, k) \in DOMAIN e.bundle, k \in F
             PROVE  "transit" \notin e.bundle[Find(e, k)].in
  BY DEF Carried
<1>1. Sound(e, F) /\ Find(e, k) # 0
  BY DEF Leads, Sound, DbOK
<1>2. k \in DOMAIN e.hash /\ e.hash[k].obj = Find(e, k)
  BY <1>1, Found
<1>3. Find(d, k) = Find(e, k)
  BY <1>1, <1>2 DEF Leads, Find
<1>4. Find(e, k) \in DOMAIN d.bundle
  BY <1>1, <1>3, Found
<1>. QED
  BY <1>3, <1>4 DEF Leads, Carried

-----------------------------------------------------------------------------
(* The invariant.                                                           *)

\* The keys that have come to the node once at most.
Once == Key \ Returned

HeldOK == DOMAIN held \subseteq 1..made /\ \A b \in DOMAIN held : held[b] \in BOOLEAN

\* The keys that are in the node, or at an adapter, were sent or have come in.
Known == \A k : k \in DOMAIN db.hash \/ (\E x \in xmit : x.key = k)
                => k \in sent \/ (k \in Key /\ acquired[k] > 0)

Inv ==
    /\ Sound(db, Once) /\ made \in 0..MaxBundles /\ Living \subseteq 1..made
    /\ db.list["transit"] \subseteq 1..made
    /\ blocked \subseteq Neighbor /\ sent \subseteq Local /\ HeldOK
    /\ acquired \in [Key -> Nat]
    /\ xmit \subseteq [key : Key, steward : 0..made]
    /\ \A x \in xmit : Carried(db, x, Once)
    /\ Known

LEMMA InitInv == Init => Inv
<1> SUFFICES ASSUME Init PROVE Inv
  OBVIOUS
<1>1. /\ db.bundle = <<>> /\ db.hash = <<>> /\ db.list = [q \in Lists |-> {}]
      /\ db = [bundle |-> db.bundle, list |-> db.list, hash |-> db.hash]
  BY DEF Init, Empty
<1>2. DOMAIN db.bundle = {} /\ DOMAIN db.hash = {} /\ db.bundle = [c \in DOMAIN db.bundle |-> db.bundle[c]]
  BY <1>1
<1>3. Sound(db, Once)
  <2>1. \A q \in Lists : {b \in DOMAIN db.bundle : q \in db.bundle[b].in} = {} /\ db.list[q] = {}
    BY <1>1, <1>2
  <2>2. db.list = Referring(db, db.bundle) /\ Dangling(db, Once)
    BY <1>1, <1>2, <2>1 DEF Referring, Dangling
  <2>. QED
    BY <1>1, <1>2, <2>2, FS_EmptySet DEF Sound, DbOK, HashOK
<1>4. held = <<>> /\ DOMAIN held = {} /\ xmit = {} /\ made = 0 /\ sent = {} /\ blocked = {}
      /\ acquired = [k \in Key |-> 0]
  BY DEF Init
<1>5. HeldOK /\ Known
  BY <1>2, <1>4 DEF HeldOK, Known
<1>6. db.list["transit"] = {}
  BY <1>1 DEF Lists
<1>. QED
  BY <1>2, <1>3, <1>4, <1>5, <1>6, BpAgentAssumption DEF Inv, Living

LEMMA QuietStep ==
    ASSUME Inv, Quiet(db, db', Once), made' = made, sent' = sent, acquired' = acquired,
           blocked' \subseteq Neighbor, HeldOK', xmit' \subseteq xmit
    PROVE  Inv'
<1>0. Once' = Once
  BY DEF Once, Returned
<1>1. /\ Sound(db', Once') /\ Living' \subseteq Living /\ DOMAIN db'.hash \subseteq DOMAIN db.hash
      /\ db'.list["transit"] \subseteq db.list["transit"]
  BY <1>0 DEF Quiet, Living
<1>2. \A x \in xmit' : Carried(db', x, Once')
  BY <1>0, CarriedQuiet DEF Inv
<1>3. Known'
  BY <1>1 DEF Inv, Known
<1>. QED
  BY <1>1, <1>2, <1>3 DEF Inv

LEMMA Listed ==
    ASSUME NEW F, NEW d, Sound(d, F), NEW q \in Lists \ {"transit"}
    PROVE  d.list[q] = {b \in DOMAIN d.bundle : q \in d.bundle[b].in}
BY DEF Sound, Referring, Dangling

LEMMA ListedMovable ==
    ASSUME NEW F, NEW d, Sound(d, F), NEW q \in Outward \cup {"dlv"}, NEW B \in SUBSET d.list[q]
    PROVE  /\ Movable(d, B, F) /\ B \in SUBSET DOMAIN d.bundle
           /\ \A b \in B : q \in d.bundle[b].in
<1>1. q \in Lists /\ q # "transit"
  BY ListsOutward
<1>2. \A b \in B : b \in DOMAIN d.bundle /\ q \in d.bundle[b].in
  BY <1>1, Listed
<1>3. \A b \in B : d.bundle[b].key \in F => "transit" \notin d.bundle[b].in
  BY <1>1, <1>2 DEF Sound, DbOK, Placed
<1>. QED
  BY <1>2, <1>3 DEF Movable

\* Taken from a queue, bundles are parked.
LEMMA Taken ==
    ASSUME NEW F, NEW d, Sound(d, F), NEW q \in Outward, NEW B \in SUBSET d.list[q]
    PROVE  /\ Quiet(d, Drop(d, B, {q}), F) /\ Parked(Drop(d, B, {q}), B, F)
           /\ Sound(Drop(d, B, {q}), F) /\ Movable(Drop(d, B, {q}), B, F)
<1>1. B \in SUBSET DOMAIN d.bundle /\ \A b \in B : q \in d.bundle[b].in
  BY ListedMovable
<1>2. {q} \in SUBSET Outward /\ \A b \in B : d.bundle[b].in \cap {q} # {}
  BY <1>1
<1>3. Quiet(d, Drop(d, B, {q}), F) /\ Parked(Drop(d, B, {q}), B, F)
  BY <1>1, <1>2, DropParks
<1>. QED
  BY <1>3 DEF Quiet, Parked

-----------------------------------------------------------------------------
(* The applications.                                                        *)

LEMMA SuspendQuiet ==
    ASSUME Inv, NEW b, Suspend(b)
    PROVE  Quiet(db, db', Once)
<1>1. Sound(db, Once) /\ b \in DOMAIN db.bundle
  BY DEF Inv, Suspend, Tracked, Living
<1>2. CASE db.bundle[b].in \cap Neighbor # {}
  <2>1. {b} \in SUBSET DOMAIN db.bundle /\ \A c \in {b} : db.bundle[c].in \cap Neighbor # {}
    BY <1>1, <1>2
  <2>2. Quiet(db, ReverseEnqueue(db, {b}, TRUE), Once)
    BY <1>1, <2>1, ReverseEnqueueQuiet
  <2>. QED
    BY <1>2, <2>2 DEF Suspend
<1>3. CASE db.bundle[b].in \cap Neighbor = {}
  <2>1. Quiet(db, [db EXCEPT !.bundle[b].suspended = TRUE], Once)
    BY <1>1, SuspendedQuiet, Zenon
  <2>2. db' = [db EXCEPT !.bundle[b].suspended = TRUE]
    BY <1>3, Zenon DEF Suspend
  <2>. QED
    BY <2>1, <2>2, Zenon
<1>. QED
  BY <1>2, <1>3

LEMMA ReceiveQuiet ==
    ASSUME Inv, NEW b, Receive(b)
    PROVE  Quiet(db, db', Once)
<1> DEFINE d == Drop(db, {b}, {"dlv"})
<1>1. Sound(db, Once) /\ b \in db.list["dlv"]
  BY DEF Inv, Receive
<1>2. Movable(db, {b}, Once) /\ {b} \in SUBSET DOMAIN db.bundle
  BY <1>1, ListedMovable
<1>3. Quiet(db, d, Once) /\ Dropped(db, d, {b}, {"dlv"})
  BY <1>1, <1>2, DropQuiet, Zenon
<1>4. Sound(d, Once) /\ Movable(d, {b}, Once)
  BY <1>2, <1>3, MovableStays DEF Quiet, Dropped
<1>5. Quiet(d, Destroy(d, {b}, FALSE), Once)
  BY <1>4, DestroyQuiet DEF Movable
<1>. QED
  BY <1>3, <1>5, QuietTransitive DEF Receive

LEMMA ApplicationQuiet ==
    ASSUME Inv, NEW b, Suspend(b) \/ Cancel(b) \/ Release(b) \/ Receive(b)
    PROVE  Inv'
<1>1. Quiet(db, db', Once)
  <2>1. CASE Cancel(b)
    <3>1. Sound(db, Once) /\ {b} \in SUBSET DOMAIN db.bundle
      BY <2>1 DEF Inv, Cancel, Tracked, Living
    <3>2. Quiet(db, Destroy(db, {b}, TRUE), Once)
      BY <3>1, DestroyQuiet
    <3>. QED
      BY <2>1, <3>2 DEF Cancel
  <2>2. CASE Release(b)
    BY <2>2, UndetainedQuiet DEF Inv, Release
  <2>. QED
    BY <2>1, <2>2, SuspendQuiet, ReceiveQuiet
<1>2. HeldOK'
  <2>1. CASE Suspend(b)
    <3>1. /\ DOMAIN held' = DOMAIN held /\ made' = made
          /\ \A c \in DOMAIN held : held'[c] \in {held[c], db.bundle[b].in \cap PlanXmit # {}}
      BY <2>1 DEF Suspend
    <3>. QED
      BY <3>1 DEF Inv, HeldOK
  <2>2. CASE ~Suspend(b)
    BY <2>2 DEF Inv, HeldOK, Cancel, Release, Receive
  <2>. QED
    BY <2>1, <2>2
<1>3. /\ made' = made /\ sent' = sent /\ acquired' = acquired /\ xmit' = xmit
      /\ blocked' = blocked /\ blocked \subseteq Neighbor
  BY DEF Inv, Suspend, Cancel, Release, Receive
<1>. QED
  BY <1>1, <1>2, <1>3, QuietStep

-----------------------------------------------------------------------------
(* The tasks that move bundles.                                             *)

LEMMA TransitQuiet ==
    ASSUME Inv, NEW b, Transit(b)
    PROVE  Quiet(db, db', Once)
<1> DEFINE d == Drop(db, {b}, {"transit"})
<1>1. Sound(db, Once) /\ b \in DOMAIN db.bundle /\ {b} \in SUBSET DOMAIN db.bundle
  BY DEF Inv, Transit, Living
<1>2. Quiet(db, d, Once) /\ Dropped(db, d, {b}, {"transit"})
  BY <1>1, DropQuiet, Zenon
<1>3. Sound(d, Once) /\ Movable(d, {b}, Once)
  BY <1>1, <1>2 DEF Quiet, Dropped, Movable
<1>4. Quiet(d, Forward(d, {b}), Once)
  BY <1>3, ForwardQuiet
<1>. QED
  BY <1>2, <1>4, QuietTransitive DEF Transit

\* Only the bundles that are routed again change.
LEMMA DropElsewhere ==
    ASSUME NEW d, NEW B, NEW queues, NEW b \in DOMAIN d.bundle \ B
    PROVE  Drop(d, B, queues).bundle[b] = d.bundle[b] /\ DOMAIN Drop(d, B, queues).bundle = DOMAIN d.bundle
BY DEF Drop

LEMMA ReforwardElsewhere ==
    ASSUME NEW d, NEW B, NEW b \in DOMAIN d.bundle \ B
    PROVE  Reforward(d, B).bundle[b] = d.bundle[b] /\ DOMAIN Reforward(d, B).bundle = DOMAIN d.bundle
<1> DEFINE R == Ordinary(d, B)
           e == Drop(d, R, Outward)
           f == OnTime(e, R)
<1>1. b \in DOMAIN d.bundle \ R
  BY DEF Ordinary
<1>2. e.bundle[b] = d.bundle[b] /\ DOMAIN e.bundle = DOMAIN d.bundle
  BY <1>1, DropElsewhere
<1> HIDE DEF e
<1>3. f.bundle[b] = e.bundle[b] /\ DOMAIN f.bundle = DOMAIN e.bundle
  BY <1>1, <1>2 DEF OnTime
<1> HIDE DEF f
<1>4. Forward(f, R).bundle[b] = f.bundle[b] /\ DOMAIN Forward(f, R).bundle = DOMAIN f.bundle
  BY <1>1, <1>2, <1>3 DEF Forward, Put, PutEach
<1>. QED
  BY <1>2, <1>3, <1>4 DEF Reforward, e, f

\* Those that are bumped leave the queue of the plan; the one that is routed waits.
LEMMA BumpedQuiet ==
    ASSUME NEW F, NEW d, Sound(d, F), NEW b, Parked(d, {b}, F), NEW n \in Neighbor,
           NEW B \in SUBSET d.list[n]
    PROVE  Quiet(d, Bumped(d, n, B), F) /\ Parked(Bumped(d, n, B), {b}, F)
<1> DEFINE c == Drop(d, B, {n})
           e == Reforward(c, B)
<1>1. n \in Outward /\ n \in Outward \cup {"dlv"}
  BY ListsOutward
<1>2. Quiet(d, c, F) /\ Sound(c, F) /\ Movable(c, B, F)
  BY <1>1, Taken
<1>3. b \in DOMAIN d.bundle \ B
  <2>1. \A a \in B : n \in d.bundle[a].in
    BY <1>1, ListedMovable
  <2>. QED
    BY <1>1, <2>1 DEF Parked, Movable
<1>4. e.bundle[b] = d.bundle[b] /\ b \in DOMAIN e.bundle
  <2>1. c.bundle[b] = d.bundle[b] /\ DOMAIN c.bundle = DOMAIN d.bundle
    BY <1>3, DropElsewhere
  <2> HIDE DEF c
  <2>2. b \in DOMAIN c.bundle \ B
    BY <1>3, <2>1
  <2>3. e.bundle[b] = c.bundle[b] /\ DOMAIN e.bundle = DOMAIN c.bundle
    BY <2>2, ReforwardElsewhere
  <2>. QED
    BY <1>3, <2>1, <2>3
<1> HIDE DEF c
<1>5. Quiet(c, e, F)
  BY <1>2, ReforwardQuiet
<1>6. Quiet(d, e, F)
  BY <1>2, <1>5, QuietTransitive
<1> HIDE DEF e
<1>7. Parked(e, {b}, F)
  BY <1>4 DEF Parked, Movable
<1>. QED
  BY <1>6, <1>7 DEF Bumped, c, e

LEMMA ParkedPut ==
    ASSUME NEW F, NEW d, Sound(d, F), NEW b, Parked(d, {b}, F), NEW q \in Lists \ {"transit"}
    PROVE  Quiet(d, Put(d, {b}, q), F) /\ Added(d, Put(d, {b}, q), {b}, q)
<1>1. /\ Sound(d, F) /\ {b} \in SUBSET DOMAIN d.bundle
      /\ \A c \in {b} : /\ d.bundle[c].key \in F => "transit" \notin d.bundle[c].in
                        /\ q \in Outward => d.bundle[c].in \cap Outward = {}
  BY DEF Parked, Movable
<1> DEFINE B == {b}
<1> HIDE DEF B
<1>2. /\ B \in SUBSET DOMAIN d.bundle
      /\ \A c \in B : /\ d.bundle[c].key \in F => "transit" \notin d.bundle[c].in
                      /\ q \in Outward => d.bundle[c].in \cap Outward = {}
  BY <1>1 DEF B
<1>3. Quiet(d, Put(d, B, q), F) /\ Added(d, Put(d, B, q), B, q)
  BY <1>2, PutQuiet
<1>. QED
  BY <1>3 DEF B

LEMMA RoutedQuiet ==
    ASSUME NEW F, NEW d, Sound(d, F), NEW b, Parked(d, {b}, F), NEW n \in Neighbor
    PROVE  Quiet(d, Routed(d, b, n), F) /\ DOMAIN Routed(d, b, n).bundle = DOMAIN d.bundle
<1> DEFINE e == Put(d, {b}, n)
<1>1. n \in Lists \ {"transit"}
  BY ListsOutward
<1>2. Quiet(d, e, F) /\ Added(d, e, {b}, n)
  BY <1>1, ParkedPut, Zenon
<1>3. b \in DOMAIN e.bundle /\ (e.bundle[b].key \in F => "transit" \notin e.bundle[b].in)
  BY <1>1, <1>2 DEF Added, Parked, Movable, Quiet
<1>4. Sound(e, F)
  BY <1>2 DEF Quiet
<1> HIDE DEF e
<1>5. /\ Quiet(e, [e EXCEPT !.bundle[b].overdue = TRUE], F)
      /\ DOMAIN [e EXCEPT !.bundle[b].overdue = TRUE].bundle = DOMAIN e.bundle
  BY <1>3, <1>4, OverdueQuiet, Zenon
<1>7. Quiet(d, [e EXCEPT !.bundle[b].overdue = TRUE], F)
  BY <1>2, <1>5, QuietTransitive, Zenon
<1>8. Routed(d, b, n) = [e EXCEPT !.bundle[b].overdue = TRUE]
  BY Zenon DEF Routed, e
<1>9. DOMAIN e.bundle = DOMAIN d.bundle
  BY <1>2 DEF Added
<1>. QED
  BY <1>5, <1>7, <1>8, <1>9, Zenon

LEMMA UnroutedQuiet ==
    ASSUME NEW F, NEW d, Sound(d, F), NEW b, Parked(d, {b}, F), NEW e \in Unrouted(d, b)
    PROVE  Quiet(d, e, F)
<1>1. \A n \in Neighbor : Quiet(d, Put(d, {b}, n), F)
  BY ParkedPut, ListsOutward
<1>2. Quiet(d, Forward(d, {b}), F) /\ Quiet(d, ToLimbo(d, {b}), F) /\ Quiet(d, Destroy(d, {b}, FALSE), F)
  BY ForwardQuiet, ToLimboQuiet, DestroyQuiet DEF Parked, Movable
<1>. QED
  BY <1>1, <1>2 DEF Unrouted

\* The clone that goes to limbo.
LEMMA LimboCloneLeads ==
    ASSUME NEW F, NEW d, Sound(d, F), NEW b \in DOMAIN d.bundle, NEW new, new \notin DOMAIN d.bundle,
           new # 0, new \notin d.list["transit"], NEW e, e = ToLimbo(Clone(d, b, {new}), {new})
    PROVE  /\ Leads(d, e, {new}, d.bundle[b].key, F)
           /\ Find(e, d.bundle[b].key) \in {0, Find(d, d.bundle[b].key)}
<1> DEFINE N == {new}
           f == Clone(d, b, N)
           k == d.bundle[b].key
<1>1. IsFiniteSet(N) /\ N \cap DOMAIN d.bundle = {} /\ 0 \notin N /\ N \cap d.list["transit"] = {}
  BY FS_Singleton
<1> HIDE DEF N
<1>2. Leads(d, f, N, k, F) /\ Grown(d, f, N) /\ Find(f, k) \in {0, Find(d, k)}
  BY <1>1, CloneLeads, Zenon
<1>3. Sound(f, F) /\ Parked(f, N, F)
  BY <1>2 DEF Leads, Grown, Parked, Movable
<1>4. Quiet(f, ToLimbo(f, N), F)
  BY <1>3, ToLimboQuiet
<1>5. Leads(d, ToLimbo(f, N), N, k, F)
  BY <1>2, <1>4, LeadsOn
<1>6. Find(ToLimbo(f, N), k) \in {0, Find(f, k)}
  BY <1>4, FindQuiet
<1>. QED
  BY <1>2, <1>5, <1>6 DEF N

\* A bundle that ipnfw takes is parked while it bumps others from the plan.
LEMMA RoutedFrom ==
    ASSUME Inv, NEW b, ForwardOrdinary(b)
    PROVE  \/ Quiet(db, db', Once) /\ made' = made
           \/ \E d : /\ Quiet(db, d, Once) /\ b \in DOMAIN d.bundle
                     /\ made < MaxBundles /\ made' = made + 1
                     /\ db' = ToLimbo(Clone(d, b, {made + 1}), {made + 1})
<1> DEFINE d == Drop(db, {b}, {"fwd"})
<1>1. Sound(db, Once) /\ {b} \in SUBSET db.list["fwd"]
  BY DEF Inv, ForwardOrdinary
<1>2. Quiet(db, d, Once) /\ Parked(d, {b}, Once) /\ Sound(d, Once)
  BY <1>1, Taken, ListsOutward
<1>3. \/ db' \in Unrouted(d, b) /\ made' = made
      \/ \E n \in Neighbor : \E B \in SUBSET d.list[n] :
            LET e == Bumped(d, n, B)
                routed == Routed(e, b, n)
            IN  \/ db' \in Unrouted(e, b) \cup {routed} /\ made' = made
                \/ /\ made < MaxBundles /\ made' = made + 1
                   /\ db' = ToLimbo(Clone(routed, b, {made + 1}), {made + 1})
  BY Zenon DEF ForwardOrdinary
<1> HIDE DEF d
<1>4. CASE db' \in Unrouted(d, b) /\ made' = made
  BY <1>2, <1>4, UnroutedQuiet, QuietTransitive
<1>5. ASSUME NEW n \in Neighbor, NEW B \in SUBSET d.list[n], NEW e, e = Bumped(d, n, B),
             NEW routed, routed = Routed(e, b, n)
      PROVE  /\ db' \in Unrouted(e, b) \cup {routed} => Quiet(db, db', Once)
             /\ Quiet(db, routed, Once) /\ b \in DOMAIN routed.bundle
  <2>1. Quiet(d, e, Once) /\ Parked(e, {b}, Once)
    BY <1>2, <1>5, BumpedQuiet
  <2>2. Sound(e, Once) /\ Quiet(db, e, Once) /\ b \in DOMAIN e.bundle
    BY <1>2, <2>1, QuietTransitive DEF Quiet, Parked, Movable
  <2>3. Quiet(e, routed, Once) /\ DOMAIN routed.bundle = DOMAIN e.bundle
    BY <1>5, <2>1, <2>2, RoutedQuiet
  <2>4. db' \in Unrouted(e, b) => Quiet(e, db', Once)
    BY <2>1, <2>2, UnroutedQuiet
  <2>. QED
    BY <2>2, <2>3, <2>4, QuietTransitive
<1>. QED
  BY <1>3, <1>4, <1>5

LEMMA AllocateQuiet ==
    ASSUME Inv, NEW b, NEW n \in Neighbor, Allocate(b, n)
    PROVE  Quiet(db, db', Once)
<1> DEFINE d == Drop(db, {b}, {n})
<1>1. Sound(db, Once) /\ {b} \in SUBSET db.list[n] /\ n \in Outward
  BY ListsOutward DEF Inv, Allocate
<1>2. Quiet(db, d, Once) /\ Parked(d, {b}, Once) /\ Sound(d, Once) /\ Movable(d, {b}, Once)
  BY <1>1, Taken
<1> HIDE DEF d
<1>3. Quiet(d, Put(d, {b}, "duct"), Once)
  <2>1. "duct" \in Lists \ {"transit"}
    BY ListsOutward
  <2>. QED
    BY <1>2, <2>1, ParkedPut, Zenon
<1>4. Quiet(d, ToLimbo(d, {b}), Once) /\ Quiet(d, Reforward(d, {b}), Once)
  BY <1>2, ToLimboQuiet, ReforwardQuiet
<1>5. db' \in {Put(d, {b}, "duct"), ToLimbo(d, {b}), Reforward(d, {b})}
  BY DEF Allocate, d
<1>. QED
  BY <1>2, <1>3, <1>4, <1>5, QuietTransitive

LEMMA ReportQuiet ==
    ASSUME Inv, NEW x, Success(x) \/ Failure(x)
    PROVE  Quiet(db, db', Once)
<1> DEFINE b == Find(db, x.key)
<1>1. Sound(db, Once) /\ x \in xmit /\ Carried(db, x, Once)
  BY DEF Inv, Success, Failure
<1>2. ASSUME b # 0
      PROVE  Movable(db, {b}, Once) /\ {b} \in SUBSET DOMAIN db.bundle
  BY <1>1, <1>2, Found DEF Carried, Movable
<1>3. ASSUME b # 0
      PROVE  Quiet(db, Destroy(db, {b}, FALSE), Once) /\ Quiet(db, Reforward(db, {b}), Once)
  BY <1>1, <1>2, <1>3, DestroyQuiet, ReforwardQuiet
<1>4. \/ db' = db
      \/ b # 0 /\ db' \in {Destroy(db, {b}, FALSE), Reforward(db, {b})}
  BY DEF Success, Failure
<1>. QED
  BY <1>1, <1>3, <1>4, QuietStutter

LEMMA DaemonQuiet ==
    ASSUME Inv, \/ \E b : Transit(b)
                \/ \E b : \E n \in Neighbor : Allocate(b, n)
                \/ \E x \in xmit : Success(x) \/ Failure(x)
    PROVE  Inv'
<1>1. Quiet(db, db', Once)
  BY TransitQuiet, AllocateQuiet, ReportQuiet
<1>2. /\ made' = made /\ sent' = sent /\ acquired' = acquired /\ xmit' \subseteq xmit
      /\ blocked' = blocked /\ blocked \subseteq Neighbor /\ held' = held
  BY DEF Inv, Transit, Allocate, Success, Failure
<1>3. HeldOK'
  BY <1>2 DEF Inv, HeldOK
<1>. QED
  BY <1>1, <1>2, <1>3, QuietStep

-----------------------------------------------------------------------------
(* bpclock and the management.                                              *)

LEMMA ClockQuiet ==
    ASSUME Inv, FlushLimbo \/ \E b : Expire(b) \/ Overdue(b)
    PROVE  Quiet(db, db', Once)
<1>1. Sound(db, Once)
  BY DEF Inv
<1>2. ASSUME FlushLimbo PROVE Quiet(db, db', Once)
  <2>1. Movable(db, db.list["limbo"], Once)
    BY <1>1, ListedMovable, ListsOutward
  <2>. QED
    BY <1>1, <1>2, <2>1, ReleaseFromLimboQuiet DEF FlushLimbo
<1>3. ASSUME NEW b, Expire(b) PROVE Quiet(db, db', Once)
  BY <1>1, <1>3, DestroyQuiet DEF Expire, Living
<1>4. ASSUME NEW b, Overdue(b) PROVE Quiet(db, db', Once)
  <2>1. Movable(db, {b}, Once)
    BY <1>1, <1>4 DEF Overdue, Living, Movable, Sound, DbOK, Placed
  <2>. QED
    BY <1>1, <1>4, <2>1, ReforwardQuiet DEF Overdue
<1>. QED
  BY <1>2, <1>3, <1>4

LEMMA ManagementQuiet ==
    ASSUME Inv, RemoveOutduct \/ \E n \in Neighbor : BlockPlan(n) \/ UnblockPlan(n)
    PROVE  Quiet(db, db', Once)
<1>1. Sound(db, Once)
  BY DEF Inv
<1>2. ASSUME NEW n \in Neighbor, BlockPlan(n) PROVE Quiet(db, db', Once)
  <2> DEFINE B == db.list[n]
  <2>1. B \in SUBSET DOMAIN db.bundle /\ \A b \in B : db.bundle[b].in \cap Neighbor # {}
    <3>1. n \in Outward \cup {"dlv"} /\ B \in SUBSET db.list[n]
      BY ListsOutward
    <3> HIDE DEF B
    <3>2. B \in SUBSET DOMAIN db.bundle /\ \A b \in B : n \in db.bundle[b].in
      BY <1>1, <3>1, ListedMovable, Zenon
    <3>. QED
      BY <3>2
  <2>. QED
    BY <1>1, <1>2, <2>1, ReverseEnqueueQuiet DEF BlockPlan
<1>3. ASSUME NEW n \in Neighbor, UnblockPlan(n) PROVE Quiet(db, db', Once)
  <2>1. Movable(db, db.list["limbo"], Once)
    BY <1>1, ListedMovable, ListsOutward
  <2>. QED
    BY <1>1, <1>3, <2>1, ReleaseFromLimboQuiet DEF UnblockPlan
<1>4. ASSUME RemoveOutduct PROVE Quiet(db, db', Once)
  <2>1. PICK again \in SUBSET db.list["duct"] :
           db' = Destroy(Reforward(db, again), db.list["duct"] \ again, TRUE)
    BY <1>4 DEF RemoveOutduct
  <2> DEFINE d == Reforward(db, again)
             B == db.list["duct"] \ again
  <2>2. Movable(db, again, Once) /\ B \in SUBSET DOMAIN db.bundle
    <3>1. "duct" \in Outward \cup {"dlv"} /\ B \in SUBSET db.list["duct"]
      BY ListsOutward
    <3> HIDE DEF B
    <3>. QED
      BY <1>1, <3>1, ListedMovable
  <2>3. Quiet(db, d, Once) /\ DOMAIN d.bundle = DOMAIN db.bundle
    <3>1. DOMAIN d.bundle = DOMAIN db.bundle
      BY DEF Reforward, Forward, Put, PutEach, OnTime, Drop
    <3>. QED
      BY <1>1, <2>2, <3>1, ReforwardQuiet
  <2>a. Sound(d, Once) /\ B \in SUBSET DOMAIN d.bundle
    BY <2>2, <2>3 DEF Quiet
  <2> HIDE DEF d, B
  <2>4. Quiet(d, Destroy(d, B, TRUE), Once)
    BY <2>a, DestroyQuiet
  <2>. QED
    BY <2>1, <2>3, <2>4, QuietTransitive DEF d, B
<1>. QED
  BY <1>2, <1>3, <1>4

LEMMA OthersQuiet ==
    ASSUME Inv, Clock \/ Management
    PROVE  Inv'
<1>1. Quiet(db, db', Once)
  BY ClockQuiet, ManagementQuiet DEF Clock, Management
<1>2. /\ made' = made /\ sent' = sent /\ acquired' = acquired /\ xmit' = xmit
      /\ blocked' \subseteq Neighbor /\ held' = held
  BY DEF Inv, Clock, Management, FlushLimbo, Expire, Overdue, RemoveOutduct, BlockPlan, UnblockPlan
<1>3. HeldOK'
  BY <1>2 DEF Inv, HeldOK
<1>. QED
  BY <1>1, <1>2, <1>3, QuietStep

-----------------------------------------------------------------------------
(* The adapters take bundles.                                               *)

LEMMA DequeueInv ==
    ASSUME Inv, NEW b, Dequeue(b)
    PROVE  Inv'
<1> DEFINE d0 == Drop(db, {b}, {"duct"})
           d == OnTime(d0, {b})
           k == d.bundle[b].key
           x(reliable) == [key |-> k, steward |-> IF Accept(d, b, reliable) THEN b ELSE 0]
<1>1. Sound(db, Once) /\ {b} \in SUBSET db.list["duct"] /\ b \in Living
  BY Listed, ListsOutward DEF Inv, Dequeue, Living
<1>2. Quiet(db, d0, Once) /\ Movable(d0, {b}, Once) /\ Sound(d0, Once)
  BY <1>1, Taken, ListsOutward
<1>3. Quiet(d0, d, Once) /\ Marked(d0, d)
  BY <1>2, OnTimeQuiet
<1>4. Quiet(db, d, Once) /\ Movable(d, {b}, Once) /\ Sound(d, Once)
  BY <1>2, <1>3, QuietTransitive, MovableStays DEF Marked, Quiet
<1>5. \/ \E reliable \in BOOLEAN :
           /\ xmit' = xmit \cup {x(reliable)}
           /\ db' = IF Accept(d, b, reliable) THEN d ELSE Destroy(d, {b}, FALSE)
      \/ db' = Destroy(d, {b}, TRUE) /\ xmit' = xmit
  BY DEF Dequeue
<1> HIDE DEF d
<1>6. /\ b \in DOMAIN d.bundle /\ k = db.bundle[b].key /\ k \in Key
      /\ d.bundle[b].key = k /\ (k \in Once => "transit" \notin d.bundle[b].in)
  BY <1>4 DEF Movable, Quiet, Sound, DbOK, Bundle
<1>7. Quiet(d, d, Once) /\ Quiet(d, Destroy(d, {b}, TRUE), Once) /\ Quiet(d, Destroy(d, {b}, FALSE), Once)
  BY <1>4, <1>6, QuietStutter, DestroyQuiet
<1>8. Quiet(d, db', Once) /\ Quiet(db, db', Once)
  BY <1>4, <1>5, <1>7, QuietTransitive
<1>9. ASSUME NEW reliable \in BOOLEAN
      PROVE  Carried(d, x(reliable), Once) /\ x(reliable) \in [key : Key, steward : 0..made]
  <2> DEFINE y == x(reliable)
  <2>1. /\ y.key = k /\ (y.steward = 0 \/ (y.steward = b /\ Accept(d, b, reliable)))
        /\ y = [key |-> y.key, steward |-> y.steward]
    OBVIOUS
  <2> HIDE DEF y
  <2>3. ASSUME Find(d, k) \in DOMAIN d.bundle, k \in Once
        PROVE  "transit" \notin d.bundle[Find(d, k)].in
    <3>1. Find(d, k) # 0
      BY <1>4, <2>3 DEF Sound, DbOK
    <3>2. OfKey(d, DOMAIN d.bundle, k) = {Find(d, k)}
      BY <1>4, <3>1, Found DEF Sound, HashOK
    <3>3. b \in OfKey(d, DOMAIN d.bundle, k)
      BY <1>6 DEF OfKey
    <3>. QED
      BY <1>6, <2>3, <3>2, <3>3
  <2>4. y.steward \in 0..made
    BY <1>1, <2>1 DEF Inv
  <2>5. Carried(d, y, Once)
    BY <2>1, <2>3 DEF Carried
  <2>6. y \in [key : Key, steward : 0..made]
    BY <1>6, <2>1, <2>4
  <2>. QED
    BY <2>5, <2>6 DEF y
<1>10. \A y \in xmit' : Carried(db', y, Once) /\ y \in [key : Key, steward : 0..made]
                        /\ (y \in xmit \/ y.key = k)
  <2>1. ASSUME NEW y \in xmit PROVE Carried(db', y, Once) /\ y \in [key : Key, steward : 0..made]
    BY <1>1, <1>8, CarriedQuiet DEF Inv
  <2>2. ASSUME NEW reliable \in BOOLEAN
        PROVE  /\ Carried(db', x(reliable), Once) /\ x(reliable) \in [key : Key, steward : 0..made]
               /\ x(reliable).key = k
    <3>1. x(reliable).key = k
      OBVIOUS
    <3> HIDE DEF x
    <3>. QED
      BY <1>4, <1>8, <1>9, <3>1, CarriedQuiet
  <2> HIDE DEF x
  <2>. QED
    BY <1>5, <2>1, <2>2
<1>11. /\ made' = made /\ sent' = sent /\ acquired' = acquired /\ blocked' = blocked
       /\ held' = held
  BY DEF Dequeue
<1>12. Known'
  <2>1. k \in DOMAIN db.hash /\ DOMAIN db'.hash \subseteq DOMAIN db.hash
    BY <1>1, <1>6, <1>8 DEF Quiet, Sound, HashOK, Living
  <2>. QED
    BY <1>10, <1>11, <2>1 DEF Inv, Known
<1>13. /\ Sound(db', Once) /\ Living' \subseteq Living /\ Once' = Once
       /\ db'.list["transit"] \subseteq 1..made
  BY <1>8, <1>11 DEF Quiet, Living, Inv, Once, Returned
<1>14. HeldOK'
  BY <1>11 DEF Inv, HeldOK
<1>15. xmit' \subseteq [key : Key, steward : 0..made']
  BY <1>10, <1>11
<1>. QED
  BY <1>10, <1>11, <1>12, <1>13, <1>14, <1>15 DEF Inv

-----------------------------------------------------------------------------
(* Bundles come.                                                            *)

LEMMA LeadsStep ==
    ASSUME Inv, made' \in made..MaxBundles, NEW k,
           Leads(db, db', (made + 1)..made', k, Once'),
           (\A x \in xmit : x.key # k) \/ k \notin Once' \/ Find(db', k) \in {0, Find(db, k)},
           xmit' = xmit, blocked' = blocked, HeldOK', sent \subseteq sent', sent' \subseteq Local,
           acquired' \in [Key -> Nat],
           \A j \in Key : acquired'[j] >= acquired[j], Once' \subseteq Once,
           k \in sent' \/ (k \in Key /\ acquired'[k] > 0)
    PROVE  Inv'
<1> DEFINE N == (made + 1)..made'
<1>1. made \in Nat /\ made' \in Nat /\ MaxBundles \in Nat /\ made \in 0..made'
  BY BpAgentAssumption DEF Inv
<1>2. N \cap Living = {} /\ N \cap 0..made = {}
  BY <1>1 DEF Inv
<1>3. Living' \subseteq 1..made' /\ made' \in 0..MaxBundles
  <2>1. Living' \subseteq 1..made \cup N
    BY DEF Inv, Leads, Living
  <2>. QED
    BY <1>1, <2>1
<1>4. ASSUME NEW x \in xmit PROVE Carried(db', x, Once') /\ x \in [key : Key, steward : 0..made']
  <2>1. x \in [key : Key, steward : 0..made] /\ Sound(db, Once') /\ Carried(db, x, Once')
    BY Fewer DEF Inv, Carried
  <2>2. x \in [key : Key, steward : 0..made']
    BY <1>1, <2>1
  <2> HIDE DEF N
  <2>3. Carried(db', x, Once')
    BY <1>2, <2>1, CarriedLeads DEF Inv, Living, N
  <2>. QED
    BY <2>2, <2>3
<1>5. Known'
  <2>1. \A j \in DOMAIN db'.hash : j = k \/ j \in DOMAIN db.hash
    BY DEF Leads
  <2>2. ASSUME NEW j, j \in sent \/ (j \in Key /\ acquired[j] > 0)
        PROVE  j \in sent' \/ (j \in Key /\ acquired'[j] > 0)
    BY <2>2 DEF Inv
  <2>. QED
    BY <2>1, <2>2 DEF Inv, Known
<1>6. db'.list["transit"] \subseteq 1..made'
  <2>1. db'.list["transit"] \subseteq 1..made \cup N
    BY DEF Inv, Leads
  <2>. QED
    BY <1>1, <2>1
<1>. QED
  BY <1>3, <1>4, <1>5, <1>6 DEF Inv, Leads

\* A key that comes again leaves the set.
LEMMA OnceShrinks ==
    ASSUME Inv, sent \subseteq sent', acquired' \in [Key -> Nat],
           \A j \in Key : acquired'[j] >= acquired[j]
    PROVE  Once' \subseteq Once
<1> SUFFICES ASSUME NEW k \in Returned PROVE k \in Returned'
  BY DEF Once
<1>1. k \in Key /\ acquired[k] \in Nat /\ acquired'[k] \in Nat /\ acquired'[k] >= acquired[k]
  BY DEF Inv, Returned
<1>. QED
  BY <1>1 DEF Returned

LEMMA ForwardOrdinaryInv ==
    ASSUME Inv, NEW b, ForwardOrdinary(b)
    PROVE  Inv'
<1>1. /\ blocked' = blocked /\ acquired' = acquired /\ sent' = sent /\ held' = held /\ xmit' = xmit
      /\ Once' = Once /\ made \in Nat /\ MaxBundles \in Nat
  BY BpAgentAssumption DEF Inv, ForwardOrdinary, Once, Returned
<1>2. CASE Quiet(db, db', Once) /\ made' = made
  <2>1. HeldOK' /\ blocked' \subseteq Neighbor /\ xmit' \subseteq xmit
    BY <1>1, <1>2 DEF Inv, HeldOK
  <2>. QED
    BY <1>1, <1>2, <2>1, QuietStep
<1>3. CASE \E d : /\ Quiet(db, d, Once) /\ b \in DOMAIN d.bundle
                  /\ made < MaxBundles /\ made' = made + 1
                  /\ db' = ToLimbo(Clone(d, b, {made + 1}), {made + 1})
  <2>1. PICK d : /\ Quiet(db, d, Once) /\ b \in DOMAIN d.bundle
                 /\ made < MaxBundles /\ made' = made + 1
                 /\ db' = ToLimbo(Clone(d, b, {made + 1}), {made + 1})
    BY <1>3
  <2> DEFINE new == made + 1
             k == d.bundle[b].key
  <2>2. new \notin 1..made /\ new # 0 /\ {new} = (made + 1)..made' /\ made' \in made..MaxBundles
        /\ made' \in Nat /\ made <= made'
    BY <1>1, <2>1
  <2>3. Sound(d, Once) /\ new \notin DOMAIN db.bundle /\ new \notin DOMAIN d.bundle
        /\ new \notin d.list["transit"] /\ k \in DOMAIN db.hash
    BY <2>1, <2>2 DEF Inv, Living, Quiet, Sound, HashOK
  <2> HIDE DEF new, k
  <2>4. Leads(d, db', {new}, k, Once) /\ Find(db', k) \in {0, Find(d, k)}
    BY <2>1, <2>2, <2>3, LimboCloneLeads, Zenon DEF k, new
  <2>5. Leads(db, db', {new}, k, Once)
    BY <2>1, <2>3, <2>4, QuietLeads
  <2>6. Find(db', k) \in {0, Find(db, k)}
    BY <2>1, <2>4, FindQuiet
  <2>7. HeldOK'
    BY <1>1, <2>2 DEF Inv, HeldOK
  <2>8. /\ sent \subseteq sent' /\ sent' \subseteq Local /\ acquired' \in [Key -> Nat]
        /\ \A j \in Key : acquired'[j] >= acquired[j]
    <3>1. \A j \in Key : acquired[j] \in Nat
      BY DEF Inv
    <3>. QED
      BY <1>1, <3>1 DEF Inv
  <2>9. k \in sent' \/ (k \in Key /\ acquired'[k] > 0)
    BY <1>1, <2>3 DEF Inv, Known
  <2>10. Leads(db, db', (made + 1)..made', k, Once')
    BY <1>1, <2>2, <2>5
  <2>. QED
    BY <1>1, <2>2, <2>6, <2>7, <2>8, <2>9, <2>10, LeadsStep
<1>. QED
  BY <1>2, <1>3, RoutedFrom

\* A key that neither came in nor was sent is nowhere.
LEMMA Fresh ==
    ASSUME Inv, NEW k \in Key \ sent, acquired[k] = 0
    PROVE  k \notin DOMAIN db.hash /\ \A x \in xmit : x.key # k
BY DEF Inv, Known

LEMMA SendInv ==
    ASSUME Inv, NEW k, NEW detain \in BOOLEAN, Send(k, detain)
    PROVE  Inv'
<1> DEFINE b == made + 1
           d == New(db, b, k, detain)
<1>1. /\ k \in Local \ sent /\ k \in Key /\ made < MaxBundles /\ made' = b /\ b \in Nat /\ made \in Nat
      /\ acquired' = acquired /\ xmit' = xmit /\ blocked' = blocked
      /\ sent' = sent \cup {k} /\ MaxBundles \in Nat
  BY BpAgentAssumption DEF Inv, Send
<1>2. acquired[k] \in Nat /\ sent \subseteq sent' /\ Once' \subseteq Once
  <2>1. \A j \in Key : acquired[j] \in Nat
    BY DEF Inv
  <2>2. sent \subseteq sent' /\ acquired' \in [Key -> Nat] /\ \A j \in Key : acquired'[j] >= acquired[j]
    BY <1>1, <2>1 DEF Inv
  <2>. QED
    BY <1>1, <2>1, <2>2, OnceShrinks
<1>3. (\A x \in xmit : x.key # k) \/ k \notin Once'
  <2>1. CASE acquired[k] = 0
    BY <1>1, <2>1, Fresh
  <2>2. CASE acquired[k] # 0
    BY <1>1, <1>2, <2>2 DEF Once, Returned
  <2>. QED
    BY <2>1, <2>2
<1>4. b \notin DOMAIN db.bundle /\ b # 0 /\ b \notin db.list["transit"] /\ Sound(db, Once')
  BY <1>1, <1>2, Fewer DEF Inv, Living
<1>5. Leads(db, d, {b}, k, Once') /\ Grown(db, d, {b})
  BY <1>1, <1>4, NewLeads
<1>6. Sound(d, Once') /\ Movable(d, {b}, Once')
  BY <1>5 DEF Leads, Grown, Movable
<1>7. Leads(db, Forward(d, {b}), {b}, k, Once')
  BY <1>5, <1>6, ForwardQuiet, LeadsOn
<1>8. {b} = (made + 1)..made'
  BY <1>1
<1>9. Leads(db, db', (made + 1)..made', k, Once')
  BY <1>7, <1>8 DEF Send
<1>10. HeldOK'
  <2>1. held' = held \/ held' = Extended(held, {b}, FALSE)
    BY DEF Send
  <2>2. CASE held' = held
    BY <1>1, <2>2 DEF Inv, HeldOK
  <2>3. CASE held' = Extended(held, {b}, FALSE)
    <3>1. /\ DOMAIN held' = DOMAIN held \cup {b}
          /\ \A c \in DOMAIN held' : held'[c] = FALSE \/ (c \in DOMAIN held /\ held'[c] = held[c])
      BY <2>3 DEF Extended
    <3>2. DOMAIN held \subseteq 1..made /\ \A c \in DOMAIN held : held[c] \in BOOLEAN
      BY DEF Inv, HeldOK
    <3>3. DOMAIN held' \subseteq 1..made'
      BY <1>1, <3>1, <3>2
    <3>4. \A c \in DOMAIN held' : held'[c] \in BOOLEAN
      BY <3>1, <3>2
    <3>. QED
      BY <3>3, <3>4, Zenon DEF HeldOK
  <2>. QED
    BY <2>1, <2>2, <2>3
<1>11. made' \in made..MaxBundles
  BY <1>1
<1>12. sent \subseteq sent' /\ sent' \subseteq Local /\ k \in sent'
  BY <1>1 DEF Inv
<1>13. acquired' \in [Key -> Nat] /\ \A j \in Key : acquired'[j] >= acquired[j]
  <2>1. \A j \in Key : acquired[j] \in Nat
    BY DEF Inv
  <2>. QED
    BY <1>1, <2>1 DEF Inv
<1>14. xmit' = xmit /\ blocked' = blocked
  BY <1>1
<1> HIDE DEF b, d
<1>. QED
  BY <1>2, <1>3, <1>9, <1>10, <1>11, <1>12, <1>13, <1>14, LeadsStep

\* The bundle that an induct makes, and the copy for the other members of a group.
LEMMA AcquireLeads ==
    ASSUME Inv, NEW F, Sound(db, F), NEW k \in Key, Acquire(k)
    PROVE  Leads(db, db', (made + 1)..made', k, F) /\ made' \in made..MaxBundles
<1> DEFINE b == made + 1
           new == New(db, b, k, FALSE)
           delivered == Put(new, {b}, "dlv")
           two == Clone(delivered, b, {b + 1})
<1>0. /\ b <= MaxBundles
      /\ \/ made' = b /\ (db' = delivered \/ db' = Destroy(new, {b}, FALSE)
                          \/ db' = Put(new, {b}, "transit"))
         \/ made' = b + 1 /\ b < MaxBundles /\ db' = Put(two, {b + 1}, "transit")
  BY Zenon DEF Acquire
<1>1. made \in Nat /\ MaxBundles \in Nat /\ b \in Nat
  BY BpAgentAssumption DEF Inv
<1>2. b \notin DOMAIN db.bundle /\ b + 1 \notin DOMAIN db.bundle /\ b # 0 /\ b + 1 # 0 /\ b # b + 1
      /\ b \notin db.list["transit"] /\ b + 1 \notin db.list["transit"]
  BY <1>1 DEF Inv, Living
<1>3. /\ {b} = (made + 1)..b /\ {b} \cup {b + 1} = (made + 1)..(b + 1)
      /\ b \in made..MaxBundles /\ (b < MaxBundles => b + 1 \in made..MaxBundles)
  BY <1>0, <1>1
<1>4. Sound(db, F)
  OBVIOUS
<1> HIDE DEF b
<1>5. Leads(db, new, {b}, k, F) /\ Grown(db, new, {b})
  BY <1>2, <1>4, NewLeads, Zenon
<1>6. /\ Sound(new, F) /\ {b} \in SUBSET DOMAIN new.bundle /\ b \in DOMAIN new.bundle
      /\ new.bundle[b].in = {} /\ ~new.bundle[b].overdue /\ new.bundle[b].key = k
      /\ DOMAIN new.bundle = DOMAIN db.bundle \cup {b}
  BY <1>5 DEF Leads, Grown
<1> HIDE DEF new
<1>7. Movable(new, {b}, F)
  BY <1>6 DEF Movable
<1>8. Quiet(new, Destroy(new, {b}, FALSE), F)
  BY <1>6, <1>7, DestroyQuiet
<1>9. Quiet(new, delivered, F) /\ Added(new, delivered, {b}, "dlv")
  <2>1. Parked(new, {b}, F) /\ "dlv" \in Lists \ {"transit"}
    BY <1>6, ListsOutward DEF Parked, Movable
  <2>. QED
    BY <1>6, <2>1, ParkedPut
<1>10. Leads(db, Put(new, {b}, "transit"), {b}, k, F)
  <2>1. Leads(new, Put(new, {b}, "transit"), {b}, k, F)
    BY <1>6, TransitLeads
  <2>. QED
    BY <1>5, <2>1, LeadsTransitive
<1>11. Leads(db, delivered, {b}, k, F) /\ Leads(db, Destroy(new, {b}, FALSE), {b}, k, F)
  BY <1>5, <1>8, <1>9, LeadsOn
<1>12. /\ Sound(delivered, F) /\ b \in DOMAIN delivered.bundle /\ delivered.bundle[b].key = k
       /\ DOMAIN delivered.bundle = DOMAIN db.bundle \cup {b} /\ b + 1 \notin delivered.list["transit"]
  BY <1>2, <1>6, <1>9, <1>11 DEF Quiet, Added, Leads
<1> HIDE DEF delivered
<1>13. Leads(delivered, two, {b + 1}, k, F) /\ Grown(delivered, two, {b + 1})
  <2> DEFINE N == {b + 1}
  <2>1. /\ IsFiniteSet(N) /\ N \cap DOMAIN delivered.bundle = {} /\ 0 \notin N
        /\ N \cap delivered.list["transit"] = {}
    BY <1>2, <1>12, FS_Singleton
  <2> HIDE DEF N
  <2>2. Leads(delivered, Clone(delivered, b, N), N, delivered.bundle[b].key, F)
        /\ Grown(delivered, Clone(delivered, b, N), N)
    BY <1>12, <2>1, CloneLeads, Zenon
  <2>. QED
    BY <1>12, <2>2 DEF N
<1>14. /\ Sound(two, F) /\ b + 1 \in DOMAIN two.bundle /\ two.bundle[b + 1].in = {}
       /\ ~two.bundle[b + 1].overdue /\ two.bundle[b + 1].key = k
  BY <1>13 DEF Leads, Grown
<1> HIDE DEF two
<1>15. Leads(db, Put(two, {b + 1}, "transit"), {b} \cup {b + 1}, k, F)
  <2>1. Leads(two, Put(two, {b + 1}, "transit"), {b + 1}, k, F)
    <3> DEFINE c == b + 1
    <3> HIDE DEF c
    <3>1. Leads(two, Put(two, {c}, "transit"), {c}, two.bundle[c].key, F)
      BY <1>14, TransitLeads, Zenon DEF c
    <3>. QED
      BY <1>14, <3>1 DEF c
  <2>2. Leads(delivered, Put(two, {b + 1}, "transit"), {b + 1}, k, F)
    <3>1. {b + 1} \cup {b + 1} = {b + 1}
      OBVIOUS
    <3>. QED
      BY <1>13, <2>1, <3>1, LeadsTransitive
  <2>. QED
    BY <1>11, <2>2, LeadsTransitive
<1>16. \/ made' = b /\ Leads(db, db', {b}, k, F)
       \/ made' = b + 1 /\ b < MaxBundles /\ Leads(db, db', {b} \cup {b + 1}, k, F)
  BY <1>0, <1>10, <1>11, <1>15, Zenon
<1>. QED
  BY <1>3, <1>16

LEMMA AcquireInv ==
    ASSUME Inv, NEW k \in Key, Acquire(k)
    PROVE  Inv'
<1>1. /\ acquired[k] < Arrivals[k] /\ acquired' = [acquired EXCEPT ![k] = @ + 1]
      /\ blocked' = blocked /\ sent' = sent /\ held' = held /\ xmit' = xmit
  BY DEF Acquire
<1>2. /\ acquired \in [Key -> Nat] /\ Arrivals \in [Key -> Nat] /\ sent \subseteq Local
  BY BpAgentAssumption DEF Inv
<1>6. /\ acquired' \in [Key -> Nat] /\ acquired'[k] = acquired[k] + 1 /\ acquired'[k] > 0
      /\ \A j \in Key : acquired'[j] >= acquired[j]
  BY <1>1, <1>2
<1>3. Once' \subseteq Once /\ Sound(db, Once')
  <2>1. Once' \subseteq Once
    BY <1>1, <1>6, OnceShrinks
  <2>. QED
    BY <2>1, Fewer DEF Inv
<1>4. (\A x \in xmit : x.key # k) \/ k \notin Once'
  <2>1. CASE acquired[k] = 0 /\ k \notin sent
    BY <2>1, Fresh
  <2>2. CASE ~(acquired[k] = 0 /\ k \notin sent)
    <3>1. acquired'[k] + (IF k \in sent' THEN 1 ELSE 0) > 1
      BY <1>1, <1>2, <1>6, <2>2
    <3>. QED
      BY <3>1 DEF Once, Returned
  <2>. QED
    BY <2>1, <2>2
<1>5. Leads(db, db', (made + 1)..made', k, Once') /\ made' \in made..MaxBundles
  BY <1>3, AcquireLeads
<1>7. HeldOK'
  <2>1. made \in Nat /\ made' \in Nat /\ made <= made'
    BY <1>5, BpAgentAssumption DEF Inv
  <2>. QED
    BY <1>1, <2>1 DEF Inv, HeldOK
<1>8. sent \subseteq sent' /\ sent' \subseteq Local
  BY <1>1, <1>2
<1>. QED
  BY <1>1, <1>3, <1>4, <1>5, <1>6, <1>7, <1>8, LeadsStep

-----------------------------------------------------------------------------
(* Critical bundles.                                                        *)

LEMMA CriticalLeads ==
    ASSUME NEW F, NEW d, Sound(d, F), NEW b, Parked(d, {b}, F), NEW first \in Neighbor,
           NEW N, IsFiniteSet(N),
           N \cap DOMAIN d.bundle = {}, 0 \notin N, N \cap d.list["transit"] = {},
           NEW M \in SUBSET N, NEW to \in [M -> Neighbor]
    PROVE  /\ Leads(d, CriticalCopies(d, b, first, N, to), N, d.bundle[b].key, F)
           /\ Find(CriticalCopies(d, b, first, N, to), d.bundle[b].key) \in {0, Find(d, d.bundle[b].key)}
<1> DEFINE k == d.bundle[b].key
           e == Put(d, {b}, first)
           f == Clone(e, b, N)
           g == PutEach(f, M, to)
<1>1. CriticalCopies(d, b, first, N, to) = g
  BY DEF CriticalCopies
<1>2. Quiet(d, e, F) /\ DOMAIN e.bundle = DOMAIN d.bundle
  <2>1. first \in Lists \ {"transit"}
    BY ListsOutward
  <2>2. Quiet(d, e, F) /\ Added(d, e, {b}, first)
    BY <2>1, ParkedPut, Zenon
  <2>. QED
    BY <2>2 DEF Added
<1>3. /\ Sound(e, F) /\ b \in DOMAIN e.bundle /\ DOMAIN e.bundle = DOMAIN d.bundle
      /\ e.bundle[b].key = k /\ Find(e, k) \in {0, Find(d, k)} /\ N \cap e.list["transit"] = {}
  BY <1>2, FindQuiet DEF Quiet, Parked, Movable
<1> HIDE DEF e
<1>4. Leads(e, f, N, k, F) /\ Grown(e, f, N) /\ Find(f, k) \in {0, Find(e, k)}
  <2>1. N \cap DOMAIN e.bundle = {}
    BY <1>3
  <2>2. /\ Leads(e, Clone(e, b, N), N, e.bundle[b].key, F) /\ Grown(e, Clone(e, b, N), N)
        /\ Find(Clone(e, b, N), e.bundle[b].key) \in {0, Find(e, e.bundle[b].key)}
    BY <1>3, <2>1, CloneLeads, Zenon
  <2>. QED
    BY <1>3, <2>2
<1>5. /\ Sound(f, F) /\ M \in SUBSET DOMAIN f.bundle
      /\ \A c \in M : f.bundle[c].in = {}
  BY <1>4 DEF Leads, Grown
<1> HIDE DEF f
<1>6. Quiet(f, g, F)
  <2>1. to \in [M -> Lists \ {"transit"}]
    BY ListsOutward
  <2>2. \A c \in M : /\ f.bundle[c].key \in F => "transit" \notin f.bundle[c].in
                     /\ to[c] \in Outward => f.bundle[c].in \cap Outward = {}
    BY <1>5
  <2>. QED
    BY <1>5, <2>1, <2>2, PutEachQuiet, Zenon
<1> HIDE DEF g
<1>7. Leads(e, g, N, k, F) /\ Find(g, k) \in {0, Find(f, k)}
  BY <1>4, <1>6, LeadsOn, FindQuiet
<1>8. Leads(d, g, N, k, F)
  BY <1>2, <1>7, QuietLeads DEF e
<1>. QED
  BY <1>1, <1>3, <1>4, <1>7, <1>8

\* The bundle that ipnfw takes goes, or copies of it come, and its key leads to none.
LEMMA CriticalFrom ==
    ASSUME Inv, NEW b, ForwardCritical(b), NEW k, k = db.bundle[b].key
    PROVE  /\ k \in DOMAIN db.hash /\ k \in Critical
           /\ \/ Quiet(db, db', Once) /\ made' = made
              \/ /\ made' \in made..MaxBundles /\ made <= made'
                 /\ Leads(db, db', (made + 1)..made', k, Once)
                 /\ Find(db', k) \in {0, Find(db, k)}
<1> DEFINE d == Drop(db, {b}, {"fwd"})
<1>1. /\ Sound(db, Once) /\ b \in db.list["fwd"] /\ {b} \in SUBSET db.list["fwd"] /\ k \in Critical
  BY DEF Inv, ForwardCritical
<1>2. Quiet(db, d, Once) /\ Parked(d, {b}, Once) /\ Sound(d, Once) /\ Movable(d, {b}, Once)
  BY <1>1, Taken, ListsOutward
<1>3. \/ \E first \in Neighbor, others \in SUBSET Neighbor, potential \in {0, 1} :
            LET queued == made + Cardinality(others)
            IN  /\ queued + potential <= MaxBundles
                /\ \E to \in Bijection(made + 1 .. queued, others) :
                      db' = CriticalCopies(d, b, first, made + 1 .. queued + potential, to)
                /\ made' = queued + potential
      \/ db' = Destroy(d, {b}, FALSE) /\ made' = made
  BY DEF ForwardCritical
<1>4. b \in DOMAIN d.bundle /\ d.bundle[b].key = k /\ b \in DOMAIN db.bundle /\ k \in DOMAIN db.hash
  BY <1>1, <1>2 DEF Parked, Movable, Quiet, Sound, HashOK
<1>5. DOMAIN d.bundle \subseteq DOMAIN db.bundle /\ d.list["transit"] \subseteq db.list["transit"]
  BY <1>2 DEF Quiet
<1> HIDE DEF d
<1>6. ASSUME db' = Destroy(d, {b}, FALSE) PROVE Quiet(db, db', Once)
  <2>1. Quiet(d, Destroy(d, {b}, FALSE), Once)
    BY <1>2, <1>4, DestroyQuiet
  <2>. QED
    BY <1>2, <1>6, <2>1, QuietTransitive
<1>7. CASE \E first \in Neighbor, others \in SUBSET Neighbor, potential \in {0, 1} :
             LET queued == made + Cardinality(others)
             IN  /\ queued + potential <= MaxBundles
                 /\ \E to \in Bijection(made + 1 .. queued, others) :
                       db' = CriticalCopies(d, b, first, made + 1 .. queued + potential, to)
                 /\ made' = queued + potential
  <2>1. PICK first \in Neighbor, others \in SUBSET Neighbor, potential \in {0, 1} :
             LET queued == made + Cardinality(others)
             IN  /\ queued + potential <= MaxBundles
                 /\ \E to \in Bijection(made + 1 .. queued, others) :
                       db' = CriticalCopies(d, b, first, made + 1 .. queued + potential, to)
                 /\ made' = queued + potential
    BY <1>7
  <2> DEFINE queued == made + Cardinality(others)
             M == made + 1 .. queued
             N == made + 1 .. made'
  <2>2. PICK to \in Bijection(M, others) : db' = CriticalCopies(d, b, first, N, to)
    BY <2>1
  <2>3. /\ made' = queued + potential /\ made' <= MaxBundles /\ potential \in Nat
        /\ made \in Nat /\ MaxBundles \in Nat
    BY <2>1, BpAgentAssumption DEF Inv
  <2>4. Cardinality(others) \in Nat
    BY BpStoreAssumption, FS_Subset, FS_CardinalityType
  <2> DEFINE n == Cardinality(others)
  <2> HIDE DEF n
  <2>5. /\ made' \in made..MaxBundles /\ made <= made' /\ M \in SUBSET N /\ 0 \notin N
        /\ made \in Int /\ made + 1 \in Int /\ made' \in Int
    BY <2>3, <2>4
  <2>6. N \cap DOMAIN db.bundle = {} /\ N \cap db.list["transit"] = {}
    BY <2>3, <2>5 DEF Inv, Living
  <2>7. IsFiniteSet(N)
    BY <2>5, FS_Interval
  <2>8. to \in [M -> Neighbor]
    BY <2>2 DEF Bijection, Injection, Surjection
  <2> HIDE DEF M, N
  <2>9. /\ Leads(d, db', N, d.bundle[b].key, Once)
        /\ Find(db', d.bundle[b].key) \in {0, Find(d, d.bundle[b].key)}
    <3>1. N \cap DOMAIN d.bundle = {} /\ N \cap d.list["transit"] = {}
      BY <1>5, <2>6
    <3>. QED
      BY <1>2, <2>2, <2>5, <2>7, <2>8, <3>1, CriticalLeads, Zenon
  <2>10. Leads(db, db', N, k, Once) /\ Find(db', k) \in {0, Find(db, k)}
    <3>1. Find(d, k) \in {0, Find(db, k)}
      BY <1>2, FindQuiet
    <3>2. Leads(db, db', N, k, Once)
      BY <1>2, <1>4, <2>6, <2>9, QuietLeads
    <3>. QED
      BY <1>4, <2>9, <3>1, <3>2
  <2>. QED
    BY <1>1, <1>4, <2>5, <2>10 DEF N
<1>. QED
  BY <1>1, <1>3, <1>4, <1>6, <1>7

LEMMA ForwardCriticalInv ==
    ASSUME Inv, NEW b, ForwardCritical(b)
    PROVE  Inv'
<1> DEFINE k == db.bundle[b].key
<1>1. /\ blocked' = blocked /\ acquired' = acquired /\ sent' = sent /\ held' = held /\ xmit' = xmit
      /\ Once' = Once /\ made \in Nat
  BY BpAgentAssumption DEF Inv, ForwardCritical, Once, Returned
<1>2. k = db.bundle[b].key
  OBVIOUS
<1> HIDE DEF k
<1>3. /\ k \in DOMAIN db.hash
      /\ \/ Quiet(db, db', Once) /\ made' = made
         \/ /\ made' \in made..MaxBundles /\ made <= made'
            /\ Leads(db, db', (made + 1)..made', k, Once)
            /\ Find(db', k) \in {0, Find(db, k)}
  BY <1>2, CriticalFrom
<1>4. HeldOK'
  <2>1. made' \in Nat /\ made <= made'
    BY <1>1, <1>3
  <2>. QED
    BY <1>1, <2>1 DEF Inv, HeldOK
<1>5. /\ sent \subseteq sent' /\ sent' \subseteq Local /\ acquired' \in [Key -> Nat]
      /\ \A j \in Key : acquired'[j] >= acquired[j]
  <2>1. \A j \in Key : acquired[j] \in Nat
    BY DEF Inv
  <2>. QED
    BY <1>1, <2>1 DEF Inv
<1>6. k \in sent' \/ (k \in Key /\ acquired'[k] > 0)
  BY <1>1, <1>3 DEF Inv, Known
<1>7. CASE Quiet(db, db', Once) /\ made' = made
  <2>1. blocked' \subseteq Neighbor /\ xmit' \subseteq xmit
    BY <1>1 DEF Inv
  <2>. QED
    BY <1>1, <1>4, <1>7, <2>1, QuietStep
<1>8. CASE /\ made' \in made..MaxBundles /\ made <= made'
           /\ Leads(db, db', (made + 1)..made', k, Once)
           /\ Find(db', k) \in {0, Find(db, k)}
  <2>1. Leads(db, db', (made + 1)..made', k, Once')
    BY <1>1, <1>8
  <2>. QED
    BY <1>1, <1>4, <1>5, <1>6, <1>8, <2>1, LeadsStep
<1>. QED
  BY <1>3, <1>7, <1>8

-----------------------------------------------------------------------------

LEMMA NextInv ==
    ASSUME Inv, [Next]_vars
    PROVE  Inv'
<1>1. CASE Application
  <2>1. ASSUME NEW k \in Key, NEW detain \in BOOLEAN, Send(k, detain) PROVE Inv'
    BY <2>1, SendInv
  <2>2. ASSUME NEW b \in 1..made, Suspend(b) \/ Cancel(b) \/ Release(b) \/ Receive(b) PROVE Inv'
    BY <2>2, ApplicationQuiet
  <2>. QED
    BY <1>1, <2>1, <2>2 DEF Application
<1>2. CASE Daemons
  <2>1. ASSUME NEW k \in Key, Acquire(k) PROVE Inv'
    BY <2>1, AcquireInv
  <2>2. ASSUME NEW b \in 1..made, ForwardOrdinary(b) \/ ForwardCritical(b) \/ Dequeue(b) PROVE Inv'
    BY <2>2, ForwardOrdinaryInv, ForwardCriticalInv, DequeueInv
  <2>3. ASSUME \/ \E b \in 1..made : Transit(b)
               \/ \E b \in 1..made, n \in Neighbor : Allocate(b, n)
               \/ \E x \in xmit : Success(x) \/ Failure(x)
        PROVE  Inv'
    <3>1. \/ \E b : Transit(b)
          \/ \E b : \E n \in Neighbor : Allocate(b, n)
          \/ \E x \in xmit : Success(x) \/ Failure(x)
      BY <2>3
    <3>. QED
      BY <3>1, DaemonQuiet
  <2>. QED
    BY <1>2, <2>1, <2>2, <2>3 DEF Daemons
<1>3. CASE Clock \/ Management
  BY <1>3, OthersQuiet
<1>4. CASE UNCHANGED vars
  <2>1. Quiet(db, db', Once)
    BY <1>4, QuietStutter DEF Inv, vars
  <2>2. HeldOK'
    BY <1>4 DEF Inv, HeldOK, vars
  <2>. QED
    BY <1>4, <2>1, <2>2, QuietStep DEF Inv, vars
<1>. QED
  BY <1>1, <1>2, <1>3, <1>4 DEF Next

\* Whatever order the tasks take, the objects and their lists keep their form; a
\* bundle never holds an element of two queues of plans, nor of one and limbo.
THEOREM TypeCorrect == Spec => []TypeOK
<1>1. Inv => TypeOK
  <2> SUFFICES ASSUME Inv PROVE TypeOK
    OBVIOUS
  <2>1. /\ \A b \in Living : db.bundle[b] \in Bundle /\ Placed(db.bundle[b], Once)
        /\ DOMAIN db.hash = {db.bundle[b].key : b \in Living}
        /\ db.list = Referring(db, db.bundle) /\ Dangling(db, Once) /\ Living \subseteq 1..made
    BY DEF Inv, Sound, DbOK, HashOK, Living
  <2>2. ASSUME NEW b \in Living PROVE Cardinality(db.bundle[b].in \cap PlanXmit) < 2
    <3> DEFINE S == db.bundle[b].in \cap PlanXmit
    <3>1. \A p, q \in S : p = q
      BY <2>1, ListsOutward DEF Placed
    <3> HIDE DEF S
    <3>2. CASE S = {}
      BY <3>2, FS_EmptySet DEF S
    <3>3. CASE S # {}
      <4>1. PICK q \in S : S = {q}
        BY <3>1, <3>3
      <4>2. Cardinality(S) = 1
        BY <4>1, FS_Singleton
      <4>. QED
        BY <4>2 DEF S
    <3>. QED
      BY <3>2, <3>3
  <2>3. db.list \in [Lists -> SUBSET (1..made)]
    <3>1. db.list = [q \in Lists |-> db.list[q]]
      BY <2>1 DEF Referring
    <3>2. \A q \in Lists : db.list[q] \subseteq 1..made
      BY <2>1 DEF Dangling, Living, Inv
    <3>. QED
      BY <3>1, <3>2
  <2>4. DOMAIN db.hash \subseteq Key
    BY <2>1 DEF Bundle
  <2>. QED
    BY <2>1, <2>2, <2>3, <2>4 DEF TypeOK, Inv, HeldOK, Bundle
<1>. QED
  BY InitInv, NextInv, <1>1, PTL DEF Spec

\* No list of the node refers to a bundle that has been destroyed, but for that of
\* transit once a key has come twice; and none has lost a bundle that says it is
\* there, whatever destroys, moves or copies it.
THEOREM ListsTrue == Spec => []ListsAgree
<1>1. Inv => ListsAgree
  <2> SUFFICES ASSUME Inv, NEW q \in Lists
               PROVE  /\ db.list[q] \cap Living = {b \in Living : q \in db.bundle[b].in}
                      /\ db.list[q] \subseteq Living \/ (q = "transit" /\ Returned # {})
    BY DEF ListsAgree
  <2>1. db.list = Referring(db, db.bundle) /\ Dangling(db, Once)
    BY DEF Inv, Sound
  <2>2. db.list[q] = {b \in DOMAIN db.bundle : q \in db.bundle[b].in} \cup (db.list[q] \ DOMAIN db.bundle)
    BY <2>1 DEF Referring
  <2>3. ~(Key \subseteq Once) => Returned # {}
    BY DEF Once
  <2>. QED
    BY <2>1, <2>2, <2>3 DEF Dangling, Living
<1>. QED
  BY InitInv, NextInv, <1>1, PTL DEF Spec
=============================================================================
