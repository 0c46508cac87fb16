------------------------------ MODULE BpStore ------------------------------
(***************************************************************************)
(* The bundles of a node and the lists they are in: bpv7/library/libbpP.c. *)
(* A database is a record with                                             *)
(*   bundle  the Bundle objects, by address; addresses are not used again, *)
(*   list    the lists that refer to them, as sets: no property is about   *)
(*           the order, so any member may be the next,                     *)
(*   hash    the table of all bundles, by key; [obj, count] is BundleSet.  *)
(* What a bundle says of itself (bundle.in: the list elements it holds)    *)
(* and what the lists say are kept apart, as in the code.                  *)
(*                                                                         *)
(* The operators are the functions of the agent that others call within    *)
(* their transactions: each maps a database to the database it leaves,     *)
(* for all the bundles B that one transaction handles.                     *)
(***************************************************************************)
EXTENDS Integers, FiniteSets

CONSTANTS
    Key,          \* bundle IDs: source, creation time, fragment
    Critical,     \* those flagged BP_MINIMUM_LATENCY
    Neighbor      \* nodes there is an egress plan for

ASSUME BpStoreAssumption ==
    /\ Critical \subseteq Key /\ IsFiniteSet(Neighbor)
    /\ Neighbor \cap {"fwd", "limbo", "duct", "transit", "dlv"} = {}

\* A plan's queue is named for its neighbor.  fwdQueueElt, planXmitElt (limbo or
\* the queue of a plan), ductXmitElt, transitElt and dlvQueueElt.
Lists == {"fwd", "limbo", "duct", "transit", "dlv"} \cup Neighbor
PlanXmit == {"limbo"} \cup Neighbor

\* Those a bundle goes through on its way out.
Outward == {"fwd", "duct"} \cup PlanXmit

Empty == [bundle |-> <<>>, list |-> [q \in Lists |-> {}], hash |-> <<>>]

Extended(f, S, value) == [x \in DOMAIN f \cup S |-> IF x \in S THEN value ELSE f[x]]

\* Each bundle goes to a list.
PutEach(d, B, to) ==
    [bundle |-> [c \in DOMAIN d.bundle |->
                    IF c \in B THEN [d.bundle[c] EXCEPT !.in = @ \cup {to[c]}] ELSE d.bundle[c]],
     list |-> [q \in Lists |-> d.list[q] \cup {c \in B : to[c] = q}],
     hash |-> d.hash]

Put(d, B, q) == PutEach(d, B, [c \in B |-> q])

\* The elements the bundles hold are deleted, whatever else refers to them.
Drop(d, B, queues) ==
    [bundle |-> [c \in DOMAIN d.bundle |->
                    IF c \in B THEN [d.bundle[c] EXCEPT !.in = @ \ queues] ELSE d.bundle[c]],
     list |-> [q \in Lists |-> d.list[q] \ {b \in B : q \in queues \cap d.bundle[b].in}],
     hash |-> d.hash]

-----------------------------------------------------------------------------

\* catalogueBundle: a key of several bundles leads to none of them.
Catalogue(hash, k, b) ==
    Extended(hash, {k}, IF k \in DOMAIN hash THEN [obj |-> 0, count |-> hash[k].count + 1]
                                             ELSE [obj |-> b, count |-> 1])

\* findBundle
Find(d, k) == IF k \in DOMAIN d.hash THEN d.hash[k].obj ELSE 0

NewBundle(k, detained) ==
    [key |-> k, in |-> {}, detained |-> detained, suspended |-> FALSE, overdue |-> FALSE]

New(d, b, k, detained) ==
    [bundle |-> Extended(d.bundle, {b}, NewBundle(k, detained)), list |-> d.list,
     hash |-> Catalogue(d.hash, k, b)]

\* bpClone: bundles of the same key, in no list, detained or suspended if the first
\* one is.
Clone(d, old, B) ==
    LET r == d.bundle[old]
        new == [NewBundle(r.key, r.detained) EXCEPT !.suspended = r.suspended]
    IN  [bundle |-> Extended(d.bundle, B, new), list |-> d.list,
         hash |-> IF B = {} THEN d.hash
                  ELSE Extended(d.hash, {r.key},
                                [obj |-> 0, count |-> d.hash[r.key].count + Cardinality(B)])]

-----------------------------------------------------------------------------

OfKey(d, B, k) == {b \in B : d.bundle[b].key = k}

Uncatalogue(d, B) ==
    [k \in {j \in DOMAIN d.hash : d.hash[j].count # Cardinality(OfKey(d, B, j))} |->
        [obj |-> d.hash[k].obj, count |-> d.hash[k].count - Cardinality(OfKey(d, B, k))]]

\* The constraints on deletion: transitElt is not among them.
Constrained(r) == r.detained \/ r.in \cap (Lists \ {"transit"}) # {}

Erase(d, B) ==
    [bundle |-> [c \in DOMAIN d.bundle \ B |-> d.bundle[c]], list |-> d.list,
     hash |-> Uncatalogue(d, B)]

Undetained(d, B) ==
    [bundle |-> [c \in DOMAIN d.bundle |->
                    IF c \in B THEN [d.bundle[c] EXCEPT !.detained = FALSE] ELSE d.bundle[c]],
     list |-> d.list, hash |-> d.hash]

\* bpDestroyBundle
Destroy(d, B, unconditional) ==
    LET e == IF unconditional THEN Undetained(Drop(d, B, Lists), B) ELSE d
    IN  Erase(e, {b \in B : ~Constrained(e.bundle[b])})

-----------------------------------------------------------------------------

\* forwardBundle, for bundles that are not in a delivery queue; the stations
\* they go by are left out.
Forward(d, B) == Put(d, {b \in B : d.bundle[b].in \cap Outward = {}}, "fwd")

Ordinary(d, B) == {b \in B : d.bundle[b].key \notin Critical}

\* The alarm for an overdue transmission is destroyed.
OnTime(d, B) ==
    [bundle |-> [c \in DOMAIN d.bundle |->
                    IF c \in B THEN [d.bundle[c] EXCEPT !.overdue = FALSE] ELSE d.bundle[c]],
     list |-> d.list, hash |-> d.hash]

ReforwardInPlace(d, B) ==   \* mutant: the elements they hold are not given up
    LET R == Ordinary(d, B)
    IN  Forward([OnTime(d, R) EXCEPT !.bundle = [c \in DOMAIN @ |->
                    IF c \in R THEN [@[c] EXCEPT !.in = {}] ELSE @[c]]], R)

\* bpReforwardBundle: critical bundles are on all routes already.
Reforward(d, B) ==
    LET R == Ordinary(d, B)
    IN  Forward(OnTime(Drop(d, R, Outward), R), R)

\* enqueueToLimbo: there is "no point" in it for critical bundles.
ToLimbo(d, B) == Put(d, Ordinary(d, B), "limbo")

ReverseKeep(d, B, sendToLimbo) ==   \* mutant: they stay in the queue of the plan
    LET R == Ordinary(d, B)
    IN  IF sendToLimbo THEN ToLimbo(OnTime(d, R), R) ELSE Reforward(d, R)

\* reverseEnqueue
ReverseEnqueue(d, B, sendToLimbo) ==
    LET e == Drop(d, B, Neighbor)
        R == Ordinary(d, B)
    IN  IF sendToLimbo THEN ToLimbo(OnTime(e, R), R) ELSE Reforward(e, R)

\* releaseFromLimbo, when a plan is unblocked or limbo is flushed.
ReleaseFromLimbo(d, B) ==
    LET free == {b \in B : ~d.bundle[b].suspended}
    IN  Reforward(Drop(d, free, PlanXmit), free)
=============================================================================
