------------------------------ MODULE BpAgent ------------------------------
(***************************************************************************)
(* The life of bundles in a node: the tasks that move them from list to    *)
(* list, one transaction at a time.  Applications send, suspend, cancel,   *)
(* release and receive (libbp.c); inducts acquire; bptransit, ipnfw, bpclm *)
(* and the adapters take from their lists (libbpP.c, bptransit.c, ipnfw.c, *)
(* bpclm.c); bpclock expires, re-forwards and flushes (bpclock.c); the     *)
(* management blocks and unblocks plans and removes an outduct.            *)
(*                                                                         *)
(* Routing is a choice of ipnfw's among the plans that are not blocked.    *)
(* Left out: fragments and their reassembly, admin records, the report of  *)
(* statuses, the payloads (Zco has their space).                           *)
(***************************************************************************)
EXTENDS BpStore, Functions

CONSTANTS
    Local,        \* keys of bundles that applications here send
    Dest,         \* [Key -> {"away", "here", "group"}]
    Arrivals,     \* bound: [Key -> how many times it comes in]
    MaxBundles    \* bound: Bundle objects ever made

ASSUME BpAgentAssumption ==
    /\ Local \subseteq Key /\ Dest \in [Key -> {"away", "here", "group"}]
    /\ Arrivals \in [Key -> Nat] /\ MaxBundles \in Nat

VARIABLES
    db,
    made,         \* bundles made so far
    blocked,      \* plans that are blocked
    acquired,     \* times each key has come in
    sent,         \* keys applications have sent
    held,         \* the bundles whose address an application has: TRUE for those it
                  \* has suspended on their way out
    xmit          \* serialized copies at the adapters: their key, and the bundle
                  \* if stewardship was accepted for it
vars == <<db, made, blocked, acquired, sent, held, xmit>>

Living == DOMAIN db.bundle

TypeOK ==
    /\ Living \subseteq 1..made /\ made \in 0..MaxBundles
    /\ \A b \in Living : db.bundle[b] \in
          [key : Key, in : SUBSET Lists, detained : BOOLEAN, suspended : BOOLEAN,
           overdue : BOOLEAN]
    /\ \A b \in Living : Cardinality(db.bundle[b].in \cap PlanXmit) < 2
    /\ db.list \in [Lists -> SUBSET (1..made)]
    /\ DOMAIN db.hash \subseteq Key
    /\ blocked \subseteq Neighbor /\ sent \subseteq Local
    /\ DOMAIN held \subseteq 1..made /\ \A b \in DOMAIN held : held[b] \in BOOLEAN
    /\ acquired \in [Key -> Nat]
    /\ xmit \subseteq [key : Key, steward : 0..made]

Init ==
    /\ db = Empty /\ made = 0
    /\ blocked = {} /\ acquired = [k \in Key |-> 0]
    /\ sent = {} /\ held = <<>> /\ xmit = {}

-----------------------------------------------------------------------------
(* Applications.                                                            *)

\* bp_send: an application that wants the address has the bundle detained.
Send(k, detain) ==
    /\ k \in Local \ sent /\ made < MaxBundles
    /\ made' = made + 1
    /\ db' = Forward(New(db, made + 1, k, detain), {made + 1})
    /\ sent' = sent \cup {k}
    /\ held' = IF detain THEN Extended(held, {made + 1}, FALSE) ELSE held
    /\ UNCHANGED <<blocked, acquired, xmit>>

\* The application tracks its bundles, so it does not name one that is gone.
Tracked == {b \in DOMAIN held \cap Living : db.bundle[b].detained}

\* bp_suspend: what reverseEnqueue writes does not have the mark.
Suspend(b) ==
    /\ b \in Tracked
    /\ db.bundle[b].key \notin Critical /\ ~db.bundle[b].suspended
    /\ db' = IF db.bundle[b].in \cap Neighbor # {}
             THEN ReverseEnqueue(db, {b}, TRUE)
             ELSE [db EXCEPT !.bundle[b].suspended = TRUE]
    /\ held' = [held EXCEPT ![b] = db.bundle[b].in \cap PlanXmit # {}]
    /\ UNCHANGED <<made, blocked, acquired, sent, xmit>>

Cancel(b) ==
    /\ b \in Tracked
    /\ db' = Destroy(db, {b}, TRUE)
    /\ UNCHANGED <<made, blocked, acquired, sent, held, xmit>>

\* bp_release: a bundle nothing else retains is not destroyed here.
Release(b) ==
    /\ b \in Tracked
    /\ db' = Undetained(db, {b})
    /\ UNCHANGED <<made, blocked, acquired, sent, held, xmit>>

\* bp_receive
Receive(b) ==
    /\ b \in db.list["dlv"]
    /\ db' = Destroy(Drop(db, {b}, {"dlv"}), {b}, FALSE)
    /\ UNCHANGED <<made, blocked, acquired, sent, held, xmit>>

-----------------------------------------------------------------------------
(* Inducts and bptransit.                                                   *)

\* acquireBundle and dispatchBundle.  A bundle for nobody here that is open, or
\* for an endpoint that does not exist, is destroyed at once; one for a group is
\* forwarded too, in a copy if it is delivered.
Acquire(k) ==
    LET b == made + 1
        new == New(db, b, k, FALSE)
        delivered == Put(new, {b}, "dlv")
    IN  /\ acquired[k] < Arrivals[k] /\ b <= MaxBundles
        /\ acquired' = [acquired EXCEPT ![k] = @ + 1]
        /\ \/ /\ Dest[k] = "here"
              /\ db' \in {delivered, Destroy(new, {b}, FALSE)}
              /\ made' = b
           \/ /\ Dest[k] \in {"away", "group"}
              /\ db' = Put(new, {b}, "transit")
              /\ made' = b
           \/ /\ Dest[k] = "group" /\ b < MaxBundles
              /\ db' = Put(Clone(delivered, b, {b + 1}), {b + 1}, "transit")
              /\ made' = b + 1
        /\ UNCHANGED <<blocked, sent, held, xmit>>

\* bptransit waits for space between looking at a bundle and moving it, and
\* starts over if the first of the list has changed meanwhile.  What it does to a
\* bundle that is gone is left out.
Transit(b) ==
    /\ b \in db.list["transit"] \cap Living
    /\ db' = Forward(Drop(db, {b}, {"transit"}), {b})
    /\ UNCHANGED <<made, blocked, acquired, sent, held, xmit>>

-----------------------------------------------------------------------------
(* ipnfw.                                                                   *)

\* manageOverbooking: bundles that no longer go by the contact are routed again.
Bumped(d, n, B) == Reforward(Drop(d, B, {n}), B)

\* enqueueToEntryNode: on the plan of the first node of the route that was
\* computed, with an alarm for the end of the contact.
Routed(d, b, n) == [Put(d, {b}, n) EXCEPT !.bundle[b].overdue = TRUE]

UnroutedPastLimbo(d, b) ==   \* mutant: what has no route now is left alone
    {Put(d, {b}, n) : n \in Neighbor \ blocked} \cup {Forward(d, {b}), d, Destroy(d, {b}, FALSE)}

\* enqueueBundle, if CGR has queued it nowhere: for an override or the bundle's own
\* node, without an alarm; by way of an exit; in limbo; or abandoned.
Unrouted(d, b) ==
    {Put(d, {b}, n) : n \in Neighbor \ blocked}
        \cup {Forward(d, {b}), ToLimbo(d, {b}), Destroy(d, {b}, FALSE)}

\* tryCGR puts a bundle on a plan, unless it has been sent too often, bumps others
\* from it, and if delivery is not sure enough puts a clone in limbo.
ForwardOrdinary(b) ==
    LET d == Drop(db, {b}, {"fwd"})
    IN  /\ b \in db.list["fwd"] /\ db.bundle[b].key \notin Critical
        /\ \/ db' \in Unrouted(d, b) /\ made' = made
           \/ \E n \in Neighbor \ blocked : \E B \in SUBSET d.list[n] :
              LET e == Bumped(d, n, B)
                  routed == Routed(e, b, n)
              IN  \/ db' \in Unrouted(e, b) \cup {routed} /\ made' = made
                 \/ /\ made < MaxBundles /\ made' = made + 1
                    /\ "transit" \notin db.bundle[b].in
                    /\ db' = ToLimbo(Clone(routed, b, {made + 1}), {made + 1})
        /\ UNCHANGED <<blocked, acquired, sent, held, xmit>>

\* sendCriticalBundle: a copy for every route, and perhaps one more "in limbo",
\* which enqueueToLimbo refuses.
CriticalCopies(d, b, first, copies, to) ==
    PutEach(Clone(Put(d, {b}, first), b, copies), DOMAIN to, to)

ForwardCritical(b) ==
    LET d == Drop(db, {b}, {"fwd"})
    IN  /\ b \in db.list["fwd"] /\ db.bundle[b].key \in Critical
        /\ \/ \E first \in Neighbor \ blocked : \E others \in SUBSET (Neighbor \ (blocked \cup {first})) :
              \E potential \in {0, 1} :
                  LET queued == made + Cardinality(others)
                  IN  /\ queued + potential <= MaxBundles
                      /\ \E to \in Bijection(made + 1 .. queued, others) :
                            db' = CriticalCopies(d, b, first, made + 1 .. queued + potential, to)
                      /\ made' = queued + potential
           \/ db' = Destroy(d, {b}, FALSE) /\ made' = made
        /\ UNCHANGED <<blocked, acquired, sent, held, xmit>>

-----------------------------------------------------------------------------
(* bpclm and the adapters.                                                  *)

\* To an outduct of the plan; to limbo if none is usable; on another route if it
\* is too long for this one.
Allocate(b, n) ==
    LET d == Drop(db, {b}, {n})
    IN  /\ b \in db.list[n]
        /\ db' \in {Put(d, {b}, "duct"), ToLimbo(d, {b}), Reforward(d, {b})}
        /\ UNCHANGED <<made, blocked, acquired, sent, held, xmit>>

AcceptAlways(d, b, reliable) ==   \* mutant: stewardship whatever the hash says
    reliable /\ d.bundle[b].key \notin Critical

\* Stewardship: for a reliable adapter or bundle that is not critical, and that
\* can be found by its key when the adapter reports.
Accept(d, b, reliable) ==
    reliable /\ d.bundle[b].key \notin Critical /\ Find(d, d.bundle[b].key) = b

\* bpDequeue; a bundle that cannot be secured is destroyed.
Dequeue(b) ==
    LET d == OnTime(Drop(db, {b}, {"duct"}), {b})
    IN  /\ b \in db.list["duct"]
        /\ \/ \E reliable \in BOOLEAN :
                  /\ xmit' = xmit \cup {[key |-> d.bundle[b].key,
                                         steward |-> IF Accept(d, b, reliable) THEN b ELSE 0]}
                  /\ db' = IF Accept(d, b, reliable) THEN d ELSE Destroy(d, {b}, FALSE)
           \/ db' = Destroy(d, {b}, TRUE) /\ UNCHANGED xmit
        /\ UNCHANGED <<made, blocked, acquired, sent, held>>

\* bpHandleXmitSuccess: retrieveSerializedBundle goes by the key.
Success(x) ==
    LET b == Find(db, x.key)
    IN  /\ x \in xmit
        /\ db' = IF b = 0 THEN db ELSE Destroy(db, {b}, FALSE)
        /\ xmit' = xmit \ {x}
        /\ UNCHANGED <<made, blocked, acquired, sent, held>>

\* bpHandleXmitFailure: forwardBundle fails for a bundle that is being
\* delivered, and the transaction is canceled.
Failure(x) ==
    LET b == Find(db, x.key)
    IN  /\ x \in xmit
        /\ db' = IF b = 0 THEN db
                 ELSE IF "dlv" \in db.bundle[b].in /\ db.bundle[b].key \notin Critical THEN db
                 ELSE Reforward(db, {b})
        /\ xmit' = xmit \ {x}
        /\ UNCHANGED <<made, blocked, acquired, sent, held>>

-----------------------------------------------------------------------------
(* bpclock and the management.                                              *)

Expire(b) ==
    /\ b \in Living
    /\ db' = Destroy(db, {b}, TRUE)
    /\ UNCHANGED <<made, blocked, acquired, sent, held, xmit>>

Overdue(b) ==
    /\ b \in Living /\ db.bundle[b].overdue
    /\ db' = Reforward(db, {b})
    /\ UNCHANGED <<made, blocked, acquired, sent, held, xmit>>

\* flushLimbo, all batches at once.
FlushLimbo ==
    /\ db.list["limbo"] # {}
    /\ db' = ReleaseFromLimbo(db, db.list["limbo"])
    /\ UNCHANGED <<made, blocked, acquired, sent, held, xmit>>

BlockPlan(n) ==
    /\ n \notin blocked
    /\ blocked' = blocked \cup {n}
    /\ db' = ReverseEnqueue(db, db.list[n], FALSE)
    /\ UNCHANGED <<made, acquired, sent, held, xmit>>

UnblockPlan(n) ==
    /\ n \in blocked
    /\ blocked' = blocked \ {n}
    /\ db' = ReleaseFromLimbo(db, db.list["limbo"])
    /\ UNCHANGED <<made, acquired, sent, held, xmit>>

\* flushOutduct of removeOutduct: reliability is a choice per bundle.
RemoveOutduct ==
    \E again \in SUBSET db.list["duct"] :
        /\ db.list["duct"] # {}
        /\ db' = Destroy(Reforward(db, again), db.list["duct"] \ again, TRUE)
        /\ UNCHANGED <<made, blocked, acquired, sent, held, xmit>>

-----------------------------------------------------------------------------

Application ==
    \/ \E k \in Key, detain \in BOOLEAN : Send(k, detain)
    \/ \E b \in 1..made : Suspend(b) \/ Cancel(b) \/ Release(b) \/ Receive(b)
Daemons ==
    \/ \E k \in Key : Acquire(k)
    \/ \E b \in 1..made : Transit(b) \/ ForwardOrdinary(b) \/ ForwardCritical(b) \/ Dequeue(b)
    \/ \E b \in 1..made, n \in Neighbor : Allocate(b, n)
    \/ \E x \in xmit : Success(x) \/ Failure(x)
Clock == FlushLimbo \/ \E b \in 1..made : Expire(b) \/ Overdue(b)
Management == RemoveOutduct \/ \E n \in Neighbor : BlockPlan(n) \/ UnblockPlan(n)

Next == Application \/ Daemons \/ Clock \/ Management

Spec == Init /\ [][Next]_vars

-----------------------------------------------------------------------------

\* Keys that have come to the node more than once: a bundle that a neighbor sends
\* back, or sends twice.
Returned == {k \in Key : acquired[k] + (IF k \in sent THEN 1 ELSE 0) > 1}

\* The lists name exactly the bundles that hold an element of them; only transit,
\* and only once a key has returned, may refer to a bundle that has been destroyed.
ListsAgree == \A q \in Lists :
    /\ db.list[q] \cap Living = {b \in Living : q \in db.bundle[b].in}
    /\ db.list[q] \subseteq Living \/ (q = "transit" /\ Returned # {})

\* The comment of bpDestroyBundle: "the bundle is pending another transmission", so it
\* is not destroyed.
NoneDangling == \A q \in Lists : db.list[q] \subseteq Living

\* The hash counts the living bundles of a key; if it leads to one, that is the
\* only one; and a bundle whose stewardship an adapter has accepted is found by
\* the key the adapter will report, unless that key has returned.
HashTrue ==
    /\ DOMAIN db.hash = {db.bundle[b].key : b \in Living}
    /\ \A k \in DOMAIN db.hash :
          /\ db.hash[k].count = Cardinality(OfKey(db, Living, k))
          /\ db.hash[k].obj = 0 \/ OfKey(db, Living, k) = {db.hash[k].obj}
    /\ \A x \in xmit : x.steward \in Living /\ x.key \notin Returned
          => Find(db, x.key) = x.steward

\* Who is responsible for a bundle.  Critical ones are sent on all routes and
\* forgotten; a report may be of another bundle once a key has returned.
Custodian(b) ==
    IF b > made THEN "none"
    ELSE IF b \notin Living THEN "done"
    ELSE IF db.bundle[b].key \in Critical \cup Returned THEN "done"
    ELSE LET node == db.bundle[b].in # {}
             adapter == \E x \in xmit : Find(db, x.key) = b
         IN  CASE node /\ ~adapter -> "node"
               [] adapter /\ ~node -> "adapter"
               [] ~node /\ ~adapter /\ (b \in DOMAIN held \/ db.bundle[b].detained) -> "kept"
               [] OTHER -> "nobody, or both"

Custody == INSTANCE BpCustody WITH custodian <- [b \in 1..MaxBundles |-> Custodian(b)]

\* The agent implements BpCustody: no ordinary bundle is dropped by all lists
\* while no adapter has it, none is queued again while an adapter may still
\* report on it, and none comes back when it is done.
OneCustodian == Custody!Spec

\* A bundle that only detention keeps is one an application can release.
Releasable == \A b \in Living :
    (db.bundle[b].in = {} /\ db.bundle[b].detained /\ \A x \in xmit : Find(db, x.key) # b)
        => b \in DOMAIN held

\* "Places it in the limbo queue until the suspension is lifted": a bundle that
\* was on its way out when its application suspended it is still in limbo.
SuspendedInLimbo == \A b \in DOMAIN held \cap Living :
    held[b] => "limbo" \in db.bundle[b].in
=============================================================================
