--------------------------- MODULE BpCustodyProofs ---------------------------
(***************************************************************************)
(* Proof that BpAgent implements BpCustody: one party is responsible for   *)
(* a bundle until the node is done with it, for every set of keys,         *)
(* neighbors and bundles; and that a bundle whose stewardship an adapter   *)
(* has accepted is found by its key.  Both are of the bundles whose key    *)
(* has not returned, the keys F of BpAgentProofs.                          *)
(*                                                                         *)
(* The invariant InCustody says where a bundle is while an adapter may     *)
(* report on it, and Stewards that the report will find it.  A step is     *)
(* shown to be one of BpCustody from what it does to each bundle: one that *)
(* was there is Shifted, a new one has Arrived.  Most steps leave the      *)
(* copies at the adapters alone (Follows).                                 *)
(***************************************************************************)
EXTENDS BpAgentProofs

-----------------------------------------------------------------------------
(* BpCustody: one party is responsible for a bundle.                        *)

\* The bundles that BpCustody is about, and the copies whose reports lead to one.
Usual(d, F) == {c \in DOMAIN d.bundle : d.bundle[c].key \in F \ Critical}
Leading(d, X, c) == {x \in X : Find(d, x.key) = c}

\* One that is delivered is in no other list; an alarm is set for those that are
\* in the queue of a plan or an outduct, or in limbo.
Fit(r) ==
    /\ "dlv" \in r.in => r.in = {"dlv"}
    /\ r.overdue => r.in \cap (PlanXmit \cup {"duct"}) # {}

\* While an adapter may report, on one copy only, the bundle is in no list; one
\* that nobody has is detained, or was and an application knows of it.
InCustody(d, X, H, F) == \A c \in Usual(d, F) :
    /\ Fit(d.bundle[c])
    /\ Leading(d, X, c) # {} => d.bundle[c].in = {}
    /\ d.bundle[c].in = {} => Leading(d, X, c) # {} \/ c \in H \/ d.bundle[c].detained
    /\ \A x, y \in Leading(d, X, c) : x = y

Custodial == InCustody(db, xmit, DOMAIN held, Once)

Who(d, X, m, c, F) ==
    IF c > m THEN "none"
    ELSE IF c \notin Usual(d, F) THEN "done"
    ELSE IF d.bundle[c].in # {} THEN "node"
    ELSE IF Leading(d, X, c) # {} THEN "adapter" ELSE "kept"

LEMMA WhoIsCustodian ==
    ASSUME NEW c
    PROVE  /\ Inv /\ Custodial => Custodian(c) = Who(db, xmit, made, c, Once)
           /\ Inv' /\ Custodial' => Custodian(c)' = Who(db', xmit', made', c, Once')
<1>1. ASSUME Inv, Custodial PROVE Custodian(c) = Who(db, xmit, made, c, Once)
  <2>1. (\E x \in xmit : Find(db, x.key) = c) <=> Leading(db, xmit, c) # {}
    BY DEF Leading
  <2>2. c \in DOMAIN db.bundle =>
           (c \in Usual(db, Once) <=> db.bundle[c].key \notin Critical \cup Returned)
    BY <1>1 DEF Inv, Sound, DbOK, Bundle, Usual, Once
  <2>3. c \in Usual(db, Once) => c \in DOMAIN db.bundle
    BY DEF Usual
  <2>. QED
    BY <1>1, <2>1, <2>2, <2>3 DEF Custodial, InCustody, Custodian, Who, Living
<1>2. ASSUME Inv', Custodial' PROVE Custodian(c)' = Who(db', xmit', made', c, Once')
  <2>1. (\E x \in xmit' : Find(db', x.key) = c) <=> Leading(db', xmit', c) # {}
    BY DEF Leading
  <2>2. c \in DOMAIN db'.bundle =>
           (c \in Usual(db', Once') <=> db'.bundle[c].key \notin Critical \cup Returned')
    BY <1>2 DEF Inv, Sound, DbOK, Bundle, Usual, Once
  <2>3. c \in Usual(db', Once') => c \in DOMAIN db'.bundle
    BY DEF Usual
  <2>. QED
    BY <1>2, <2>1, <2>2, <2>3 DEF Custodial, InCustody, Custodian, Who, Living
<1>. QED
  BY <1>1, <1>2

\* What may become of a bundle: it stays where it is or leaves the lists for good;
\* an adapter takes it; an adapter gives it back, or up.  An application releases
\* only what it knows of.
Shifted(d, X, e, Y, H, c) ==
    LET r == d.bundle[c]
        s == e.bundle[c]
    IN  /\ Fit(s) /\ (r.detained => s.detained \/ c \in H)
        /\ \/ /\ Leading(e, Y, c) = Leading(d, X, c)
              /\ r.in = {} => s.in = {}
              /\ s.in = {} => r.in = {} \/ s.detained
           \/ /\ r.in # {} /\ s.in = {}
              /\ \E x : Leading(e, Y, c) = {x}
           \/ /\ Leading(d, X, c) # {} /\ Leading(e, Y, c) = {}
              /\ s.in = {} => s.detained

\* A new bundle is in a list.
Arrived(e, Y, c) == Fit(e.bundle[c]) /\ e.bundle[c].in # {} /\ Leading(e, Y, c) = {}

Moved(from, to) == from = to \/ <<from, to>> \in Custody!Moves
Parties == {"none", "node", "adapter", "kept", "done"}

LEMMA ShiftsMove ==
    ASSUME NEW F, NEW d, NEW X, NEW H, NEW m \in Nat,
           NEW G, NEW e, NEW Y, NEW I, NEW n \in Nat,
           InCustody(d, X, H, F), H \subseteq I, m <= n, DOMAIN e.bundle \subseteq Int,
           \A c \in Usual(e, G) : IF c <= m THEN c \in Usual(d, F) /\ Shifted(d, X, e, Y, H, c)
                                            ELSE Arrived(e, Y, c)
    PROVE  /\ InCustody(e, Y, I, G)
           /\ \A c \in Nat : /\ Moved(Who(d, X, m, c, F), Who(e, Y, n, c, G))
                             /\ Who(e, Y, n, c, G) \in Parties
<1>1. ASSUME NEW c \in Usual(e, G), c <= m
      PROVE  /\ Fit(e.bundle[c])
             /\ Leading(e, Y, c) # {} => e.bundle[c].in = {}
             /\ e.bundle[c].in = {} => Leading(e, Y, c) # {} \/ c \in I \/ e.bundle[c].detained
             /\ \A x, y \in Leading(e, Y, c) : x = y
             /\ Moved(Who(d, X, m, c, F), Who(e, Y, n, c, G))
  <2>1. c \in Usual(d, F) /\ Shifted(d, X, e, Y, H, c)
    BY <1>1
  <2>2. /\ Leading(d, X, c) # {} => d.bundle[c].in = {}
        /\ d.bundle[c].in = {} => Leading(d, X, c) # {} \/ c \in H \/ d.bundle[c].detained
        /\ \A x, y \in Leading(d, X, c) : x = y
    BY <2>1 DEF InCustody
  <2>3. ~(c > m) /\ ~(c > n)
    <3>1. c \in Int
      BY DEF Usual
    <3>. QED
      BY <1>1, <3>1
  <2>. QED
    BY <2>1, <2>2, <2>3 DEF Shifted, Who, Moved, Custody!Moves
<1>2. ASSUME NEW c \in Usual(e, G), ~(c <= m)
      PROVE  /\ Arrived(e, Y, c)
             /\ Moved(Who(d, X, m, c, F), Who(e, Y, n, c, G))
  <2>1. Arrived(e, Y, c) /\ c \in Int
    BY <1>2 DEF Usual
  <2>2. c > m
    BY <1>2, <2>1
  <2>. QED
    BY <2>1, <2>2 DEF Arrived, Who, Moved, Custody!Moves
<1>3. InCustody(e, Y, I, G)
  BY <1>1, <1>2 DEF InCustody, Arrived
<1>4. ASSUME NEW c \in Nat, c \notin Usual(e, G)
      PROVE  Moved(Who(d, X, m, c, F), Who(e, Y, n, c, G))
  BY <1>4 DEF Who, Moved, Custody!Moves
<1>. QED
  BY <1>1, <1>2, <1>3, <1>4 DEF Who, Parties

Party == [b \in 1..MaxBundles |-> Custodian(b)]

\* A step of the agent is one of BpCustody if every bundle is shifted or arrives.
LEMMA CustodyStep ==
    ASSUME Inv, Inv', Custodial, DOMAIN held \subseteq DOMAIN held', made <= made',
           \A c \in Usual(db', Once') :
              IF c <= made
              THEN c \in Usual(db, Once) /\ Shifted(db, xmit, db', xmit', DOMAIN held, c)
              ELSE Arrived(db', xmit', c)
    PROVE  Custodial' /\ [Custody!Next]_Party
<1>1. made \in Nat /\ made' \in Nat /\ DOMAIN db'.bundle \subseteq Int /\ MaxBundles \in Nat
  BY BpAgentAssumption DEF Inv, Living
<1>2. /\ InCustody(db', xmit', DOMAIN held', Once')
      /\ \A c \in Nat : /\ Moved(Who(db, xmit, made, c, Once), Who(db', xmit', made', c, Once'))
                        /\ Who(db', xmit', made', c, Once') \in Parties
  <2>1. InCustody(db, xmit, DOMAIN held, Once)
    BY DEF Custodial
  <2>. QED
    BY <1>1, <2>1, ShiftsMove, SMTT(60)
<1>3. Custodial'
  BY <1>2 DEF Custodial
<1>4. ASSUME NEW c \in 1..MaxBundles
      PROVE  Moved(Party[c], Party'[c]) /\ Party'[c] \in Parties
  <2>1. /\ Custodian(c) = Who(db, xmit, made, c, Once)
        /\ Custodian(c)' = Who(db', xmit', made', c, Once')
    BY <1>3, WhoIsCustodian
  <2>2. Party[c] = Custodian(c) /\ Party'[c] = Custodian(c)'
    BY DEF Party
  <2>. QED
    BY <1>1, <1>2, <2>1, <2>2
<1>5. Party' = [c \in 1..MaxBundles |-> Party'[c]]
  BY DEF Party
<1>6. Party' \in [1..MaxBundles -> Parties]
  BY <1>4, <1>5
<1>7. Custody!Next <=> /\ Party' \in [1..MaxBundles -> Parties]
                       /\ \A c \in 1..MaxBundles :
                             Party'[c] # Party[c] => <<Party[c], Party'[c]>> \in Custody!Moves
  BY DEF Custody!Next, Custody!Id, Party, Parties
<1>. QED
  BY <1>3, <1>4, <1>6, <1>7 DEF Moved

-----------------------------------------------------------------------------
(* Whom the keys of the copies lead to.                                     *)

LEMMA LeadingQuiet ==
    ASSUME NEW F, NEW d, Sound(d, F), NEW e, Quiet(d, e, F), NEW c \in DOMAIN e.bundle, NEW X
    PROVE  Leading(e, X, c) = Leading(d, X, c)
<1>1. ASSUME NEW k PROVE Find(e, k) = c <=> Find(d, k) = c
  <2>1. c # 0 /\ c \in DOMAIN d.bundle /\ e.bundle[c].key = d.bundle[c].key /\ Sound(e, F)
    BY DEF Quiet, Sound, DbOK
  <2>2. ASSUME Find(d, k) = c PROVE Find(e, k) = c
    <3>1. d.bundle[c].key = k /\ d.hash[k].obj = c
      BY <2>1, <2>2, Found
    <3>2. k \in DOMAIN e.hash
      BY <2>1, <3>1 DEF Sound, HashOK
    <3>. QED
      BY <3>1, <3>2 DEF Quiet, Find
  <2>3. ASSUME Find(e, k) = c PROVE Find(d, k) = c
    BY <2>1, <2>3, FindQuiet
  <2>. QED
    BY <2>2, <2>3
<1>. QED
  BY <1>1 DEF Leading

LEMMA LeadingLeads ==
    ASSUME NEW F, NEW d, Sound(d, F), NEW e, NEW N, NEW j, Leads(d, e, N, j, F),
           NEW c \in DOMAIN e.bundle, c \notin N, e.bundle[c].key # j, NEW X
    PROVE  c \in DOMAIN d.bundle /\ Leading(e, X, c) = Leading(d, X, c)
<1>1. /\ c # 0 /\ c \in DOMAIN d.bundle /\ e.bundle[c].key = d.bundle[c].key /\ Sound(e, F)
  BY DEF Leads, Sound, DbOK
<1>2. ASSUME NEW k PROVE Find(e, k) = c <=> Find(d, k) = c
  <2>2. ASSUME Find(d, k) = c PROVE Find(e, k) = c
    <3>1. d.bundle[c].key = k /\ d.hash[k].obj = c
      BY <1>1, <2>2, Found
    <3>2. k \in DOMAIN e.hash /\ k # j
      BY <1>1, <3>1 DEF Sound, HashOK
    <3>. QED
      BY <3>1, <3>2 DEF Leads, Find
  <2>3. ASSUME Find(e, k) = c PROVE Find(d, k) = c
    <3>1. e.bundle[c].key = k /\ e.hash[k].obj = c /\ k \in DOMAIN e.hash
      BY <1>1, <2>3, Found
    <3>. QED
      BY <3>1 DEF Leads, Find
  <2>. QED
    BY <2>2, <2>3
<1>. QED
  BY <1>1, <1>2 DEF Leading

\* Bundles that are not critical stay fit; who is nowhere stays there, and who
\* leaves all lists is detained.
Followed(r, s) ==
    /\ Fit(s) /\ (r.detained => s.detained)
    /\ r.in = {} => s.in = {}
    /\ s.in = {} => r.in = {} \/ s.detained
Follows(d, e, F) == \A c \in Usual(e, F) : Followed(d.bundle[c], e.bundle[c])

LEMMA SameOnce ==
    ASSUME sent' = sent, acquired' = acquired
    PROVE  Once' = Once
BY DEF Once, Returned

\* A bundle whose stewardship an adapter has accepted is found by its key.
Stewards == \A x \in xmit : x.key \in Once /\ x.steward \in Living
                               => Find(db, x.key) = x.steward /\ x.key \notin Critical

LEMMA StewardsQuiet ==
    ASSUME Inv, Quiet(db, db', Once), Once' = Once, NEW x \in xmit, Stewards,
           x.key \in Once, x.steward \in DOMAIN db'.bundle
    PROVE  Find(db', x.key) = x.steward /\ x.key \notin Critical
<1> DEFINE b == x.steward
           k == x.key
<1>1. b \in DOMAIN db.bundle /\ db'.bundle[b].key = db.bundle[b].key /\ b # 0
      /\ Sound(db, Once) /\ Sound(db', Once)
  BY DEF Quiet, Inv, Sound, DbOK
<1>2. Find(db, k) = b /\ k \notin Critical
  BY <1>1 DEF Stewards, Living
<1> HIDE DEF b, k
<1>3. db.bundle[b].key = k /\ db.hash[k].obj = b
  BY <1>1, <1>2, Found
<1>4. k \in DOMAIN db'.hash
  BY <1>1, <1>3 DEF Sound, HashOK, Quiet, b
<1>5. Find(db', k) = b
  BY <1>3, <1>4 DEF Quiet, Find
<1>. QED
  BY <1>2, <1>5 DEF b, k

\* A bundle that comes has another key than those an adapter is the steward of.
LEMMA StewardsLeads ==
    ASSUME Inv, NEW N, NEW k, Leads(db, db', N, k, Once'), Once' \subseteq Once, xmit' = xmit,
           N = (made + 1)..made', Stewards,
           \A x \in xmit : x.key = k /\ k \in Once' => x.steward \notin Living
    PROVE  Stewards'
<1> SUFFICES ASSUME NEW x \in xmit, x.key \in Once', x.steward \in DOMAIN db'.bundle
             PROVE  Find(db', x.key) = x.steward /\ x.key \notin Critical
  BY DEF Stewards, Living
<1> DEFINE b == x.steward
           j == x.key
<1>1. b \notin N
  <2>1. b \in 0..made /\ made \in Nat
    BY BpAgentAssumption DEF Inv
  <2>. QED
    BY <2>1
<1>2. b \in DOMAIN db.bundle /\ db'.bundle[b].key = db.bundle[b].key /\ b # 0
      /\ Sound(db, Once) /\ Sound(db', Once')
  BY <1>1 DEF Leads, Inv, Sound, DbOK
<1>3. Find(db, j) = b /\ j \notin Critical /\ j # k
  BY <1>2 DEF Stewards, Living
<1> HIDE DEF b, j
<1>4. db.bundle[b].key = j /\ db.hash[j].obj = b
  BY <1>2, <1>3, Found
<1>5. j \in DOMAIN db'.hash
  BY <1>2, <1>4 DEF Sound, HashOK, b
<1>6. Find(db', j) = b
  BY <1>3, <1>4, <1>5 DEF Leads, Find
<1>. QED
  BY <1>3, <1>6 DEF b, j

\* What a step does: it upholds the invariants and is one of BpCustody.
Upheld == Custodial' /\ (Stewards => Stewards') /\ [Custody!Next]_Party

LEMMA QuietStewards ==
    ASSUME Inv, Quiet(db, db', Once), Once' = Once, xmit' \subseteq xmit
    PROVE  Stewards => Stewards'
<1> SUFFICES ASSUME Stewards, NEW x \in xmit', x.key \in Once', x.steward \in DOMAIN db'.bundle
             PROVE  Find(db', x.key) = x.steward /\ x.key \notin Critical
  BY DEF Stewards, Living
<1>. QED
  BY StewardsQuiet

LEMMA FollowsStep ==
    ASSUME Inv, Inv', Custodial, Quiet(db, db', Once), Follows(db, db', Once), Once' = Once,
           DOMAIN held \subseteq DOMAIN held', made' = made, xmit' = xmit
    PROVE  Upheld
<1>1. made \in Nat /\ made <= made' /\ \A c \in DOMAIN db'.bundle : c <= made
  BY BpAgentAssumption DEF Inv, Living
<1>2. ASSUME NEW c \in Usual(db', Once)
      PROVE  c \in Usual(db, Once) /\ Shifted(db, xmit, db', xmit', DOMAIN held, c)
  <2>1. c \in Usual(db, Once)
    BY DEF Usual, Quiet
  <2>2. Leading(db', xmit', c) = Leading(db, xmit, c)
    BY LeadingQuiet DEF Inv, Usual
  <2>. QED
    BY <2>1, <2>2 DEF Follows, Followed, Shifted
<1>3. \A c \in Usual(db', Once) : c <= made
  BY <1>1 DEF Usual
<1>. QED
  BY <1>1, <1>2, <1>3, CustodyStep, QuietStewards DEF Upheld

-----------------------------------------------------------------------------
(* What the operators of BpStore do to one bundle.                          *)

\* e has the bundles of d; of c it has another place, detention or alarm.
Turned(d, e, c, in, detained, overdue) ==
    /\ DOMAIN e.bundle = DOMAIN d.bundle /\ e.bundle[c] \in Bundle
    /\ e.bundle[c].key = d.bundle[c].key
    /\ e.bundle[c].suspended = d.bundle[c].suspended
    /\ e.bundle[c].in = in /\ e.bundle[c].detained = detained /\ e.bundle[c].overdue = overdue

LEMMA Turns ==
    ASSUME NEW d, NEW c \in DOMAIN d.bundle, d.bundle[c] \in Bundle, NEW B
    PROVE  /\ \A q \in Lists : Turned(d, Put(d, B, q), c,
                            IF c \in B THEN d.bundle[c].in \cup {q} ELSE d.bundle[c].in,
                            d.bundle[c].detained, d.bundle[c].overdue)
           /\ \A queues : Turned(d, Drop(d, B, queues), c,
                                 IF c \in B THEN d.bundle[c].in \ queues ELSE d.bundle[c].in,
                                 d.bundle[c].detained, d.bundle[c].overdue)
           /\ Turned(d, OnTime(d, B), c, d.bundle[c].in, d.bundle[c].detained,
                     c \notin B /\ d.bundle[c].overdue)
           /\ Turned(d, Undetained(d, B), c, d.bundle[c].in,
                     c \notin B /\ d.bundle[c].detained, d.bundle[c].overdue)
<1>1. d.bundle[c] \in Bundle
  OBVIOUS
<1>2. ASSUME NEW q \in Lists
      PROVE  Turned(d, Put(d, B, q), c,
                    IF c \in B THEN d.bundle[c].in \cup {q} ELSE d.bundle[c].in,
                    d.bundle[c].detained, d.bundle[c].overdue)
  BY <1>1 DEF Turned, Put, PutEach, Bundle
<1>3. ASSUME NEW queues
      PROVE  Turned(d, Drop(d, B, queues), c,
                    IF c \in B THEN d.bundle[c].in \ queues ELSE d.bundle[c].in,
                    d.bundle[c].detained, d.bundle[c].overdue)
  BY <1>1 DEF Turned, Drop, Bundle
<1>4. Turned(d, OnTime(d, B), c, d.bundle[c].in, d.bundle[c].detained,
             c \notin B /\ d.bundle[c].overdue)
  BY <1>1 DEF Turned, OnTime, Bundle
<1>5. Turned(d, Undetained(d, B), c, d.bundle[c].in,
             c \notin B /\ d.bundle[c].detained, d.bundle[c].overdue)
  BY <1>1 DEF Turned, Undetained, Bundle
<1>. QED
  BY <1>2, <1>3, <1>4, <1>5

LEMMA ForwardTurns ==
    ASSUME NEW d, NEW c \in DOMAIN d.bundle, d.bundle[c] \in Bundle, NEW B
    PROVE  Turned(d, Forward(d, B), c,
                  IF c \in B /\ d.bundle[c].in \cap Outward = {} THEN d.bundle[c].in \cup {"fwd"}
                                                                 ELSE d.bundle[c].in,
                  d.bundle[c].detained, d.bundle[c].overdue)
<1> DEFINE C == {b \in B : d.bundle[b].in \cap Outward = {}}
<1>1. c \in C <=> c \in B /\ d.bundle[c].in \cap Outward = {}
  OBVIOUS
<1>2. Forward(d, B) = Put(d, C, "fwd") /\ "fwd" \in Lists
  BY DEF Forward, Lists
<1> HIDE DEF C
<1>3. Turned(d, Put(d, C, "fwd"), c,
             IF c \in C THEN d.bundle[c].in \cup {"fwd"} ELSE d.bundle[c].in,
             d.bundle[c].detained, d.bundle[c].overdue)
  BY <1>2, Turns
<1>. QED
  BY <1>1, <1>2, <1>3

LEMMA ToLimboTurns ==
    ASSUME NEW d, NEW c \in DOMAIN d.bundle, d.bundle[c] \in Bundle,
           d.bundle[c].key \notin Critical, NEW B
    PROVE  Turned(d, ToLimbo(d, B), c,
                  IF c \in B THEN d.bundle[c].in \cup {"limbo"} ELSE d.bundle[c].in,
                  d.bundle[c].detained, d.bundle[c].overdue)
<1>1. c \in Ordinary(d, B) <=> c \in B
  BY DEF Ordinary
<1>2. ToLimbo(d, B) = Put(d, Ordinary(d, B), "limbo") /\ "limbo" \in Lists
  BY DEF ToLimbo, Lists
<1>3. Turned(d, Put(d, Ordinary(d, B), "limbo"), c,
             IF c \in Ordinary(d, B) THEN d.bundle[c].in \cup {"limbo"} ELSE d.bundle[c].in,
             d.bundle[c].detained, d.bundle[c].overdue)
  BY <1>2, Turns
<1>. QED
  BY <1>1, <1>2, <1>3

LEMMA ReforwardTurns ==
    ASSUME NEW d, NEW c \in DOMAIN d.bundle, d.bundle[c] \in Bundle, NEW B
    PROVE  /\ c \in Ordinary(d, B) =>
                 Turned(d, Reforward(d, B), c, (d.bundle[c].in \ Outward) \cup {"fwd"},
                        d.bundle[c].detained, FALSE)
           /\ c \notin Ordinary(d, B) =>
                 Turned(d, Reforward(d, B), c, d.bundle[c].in, d.bundle[c].detained,
                        d.bundle[c].overdue)
<1> DEFINE R == Ordinary(d, B)
           e == Drop(d, R, Outward)
           f == OnTime(e, R)
<1>1. Reforward(d, B) = Forward(f, R)
  BY DEF Reforward
<1> HIDE DEF R
<1>2. Turned(d, e, c, IF c \in R THEN d.bundle[c].in \ Outward ELSE d.bundle[c].in,
             d.bundle[c].detained, d.bundle[c].overdue)
  BY Turns
<1>3. c \in DOMAIN e.bundle /\ e.bundle[c] \in Bundle
  BY <1>2 DEF Turned
<1> HIDE DEF e
<1>4. Turned(e, f, c, e.bundle[c].in, e.bundle[c].detained, c \notin R /\ e.bundle[c].overdue)
  BY <1>3, Turns
<1>5. c \in DOMAIN f.bundle /\ f.bundle[c] \in Bundle
  BY <1>3, <1>4 DEF Turned
<1> HIDE DEF f
<1>6. Turned(f, Forward(f, R), c,
             IF c \in R /\ f.bundle[c].in \cap Outward = {} THEN f.bundle[c].in \cup {"fwd"}
                                                            ELSE f.bundle[c].in,
             f.bundle[c].detained, f.bundle[c].overdue)
  BY <1>5, ForwardTurns
<1>7. d.bundle[c].overdue \in BOOLEAN
  BY DEF Bundle
<1>8. ASSUME c \in R
      PROVE  Turned(d, Reforward(d, B), c, (d.bundle[c].in \ Outward) \cup {"fwd"},
                    d.bundle[c].detained, FALSE)
  BY <1>1, <1>2, <1>4, <1>6, <1>8 DEF Turned
<1>9. ASSUME c \notin R
      PROVE  Turned(d, Reforward(d, B), c, d.bundle[c].in, d.bundle[c].detained,
                    d.bundle[c].overdue)
  BY <1>1, <1>2, <1>4, <1>6, <1>7, <1>9 DEF Turned
<1>. QED
  BY <1>8, <1>9 DEF R

\* What destruction leaves of d: those that are constrained, or were not meant.
LEMMA DestroySpares ==
    ASSUME NEW d, NEW B, NEW unconditional \in BOOLEAN,
           NEW c \in DOMAIN Destroy(d, B, unconditional).bundle, d.bundle[c] \in Bundle
    PROVE  /\ c \in DOMAIN d.bundle
           /\ Destroy(d, B, unconditional).bundle[c] = d.bundle[c]
           /\ c \in B => ~unconditional /\ Constrained(d.bundle[c])
<1> DEFINE f == Drop(d, B, Lists)
           g == Undetained(f, B)
           e == IF unconditional THEN g ELSE d
           C == {b \in B : ~Constrained(e.bundle[b])}
<1>1. /\ Destroy(d, B, unconditional).bundle = [b \in DOMAIN e.bundle \ C |-> e.bundle[b]]
  BY DEF Destroy, Erase
<1>2. DOMAIN g.bundle = DOMAIN d.bundle /\ DOMAIN e.bundle = DOMAIN d.bundle
  BY DEF Undetained, Drop
<1>3. c \in DOMAIN d.bundle /\ c \notin C /\ Destroy(d, B, unconditional).bundle[c] = e.bundle[c]
  BY <1>1, <1>2
<1>4. CASE ~unconditional
  BY <1>3, <1>4
<1>5. CASE unconditional
  <2>1. c \notin B => g.bundle[c] = d.bundle[c]
    BY <1>3 DEF Undetained, Drop
  <2>2. ASSUME c \in B PROVE FALSE
    <3>1. Turned(d, f, c, d.bundle[c].in \ Lists, d.bundle[c].detained, d.bundle[c].overdue)
      BY <1>3, <2>2, Turns
    <3>2. c \in DOMAIN f.bundle /\ f.bundle[c] \in Bundle /\ f.bundle[c].in = {}
      BY <1>3, <3>1 DEF Turned, Bundle
    <3> HIDE DEF f
    <3>3. Turned(f, g, c, f.bundle[c].in, c \notin B /\ f.bundle[c].detained, f.bundle[c].overdue)
      BY <3>2, Turns
    <3>4. ~g.bundle[c].detained /\ g.bundle[c].in = {}
      BY <2>2, <3>2, <3>3 DEF Turned
    <3>. QED
      BY <1>3, <1>5, <2>2, <3>4 DEF Constrained
  <2>. QED
    BY <1>3, <1>5, <2>1, <2>2
<1>. QED
  BY <1>4, <1>5

-----------------------------------------------------------------------------
(* Bundles that move within the node.                                       *)

AllFit(d, F) == \A c \in Usual(d, F) : Fit(d.bundle[c])

LEMMA FitMeans ==
    ASSUME NEW r \in Bundle, Fit(r)
    PROVE  /\ \A q \in Outward : q \in r.in => "dlv" \notin r.in
           /\ "dlv" \in r.in => ~r.overdue
           /\ r.in = {} => ~r.overdue
<1>1. "dlv" \notin Outward /\ "dlv" \notin PlanXmit
  BY ListsOutward
<1>. QED
  BY <1>1 DEF Fit, Bundle

LEMMA InOneList ==
    ASSUME NEW F, NEW r \in Bundle, Placed(r, F), r.key \in F, Fit(r), NEW q \in Outward, q \in r.in
    PROVE  r.in = {q} /\ (q = "fwd" => ~r.overdue)
<1>1. "dlv" \notin r.in /\ "transit" \notin r.in
  BY FitMeans, ListsOutward DEF Placed
<1>2. r.in \subseteq Lists /\ Lists = Outward \cup {"transit", "dlv"}
  BY DEF Bundle, Lists, Outward, PlanXmit
<1>3. r.in = {q}
  BY <1>1, <1>2 DEF Placed
<1>. QED
  BY <1>3, BpStoreAssumption DEF Fit, PlanXmit

LEMMA SameBundles ==
    ASSUME NEW d, NEW B, NEW sendToLimbo \in BOOLEAN
    PROVE  /\ DOMAIN Forward(d, B).bundle = DOMAIN d.bundle
           /\ DOMAIN ToLimbo(d, B).bundle = DOMAIN d.bundle
           /\ DOMAIN Reforward(d, B).bundle = DOMAIN d.bundle
           /\ DOMAIN ReverseEnqueue(d, B, sendToLimbo).bundle = DOMAIN d.bundle
           /\ DOMAIN ReleaseFromLimbo(d, B).bundle = DOMAIN d.bundle
<1>1. \A e, C : /\ DOMAIN Forward(e, C).bundle = DOMAIN e.bundle
                /\ DOMAIN ToLimbo(e, C).bundle = DOMAIN e.bundle
                /\ DOMAIN OnTime(e, C).bundle = DOMAIN e.bundle
                /\ \A queues : DOMAIN Drop(e, C, queues).bundle = DOMAIN e.bundle
  BY DEF Forward, ToLimbo, Put, PutEach, OnTime, Drop
<1>2. \A e, C : DOMAIN Reforward(e, C).bundle = DOMAIN e.bundle
  BY <1>1 DEF Reforward
<1>. QED
  BY <1>1, <1>2 DEF ReverseEnqueue, ReleaseFromLimbo

\* Taken from where it was on its way out, and back in a list.
LEMMA Requeued ==
    ASSUME NEW d, NEW e, NEW c \in DOMAIN d.bundle, d.bundle[c] \in Bundle, Fit(d.bundle[c]),
           d.bundle[c].in \cap Outward # {}, NEW in \in SUBSET d.bundle[c].in, NEW q \in Outward,
           Turned(d, e, c, in \cup {q}, d.bundle[c].detained, FALSE)
    PROVE  /\ Fit(e.bundle[c]) /\ (d.bundle[c].detained => e.bundle[c].detained)
           /\ d.bundle[c].in # {} /\ e.bundle[c].in # {}
BY FitMeans, ListsOutward DEF Turned, Fit

LEMMA ReforwardFollows ==
    ASSUME NEW F, NEW d, Sound(d, F), AllFit(d, F), NEW B,
           \A c \in B \cap Usual(d, F) : d.bundle[c].in \cap Outward # {}
    PROVE  Follows(d, Reforward(d, B), F)
<1> DEFINE e == Reforward(d, B)
<1>1. DOMAIN e.bundle = DOMAIN d.bundle
  BY SameBundles
<1>2. ASSUME NEW c \in Usual(e, F)
      PROVE  /\ Fit(e.bundle[c]) /\ (d.bundle[c].detained => e.bundle[c].detained)
             /\ d.bundle[c].in = {} => e.bundle[c].in = {}
             /\ e.bundle[c].in = {} => d.bundle[c].in = {} \/ e.bundle[c].detained
  <2>1. c \in DOMAIN d.bundle /\ d.bundle[c] \in Bundle
    BY <1>1 DEF Usual, Sound, DbOK
  <2>2. \/ /\ c \in Ordinary(d, B)
           /\ Turned(d, e, c, (d.bundle[c].in \ Outward) \cup {"fwd"}, d.bundle[c].detained, FALSE)
        \/ /\ c \notin Ordinary(d, B)
           /\ Turned(d, e, c, d.bundle[c].in, d.bundle[c].detained, d.bundle[c].overdue)
    BY <2>1, ReforwardTurns
  <2> HIDE DEF e
  <2>3. c \in Usual(d, F)
    BY <2>1, <2>2 DEF Usual, Turned
  <2>4. Fit(d.bundle[c])
    BY <2>3 DEF AllFit
  <2>5. CASE c \in Ordinary(d, B)
    <3>1. d.bundle[c].in \cap Outward # {} /\ "fwd" \in Outward
          /\ d.bundle[c].in \ Outward \in SUBSET d.bundle[c].in
      BY <2>3, <2>5, ListsOutward DEF Ordinary
    <3>2. Turned(d, e, c, (d.bundle[c].in \ Outward) \cup {"fwd"}, d.bundle[c].detained, FALSE)
      BY <2>2, <2>5
    <3>. QED
      BY <2>1, <2>4, <3>1, <3>2, Requeued
  <2>6. CASE c \notin Ordinary(d, B)
    BY <2>2, <2>4, <2>6 DEF Turned, Fit
  <2>. QED
    BY <2>5, <2>6
<1>. QED
  BY <1>2 DEF Follows, Followed

LEMMA ReleaseFollows ==
    ASSUME NEW F, NEW d, Sound(d, F), AllFit(d, F), NEW B,
           \A c \in B \cap Usual(d, F) : d.bundle[c].in \cap Outward # {}
    PROVE  Follows(d, ReleaseFromLimbo(d, B), F)
<1> DEFINE free == {b \in B : ~d.bundle[b].suspended}
           e == Drop(d, free, PlanXmit)
           f == Reforward(e, free)
<1>1. ReleaseFromLimbo(d, B) = f /\ DOMAIN f.bundle = DOMAIN d.bundle /\ free \subseteq B
  BY SameBundles DEF ReleaseFromLimbo
<1> HIDE DEF free, f
<1>2. ASSUME NEW c \in Usual(f, F)
      PROVE  /\ Fit(f.bundle[c]) /\ (d.bundle[c].detained => f.bundle[c].detained)
             /\ d.bundle[c].in = {} => f.bundle[c].in = {}
             /\ f.bundle[c].in = {} => d.bundle[c].in = {} \/ f.bundle[c].detained
  <2>1. c \in DOMAIN d.bundle /\ d.bundle[c] \in Bundle
    BY <1>1 DEF Usual, Sound, DbOK
  <2>2. Turned(d, e, c, IF c \in free THEN d.bundle[c].in \ PlanXmit ELSE d.bundle[c].in,
               d.bundle[c].detained, d.bundle[c].overdue)
    BY <2>1, Turns
  <2>3. c \in DOMAIN e.bundle /\ e.bundle[c] \in Bundle
    BY <2>1, <2>2 DEF Turned
  <2> HIDE DEF e
  <2>4. \/ /\ c \in Ordinary(e, free)
           /\ Turned(e, f, c, (e.bundle[c].in \ Outward) \cup {"fwd"}, e.bundle[c].detained, FALSE)
        \/ /\ c \notin Ordinary(e, free)
           /\ Turned(e, f, c, e.bundle[c].in, e.bundle[c].detained, e.bundle[c].overdue)
    BY <2>3, ReforwardTurns DEF f
  <2>5. c \in Usual(d, F) /\ c \in Usual(e, F) /\ (c \in Ordinary(e, free) <=> c \in free)
    BY <2>1, <2>2, <2>4 DEF Usual, Turned, Ordinary
  <2>6. Fit(d.bundle[c])
    BY <2>5 DEF AllFit
  <2>7. CASE c \in free
    <3> DEFINE in == (d.bundle[c].in \ PlanXmit) \ Outward
    <3>1. d.bundle[c].in \cap Outward # {} /\ "fwd" \in Outward /\ in \in SUBSET d.bundle[c].in
      BY <1>1, <2>5, <2>7, ListsOutward
    <3>2. Turned(d, f, c, in \cup {"fwd"}, d.bundle[c].detained, FALSE)
      BY <2>2, <2>4, <2>5, <2>7 DEF Turned
    <3> HIDE DEF in
    <3>. QED
      BY <2>1, <2>6, <3>1, <3>2, Requeued
  <2>8. CASE c \notin free
    BY <2>2, <2>4, <2>5, <2>6, <2>8 DEF Turned, Fit
  <2>. QED
    BY <2>7, <2>8
<1>. QED
  BY <1>1, <1>2 DEF Follows, Followed

LEMMA BumpedFollows ==
    ASSUME NEW F, NEW d, Sound(d, F), AllFit(d, F), NEW n \in Neighbor, NEW B \in SUBSET d.list[n]
    PROVE  Follows(d, Bumped(d, n, B), F)
<1> DEFINE e == Drop(d, B, {n})
           f == Reforward(e, B)
<1>1. Bumped(d, n, B) = f /\ DOMAIN f.bundle = DOMAIN d.bundle
  <2>1. DOMAIN e.bundle = DOMAIN d.bundle
    BY DEF Drop
  <2>2. Bumped(d, n, B) = f
    BY DEF Bumped
  <2> HIDE DEF e
  <2>3. DOMAIN f.bundle = DOMAIN e.bundle
    BY SameBundles
  <2>. QED
    BY <2>1, <2>2, <2>3
<1>a. n \in Outward /\ n \in Outward \cup {"dlv"}
  BY ListsOutward
<1>0. \A c \in B : n \in d.bundle[c].in
  BY <1>a, ListedMovable
<1> HIDE DEF f
<1>2. ASSUME NEW c \in Usual(f, F)
      PROVE  /\ Fit(f.bundle[c]) /\ (d.bundle[c].detained => f.bundle[c].detained)
             /\ d.bundle[c].in = {} => f.bundle[c].in = {}
             /\ f.bundle[c].in = {} => d.bundle[c].in = {} \/ f.bundle[c].detained
  <2>1. c \in DOMAIN d.bundle /\ d.bundle[c] \in Bundle
    BY <1>1 DEF Usual, Sound, DbOK
  <2>2. Turned(d, e, c, IF c \in B THEN d.bundle[c].in \ {n} ELSE d.bundle[c].in,
               d.bundle[c].detained, d.bundle[c].overdue)
    BY <2>1, Turns
  <2>3. c \in DOMAIN e.bundle /\ e.bundle[c] \in Bundle
    BY <2>1, <2>2 DEF Turned
  <2> HIDE DEF e
  <2>4. \/ /\ c \in Ordinary(e, B)
           /\ Turned(e, f, c, (e.bundle[c].in \ Outward) \cup {"fwd"}, e.bundle[c].detained, FALSE)
        \/ /\ c \notin Ordinary(e, B)
           /\ Turned(e, f, c, e.bundle[c].in, e.bundle[c].detained, e.bundle[c].overdue)
    BY <2>3, ReforwardTurns DEF f
  <2>5. c \in Usual(d, F) /\ c \in Usual(e, F) /\ (c \in Ordinary(e, B) <=> c \in B)
    BY <2>1, <2>2, <2>4 DEF Usual, Turned, Ordinary
  <2>6. Fit(d.bundle[c])
    BY <2>5 DEF AllFit
  <2>7. CASE c \in B
    <3> DEFINE in == (d.bundle[c].in \ {n}) \ Outward
    <3>1. d.bundle[c].in \cap Outward # {} /\ "fwd" \in Outward /\ in \in SUBSET d.bundle[c].in
      BY <1>a, <1>0, <2>7, ListsOutward
    <3>2. Turned(d, f, c, in \cup {"fwd"}, d.bundle[c].detained, FALSE)
      BY <2>2, <2>4, <2>5, <2>7 DEF Turned
    <3> HIDE DEF in
    <3>. QED
      BY <2>1, <2>6, <3>1, <3>2, Requeued
  <2>8. CASE c \notin B
    BY <2>2, <2>4, <2>5, <2>6, <2>8 DEF Turned, Fit
  <2>. QED
    BY <2>7, <2>8
<1>. QED
  BY <1>1, <1>2 DEF Follows, Followed

LEMMA ReverseFollows ==
    ASSUME NEW F, NEW d, Sound(d, F), AllFit(d, F), NEW sendToLimbo \in BOOLEAN, NEW B,
           \A c \in B \cap Usual(d, F) : d.bundle[c].in \cap Neighbor # {}
    PROVE  Follows(d, ReverseEnqueue(d, B, sendToLimbo), F)
<1> DEFINE e == Drop(d, B, Neighbor)
           R == Ordinary(d, B)
           o == OnTime(e, R)
           f == ReverseEnqueue(d, B, sendToLimbo)
<1>1. f = (IF sendToLimbo THEN ToLimbo(o, R) ELSE Reforward(e, R))
      /\ DOMAIN f.bundle = DOMAIN d.bundle
  BY SameBundles DEF ReverseEnqueue
<1> HIDE DEF f
<1>2. ASSUME NEW c \in Usual(f, F)
      PROVE  /\ Fit(f.bundle[c]) /\ (d.bundle[c].detained => f.bundle[c].detained)
             /\ d.bundle[c].in = {} => f.bundle[c].in = {}
             /\ f.bundle[c].in = {} => d.bundle[c].in = {} \/ f.bundle[c].detained
  <2>1. c \in DOMAIN d.bundle /\ d.bundle[c] \in Bundle
    BY <1>1 DEF Usual, Sound, DbOK
  <2>a. c \in R <=> c \in B /\ d.bundle[c].key \notin Critical
    BY DEF Ordinary
  <2> HIDE DEF R
  <2>2. Turned(d, e, c, IF c \in B THEN d.bundle[c].in \ Neighbor ELSE d.bundle[c].in,
               d.bundle[c].detained, d.bundle[c].overdue)
    BY <2>1, Turns
  <2>3. c \in DOMAIN e.bundle /\ e.bundle[c] \in Bundle /\ e.bundle[c].key = d.bundle[c].key
    BY <2>1, <2>2 DEF Turned
  <2> HIDE DEF e
  <2>4. Turned(e, o, c, e.bundle[c].in, e.bundle[c].detained, c \notin R /\ e.bundle[c].overdue)
    BY <2>3, Turns
  <2>5. c \in DOMAIN o.bundle /\ o.bundle[c] \in Bundle /\ o.bundle[c].key = d.bundle[c].key
    BY <2>3, <2>4 DEF Turned
  <2> HIDE DEF o
  <2>6. \/ /\ c \in Ordinary(e, R)
           /\ Turned(e, Reforward(e, R), c, (e.bundle[c].in \ Outward) \cup {"fwd"},
                     e.bundle[c].detained, FALSE)
        \/ /\ c \notin Ordinary(e, R)
           /\ Turned(e, Reforward(e, R), c, e.bundle[c].in, e.bundle[c].detained,
                     e.bundle[c].overdue)
    BY <2>3, ReforwardTurns
  <2>7. c \in Ordinary(e, R) <=> c \in R
    BY <2>3, <2>a DEF Ordinary
  <2>8. d.bundle[c].key \notin Critical => Turned(o, ToLimbo(o, R), c,
               IF c \in R THEN o.bundle[c].in \cup {"limbo"} ELSE o.bundle[c].in,
               o.bundle[c].detained, o.bundle[c].overdue)
    BY <2>5, ToLimboTurns
  <2>9. f.bundle[c].key = d.bundle[c].key
    <3>1. CASE ~sendToLimbo
      BY <1>1, <2>3, <2>6, <3>1 DEF Turned
    <3>2. CASE sendToLimbo
      <4>1. ToLimbo(o, R) = Put(o, Ordinary(o, R), "limbo") /\ "limbo" \in Lists
        BY DEF ToLimbo, Lists
      <4>2. Turned(o, Put(o, Ordinary(o, R), "limbo"), c,
                   IF c \in Ordinary(o, R) THEN o.bundle[c].in \cup {"limbo"} ELSE o.bundle[c].in,
                   o.bundle[c].detained, o.bundle[c].overdue)
        <5> DEFINE S == Ordinary(o, R)
        <5> HIDE DEF S
        <5>. QED
          BY <2>5, <4>1, Turns DEF S
      <4>. QED
        BY <1>1, <2>5, <3>2, <4>1, <4>2 DEF Turned
    <3>. QED
      BY <3>1, <3>2
  <2>10. c \in Usual(d, F) /\ d.bundle[c].key \notin Critical
    BY <2>1, <2>9 DEF Usual
  <2>11. Fit(d.bundle[c])
    BY <2>10 DEF AllFit
  <2>12. CASE c \in B
    <3>1. d.bundle[c].in \cap Neighbor # {} /\ Neighbor \subseteq Outward /\ {"fwd", "limbo"} \subseteq Outward
      BY <2>10, <2>12, ListsOutward
    <3>2. CASE sendToLimbo
      <4> DEFINE in == d.bundle[c].in \ Neighbor
      <4>1. Turned(d, f, c, in \cup {"limbo"}, d.bundle[c].detained, FALSE)
        BY <1>1, <2>a, <2>2, <2>4, <2>8, <2>10, <2>12, <3>2 DEF Turned
      <4>2. in \in SUBSET d.bundle[c].in /\ d.bundle[c].in \cap Outward # {}
        BY <3>1
      <4> HIDE DEF in
      <4>. QED
        BY <2>1, <2>11, <3>1, <4>1, <4>2, Requeued
    <3>3. CASE ~sendToLimbo
      <4> DEFINE in == (d.bundle[c].in \ Neighbor) \ Outward
      <4>1. Turned(d, f, c, in \cup {"fwd"}, d.bundle[c].detained, FALSE)
        BY <1>1, <2>a, <2>2, <2>6, <2>7, <2>10, <2>12, <3>3 DEF Turned
      <4>2. in \in SUBSET d.bundle[c].in /\ d.bundle[c].in \cap Outward # {}
        BY <3>1
      <4> HIDE DEF in
      <4>. QED
        BY <2>1, <2>11, <3>1, <4>1, <4>2, Requeued
    <3>. QED
      BY <3>2, <3>3
  <2>13. CASE c \notin B
    <3>1. d.bundle[c].overdue \in BOOLEAN
      BY <2>1 DEF Bundle
    <3>2. Turned(d, f, c, d.bundle[c].in, d.bundle[c].detained, d.bundle[c].overdue)
      BY <1>1, <2>a, <2>2, <2>4, <2>6, <2>7, <2>8, <2>10, <2>13, <3>1 DEF Turned
    <3>. QED
      BY <2>11, <3>2 DEF Turned, Fit
  <2>. QED
    BY <2>12, <2>13
<1>. QED
  BY <1>2 DEF Follows, Followed, f

LEMMA DestroyFollows ==
    ASSUME NEW F, NEW d, Sound(d, F), AllFit(d, F), NEW B, NEW unconditional \in BOOLEAN
    PROVE  Follows(d, Destroy(d, B, unconditional), F)
<1> DEFINE e == Destroy(d, B, unconditional)
<1>1. DOMAIN e.bundle \subseteq DOMAIN d.bundle
  BY DEF Destroy, Erase, Undetained, Drop
<1>2. ASSUME NEW c \in Usual(e, F)
      PROVE  c \in Usual(d, F) /\ e.bundle[c] = d.bundle[c]
  <2>1. c \in DOMAIN e.bundle /\ d.bundle[c] \in Bundle
    BY <1>1 DEF Usual, Sound, DbOK
  <2>. QED
    BY <2>1, DestroySpares DEF Usual
<1>. QED
  BY <1>2 DEF Follows, Followed, AllFit

\* Those that have followed are spared, or gone.
LEMMA DestroyFollowsOn ==
    ASSUME NEW F, NEW d, NEW e, Sound(e, F), Follows(d, e, F), NEW B
    PROVE  Follows(d, Destroy(e, B, TRUE), F)
<1> DEFINE f == Destroy(e, B, TRUE)
<1>1. DOMAIN f.bundle \subseteq DOMAIN e.bundle
  BY DEF Destroy, Erase, Undetained, Drop
<1>2. ASSUME NEW c \in Usual(f, F)
      PROVE  c \in Usual(e, F) /\ f.bundle[c] = e.bundle[c]
  <2>1. c \in DOMAIN f.bundle /\ e.bundle[c] \in Bundle
    BY <1>1 DEF Usual, Sound, DbOK
  <2>2. c \in DOMAIN e.bundle /\ f.bundle[c] = e.bundle[c]
    <3> DEFINE u == TRUE
    <3>1. u \in BOOLEAN /\ f = Destroy(e, B, u)
      OBVIOUS
    <3> HIDE DEF u, f
    <3>. QED
      BY <2>1, <3>1, DestroySpares
  <2>. QED
    BY <2>2 DEF Usual
<1>. QED
  BY <1>2 DEF Follows, Followed

-----------------------------------------------------------------------------
(* One bundle moves.                                                        *)

LEMMA CustodialFit ==
    ASSUME Custodial
    PROVE  AllFit(db, Once)
BY DEF Custodial, InCustody, AllFit

\* Nothing happens to the others when an operator is applied to b alone.
LEMMA OthersStay ==
    ASSUME NEW d, NEW b, NEW c \in DOMAIN d.bundle, c # b
    PROVE  /\ OnTime(d, {b}).bundle[c] = d.bundle[c]
           /\ Undetained(d, {b}).bundle[c] = d.bundle[c]
           /\ Forward(d, {b}).bundle[c] = d.bundle[c]
           /\ ToLimbo(d, {b}).bundle[c] = d.bundle[c]
           /\ Reforward(d, {b}).bundle[c] = d.bundle[c]
           /\ \A u \in BOOLEAN : c \in DOMAIN Destroy(d, {b}, u).bundle =>
                 Destroy(d, {b}, u).bundle[c] = d.bundle[c]
<1>1. ASSUME NEW e, c \in DOMAIN e.bundle, NEW B \in SUBSET {b}
      PROVE  /\ \A q : /\ c \in DOMAIN Put(e, B, q).bundle
                       /\ Put(e, B, q).bundle[c] = e.bundle[c]
             /\ \A queues : /\ c \in DOMAIN Drop(e, B, queues).bundle
                            /\ Drop(e, B, queues).bundle[c] = e.bundle[c]
             /\ c \in DOMAIN OnTime(e, B).bundle /\ OnTime(e, B).bundle[c] = e.bundle[c]
             /\ Undetained(e, B).bundle[c] = e.bundle[c]
             /\ Forward(e, B).bundle[c] = e.bundle[c]
  <2>1. c \notin B
    OBVIOUS
  <2>2. ASSUME NEW S, c \notin S
        PROVE  \A q : /\ c \in DOMAIN Put(e, S, q).bundle
                      /\ Put(e, S, q).bundle[c] = e.bundle[c]
    BY <1>1, <2>2 DEF Put, PutEach
  <2>3. Forward(e, B).bundle[c] = e.bundle[c]
    BY <2>1, <2>2 DEF Forward
  <2>. QED
    BY <1>1, <2>1, <2>2, <2>3 DEF Drop, OnTime, Undetained
<1>2. Ordinary(d, {b}) \in SUBSET {b}
  BY DEF Ordinary
<1>3. ToLimbo(d, {b}).bundle[c] = d.bundle[c]
  BY <1>1, <1>2 DEF ToLimbo
<1>4. Reforward(d, {b}).bundle[c] = d.bundle[c]
  <2> DEFINE R == Ordinary(d, {b})
             e == Drop(d, R, Outward)
             f == OnTime(e, R)
  <2> HIDE DEF R
  <2>1. R \in SUBSET {b}
    BY <1>2 DEF R
  <2>2. c \in DOMAIN e.bundle /\ e.bundle[c] = d.bundle[c]
    BY <1>1, <2>1
  <2> HIDE DEF e
  <2>3. c \in DOMAIN f.bundle /\ f.bundle[c] = e.bundle[c]
    BY <1>1, <2>1, <2>2
  <2> HIDE DEF f
  <2>4. Forward(f, R).bundle[c] = f.bundle[c]
    BY <1>1, <2>1, <2>3
  <2>. QED
    BY <2>2, <2>3, <2>4 DEF Reforward, R, e, f
<1>5. /\ \A q : Put(d, {b}, q).bundle[c] = d.bundle[c]
      /\ \A queues : /\ c \in DOMAIN Drop(d, {b}, queues).bundle
                     /\ Drop(d, {b}, queues).bundle[c] = d.bundle[c]
      /\ OnTime(d, {b}).bundle[c] = d.bundle[c]
      /\ Undetained(d, {b}).bundle[c] = d.bundle[c]
      /\ Forward(d, {b}).bundle[c] = d.bundle[c]
  <2> DEFINE B == {b}
  <2>1. B \in SUBSET {b}
    OBVIOUS
  <2> HIDE DEF B
  <2>. QED
    BY <1>1, <2>1 DEF B
<1>6. ASSUME NEW u \in BOOLEAN, c \in DOMAIN Destroy(d, {b}, u).bundle
      PROVE  Destroy(d, {b}, u).bundle[c] = d.bundle[c]
  <2> DEFINE f == Drop(d, {b}, Lists)
             g == Undetained(f, {b})
             e == IF u THEN g ELSE d
  <2>1. c \in DOMAIN f.bundle /\ f.bundle[c] = d.bundle[c]
    BY <1>5
  <2> HIDE DEF f
  <2>2. g.bundle[c] = f.bundle[c]
    <3>1. {b} \in SUBSET {b}
      OBVIOUS
    <3>. QED
      BY <1>1, <2>1, <3>1
  <2> HIDE DEF g
  <2>3. e.bundle[c] = d.bundle[c]
    BY <2>1, <2>2
  <2>4. Destroy(d, {b}, u).bundle[c] = e.bundle[c]
    BY <1>6 DEF Destroy, Erase, e, f, g
  <2>. QED
    BY <2>3, <2>4
<1>. QED
  BY <1>3, <1>4, <1>6, <1>5

LEMMA OneFollows ==
    ASSUME NEW F, NEW d, AllFit(d, F), NEW b, NEW e, DOMAIN e.bundle \subseteq DOMAIN d.bundle,
           \A c \in DOMAIN e.bundle : c # b => e.bundle[c] = d.bundle[c],
           b \in Usual(e, F) => Followed(d.bundle[b], e.bundle[b])
    PROVE  Follows(d, e, F)
<1>1. ASSUME NEW c \in Usual(e, F), c # b PROVE Followed(d.bundle[c], e.bundle[c])
  <2>1. e.bundle[c] = d.bundle[c] /\ c \in Usual(d, F)
    BY <1>1 DEF Usual
  <2>. QED
    BY <2>1 DEF Followed, AllFit
<1>. QED
  BY <1>1 DEF Follows

LEMMA MovedTo ==
    ASSUME NEW d, NEW e, NEW b, NEW q \in Outward, NEW overdue,
           Turned(d, e, b, {q}, d.bundle[b].detained, overdue), d.bundle[b].in # {},
           overdue => q # "fwd"
    PROVE  Followed(d.bundle[b], e.bundle[b])
<1>1. q # "dlv" /\ (q # "fwd" => q \in PlanXmit \cup {"duct"})
  BY ListsOutward DEF Outward
<1>. QED
  BY <1>1 DEF Turned, Followed, Fit

\* One taken from its only list is destroyed unless it is detained.
LEMMA LeftTo ==
    ASSUME NEW d, NEW f, NEW b \in DOMAIN f.bundle, Turned(d, f, b, {}, d.bundle[b].detained, FALSE),
           d.bundle[b].in # {}, b \in DOMAIN Destroy(f, {b}, FALSE).bundle
    PROVE  Followed(d.bundle[b], Destroy(f, {b}, FALSE).bundle[b])
<1> DEFINE u == FALSE
           B == {b}
<1>1. u \in BOOLEAN /\ b \in B /\ f.bundle[b] \in Bundle
  BY DEF Turned
<1>2. ~u
  OBVIOUS
<1> HIDE DEF u, B
<1>3. b \in DOMAIN Destroy(f, B, u).bundle
  BY DEF u, B
<1>4. Destroy(f, B, u).bundle[b] = f.bundle[b] /\ Constrained(f.bundle[b])
  BY <1>1, <1>3, DestroySpares
<1>5. Destroy(f, {b}, FALSE).bundle[b] = f.bundle[b] /\ f.bundle[b].detained
  BY <1>4 DEF u, B, Turned, Constrained
<1>. QED
  BY <1>5 DEF Turned, Followed, Fit

LEMMA UsualQuiet ==
    ASSUME NEW F, NEW d, Sound(d, F), AllFit(d, F), NEW e, Quiet(d, e, F), NEW c \in Usual(e, F)
    PROVE  /\ c \in Usual(d, F) /\ c \in DOMAIN d.bundle /\ d.bundle[c].key \notin Critical
           /\ d.bundle[c].key \in F /\ d.bundle[c] \in Bundle
           /\ Placed(d.bundle[c], F) /\ Fit(d.bundle[c])
<1>1. c \in DOMAIN d.bundle /\ d.bundle[c].key = e.bundle[c].key
  BY DEF Usual, Quiet
<1>. QED
  BY <1>1 DEF Usual, AllFit, Sound, DbOK

\* b is in q only, and is taken from it.
LEMMA TakenOne ==
    ASSUME NEW F, NEW d, Sound(d, F), NEW b \in DOMAIN d.bundle, d.bundle[b] \in Bundle, NEW q,
           d.bundle[b].in = {q}
    PROVE  /\ Turned(d, Drop(d, {b}, {q}), b, {}, d.bundle[b].detained, d.bundle[b].overdue)
           /\ b \in DOMAIN Drop(d, {b}, {q}).bundle /\ Drop(d, {b}, {q}).bundle[b] \in Bundle
           /\ d.bundle[b].in # {}
<1> DEFINE B == {b}
           Q == {q}
<1>1. b \in B /\ d.bundle[b].in \ Q = {}
  OBVIOUS
<1> HIDE DEF B, Q
<1>2. Turned(d, Drop(d, B, Q), b, IF b \in B THEN d.bundle[b].in \ Q ELSE d.bundle[b].in,
             d.bundle[b].detained, d.bundle[b].overdue)
  BY Turns
<1>3. Turned(d, Drop(d, B, Q), b, {}, d.bundle[b].detained, d.bundle[b].overdue)
  BY <1>1, <1>2
<1>. QED
  BY <1>3 DEF Turned, B, Q

-----------------------------------------------------------------------------
(* The operations that leave the reports of the adapters alone.             *)

LEMMA TransitFollows ==
    ASSUME Inv, Custodial, NEW b, Transit(b)
    PROVE  Follows(db, db', Once)
<1> DEFINE f == Drop(db, {b}, {"transit"})
<1>1. /\ Sound(db, Once) /\ AllFit(db, Once) /\ Quiet(db, db', Once)
      /\ b \in db.list["transit"] /\ b \in DOMAIN db.bundle /\ db' = Forward(f, {b})
  BY TransitQuiet, CustodialFit DEF Inv, Transit, Living
<1>2. ASSUME b \in Usual(db', Once)
      PROVE  db.bundle[b] \in Bundle /\ db.bundle[b].in = {"transit"} /\ ~db.bundle[b].overdue
  <2>1. db.bundle[b].key \in Once /\ db.bundle[b] \in Bundle /\ Placed(db.bundle[b], Once)
    BY <1>1, <1>2, UsualQuiet
  <2>2. "transit" \in db.bundle[b].in
    <3>1. "transit" \in Lists /\ db.list = Referring(db, db.bundle)
      BY <1>1 DEF Sound, Lists
    <3>. QED
      BY <1>1, <3>1 DEF Referring
  <2>. QED
    BY <2>1, <2>2 DEF Placed
<1>3. ASSUME b \in Usual(db', Once)
      PROVE  /\ Turned(db, f, b, {}, db.bundle[b].detained, db.bundle[b].overdue)
             /\ b \in DOMAIN f.bundle /\ f.bundle[b] \in Bundle /\ db.bundle[b].in # {}
  BY <1>1, <1>2, <1>3, TakenOne
<1>4. DOMAIN f.bundle = DOMAIN db.bundle /\ DOMAIN db'.bundle \subseteq DOMAIN db.bundle
  BY <1>1 DEF Drop, Quiet
<1>5. ASSUME NEW c \in DOMAIN db.bundle, c # b PROVE f.bundle[c] = db.bundle[c]
  BY <1>5 DEF Drop
<1> HIDE DEF f
<1>6. ASSUME NEW c \in DOMAIN db'.bundle, c # b PROVE db'.bundle[c] = db.bundle[c]
  <2>1. c \in DOMAIN db.bundle /\ c \in DOMAIN f.bundle
    BY <1>4
  <2>2. Forward(f, {b}).bundle[c] = f.bundle[c]
    BY <1>6, <2>1, OthersStay, Zenon
  <2>. QED
    BY <1>1, <1>5, <1>6, <2>1, <2>2
<1>7. ASSUME b \in Usual(db', Once) PROVE Followed(db.bundle[b], db'.bundle[b])
  <2>1. Turned(f, db', b,
               IF b \in {b} /\ f.bundle[b].in \cap Outward = {} THEN f.bundle[b].in \cup {"fwd"}
                                                                ELSE f.bundle[b].in,
               f.bundle[b].detained, f.bundle[b].overdue)
    BY <1>1, <1>3, <1>7, ForwardTurns
  <2> DEFINE q == "fwd"
  <2>2. Turned(db, db', b, {q}, db.bundle[b].detained, db.bundle[b].overdue)
    BY <1>3, <1>7, <2>1 DEF Turned
  <2>3. q \in Outward /\ db.bundle[b].in # {} /\ (db.bundle[b].overdue => q # "fwd")
    BY <1>2, <1>3, <1>7, ListsOutward
  <2> HIDE DEF q
  <2>. QED
    BY <2>2, <2>3, MovedTo, Zenon
<1>8. /\ \A c \in DOMAIN db'.bundle : c # b => db'.bundle[c] = db.bundle[c]
      /\ b \in Usual(db', Once) => Followed(db.bundle[b], db'.bundle[b])
      /\ DOMAIN db'.bundle \subseteq DOMAIN db.bundle /\ AllFit(db, Once)
  BY <1>1, <1>4, <1>6, <1>7
<1>. QED
  BY <1>8, OneFollows

\* What ipnfw may make of b.
Onward(e, b) == Unrouted(e, b) \cup {Routed(e, b, n) : n \in Neighbor}

LEMMA OnwardElsewhere ==
    ASSUME NEW e, NEW b \in DOMAIN e.bundle, NEW g \in Onward(e, b), NEW c \in DOMAIN g.bundle, c # b,
           DOMAIN g.bundle \subseteq DOMAIN e.bundle
    PROVE  g.bundle[c] = e.bundle[c]
<1>1. c \in DOMAIN e.bundle
  OBVIOUS
<1>2. \A q : Put(e, {b}, q).bundle[c] = e.bundle[c]
  BY <1>1 DEF Put, PutEach
<1>3. Forward(e, {b}).bundle[c] = e.bundle[c] /\ ToLimbo(e, {b}).bundle[c] = e.bundle[c]
  BY <1>1, OthersStay, Zenon
<1>4. ASSUME g = Destroy(e, {b}, FALSE) PROVE g.bundle[c] = e.bundle[c]
  <2> DEFINE u == FALSE
  <2>1. u \in BOOLEAN /\ c \in DOMAIN Destroy(e, {b}, u).bundle
    BY <1>4
  <2> HIDE DEF u
  <2>2. Destroy(e, {b}, u).bundle[c] = e.bundle[c]
    BY <1>1, <2>1, OthersStay, Zenon
  <2>. QED
    BY <1>4, <2>2 DEF u
<1>5. ASSUME NEW n \in Neighbor, g = Routed(e, b, n) PROVE g.bundle[c] = e.bundle[c]
  <2> DEFINE p == Put(e, {b}, n)
             v == TRUE
             r == [p.bundle EXCEPT ![b] = [@ EXCEPT !.overdue = v]]
  <2>1. p = [bundle |-> p.bundle, list |-> p.list, hash |-> p.hash] /\ c \in DOMAIN p.bundle
    BY <1>1 DEF Put, PutEach
  <2>2. g = [p EXCEPT !.bundle[b].overdue = v]
    BY <1>5, Zenon DEF Routed
  <2>3. p.bundle[c] = e.bundle[c]
    BY <1>2
  <2> HIDE DEF p, v
  <2>4. g = [bundle |-> r, list |-> p.list, hash |-> p.hash]
    BY <2>1, <2>2, OverdueMark, Zenon
  <2>. QED
    BY <2>1, <2>3, <2>4
<1>. QED
  BY <1>2, <1>3, <1>4, <1>5 DEF Onward, Unrouted

\* b is in a list now, or detained.
Settled(e, g, b) ==
    /\ Fit(g.bundle[b]) /\ g.bundle[b].detained = e.bundle[b].detained
    /\ g.bundle[b].in = {} => g.bundle[b].detained

LEMMA OnwardSettles ==
    ASSUME NEW e, NEW b \in DOMAIN e.bundle, e.bundle[b] \in Bundle, e.bundle[b].key \notin Critical,
           e.bundle[b].in = {}, ~e.bundle[b].overdue, NEW g \in Onward(e, b), b \in DOMAIN g.bundle
    PROVE  Settled(e, g, b)
<1> DEFINE B == {b}
<1>0. b \in B
  OBVIOUS
<1> HIDE DEF B
<1>1. ASSUME NEW q \in Outward, q # "fwd"
      PROVE  /\ Settled(e, Put(e, B, q), b)
             /\ Turned(e, Put(e, B, q), b, {q}, e.bundle[b].detained, e.bundle[b].overdue)
  <2>1. Turned(e, Put(e, B, q), b, IF b \in B THEN e.bundle[b].in \cup {q} ELSE e.bundle[b].in,
               e.bundle[b].detained, e.bundle[b].overdue)
    BY <1>1, Turns, ListsOutward
  <2>2. Turned(e, Put(e, B, q), b, {q}, e.bundle[b].detained, e.bundle[b].overdue)
    BY <1>0, <2>1
  <2>4. q # "dlv"
    BY <1>1, ListsOutward
  <2>. QED
    BY <2>2, <2>4 DEF Settled, Turned, Fit
<1>2. Settled(e, Forward(e, B), b)
  <2>1. Turned(e, Forward(e, B), b,
               IF b \in B /\ e.bundle[b].in \cap Outward = {} THEN e.bundle[b].in \cup {"fwd"}
                                                              ELSE e.bundle[b].in,
               e.bundle[b].detained, e.bundle[b].overdue)
    BY ForwardTurns
  <2>. QED
    BY <1>0, <2>1 DEF Settled, Turned, Fit
<1>3. Settled(e, ToLimbo(e, B), b)
  <2>1. Turned(e, ToLimbo(e, B), b,
               IF b \in B THEN e.bundle[b].in \cup {"limbo"} ELSE e.bundle[b].in,
               e.bundle[b].detained, e.bundle[b].overdue)
    BY ToLimboTurns
  <2>. QED
    BY <1>0, <2>1 DEF Settled, Turned, Fit
<1>4. ASSUME NEW u \in BOOLEAN, ~u, b \in DOMAIN Destroy(e, B, u).bundle
      PROVE  Settled(e, Destroy(e, B, u), b)
  <2>1. Destroy(e, B, u).bundle[b] = e.bundle[b] /\ Constrained(e.bundle[b])
    BY <1>0, <1>4, DestroySpares
  <2>. QED
    BY <2>1 DEF Settled, Constrained, Fit
<1>5. ASSUME NEW n \in Neighbor PROVE Settled(e, Routed(e, b, n), b)
  <2> DEFINE p == Put(e, B, n)
             v == TRUE
             r == [p.bundle EXCEPT ![b] = [@ EXCEPT !.overdue = v]]
  <2>1. n \in Outward /\ n # "fwd" /\ n \in PlanXmit /\ n # "dlv"
    BY BpStoreAssumption, ListsOutward
  <2>2. Settled(e, p, b) /\ Turned(e, p, b, {n}, e.bundle[b].detained, e.bundle[b].overdue)
    BY <1>1, <2>1
  <2>3. p = [bundle |-> p.bundle, list |-> p.list, hash |-> p.hash]
    BY DEF Put, PutEach
  <2>4. Routed(e, b, n) = [p EXCEPT !.bundle[b].overdue = v]
    BY Zenon DEF Routed, B
  <2> HIDE DEF p, v
  <2>5. Routed(e, b, n) = [bundle |-> r, list |-> p.list, hash |-> p.hash]
    BY <2>3, <2>4, OverdueMark, Zenon
  <2>6. /\ r[b].in = p.bundle[b].in /\ r[b].detained = p.bundle[b].detained
    BY <2>2 DEF Turned, Bundle
  <2> HIDE DEF r
  <2>7. Fit(r[b]) /\ r[b].in = {n} /\ r[b].detained = e.bundle[b].detained
    BY <2>1, <2>2, <2>6 DEF Turned, Fit
  <2>. QED
    BY <2>5, <2>7 DEF Settled
<1>6. \/ \E m \in Neighbor : g = Put(e, B, m)
      \/ g \in {Forward(e, B), ToLimbo(e, B), Destroy(e, B, FALSE)}
      \/ \E n \in Neighbor : g = Routed(e, b, n)
  BY DEF Onward, Unrouted, B
<1>7. \A m \in Neighbor : Settled(e, Put(e, B, m), b)
  <2>1. \A m \in Neighbor : m \in Outward /\ m # "fwd"
    BY BpStoreAssumption, ListsOutward
  <2>. QED
    BY <1>1, <2>1
<1>8. g = Destroy(e, B, FALSE) => Settled(e, g, b)
  <2> DEFINE u == FALSE
  <2>1. u \in BOOLEAN /\ ~u
    OBVIOUS
  <2> HIDE DEF u
  <2>2. g = Destroy(e, B, u) => Settled(e, g, b)
    BY <1>4, <2>1
  <2>. QED
    BY <2>2 DEF u
<1>. QED
  BY <1>2, <1>3, <1>5, <1>6, <1>7, <1>8

\* What ipnfw makes of b and of those it bumps, before it clones b.
LEMMA OrdinaryFollows ==
    ASSUME Inv, Custodial, NEW b, ForwardOrdinary(b)
    PROVE  \E g : /\ Quiet(db, g, Once) /\ Follows(db, g, Once)
                  /\ \/ db' = g /\ made' = made
                     \/ /\ b \in DOMAIN g.bundle /\ made < MaxBundles /\ made' = made + 1
                        /\ db' = ToLimbo(Clone(g, b, {made + 1}), {made + 1})
<1> DEFINE d == Drop(db, {b}, {"fwd"})
<1>1. /\ Sound(db, Once) /\ AllFit(db, Once) /\ b \in db.list["fwd"] /\ {b} \in SUBSET db.list["fwd"]
      /\ db.bundle[b].key \notin Critical
  BY CustodialFit DEF Inv, ForwardOrdinary
<1>2. Quiet(db, d, Once) /\ Parked(d, {b}, Once) /\ Sound(d, Once)
  BY <1>1, Taken, ListsOutward
<1>3. b \in DOMAIN db.bundle /\ db.bundle[b] \in Bundle /\ "fwd" \in db.bundle[b].in
  BY <1>1, Listed, ListsOutward DEF Sound, DbOK
<1>4. ASSUME db.bundle[b].key \in Once
      PROVE  /\ Turned(db, d, b, {}, db.bundle[b].detained, FALSE)
             /\ b \in DOMAIN d.bundle /\ d.bundle[b] \in Bundle /\ db.bundle[b].in # {}
             /\ d.bundle[b].in = {} /\ ~d.bundle[b].overdue /\ d.bundle[b].key \notin Critical
  <2>1. Placed(db.bundle[b], Once) /\ Fit(db.bundle[b])
    BY <1>1, <1>3, <1>4 DEF Sound, DbOK, AllFit, Usual
  <2>2. db.bundle[b].in = {"fwd"} /\ db.bundle[b].overdue = FALSE
    <3>1. db.bundle[b].in = {"fwd"} /\ ~db.bundle[b].overdue
      BY <1>3, <1>4, <2>1, InOneList, ListsOutward
    <3>. QED
      BY <1>3, <3>1 DEF Bundle
  <2>3. /\ Turned(db, d, b, {}, db.bundle[b].detained, db.bundle[b].overdue)
        /\ b \in DOMAIN d.bundle /\ d.bundle[b] \in Bundle /\ db.bundle[b].in # {}
    BY <1>1, <1>3, <2>2, TakenOne
  <2> HIDE DEF d
  <2>. QED
    BY <1>1, <2>2, <2>3 DEF Turned
<1>5. DOMAIN d.bundle = DOMAIN db.bundle /\ \A c \in DOMAIN db.bundle : c # b => d.bundle[c] = db.bundle[c]
  BY DEF Drop
<1>6. \/ db' \in Unrouted(d, b) /\ made' = made
      \/ \E n \in Neighbor : \E B \in SUBSET d.list[n] :
            LET e == Bumped(d, n, B)
                routed == Routed(e, b, n)
            IN  \/ db' \in Unrouted(e, b) \cup {routed} /\ made' = made
                \/ /\ made < MaxBundles /\ made' = made + 1
                   /\ db' = ToLimbo(Clone(routed, b, {made + 1}), {made + 1})
  BY Zenon DEF ForwardOrdinary
<1> HIDE DEF d
<1>7. AllFit(d, Once)
  <2>1. ASSUME NEW c \in Usual(d, Once) PROVE Fit(d.bundle[c])
    <3>1. c \in DOMAIN db.bundle /\ d.bundle[c].key = db.bundle[c].key /\ c \in Usual(db, Once)
      BY <1>2 DEF Usual, Quiet
    <3>2. CASE c = b
      BY <1>4, <3>1, <3>2 DEF Fit, Usual
    <3>3. CASE c # b
      BY <1>1, <1>5, <3>1, <3>3 DEF AllFit
    <3>. QED
      BY <3>2, <3>3
  <2>. QED
    BY <2>1 DEF AllFit
<1>8. ASSUME NEW e, Quiet(db, e, Once), Follows(d, e, Once), b \in DOMAIN e.bundle,
             e.bundle[b] = d.bundle[b], NEW g \in Onward(e, b), Quiet(e, g, Once)
      PROVE  Quiet(db, g, Once) /\ Follows(db, g, Once)
  <2>1. Quiet(db, g, Once) /\ DOMAIN g.bundle \subseteq DOMAIN e.bundle
    BY <1>8, QuietTransitive DEF Quiet
  <2>2. ASSUME NEW c \in Usual(g, Once), c # b PROVE Followed(db.bundle[c], g.bundle[c])
    <3>0. c \in DOMAIN g.bundle /\ c \in DOMAIN e.bundle /\ c \in DOMAIN db.bundle
      BY <1>8, <2>1, <2>2 DEF Usual, Quiet
    <3>1. g.bundle[c] = e.bundle[c]
      BY <1>8, <2>1, <2>2, <3>0, OnwardElsewhere
    <3>2. c \in Usual(e, Once) /\ d.bundle[c] = db.bundle[c]
      BY <1>5, <2>2, <3>0, <3>1 DEF Usual
    <3>. QED
      BY <1>8, <3>1, <3>2 DEF Follows
  <2>3. ASSUME b \in Usual(g, Once) PROVE Followed(db.bundle[b], g.bundle[b])
    <3>1. db.bundle[b].key \in Once /\ b \in DOMAIN g.bundle
      BY <2>1, <2>3 DEF Usual, Quiet
    <3>2. d.bundle[b].detained = db.bundle[b].detained /\ db.bundle[b].in # {}
      BY <1>4, <3>1 DEF Turned
    <3>3. /\ e.bundle[b] \in Bundle /\ e.bundle[b].key \notin Critical
          /\ e.bundle[b].in = {} /\ ~e.bundle[b].overdue
      BY <1>4, <1>8, <3>1
    <3>4. Settled(e, g, b)
      BY <1>8, <3>1, <3>3, OnwardSettles
    <3>. QED
      BY <1>8, <3>2, <3>4 DEF Settled, Followed
  <2>. QED
    BY <2>1, <2>2, <2>3 DEF Follows
<1>9. Quiet(d, d, Once) /\ Follows(d, d, Once) /\ b \in DOMAIN d.bundle
  BY <1>2, <1>3, <1>5, <1>7, QuietStutter DEF Follows, Followed, AllFit
<1>10. ASSUME NEW n \in Neighbor, NEW B \in SUBSET d.list[n], NEW e, e = Bumped(d, n, B)
       PROVE  /\ Quiet(d, e, Once) /\ Parked(e, {b}, Once) /\ Follows(d, e, Once)
              /\ b \in DOMAIN e.bundle /\ e.bundle[b] = d.bundle[b]
  <2>1. Quiet(d, e, Once) /\ Parked(e, {b}, Once)
    BY <1>2, <1>10, BumpedQuiet
  <2>2. Follows(d, e, Once)
    BY <1>2, <1>7, <1>10, BumpedFollows
  <2>3. b \in DOMAIN d.bundle \ B
    <3>1. n \in Outward /\ n \in Outward \cup {"dlv"}
      BY ListsOutward
    <3>2. \A a \in B : n \in d.bundle[a].in
      BY <1>2, <3>1, ListedMovable
    <3>. QED
      BY <1>2, <1>9, <3>1, <3>2 DEF Parked
  <2>4. e.bundle[b] = d.bundle[b]
    <3> DEFINE f == Drop(d, B, {n})
    <3>1. f.bundle[b] = d.bundle[b] /\ DOMAIN f.bundle = DOMAIN d.bundle
      BY <2>3, DropElsewhere
    <3> HIDE DEF f
    <3>2. Reforward(f, B).bundle[b] = f.bundle[b]
      BY <2>3, <3>1, ReforwardElsewhere
    <3>. QED
      BY <1>10, <3>1, <3>2 DEF Bumped, f
  <2>. QED
    BY <2>1, <2>2, <2>4 DEF Parked, Movable
<1>11. ASSUME NEW e, Sound(e, Once), Parked(e, {b}, Once), NEW g \in Onward(e, b)
       PROVE  Quiet(e, g, Once)
  BY <1>11, RoutedQuiet, UnroutedQuiet DEF Onward
<1>12. CASE db' \in Unrouted(d, b) /\ made' = made
  <2>1. db' \in Onward(d, b) /\ Quiet(db, d, Once)
    BY <1>2, <1>12 DEF Onward
  <2>2. Quiet(d, db', Once)
    BY <1>2, <1>11, <2>1
  <2>. QED
    BY <1>8, <1>9, <1>12, <2>1, <2>2
<1>13. ASSUME NEW n \in Neighbor, NEW B \in SUBSET d.list[n], NEW e, e = Bumped(d, n, B),
              NEW g \in Onward(e, b)
       PROVE  Quiet(db, g, Once) /\ Follows(db, g, Once)
  <2>1. /\ Quiet(d, e, Once) /\ Parked(e, {b}, Once) /\ Follows(d, e, Once)
        /\ b \in DOMAIN e.bundle /\ e.bundle[b] = d.bundle[b]
    BY <1>10, <1>13
  <2>2. Quiet(db, e, Once) /\ Sound(e, Once)
    BY <1>2, <2>1, QuietTransitive DEF Quiet
  <2>3. Quiet(e, g, Once)
    BY <1>11, <1>13, <2>1, <2>2
  <2>. QED
    BY <1>8, <1>13, <2>1, <2>2, <2>3
<1>14. ASSUME NEW n \in Neighbor, NEW B \in SUBSET d.list[n], NEW e, e = Bumped(d, n, B)
       PROVE  /\ Routed(e, b, n) \in Onward(e, b) /\ Unrouted(e, b) \subseteq Onward(e, b)
              /\ b \in DOMAIN Routed(e, b, n).bundle
  <2>1. Sound(e, Once) /\ Parked(e, {b}, Once) /\ b \in DOMAIN e.bundle
    BY <1>10, <1>14 DEF Quiet
  <2>2. DOMAIN Routed(e, b, n).bundle = DOMAIN e.bundle
    BY <2>1, RoutedQuiet
  <2>. QED
    BY <2>1, <2>2 DEF Onward
<1>. QED
  BY <1>6, <1>12, <1>13, <1>14

LEMMA AllocateFollows ==
    ASSUME Inv, Custodial, NEW b, NEW n \in Neighbor, Allocate(b, n)
    PROVE  Follows(db, db', Once)
<1> DEFINE f == Drop(db, {b}, {n})
<1>1. /\ Sound(db, Once) /\ AllFit(db, Once) /\ Quiet(db, db', Once) /\ b \in db.list[n] /\ n \in Outward
      /\ db' \in {Put(f, {b}, "duct"), ToLimbo(f, {b}), Reforward(f, {b})}
  BY AllocateQuiet, CustodialFit, ListsOutward DEF Inv, Allocate
<1>2. b \in DOMAIN db.bundle /\ db.bundle[b] \in Bundle /\ n \in db.bundle[b].in
  BY <1>1, Listed, ListsOutward DEF Sound, DbOK
<1>3. DOMAIN f.bundle = DOMAIN db.bundle /\ DOMAIN db'.bundle \subseteq DOMAIN db.bundle
  BY <1>1 DEF Drop, Quiet
<1>4. ASSUME NEW c \in DOMAIN db.bundle, c # b PROVE f.bundle[c] = db.bundle[c]
  BY <1>4 DEF Drop
<1>5. ASSUME b \in Usual(db', Once)
      PROVE  /\ Turned(db, f, b, {}, db.bundle[b].detained, db.bundle[b].overdue)
             /\ b \in DOMAIN f.bundle /\ f.bundle[b] \in Bundle /\ db.bundle[b].in # {}
             /\ f.bundle[b].in = {} /\ f.bundle[b].key \notin Critical
  <2>1. /\ db.bundle[b].key \notin Critical /\ db.bundle[b].key \in Once
        /\ Placed(db.bundle[b], Once) /\ Fit(db.bundle[b])
    BY <1>1, <1>5, UsualQuiet
  <2>2. db.bundle[b].in = {n}
    BY <1>1, <1>2, <2>1, InOneList
  <2>3. /\ Turned(db, f, b, {}, db.bundle[b].detained, db.bundle[b].overdue)
        /\ b \in DOMAIN f.bundle /\ f.bundle[b] \in Bundle /\ db.bundle[b].in # {}
    BY <1>1, <1>2, <2>2, TakenOne
  <2> HIDE DEF f
  <2>. QED
    BY <2>1, <2>3 DEF Turned
<1> HIDE DEF f
<1>6. ASSUME NEW c \in DOMAIN db'.bundle, c # b PROVE db'.bundle[c] = db.bundle[c]
  <2>1. c \in DOMAIN f.bundle /\ f.bundle[c] = db.bundle[c]
    BY <1>3, <1>4, <1>6
  <2>2. Put(f, {b}, "duct").bundle[c] = f.bundle[c]
    BY <1>6, <2>1 DEF Put, PutEach
  <2>3. ToLimbo(f, {b}).bundle[c] = f.bundle[c] /\ Reforward(f, {b}).bundle[c] = f.bundle[c]
    BY <1>6, <2>1, OthersStay, Zenon
  <2>. QED
    BY <1>1, <2>1, <2>2, <2>3
<1>7. ASSUME b \in Usual(db', Once) PROVE Followed(db.bundle[b], db'.bundle[b])
  <2> DEFINE B == {b}
  <2>1. b \in B
    OBVIOUS
  <2> HIDE DEF B
  <2>2. CASE db' = Put(f, {b}, "duct")
    <3> DEFINE q == "duct"
    <3>1. q \in Outward /\ q \in Lists /\ db.bundle[b].in # {} /\ q # "fwd"
      BY <1>5, <1>7, ListsOutward
    <3> HIDE DEF q
    <3>2. Turned(f, Put(f, B, q), b, IF b \in B THEN f.bundle[b].in \cup {q} ELSE f.bundle[b].in,
                 f.bundle[b].detained, f.bundle[b].overdue)
      BY <1>5, <1>7, <3>1, Turns
    <3>3. Turned(db, db', b, {q}, db.bundle[b].detained, db.bundle[b].overdue)
      BY <1>5, <1>7, <2>1, <2>2, <3>2 DEF Turned, B, q
    <3>. QED
      BY <3>1, <3>3, MovedTo
  <2>3. CASE db' = ToLimbo(f, {b})
    <3> DEFINE q == "limbo"
    <3>1. q \in Outward /\ db.bundle[b].in # {} /\ q # "fwd"
      BY <1>5, <1>7, ListsOutward
    <3>2. Turned(f, ToLimbo(f, B), b, IF b \in B THEN f.bundle[b].in \cup {q} ELSE f.bundle[b].in,
                 f.bundle[b].detained, f.bundle[b].overdue)
      BY <1>5, <1>7, ToLimboTurns
    <3> HIDE DEF q
    <3>3. Turned(db, db', b, {q}, db.bundle[b].detained, db.bundle[b].overdue)
      BY <1>5, <1>7, <2>1, <2>3, <3>2 DEF Turned, B
    <3>. QED
      BY <3>1, <3>3, MovedTo
  <2>4. CASE db' = Reforward(f, {b})
    <3> DEFINE q == "fwd"
               o == FALSE
    <3>1. q \in Outward /\ db.bundle[b].in # {} /\ (o => q # "fwd")
      BY <1>5, <1>7, ListsOutward
    <3>2. b \in Ordinary(f, B)
      BY <1>5, <1>7, <2>1 DEF Ordinary
    <3>3. Turned(f, Reforward(f, B), b, (f.bundle[b].in \ Outward) \cup {q}, f.bundle[b].detained, o)
      BY <1>5, <1>7, <3>2, ReforwardTurns
    <3> HIDE DEF q, o
    <3>4. Turned(db, db', b, {q}, db.bundle[b].detained, o)
      BY <1>5, <1>7, <2>4, <3>3 DEF Turned, B
    <3>. QED
      BY <3>1, <3>4, MovedTo, Zenon
  <2>. QED
    BY <1>1, <2>2, <2>3, <2>4
<1>8. /\ \A c \in DOMAIN db'.bundle : c # b => db'.bundle[c] = db.bundle[c]
      /\ b \in Usual(db', Once) => Followed(db.bundle[b], db'.bundle[b])
      /\ DOMAIN db'.bundle \subseteq DOMAIN db.bundle /\ AllFit(db, Once)
  BY <1>1, <1>3, <1>6, <1>7
<1>. QED
  BY <1>8, OneFollows

LEMMA ReceiveFollows ==
    ASSUME Inv, Custodial, NEW b, Receive(b)
    PROVE  Follows(db, db', Once)
<1> DEFINE f == Drop(db, {b}, {"dlv"})
           u == FALSE
<1>1. /\ Sound(db, Once) /\ AllFit(db, Once) /\ Quiet(db, db', Once) /\ b \in db.list["dlv"]
      /\ db' = Destroy(f, {b}, u) /\ u \in BOOLEAN
  BY ReceiveQuiet, CustodialFit DEF Inv, Receive
<1>2. b \in DOMAIN db.bundle /\ db.bundle[b] \in Bundle /\ "dlv" \in db.bundle[b].in
  BY <1>1, Listed, ListsOutward DEF Sound, DbOK
<1>3. DOMAIN f.bundle = DOMAIN db.bundle /\ DOMAIN db'.bundle \subseteq DOMAIN db.bundle
  BY <1>1 DEF Drop, Quiet
<1>4. ASSUME NEW c \in DOMAIN db.bundle, c # b PROVE f.bundle[c] = db.bundle[c]
  BY <1>4 DEF Drop
<1>5. ASSUME b \in Usual(db', Once)
      PROVE  /\ Turned(db, f, b, {}, db.bundle[b].detained, FALSE)
             /\ b \in DOMAIN f.bundle /\ db.bundle[b].in # {}
  <2>1. Fit(db.bundle[b])
    <3> HIDE DEF f, u
    <3>. QED
      BY <1>1, <1>5, UsualQuiet
  <2>2. db.bundle[b].in = {"dlv"} /\ db.bundle[b].overdue = FALSE
    BY <1>2, <2>1, FitMeans DEF Fit, Bundle
  <2>3. /\ Turned(db, f, b, {}, db.bundle[b].detained, db.bundle[b].overdue)
        /\ b \in DOMAIN f.bundle /\ db.bundle[b].in # {}
    BY <1>1, <1>2, <2>2, TakenOne
  <2> HIDE DEF f
  <2>. QED
    BY <2>2, <2>3
<1> HIDE DEF f
<1>6. ASSUME b \in Usual(db', Once) PROVE Followed(db.bundle[b], db'.bundle[b])
  <2>1. b \in DOMAIN Destroy(f, {b}, FALSE).bundle
    BY <1>1, <1>6 DEF Usual
  <2>2. Followed(db.bundle[b], Destroy(f, {b}, FALSE).bundle[b])
    BY <1>5, <1>6, <2>1, LeftTo
  <2>. QED
    BY <1>1, <2>2
<1> HIDE DEF u
<1>7. ASSUME NEW c \in DOMAIN db'.bundle, c # b PROVE db'.bundle[c] = db.bundle[c]
  <2>1. c \in DOMAIN f.bundle /\ f.bundle[c] = db.bundle[c] /\ c \in DOMAIN Destroy(f, {b}, u).bundle
    BY <1>1, <1>3, <1>4, <1>7
  <2>2. Destroy(f, {b}, u).bundle[c] = f.bundle[c]
    BY <1>1, <1>7, <2>1, OthersStay, Zenon
  <2>. QED
    BY <1>1, <2>1, <2>2
<1>8. /\ \A c \in DOMAIN db'.bundle : c # b => db'.bundle[c] = db.bundle[c]
      /\ b \in Usual(db', Once) => Followed(db.bundle[b], db'.bundle[b])
      /\ DOMAIN db'.bundle \subseteq DOMAIN db.bundle /\ AllFit(db, Once)
  BY <1>1, <1>3, <1>6, <1>7
<1>. QED
  BY <1>8, OneFollows

\* An application knows of the bundle that it releases.
LEMMA ReleaseCustody ==
    ASSUME Inv, Inv', Custodial, NEW b, Release(b)
    PROVE  Upheld
<1>1. /\ Sound(db, Once) /\ AllFit(db, Once) /\ db' = Undetained(db, {b}) /\ b \in DOMAIN held
      /\ made' = made /\ xmit' = xmit /\ held' = held /\ Once' = Once /\ made \in Nat
      /\ Quiet(db, db', Once)
  BY CustodialFit, SameOnce, UndetainedQuiet, BpAgentAssumption DEF Inv, Release, Tracked
<1>2. ASSUME NEW c \in Usual(db', Once)
      PROVE  /\ c \in Usual(db, Once) /\ Shifted(db, xmit, db', xmit', DOMAIN held, c)
             /\ c \in DOMAIN db'.bundle
  <2>1. /\ c \in Usual(db, Once) /\ c \in DOMAIN db.bundle
        /\ db.bundle[c] \in Bundle /\ Fit(db.bundle[c]) /\ c \in DOMAIN db'.bundle
    BY <1>1, <1>2, UsualQuiet DEF Usual
  <2>2. Turned(db, Undetained(db, {b}), c, db.bundle[c].in,
               c \notin {b} /\ db.bundle[c].detained, db.bundle[c].overdue)
    BY <2>1, Turns
  <2>3. Leading(db', xmit, c) = Leading(db, xmit, c)
    BY <1>1, <2>1, LeadingQuiet
  <2>. QED
    BY <1>1, <2>1, <2>2, <2>3 DEF Turned, Shifted, Fit
<1>3. made <= made' /\ DOMAIN held \subseteq DOMAIN held'
      /\ \A c \in Usual(db', Once') : IF c <= made
            THEN c \in Usual(db, Once) /\ Shifted(db, xmit, db', xmit', DOMAIN held, c)
            ELSE Arrived(db', xmit', c)
  <2>1. \A c \in DOMAIN db.bundle : c <= made
    BY <1>1 DEF Inv, Living
  <2>2. \A c \in Usual(db, Once) : c \in DOMAIN db.bundle
    BY DEF Usual
  <2>. QED
    BY <1>1, <1>2, <2>1, <2>2
<1>4. xmit' \subseteq xmit
  BY <1>1
<1>. QED
  BY <1>1, <1>3, <1>4, CustodyStep, QuietStewards DEF Upheld

LEMMA SuspendFollows ==
    ASSUME Inv, Custodial, NEW b, Suspend(b)
    PROVE  Follows(db, db', Once)
<1>1. AllFit(db, Once) /\ Sound(db, Once) /\ b \in DOMAIN db.bundle
  BY CustodialFit DEF Inv, Suspend, Tracked, Living
<1>2. CASE db.bundle[b].in \cap Neighbor # {}
  <2> DEFINE B == {b}
             u == TRUE
  <2>1. /\ \A c \in B \cap Usual(db, Once) : db.bundle[c].in \cap Neighbor # {}
        /\ u \in BOOLEAN /\ db' = ReverseEnqueue(db, B, u)
    BY <1>2 DEF Suspend
  <2> HIDE DEF B, u
  <2>2. Follows(db, ReverseEnqueue(db, B, u), Once)
    BY <1>1, <2>1, ReverseFollows
  <2>. QED
    BY <2>1, <2>2
<1>3. CASE db.bundle[b].in \cap Neighbor = {}
  <2> DEFINE value == TRUE
  <2>1. db' = [db EXCEPT !.bundle[b].suspended = value]
    BY <1>3, Zenon DEF Suspend
  <2>2. db = [bundle |-> db.bundle, list |-> db.list, hash |-> db.hash]
    BY <1>1 DEF Sound, DbOK
  <2> HIDE DEF value
  <2>3. db' = [bundle |-> [db.bundle EXCEPT ![b] = [@ EXCEPT !.suspended = value]],
               list |-> db.list, hash |-> db.hash]
    BY <2>1, <2>2, SuspendedMark, Zenon
  <2>4. ASSUME NEW c \in Usual(db', Once) PROVE Followed(db.bundle[c], db'.bundle[c])
    <3>1. c \in DOMAIN db.bundle /\ db.bundle[c] \in Bundle
      BY <1>1, <2>3 DEF Usual, Sound, DbOK
    <3>2. /\ db'.bundle[c].key = db.bundle[c].key /\ db'.bundle[c].in = db.bundle[c].in
          /\ db'.bundle[c].detained = db.bundle[c].detained
          /\ db'.bundle[c].overdue = db.bundle[c].overdue
      BY <2>3, <3>1 DEF Bundle
    <3>3. Fit(db.bundle[c])
      BY <1>1, <3>1, <3>2 DEF Usual, AllFit
    <3>. QED
      BY <3>2, <3>3 DEF Followed, Fit
  <2>. QED
    BY <2>4 DEF Follows
<1>. QED
  BY <1>2, <1>3

LEMMA CancelFollows ==
    ASSUME Inv, Custodial, NEW b, Cancel(b) \/ Expire(b)
    PROVE  Follows(db, db', Once)
<1> DEFINE u == TRUE
<1>1. AllFit(db, Once) /\ Sound(db, Once) /\ db' = Destroy(db, {b}, u) /\ u \in BOOLEAN
  BY CustodialFit DEF Inv, Cancel, Expire
<1> HIDE DEF u
<1>2. Follows(db, Destroy(db, {b}, u), Once)
  BY <1>1, DestroyFollows
<1>. QED
  BY <1>1, <1>2

LEMMA OverdueFollows ==
    ASSUME Inv, Custodial, NEW b, Overdue(b)
    PROVE  Follows(db, db', Once)
<1> DEFINE B == {b}
<1>1. /\ AllFit(db, Once) /\ Sound(db, Once) /\ db' = Reforward(db, B)
      /\ b \in DOMAIN db.bundle /\ db.bundle[b].overdue
  BY CustodialFit DEF Inv, Overdue, Living
<1>2. ASSUME NEW c \in B \cap Usual(db, Once) PROVE db.bundle[c].in \cap Outward # {}
  <2>1. Fit(db.bundle[c]) /\ db.bundle[c].overdue
    BY <1>1 DEF AllFit
  <2>2. PlanXmit \cup {"duct"} \subseteq Outward
    BY ListsOutward
  <2>. QED
    BY <2>1, <2>2 DEF Fit
<1> HIDE DEF B
<1>3. Follows(db, Reforward(db, B), Once)
  BY <1>1, <1>2, ReforwardFollows
<1>. QED
  BY <1>1, <1>3

LEMMA LimboFollows ==
    ASSUME Inv, Custodial, FlushLimbo \/ \E n \in Neighbor : UnblockPlan(n)
    PROVE  Follows(db, db', Once)
<1> DEFINE B == db.list["limbo"]
<1>1. AllFit(db, Once) /\ Sound(db, Once) /\ db' = ReleaseFromLimbo(db, B)
  BY CustodialFit DEF Inv, FlushLimbo, UnblockPlan
<1>2. \A c \in B \cap Usual(db, Once) : db.bundle[c].in \cap Outward # {}
  BY <1>1, Listed, ListsOutward
<1> HIDE DEF B
<1>3. Follows(db, ReleaseFromLimbo(db, B), Once)
  BY <1>1, <1>2, ReleaseFollows
<1>. QED
  BY <1>1, <1>3

LEMMA BlockPlanFollows ==
    ASSUME Inv, Custodial, NEW n \in Neighbor, BlockPlan(n)
    PROVE  Follows(db, db', Once)
<1> DEFINE B == db.list[n]
           u == FALSE
<1>1. AllFit(db, Once) /\ Sound(db, Once) /\ db' = ReverseEnqueue(db, B, u) /\ u \in BOOLEAN
  BY CustodialFit DEF Inv, BlockPlan
<1>2. \A c \in B \cap Usual(db, Once) : db.bundle[c].in \cap Neighbor # {}
  BY <1>1, Listed, ListsOutward
<1> HIDE DEF B, u
<1>3. Follows(db, ReverseEnqueue(db, B, u), Once)
  BY <1>1, <1>2, ReverseFollows
<1>. QED
  BY <1>1, <1>3

LEMMA RemoveOutductFollows ==
    ASSUME Inv, Custodial, RemoveOutduct
    PROVE  Follows(db, db', Once)
<1>1. AllFit(db, Once) /\ Sound(db, Once)
  BY CustodialFit DEF Inv
<1>2. PICK again \in SUBSET db.list["duct"] :
         db' = Destroy(Reforward(db, again), db.list["duct"] \ again, TRUE)
  BY DEF RemoveOutduct
<1>3. Movable(db, again, Once) /\ \A c \in again \cap Usual(db, Once) : db.bundle[c].in \cap Outward # {}
  BY <1>1, ListedMovable, ListsOutward
<1>4. Follows(db, Reforward(db, again), Once)
  BY <1>1, <1>3, ReforwardFollows
<1>5. Sound(Reforward(db, again), Once)
  BY <1>1, <1>3, ReforwardQuiet DEF Quiet
<1>. QED
  BY <1>2, <1>4, <1>5, DestroyFollowsOn

\* A step that leaves the reports of the adapters alone.
LEMMA ApplicationCustody ==
    ASSUME Inv, Inv', Custodial, NEW b,
           Suspend(b) \/ Cancel(b) \/ Receive(b) \/ Transit(b)
           \/ (\E n \in Neighbor : Allocate(b, n)) \/ Clock \/ Management
    PROVE  Upheld
<1>1. Quiet(db, db', Once)
  <2>1. CASE Cancel(b)
    <3>1. Sound(db, Once) /\ {b} \in SUBSET DOMAIN db.bundle
      BY <2>1 DEF Inv, Cancel, Tracked, Living
    <3>2. Quiet(db, Destroy(db, {b}, TRUE), Once)
      BY <3>1, DestroyQuiet
    <3>. QED
      BY <2>1, <3>2 DEF Cancel
  <2>. QED
    BY <2>1, SuspendQuiet, ReceiveQuiet, TransitQuiet, AllocateQuiet, ClockQuiet,
       ManagementQuiet DEF Clock, Management
<1>2. Follows(db, db', Once)
  BY SuspendFollows, CancelFollows, ReceiveFollows, TransitFollows, AllocateFollows,
     OverdueFollows, LimboFollows, BlockPlanFollows, RemoveOutductFollows
     DEF Clock, Management
<1>3. made' = made /\ xmit' = xmit /\ DOMAIN held' = DOMAIN held /\ Once' = Once
  BY SameOnce DEF Suspend, Cancel, Receive, Transit, Allocate, Clock, Management,
                  FlushLimbo, Expire, Overdue, RemoveOutduct, BlockPlan, UnblockPlan
<1>. QED
  BY <1>1, <1>2, <1>3, FollowsStep

-----------------------------------------------------------------------------
(* The adapters take bundles, and report.                                   *)

\* b is handed over; the copies that are made, or used up, lead to no other.
LEMMA HandedOver ==
    ASSUME Inv, Inv', Custodial, Quiet(db, db', Once), made' = made, held' = held, Once' = Once, NEW b,
           \A c \in DOMAIN db'.bundle : c # b =>
              db'.bundle[c] = db.bundle[c] /\ Leading(db, xmit', c) = Leading(db, xmit, c),
           b \in Usual(db', Once) => Shifted(db, xmit, db', xmit', DOMAIN held, b)
    PROVE  Custodial' /\ [Custody!Next]_Party
<1>1. made \in Nat /\ made <= made' /\ \A c \in DOMAIN db'.bundle : c <= made
  BY BpAgentAssumption DEF Inv, Living
<1>2. Sound(db, Once) /\ AllFit(db, Once)
  BY CustodialFit DEF Inv
<1>3. ASSUME NEW c \in Usual(db', Once), c # b
      PROVE  c \in Usual(db, Once) /\ Shifted(db, xmit, db', xmit', DOMAIN held, c)
  <2>1. c \in Usual(db, Once) /\ c \in DOMAIN db'.bundle
    BY DEF Usual, Quiet
  <2>2. Leading(db', xmit', c) = Leading(db, xmit', c)
    BY <1>2, <2>1, LeadingQuiet
  <2>3. Leading(db', xmit', c) = Leading(db, xmit, c) /\ db'.bundle[c] = db.bundle[c]
    BY <1>3, <2>1, <2>2
  <2>4. Fit(db'.bundle[c])
    BY <1>2, <2>1, <2>3 DEF AllFit
  <2>. QED
    BY <2>1, <2>3, <2>4 DEF Shifted
<1>4. b \in Usual(db', Once) => b \in Usual(db, Once)
  BY DEF Usual, Quiet
<1>5. \A c \in Usual(db', Once) :
         c <= made /\ c \in Usual(db, Once) /\ Shifted(db, xmit, db', xmit', DOMAIN held, c)
  BY <1>1, <1>3, <1>4 DEF Usual
<1>6. DOMAIN held \subseteq DOMAIN held'
  OBVIOUS
<1>. QED
  BY <1>1, <1>5, <1>6, CustodyStep

LEMMA ReportCustody ==
    ASSUME Inv, Inv', Custodial, NEW x, Success(x) \/ Failure(x)
    PROVE  Upheld
<1> DEFINE b == Find(db, x.key)
<1>1. /\ Sound(db, Once) /\ AllFit(db, Once) /\ Quiet(db, db', Once) /\ x \in xmit
      /\ made' = made /\ held' = held /\ xmit' = xmit \ {x} /\ Once' = Once
  BY CustodialFit, ReportQuiet, SameOnce DEF Inv, Success, Failure
<1>2. 0 \notin DOMAIN db.bundle /\ 0 \notin Usual(db', Once)
  BY <1>1 DEF Sound, DbOK, Usual, Quiet
<1>3. ASSUME NEW c, c # b
      PROVE  Leading(db, xmit', c) = Leading(db, xmit, c)
  BY <1>1, <1>3 DEF Leading
<1>4. x \in Leading(db, xmit, b)
  BY <1>1 DEF Leading
<1>5. \/ db' = db
      \/ Success(x) /\ b # 0 /\ db' = Destroy(db, {b}, FALSE)
      \/ Failure(x) /\ b # 0 /\ db' = Reforward(db, {b})
  BY DEF Success, Failure
<1>6. Failure(x) /\ b # 0 => \/ db' = Reforward(db, {b})
                             \/ "dlv" \in db.bundle[b].in /\ db.bundle[b].key \notin Critical
  BY DEF Failure
<1>7. Success(x) /\ b # 0 => db' = Destroy(db, {b}, FALSE)
  BY DEF Success
<1> HIDE DEF b
<1>8. ASSUME NEW c \in DOMAIN db'.bundle, c # b PROVE db'.bundle[c] = db.bundle[c]
  <2>1. c \in DOMAIN db.bundle
    BY <1>1 DEF Quiet
  <2>2. Reforward(db, {b}).bundle[c] = db.bundle[c]
    BY <1>8, <2>1, OthersStay
  <2>3. db' = Destroy(db, {b}, FALSE) => db'.bundle[c] = db.bundle[c]
    <3> DEFINE u == FALSE
    <3>1. u \in BOOLEAN
      OBVIOUS
    <3> HIDE DEF u
    <3>2. c \in DOMAIN Destroy(db, {b}, u).bundle => Destroy(db, {b}, u).bundle[c] = db.bundle[c]
      BY <1>8, <2>1, <3>1, OthersStay, Zenon
    <3>. QED
      BY <1>8, <3>2 DEF u
  <2>. QED
    BY <1>5, <2>2, <2>3
<1>9. ASSUME b \in Usual(db', Once) PROVE Shifted(db, xmit, db', xmit', DOMAIN held, b)
  <2>1. /\ b \in Usual(db, Once) /\ b \in DOMAIN db.bundle /\ db.bundle[b].key \notin Critical
        /\ db.bundle[b] \in Bundle /\ Fit(db.bundle[b]) /\ b # 0
    BY <1>1, <1>2, <1>9, UsualQuiet
  <2>2. db.bundle[b].in = {} /\ Leading(db, xmit, b) = {x}
    BY <1>4, <2>1 DEF Custodial, InCustody
  <2>3. Leading(db', xmit', b) = {}
    <3>1. Leading(db', xmit', b) = Leading(db, xmit', b)
      BY <1>1, <1>9, LeadingQuiet DEF Usual
    <3>. QED
      BY <1>1, <2>2, <3>1 DEF Leading
  <2>4. CASE Success(x)
    <3> DEFINE u == FALSE
               B == {b}
    <3>1. u \in BOOLEAN /\ b \in B /\ db' = Destroy(db, B, u) /\ b \in DOMAIN db'.bundle
      BY <1>7, <1>9, <2>1, <2>4 DEF Usual
    <3> HIDE DEF u, B
    <3>2. db'.bundle[b] = db.bundle[b] /\ Constrained(db.bundle[b])
      BY <2>1, <3>1, DestroySpares
    <3>. QED
      BY <2>1, <2>2, <2>3, <3>2 DEF Shifted, Constrained
  <2>5. CASE Failure(x)
    <3> DEFINE B == {b}
    <3>1. db' = Reforward(db, B) /\ b \in B
      BY <1>6, <2>1, <2>2, <2>5
    <3> HIDE DEF B
    <3>2. b \in Ordinary(db, B)
      BY <2>1, <3>1 DEF Ordinary
    <3>3. Turned(db, db', b, (db.bundle[b].in \ Outward) \cup {"fwd"}, db.bundle[b].detained, FALSE)
      BY <2>1, <3>1, <3>2, ReforwardTurns
    <3>. QED
      BY <2>2, <2>3, <3>3 DEF Turned, Shifted, Fit
  <2>. QED
    BY <2>4, <2>5
<1>10. \A c \in DOMAIN db'.bundle : c # b =>
          db'.bundle[c] = db.bundle[c] /\ Leading(db, xmit', c) = Leading(db, xmit, c)
  BY <1>3, <1>8 DEF b
<1>11. xmit' \subseteq xmit
  BY <1>1
<1>. QED
  BY <1>1, <1>9, <1>10, <1>11, HandedOver, QuietStewards DEF Upheld

LEMMA DequeueCustody ==
    ASSUME Inv, Inv', Custodial, NEW b, Dequeue(b)
    PROVE  Upheld
<1> DEFINE g == Drop(db, {b}, {"duct"})
           f == OnTime(g, {b})
           k == db.bundle[b].key
<1>1. Sound(db, Once) /\ AllFit(db, Once) /\ {b} \in SUBSET db.list["duct"]
      /\ made' = made /\ held' = held /\ Once' = Once
  BY CustodialFit, SameOnce DEF Inv, Dequeue
<1>2. b \in DOMAIN db.bundle /\ db.bundle[b] \in Bundle /\ "duct" \in db.bundle[b].in
  BY <1>1, Listed, ListsOutward DEF Sound, DbOK
<1>3. Quiet(db, g, Once) /\ Movable(g, {b}, Once) /\ Sound(g, Once) /\ DOMAIN g.bundle = DOMAIN db.bundle
  BY <1>1, Taken, ListsOutward DEF Drop
<1>4. ASSUME NEW c \in DOMAIN db.bundle, c # b PROVE g.bundle[c] = db.bundle[c]
  BY <1>4 DEF Drop
<1>5. ASSUME k \in Once \ Critical
      PROVE  Turned(db, f, b, {}, db.bundle[b].detained, FALSE) /\ db.bundle[b].in # {}
  <2>1. Placed(db.bundle[b], Once) /\ Fit(db.bundle[b])
    BY <1>1, <1>2, <1>5 DEF Sound, DbOK, AllFit, Usual
  <2>2. db.bundle[b].in = {"duct"}
    BY <1>2, <1>5, <2>1, InOneList, ListsOutward
  <2>3. /\ Turned(db, g, b, {}, db.bundle[b].detained, db.bundle[b].overdue)
        /\ b \in DOMAIN g.bundle /\ g.bundle[b] \in Bundle /\ db.bundle[b].in # {}
    BY <1>1, <1>2, <2>2, TakenOne
  <2> HIDE DEF g
  <2>4. Turned(g, f, b, g.bundle[b].in, g.bundle[b].detained, b \notin {b} /\ g.bundle[b].overdue)
    BY <2>3, Turns
  <2>. QED
    BY <2>3, <2>4 DEF Turned
<1> HIDE DEF g
<1>6. /\ Quiet(g, f, Once) /\ Sound(f, Once) /\ Quiet(db, f, Once) /\ DOMAIN f.bundle = DOMAIN db.bundle
      /\ b \in DOMAIN f.bundle /\ Movable(f, {b}, Once) /\ f.bundle[b].key = k
  <2>1. Quiet(g, f, Once) /\ DOMAIN f.bundle = DOMAIN g.bundle
    BY <1>3, OnTimeQuiet DEF Marked
  <2> HIDE DEF f
  <2>. QED
    BY <1>2, <1>3, <2>1, QuietTransitive, MovableStays DEF Quiet
<1>7. ASSUME NEW c \in DOMAIN db.bundle, c # b PROVE f.bundle[c] = db.bundle[c]
  <2>0. c \in DOMAIN g.bundle
    BY <1>3
  <2>1. f.bundle[c] = g.bundle[c]
    BY <1>7, <2>0, OthersStay, Zenon
  <2> HIDE DEF f
  <2>. QED
    BY <1>4, <1>7, <2>1
<1>8. \/ \E reliable \in BOOLEAN :
            /\ xmit' = xmit \cup {[key |-> f.bundle[b].key,
                                   steward |-> IF Accept(f, b, reliable) THEN b ELSE 0]}
            /\ db' = IF Accept(f, b, reliable) THEN f ELSE Destroy(f, {b}, FALSE)
      \/ db' = Destroy(f, {b}, TRUE) /\ xmit' = xmit
  BY DEF Dequeue, g
<1> HIDE DEF f
<1>9. \/ \E y : /\ xmit' = xmit \cup {y} /\ y.key = k
                /\ \/ db' = f /\ Find(f, k) = b
                   \/ db' = Destroy(f, {b}, FALSE)
      \/ db' = Destroy(f, {b}, TRUE) /\ xmit' = xmit
  BY <1>6, <1>8 DEF Accept
<1>10. Quiet(db, db', Once)
  <2>1. ASSUME NEW u \in BOOLEAN PROVE Quiet(f, Destroy(f, {b}, u), Once)
    BY <1>6, DestroyQuiet
  <2>2. Quiet(f, f, Once)
    BY <1>6, QuietStutter
  <2>. QED
    <3>1. Quiet(f, Destroy(f, {b}, TRUE), Once) /\ Quiet(f, Destroy(f, {b}, FALSE), Once)
      BY <2>1
    <3>2. Quiet(f, db', Once)
      BY <1>9, <2>2, <3>1
    <3>. QED
      BY <1>6, <3>2, QuietTransitive
<1>11. ASSUME NEW c \in DOMAIN db'.bundle, c # b PROVE db'.bundle[c] = db.bundle[c]
  <2>1. c \in DOMAIN db.bundle /\ c \in DOMAIN f.bundle /\ f.bundle[c] = db.bundle[c]
    BY <1>6, <1>7, <1>10, <1>11 DEF Quiet
  <2>2. ASSUME NEW u \in BOOLEAN, db' = Destroy(f, {b}, u) PROVE db'.bundle[c] = f.bundle[c]
    <3>1. c \in DOMAIN Destroy(f, {b}, u).bundle
      BY <2>2
    <3>2. Destroy(f, {b}, u).bundle[c] = f.bundle[c]
      BY <1>11, <2>1, <3>1, OthersStay, Zenon
    <3>. QED
      BY <2>2, <3>2
  <2>. QED
    BY <1>9, <2>1, <2>2
<1>12. ASSUME NEW c \in DOMAIN db'.bundle, c # b
       PROVE  Leading(db, xmit', c) = Leading(db, xmit, c)
  <2>1. Find(db, k) # c
    <3>1. c # 0
      BY <1>10 DEF Quiet, Sound, DbOK
    <3>2. ASSUME Find(db, k) = c PROVE FALSE
      <4>1. OfKey(db, DOMAIN db.bundle, k) = {c}
        BY <1>1, <3>1, <3>2, Found DEF Sound, HashOK
      <4>2. b \in OfKey(db, DOMAIN db.bundle, k)
        BY <1>2 DEF OfKey
      <4>. QED
        BY <1>12, <4>1, <4>2
    <3>. QED
      BY <3>2
  <2> HIDE DEF k
  <2>. QED
    BY <1>9, <2>1 DEF Leading
<1>13. ASSUME b \in Usual(db', Once) PROVE Shifted(db, xmit, db', xmit', DOMAIN held, b)
  <2>1. b \in Usual(db, Once) /\ k \in Once \ Critical
    BY <1>1, <1>10, <1>13, UsualQuiet
  <2>2. Turned(db, f, b, {}, db.bundle[b].detained, FALSE) /\ db.bundle[b].in # {}
    BY <1>5, <2>1
  <2>3. Leading(db, xmit, b) = {}
    BY <2>1, <2>2 DEF Custodial, InCustody
  <2>4. Leading(db', xmit', b) = Leading(db, xmit', b)
    BY <1>1, <1>10, <1>13, LeadingQuiet DEF Usual
  <2>5. b \in DOMAIN db'.bundle
    BY <1>13 DEF Usual
  <2>6. db' # Destroy(f, {b}, TRUE)
    <3> DEFINE u == TRUE
               B == {b}
    <3>1. u \in BOOLEAN /\ b \in B /\ u /\ f.bundle[b] \in Bundle
      BY <2>2 DEF Turned
    <3> HIDE DEF u, B
    <3>2. b \notin DOMAIN Destroy(f, B, u).bundle
      BY <3>1, DestroySpares
    <3>. QED
      BY <2>5, <3>2 DEF u, B
  <2>7. PICK y : /\ xmit' = xmit \cup {y} /\ y.key = k
                 /\ \/ db' = f /\ Find(f, k) = b
                    \/ db' = Destroy(f, {b}, FALSE)
    BY <1>9, <2>6
  <2>8. Leading(db, xmit', b) = IF Find(db, k) = b THEN {y} ELSE {}
    <3> HIDE DEF k
    <3>. QED
      BY <2>3, <2>7 DEF Leading
  <2>9. CASE db' = f /\ Find(f, k) = b
    <3>1. Find(db, k) = b
      <4>1. b # 0 /\ Find(f, k) \in {0, Find(db, k)}
        BY <1>2, <1>1, <1>6, FindQuiet DEF Sound, DbOK
      <4>. QED
        BY <2>9, <4>1
    <3>2. Leading(db', xmit', b) = {y}
      BY <2>4, <2>8, <3>1
    <3>. QED
      BY <2>2, <2>9, <3>2 DEF Turned, Shifted, Fit
  <2>10. CASE db' = Destroy(f, {b}, FALSE)
    <3>1. Followed(db.bundle[b], db'.bundle[b])
      BY <1>6, <2>2, <2>5, <2>10, LeftTo
    <3>2. db'.bundle[b].in = {}
      <4> DEFINE u == FALSE
      <4>1. u \in BOOLEAN /\ db' = Destroy(f, {b}, u) /\ f.bundle[b] \in Bundle
        BY <2>2, <2>10 DEF Turned
      <4> HIDE DEF u
      <4>2. db'.bundle[b] = f.bundle[b]
        BY <2>5, <4>1, DestroySpares
      <4>. QED
        BY <2>2, <4>2 DEF Turned
    <3>3. \/ Leading(db', xmit', b) = {y}
          \/ Leading(db', xmit', b) = Leading(db, xmit, b)
      BY <2>3, <2>4, <2>8
    <3>. QED
      BY <2>2, <3>1, <3>2, <3>3 DEF Followed, Shifted
  <2>. QED
    BY <2>7, <2>9, <2>10
<1>14. \A c \in DOMAIN db'.bundle : c # b =>
          db'.bundle[c] = db.bundle[c] /\ Leading(db, xmit', c) = Leading(db, xmit, c)
  BY <1>11, <1>12
<1>15. ASSUME Stewards PROVE Stewards'
  <2> SUFFICES ASSUME NEW x \in xmit', x.key \in Once', x.steward \in DOMAIN db'.bundle
               PROVE  Find(db', x.key) = x.steward /\ x.key \notin Critical
    BY DEF Stewards, Living
  <2>1. x \in xmit \/ (db' = f /\ Find(f, k) = b /\ k \notin Critical /\ x.key = k /\ x.steward = b)
    <3>1. 0 \notin DOMAIN db'.bundle
      BY <1>10 DEF Quiet, Sound, DbOK
    <3>2. CASE xmit' = xmit
      BY <3>2
    <3>3. ASSUME NEW reliable \in BOOLEAN,
                 xmit' = xmit \cup {[key |-> f.bundle[b].key,
                                     steward |-> IF Accept(f, b, reliable) THEN b ELSE 0]},
                 db' = IF Accept(f, b, reliable) THEN f ELSE Destroy(f, {b}, FALSE),
                 x \notin xmit
          PROVE  db' = f /\ Find(f, k) = b /\ k \notin Critical /\ x.key = k /\ x.steward = b
      <4>1. x = [key |-> f.bundle[b].key, steward |-> IF Accept(f, b, reliable) THEN b ELSE 0]
        BY <3>3
      <4>2. Accept(f, b, reliable)
        BY <3>1, <4>1
      <4>. QED
        BY <1>6, <3>3, <4>1, <4>2 DEF Accept
    <3>. QED
      BY <1>8, <3>2, <3>3
  <2>2. CASE x \in xmit
    BY <1>1, <1>10, <1>15, <2>2, StewardsQuiet
  <2>. QED
    BY <2>1, <2>2
<1>. QED
  BY <1>1, <1>10, <1>13, <1>14, <1>15, HandedOver DEF Upheld

-----------------------------------------------------------------------------
(* Bundles come, and copies of critical ones are made.                      *)

\* The bundles of N come.  Their key is critical, or has returned by it, or it leads
\* nobody yet.
LEMMA ArrivalStep ==
    ASSUME Inv, Inv', Custodial, NEW N, N = (made + 1)..made', made <= made', NEW k,
           Once' \subseteq Once, Leads(db, db', N, k, Once'),
           \/ k \in Critical \/ k \notin Once'
           \/ k \notin DOMAIN db.hash /\ \A x \in xmit : x.key # k,
           xmit' = xmit, DOMAIN held \subseteq DOMAIN held',
           \A c \in Usual(db', Once') : c \notin N => db'.bundle[c] = db.bundle[c],
           \A c \in Usual(db', Once') : c \in N => Fit(db'.bundle[c]) /\ db'.bundle[c].in # {}
    PROVE  Upheld
<1>1. /\ made \in Nat /\ made' \in Nat /\ DOMAIN db'.bundle \subseteq 1..made'
      /\ Sound(db, Once) /\ Sound(db, Once') /\ AllFit(db, Once) /\ Sound(db', Once')
  BY CustodialFit, Fewer, BpAgentAssumption DEF Inv, Living
<1>2. ASSUME NEW c \in Usual(db', Once')
      PROVE  c \in DOMAIN db'.bundle /\ (c \in N <=> ~(c <= made)) /\ c # 0
             /\ db'.bundle[c].key \notin Critical /\ db'.bundle[c].key \in Once'
  BY <1>1 DEF Usual
<1>3. ASSUME NEW c \in Usual(db', Once'), c <= made
      PROVE  c \in Usual(db, Once) /\ Shifted(db, xmit, db', xmit', DOMAIN held, c)
  <2>1. c \notin N /\ c \in DOMAIN db.bundle /\ db'.bundle[c] = db.bundle[c]
    BY <1>2, <1>3 DEF Leads
  <2>2. c \in Usual(db, Once) /\ db'.bundle[c].key # k
    <3>1. c \in Usual(db, Once) /\ db.bundle[c].key \in DOMAIN db.hash
      BY <1>1, <1>2, <2>1 DEF Usual, Sound, HashOK
    <3>. QED
      BY <1>2, <2>1, <3>1
  <2>3. Leading(db', xmit, c) = Leading(db, xmit, c)
    BY <1>1, <1>2, <2>1, <2>2, LeadingLeads
  <2>. QED
    BY <1>1, <2>1, <2>2, <2>3 DEF Shifted, AllFit
<1>4. ASSUME NEW c \in Usual(db', Once'), ~(c <= made)
      PROVE  Arrived(db', xmit', c)
  <2>1. c \in N /\ db'.bundle[c].key = k /\ k \notin Critical /\ k \in Once'
    BY <1>2, <1>4 DEF Leads
  <2>2. \A x \in xmit : Find(db', x.key) # c
    BY <1>1, <1>2, <2>1, Found
  <2>. QED
    BY <2>1, <2>2 DEF Arrived, Leading
<1>5. \A x \in xmit : Stewards /\ x.key = k /\ k \in Once' => x.steward \notin Living
  BY DEF Stewards
<1>. QED
  BY <1>3, <1>4, <1>5, CustodyStep, StewardsLeads DEF Upheld

\* What New makes, and what it leaves alone.
LEMMA NewBundleIs ==
    ASSUME NEW d, NEW b, b \notin DOMAIN d.bundle, NEW k \in Key,
           NEW detained \in BOOLEAN, NEW e, e = New(d, b, k, detained)
    PROVE  /\ DOMAIN e.bundle = DOMAIN d.bundle \cup {b}
           /\ e.bundle[b] \in Bundle /\ e.bundle[b].key = k /\ e.bundle[b].in = {}
           /\ e.bundle[b].detained = detained /\ ~e.bundle[b].overdue
           /\ \A c \in DOMAIN d.bundle : e.bundle[c] = d.bundle[c]
BY DEF New, Extended, NewBundle, Bundle

LEMMA SendCustody ==
    ASSUME Inv, Inv', Custodial, NEW k, NEW detain \in BOOLEAN, Send(k, detain)
    PROVE  Upheld
<1> DEFINE b == made + 1
           e == New(db, b, k, detain)
           N == (made + 1)..made'
<1>1. /\ k \in Local \ sent /\ k \in Key /\ made < MaxBundles /\ made' = b /\ b \in Nat /\ made \in Nat
      /\ xmit' = xmit /\ db' = Forward(e, {b}) /\ Sound(db, Once)
      /\ held' = IF detain THEN Extended(held, {b}, FALSE) ELSE held
  BY BpAgentAssumption DEF Inv, Send
<1>a. acquired[k] \in Nat /\ sent' = sent \cup {k} /\ acquired' = acquired
      /\ Once' \subseteq Once /\ Sound(db, Once')
  <2>1. \A j \in Key : acquired[j] \in Nat
    BY DEF Inv
  <2>2. /\ sent \subseteq sent' /\ acquired' \in [Key -> Nat]
        /\ \A j \in Key : acquired'[j] >= acquired[j]
        /\ sent' = sent \cup {k} /\ acquired' = acquired
    BY <2>1 DEF Inv, Send
  <2>. QED
    BY <1>1, <2>1, <2>2, OnceShrinks, Fewer
<1>2. k \notin Once' \/ (k \notin DOMAIN db.hash /\ \A x \in xmit : x.key # k)
  <2>1. CASE acquired[k] = 0
    BY <1>1, <2>1, Fresh
  <2>2. CASE acquired[k] # 0
    BY <1>1, <1>a, <2>2 DEF Once, Returned
  <2>. QED
    BY <2>1, <2>2
<1>3. b \notin DOMAIN db.bundle /\ b # 0 /\ made <= made' /\ N = {b} /\ N = (made + 1)..made'
      /\ b \notin db.list["transit"]
  BY <1>1 DEF Inv, Living
<1>4. DOMAIN held \subseteq DOMAIN held'
  BY <1>1 DEF Extended
<1> HIDE DEF b, N
<1>5. Leads(db, e, {b}, k, Once')
  BY <1>1, <1>3, <1>a, NewLeads
<1>6. /\ DOMAIN e.bundle = DOMAIN db.bundle \cup {b}
      /\ e.bundle[b] \in Bundle /\ e.bundle[b].key = k /\ e.bundle[b].in = {}
      /\ e.bundle[b].detained = detain /\ ~e.bundle[b].overdue
      /\ \A c \in DOMAIN db.bundle : e.bundle[c] = db.bundle[c]
  <2>1. e = New(db, b, k, detain)
    OBVIOUS
  <2> HIDE DEF e
  <2>. QED
    BY <1>1, <1>3, <2>1, NewBundleIs
<1> HIDE DEF e
<1>7. Leads(db, db', N, k, Once')
  <2>1. Sound(e, Once') /\ Movable(e, {b}, Once')
    BY <1>5, <1>6 DEF Leads, Movable
  <2>2. Quiet(e, db', Once')
    BY <1>1, <2>1, ForwardQuiet
  <2>. QED
    BY <1>3, <1>5, <2>2, LeadsOn
<1>8. DOMAIN db'.bundle = DOMAIN e.bundle
  BY <1>1, SameBundles
<1>9. ASSUME NEW c \in Usual(db', Once'), c \notin N PROVE db'.bundle[c] = db.bundle[c]
  <2>1. c \in DOMAIN e.bundle /\ c # b /\ e.bundle[c] = db.bundle[c]
    BY <1>3, <1>6, <1>8, <1>9 DEF Usual
  <2>2. Forward(e, {b}).bundle[c] = e.bundle[c]
    BY <2>1, OthersStay, Zenon
  <2>. QED
    BY <1>1, <2>1, <2>2
<1>10. Fit(db'.bundle[b]) /\ db'.bundle[b].in # {}
  <2>1. Turned(e, db', b,
               IF b \in {b} /\ e.bundle[b].in \cap Outward = {} THEN e.bundle[b].in \cup {"fwd"}
                                                                ELSE e.bundle[b].in,
               e.bundle[b].detained, e.bundle[b].overdue)
    BY <1>1, <1>6, ForwardTurns
  <2>. QED
    BY <1>6, <2>1 DEF Turned, Fit
<1>11. \A c \in Usual(db', Once') : c \in N => Fit(db'.bundle[c]) /\ db'.bundle[c].in # {}
  BY <1>3, <1>10
<1>12. \A c \in Usual(db', Once') : c \notin N => db'.bundle[c] = db.bundle[c]
  BY <1>9
<1>. QED
  BY <1>1, <1>2, <1>3, <1>4, <1>7, <1>11, <1>12, <1>a, ArrivalStep

\* One that was in no list is in q now.
LEMMA PutFirst ==
    ASSUME NEW d, NEW b \in DOMAIN d.bundle, d.bundle[b] \in Bundle, d.bundle[b].in = {},
           ~d.bundle[b].overdue, NEW q \in Lists,
           NEW B, b \in B, NEW e, e = Put(d, B, q)
    PROVE  /\ Fit(e.bundle[b]) /\ e.bundle[b].in # {}
           /\ e.bundle[b] \in Bundle /\ DOMAIN e.bundle = DOMAIN d.bundle
           /\ e.bundle[b].key = d.bundle[b].key
<1>1. Turned(d, Put(d, B, q), b, IF b \in B THEN d.bundle[b].in \cup {q} ELSE d.bundle[b].in,
             d.bundle[b].detained, d.bundle[b].overdue)
  BY Turns
<1>2. Turned(d, e, b, {q}, d.bundle[b].detained, d.bundle[b].overdue)
  BY <1>1
<1>. QED
  BY <1>2 DEF Turned, Fit

LEMMA CloneIs ==
    ASSUME NEW d, NEW old \in DOMAIN d.bundle, d.bundle[old] \in Bundle, NEW N, N # {},
           NEW e, e = Clone(d, old, N)
    PROVE  /\ DOMAIN e.bundle = DOMAIN d.bundle \cup N
           /\ \A c \in N : /\ e.bundle[c] \in Bundle /\ e.bundle[c].key = d.bundle[old].key
                           /\ e.bundle[c].in = {} /\ ~e.bundle[c].overdue
           /\ \A c \in DOMAIN d.bundle \ N : e.bundle[c] = d.bundle[c]
BY DEF Clone, Extended, NewBundle, Bundle

\* A bundle that comes in is fit and in a list, or gone at once.
LEMMA AcquireArrives ==
    ASSUME Inv, NEW k \in Key, Acquire(k), NEW N, N = (made + 1)..made'
    PROVE  /\ \A c \in DOMAIN db'.bundle : c \notin N => db'.bundle[c] = db.bundle[c]
           /\ \A c \in DOMAIN db'.bundle : c \in N =>
                 Fit(db'.bundle[c]) /\ db'.bundle[c].in # {}
<1> DEFINE b == made + 1
           new == New(db, b, k, FALSE)
           delivered == Put(new, {b}, "dlv")
           a == b + 1
           two == Clone(delivered, b, {a})
           S == {b}
           T == {a}
           transit == "transit"
           dlv == "dlv"
<1>0. /\ b <= MaxBundles
      /\ \/ made' = b /\ (db' = delivered \/ db' = Destroy(new, {b}, FALSE)
                          \/ db' = Put(new, S, transit))
         \/ made' = a /\ b < MaxBundles /\ db' = Put(two, T, transit)
  BY Zenon DEF Acquire
<1>1. made \in Nat /\ MaxBundles \in Nat /\ b \in Nat
  BY BpAgentAssumption DEF Inv
<1>2. /\ b \notin DOMAIN db.bundle /\ a \notin DOMAIN db.bundle /\ a # b /\ Sound(db, Once)
      /\ (made' = b => N = {b}) /\ (made' = a => N = {b, a})
  BY <1>1 DEF Inv, Living
<1>3. transit \in Lists /\ dlv \in Lists /\ delivered = Put(new, S, dlv)
      /\ (\A c : c \in S <=> c = b) /\ (\A c : c \in T <=> c = a)
  BY DEF Lists
<1> HIDE DEF a, b, S, T, transit, dlv
<1>4. /\ DOMAIN new.bundle = DOMAIN db.bundle \cup {b}
      /\ b \in DOMAIN new.bundle /\ new.bundle[b] \in Bundle /\ new.bundle[b].key = k
      /\ new.bundle[b].in = {} /\ ~new.bundle[b].overdue /\ ~new.bundle[b].detained
      /\ \A c \in DOMAIN db.bundle : new.bundle[c] = db.bundle[c]
  <2> DEFINE detained == FALSE
  <2>1. detained \in BOOLEAN /\ new = New(db, b, k, detained) /\ ~detained
    OBVIOUS
  <2> HIDE DEF new, detained
  <2>. QED
    BY <1>2, <2>1, NewBundleIs
<1> HIDE DEF new
<1>6. /\ Fit(delivered.bundle[b]) /\ delivered.bundle[b].in # {}
      /\ delivered.bundle[b] \in Bundle /\ DOMAIN delivered.bundle = DOMAIN new.bundle
  <2>1. delivered = Put(new, S, dlv) /\ b \in S
    BY <1>3
  <2> HIDE DEF delivered
  <2>. QED
    BY <1>3, <1>4, <2>1, PutFirst
<1>7. \A c \in DOMAIN db.bundle : delivered.bundle[c] = db.bundle[c]
  <2>1. ASSUME NEW c \in DOMAIN db.bundle PROVE delivered.bundle[c] = db.bundle[c]
    <3>1. c \in DOMAIN new.bundle /\ c \notin S /\ new.bundle[c] = db.bundle[c]
      BY <1>2, <1>3, <1>4
    <3>. QED
      BY <1>3, <3>1 DEF Put, PutEach
  <2>. QED
    BY <2>1
<1> HIDE DEF delivered
<1>8. CASE made' = b /\ db' = delivered
  BY <1>2, <1>4, <1>6, <1>7, <1>8
<1>9. CASE made' = b /\ db' = Destroy(new, {b}, FALSE)
  <2> DEFINE u == FALSE
             B == {b}
  <2>1. u \in BOOLEAN /\ ~Constrained(new.bundle[b]) /\ b \in B /\ db' = Destroy(new, B, u)
    BY <1>4, <1>9 DEF Constrained
  <2> HIDE DEF u
  <2>2. DOMAIN db'.bundle \subseteq DOMAIN new.bundle
    BY <2>1 DEF Destroy, Erase, Undetained, Drop
  <2>3. b \notin DOMAIN db'.bundle
    <3> HIDE DEF B
    <3>. QED
      BY <1>4, <2>1, DestroySpares
  <2>4. ASSUME NEW c \in DOMAIN db'.bundle PROVE db'.bundle[c] = db.bundle[c] /\ c \notin N
    <3>1. c \in DOMAIN db.bundle /\ c # b /\ c \in DOMAIN new.bundle /\ c \in DOMAIN Destroy(new, {b}, u).bundle
      BY <1>4, <2>1, <2>2, <2>3
    <3>2. Destroy(new, {b}, u).bundle[c] = new.bundle[c]
      BY <2>1, <3>1, OthersStay, Zenon
    <3>. QED
      BY <1>2, <1>4, <1>9, <2>1, <3>1, <3>2
  <2>. QED
    BY <2>4
<1>10. CASE made' = b /\ db' = Put(new, S, transit)
  <2>1. /\ Fit(db'.bundle[b]) /\ db'.bundle[b].in # {}
        /\ DOMAIN db'.bundle = DOMAIN new.bundle
    BY <1>3, <1>4, <1>10, PutFirst
  <2>2. ASSUME NEW c \in DOMAIN db.bundle PROVE db'.bundle[c] = db.bundle[c]
    <3>1. c \in DOMAIN new.bundle /\ c \notin S /\ new.bundle[c] = db.bundle[c]
      BY <1>2, <1>3, <1>4
    <3>. QED
      BY <1>10, <3>1 DEF Put, PutEach
  <2>. QED
    BY <1>2, <1>4, <1>10, <2>1, <2>2
<1>11. CASE made' = a /\ db' = Put(two, T, transit)
  <2>1. /\ DOMAIN two.bundle = DOMAIN delivered.bundle \cup {a}
        /\ two.bundle[a] \in Bundle /\ two.bundle[a].in = {} /\ ~two.bundle[a].overdue
        /\ \A c \in DOMAIN delivered.bundle : two.bundle[c] = delivered.bundle[c]
    <3> DEFINE M == {a}
    <3>1. M # {} /\ a \in M /\ M \cap DOMAIN delivered.bundle = {} /\ two = Clone(delivered, b, M)
          /\ b \in DOMAIN delivered.bundle
      BY <1>2, <1>4, <1>6
    <3> HIDE DEF M, two
    <3>2. /\ DOMAIN two.bundle = DOMAIN delivered.bundle \cup M
          /\ \A c \in M : /\ two.bundle[c] \in Bundle /\ two.bundle[c].key = delivered.bundle[b].key
                          /\ two.bundle[c].in = {} /\ ~two.bundle[c].overdue
          /\ \A c \in DOMAIN delivered.bundle \ M : two.bundle[c] = delivered.bundle[c]
      BY <1>6, <3>1, CloneIs
    <3>. QED
      BY <1>6, <3>1, <3>2 DEF M
  <2> HIDE DEF two
  <2>2. /\ Fit(db'.bundle[a]) /\ db'.bundle[a].in # {}
        /\ DOMAIN db'.bundle = DOMAIN two.bundle
    <3>1. a \in DOMAIN two.bundle
      BY <2>1
    <3>. QED
      BY <1>3, <1>11, <2>1, <3>1, PutFirst
  <2>3. ASSUME NEW c \in DOMAIN delivered.bundle PROVE db'.bundle[c] = delivered.bundle[c]
    <3>1. c \notin T /\ c \in DOMAIN two.bundle /\ two.bundle[c] = delivered.bundle[c]
      BY <1>2, <1>3, <1>4, <1>6, <2>1
    <3>. QED
      BY <1>11, <3>1 DEF Put, PutEach
  <2>4. /\ DOMAIN db'.bundle = (DOMAIN db.bundle \cup {b}) \cup {a} /\ N = {b, a}
        /\ b \in DOMAIN delivered.bundle /\ DOMAIN db.bundle \subseteq DOMAIN delivered.bundle
    BY <1>2, <1>4, <1>6, <1>11, <2>1, <2>2
  <2>. QED
    BY <1>2, <1>6, <1>7, <2>2, <2>3, <2>4
<1>. QED
  BY <1>0, <1>8, <1>9, <1>10, <1>11

LEMMA AcquireCustody ==
    ASSUME Inv, Inv', Custodial, NEW k \in Key, Acquire(k)
    PROVE  Upheld
<1> DEFINE N == (made + 1)..made'
<1>1. /\ acquired' = [acquired EXCEPT ![k] = @ + 1]
      /\ held' = held /\ xmit' = xmit /\ sent' = sent /\ acquired \in [Key -> Nat]
  BY DEF Inv, Acquire
<1>2. /\ acquired' \in [Key -> Nat] /\ acquired'[k] = acquired[k] + 1 /\ acquired[k] \in Nat
      /\ \A j \in Key : acquired'[j] >= acquired[j]
  BY <1>1
<1>3. Once' \subseteq Once /\ Sound(db, Once')
  BY <1>1, <1>2, OnceShrinks, Fewer DEF Inv
<1>4. k \notin Once' \/ (k \notin DOMAIN db.hash /\ \A x \in xmit : x.key # k)
  <2>1. CASE acquired[k] = 0 /\ k \notin sent
    BY <2>1, Fresh
  <2>2. CASE ~(acquired[k] = 0 /\ k \notin sent)
    <3>1. acquired'[k] + (IF k \in sent' THEN 1 ELSE 0) > 1
      BY <1>1, <1>2, <2>2
    <3>. QED
      BY <3>1 DEF Once, Returned
  <2>. QED
    BY <2>1, <2>2
<1>5. Leads(db, db', N, k, Once') /\ made' \in made..MaxBundles
  BY <1>3, AcquireLeads
<1>6. made <= made' /\ N = (made + 1)..made' /\ DOMAIN held \subseteq DOMAIN held'
  BY <1>1, <1>5, BpAgentAssumption DEF Inv
<1> HIDE DEF N
<1>7. /\ \A c \in DOMAIN db'.bundle : c \notin N => db'.bundle[c] = db.bundle[c]
      /\ \A c \in DOMAIN db'.bundle : c \in N => Fit(db'.bundle[c]) /\ db'.bundle[c].in # {}
  BY <1>6, AcquireArrives
<1>8. \A c \in Usual(db', Once') : c \in DOMAIN db'.bundle
  BY DEF Usual
<1>. QED
  BY <1>1, <1>3, <1>4, <1>5, <1>6, <1>7, <1>8, ArrivalStep

LEMMA CopiesLeave ==
    ASSUME NEW d, NEW b, NEW first, NEW N, NEW to, DOMAIN to \subseteq N,
           NEW c \in DOMAIN d.bundle, c # b, c \notin N
    PROVE  CriticalCopies(d, b, first, N, to).bundle[c] = d.bundle[c]
<1> DEFINE e == Put(d, {b}, first)
           f == Clone(e, b, N)
           g == PutEach(f, DOMAIN to, to)
<1>1. c \in DOMAIN e.bundle /\ e.bundle[c] = d.bundle[c]
  BY DEF Put, PutEach
<1> HIDE DEF e
<1>2. c \in DOMAIN f.bundle /\ f.bundle[c] = e.bundle[c]
  BY <1>1 DEF Clone, Extended
<1> HIDE DEF f
<1>3. g.bundle[c] = f.bundle[c]
  BY <1>2 DEF PutEach
<1>. QED
  BY <1>1, <1>2, <1>3 DEF CriticalCopies, e, f

LEMMA CriticalElsewhere ==
    ASSUME Inv, NEW b, ForwardCritical(b), NEW c \in DOMAIN db.bundle, c # b, c \in DOMAIN db'.bundle
    PROVE  db'.bundle[c] = db.bundle[c]
<1> DEFINE d == Drop(db, {b}, {"fwd"})
<1>1. c \in DOMAIN d.bundle /\ d.bundle[c] = db.bundle[c] /\ c <= made /\ made \in Nat /\ c \in Int
  BY BpAgentAssumption DEF Drop, Inv, Living
<1>2. \/ \E first \in Neighbor, others \in SUBSET Neighbor, potential \in {0, 1} :
            LET queued == made + Cardinality(others)
            IN  \E to \in Bijection(made + 1 .. queued, others) :
                    db' = CriticalCopies(d, b, first, made + 1 .. queued + potential, to)
      \/ db' = Destroy(d, {b}, FALSE)
  BY DEF ForwardCritical
<1> HIDE DEF d
<1>3. CASE db' = Destroy(d, {b}, FALSE)
  <2> DEFINE u == FALSE
  <2>1. u \in BOOLEAN /\ c \in DOMAIN Destroy(d, {b}, u).bundle
    BY <1>3
  <2> HIDE DEF u
  <2>2. Destroy(d, {b}, u).bundle[c] = d.bundle[c]
    BY <1>1, <2>1, OthersStay, Zenon
  <2>. QED
    BY <1>1, <1>3, <2>2 DEF u
<1>4. ASSUME NEW first, NEW others \in SUBSET Neighbor, NEW potential \in {0, 1},
             NEW to \in Bijection(made + 1 .. made + Cardinality(others), others),
             db' = CriticalCopies(d, b, first, made + 1 .. made + Cardinality(others) + potential, to)
      PROVE  db'.bundle[c] = db.bundle[c]
  <2> DEFINE M == made + 1 .. made + Cardinality(others)
             N == made + 1 .. made + Cardinality(others) + potential
  <2>1. Cardinality(others) \in Nat
    BY BpStoreAssumption, FS_Subset, FS_CardinalityType
  <2>2. M \subseteq N /\ c \notin N
    BY <1>1, <2>1
  <2> HIDE DEF M
  <2>3. DOMAIN to \subseteq N
    BY <1>4, <2>2 DEF Bijection, Injection, Surjection, M
  <2> HIDE DEF N
  <2>4. CriticalCopies(d, b, first, N, to).bundle[c] = d.bundle[c]
    BY <1>1, <2>2, <2>3, CopiesLeave
  <2>. QED
    BY <1>1, <1>4, <2>4 DEF N
<1>. QED
  BY <1>2, <1>3, <1>4

LEMMA ForwardCriticalCustody ==
    ASSUME Inv, Inv', Custodial, NEW b, ForwardCritical(b)
    PROVE  Upheld
<1> DEFINE k == db.bundle[b].key
           N == (made + 1)..made'
<1>1. /\ Sound(db, Once) /\ AllFit(db, Once) /\ Once' = Once /\ made \in Nat
      /\ held' = held /\ xmit' = xmit /\ DOMAIN held \subseteq DOMAIN held'
  BY CustodialFit, SameOnce, BpAgentAssumption DEF Inv, ForwardCritical
<1>2. N = (made + 1)..made' /\ k = db.bundle[b].key
  OBVIOUS
<1> HIDE DEF k, N
<1>3. /\ k \in Critical
      /\ \/ Quiet(db, db', Once) /\ made' = made
         \/ made <= made' /\ Leads(db, db', N, k, Once)
  BY <1>2, CriticalFrom
<1>4. ASSUME NEW c \in Usual(db', Once), c \in DOMAIN db.bundle, db'.bundle[c].key = db.bundle[c].key
      PROVE  db'.bundle[c] = db.bundle[c]
  <2>1. c # b /\ c \in DOMAIN db'.bundle
    BY <1>2, <1>3, <1>4 DEF Usual
  <2>. QED
    BY <1>4, <2>1, CriticalElsewhere
<1>5. CASE Quiet(db, db', Once) /\ made' = made
  <2>1. ASSUME NEW c \in Usual(db', Once) PROVE Followed(db.bundle[c], db'.bundle[c])
    <3>1. /\ c \in DOMAIN db.bundle /\ db'.bundle[c].key = db.bundle[c].key
          /\ Fit(db.bundle[c])
      BY <1>1, <1>5, UsualQuiet DEF Quiet, Usual
    <3>2. db'.bundle[c] = db.bundle[c]
      BY <1>4, <3>1
    <3>. QED
      BY <3>1, <3>2 DEF Followed
  <2>. QED
    BY <1>1, <1>5, <2>1, FollowsStep DEF Follows
<1>6. CASE made <= made' /\ Leads(db, db', N, k, Once)
  <2>1. ASSUME NEW c \in Usual(db', Once')
        PROVE  c \notin N /\ db'.bundle[c] = db.bundle[c]
    <3>1. /\ c \notin N /\ c \in DOMAIN db.bundle /\ db'.bundle[c].key = db.bundle[c].key
          /\ c \in Usual(db', Once)
      BY <1>1, <1>3, <1>6, <2>1 DEF Usual, Leads
    <3>. QED
      BY <1>4, <3>1
  <2>2. Leads(db, db', N, k, Once') /\ Once' \subseteq Once
    BY <1>1, <1>6
  <2>3. /\ \A c \in Usual(db', Once') : c \notin N => db'.bundle[c] = db.bundle[c]
        /\ \A c \in Usual(db', Once') : c \in N => Fit(db'.bundle[c]) /\ db'.bundle[c].in # {}
    BY <2>1
  <2>. QED
    BY <1>1, <1>2, <1>3, <1>6, <2>2, <2>3, ArrivalStep, ZenonT(60)
<1>. QED
  BY <1>3, <1>5, <1>6

\* A clone is made only while b is there, and the key of both leads to neither.
LEMMA ForwardOrdinaryCustody ==
    ASSUME Inv, Inv', Custodial, NEW b, ForwardOrdinary(b)
    PROVE  Upheld
<1>1. /\ Sound(db, Once) /\ AllFit(db, Once) /\ Once' = Once /\ made \in Nat
      /\ held' = held /\ xmit' = xmit /\ b \in db.list["fwd"]
  BY CustodialFit, SameOnce, BpAgentAssumption DEF Inv, ForwardOrdinary
<1>2. b \in DOMAIN db.bundle /\ db.bundle[b].in # {}
  BY <1>1, Listed, ListsOutward
<1>3. PICK g : /\ Quiet(db, g, Once) /\ Follows(db, g, Once)
               /\ \/ db' = g /\ made' = made
                  \/ /\ b \in DOMAIN g.bundle /\ made < MaxBundles /\ made' = made + 1
                     /\ db' = ToLimbo(Clone(g, b, {made + 1}), {made + 1})
  BY OrdinaryFollows
<1>4. CASE db' = g /\ made' = made
  <2>1. DOMAIN held \subseteq DOMAIN held'
    BY <1>1
  <2>. QED
    BY <1>1, <1>3, <1>4, <2>1, FollowsStep
<1>5. CASE /\ b \in DOMAIN g.bundle /\ made < MaxBundles /\ made' = made + 1
           /\ db' = ToLimbo(Clone(g, b, {made + 1}), {made + 1})
  <2> DEFINE new == made + 1
             N == {new}
             k == g.bundle[b].key
             f == Clone(g, b, N)
  <2>1. new \notin 1..made /\ new # 0 /\ made <= made' /\ ~(new <= made)
    BY <1>1, <1>5
  <2>2. /\ Sound(g, Once) /\ new \notin DOMAIN db.bundle /\ new \notin DOMAIN g.bundle
        /\ new \notin g.list["transit"] /\ k = db.bundle[b].key /\ g.bundle[b] \in Bundle
        /\ \A c \in DOMAIN db.bundle : c <= made
    BY <1>1, <1>3, <1>5, <2>1 DEF Inv, Living, Quiet, Sound, DbOK
  <2>3. db' = ToLimbo(f, N) /\ new \in N /\ N # {} /\ N \cap DOMAIN db.bundle = {}
    BY <1>5, <2>2
  <2>4. Leads(g, db', N, k, Once)
    <3> HIDE DEF new
    <3>. QED
      BY <1>5, <2>1, <2>2, LimboCloneLeads, Zenon DEF new
  <2> HIDE DEF f, k, N, new
  <2>5. Leads(db, db', N, k, Once) /\ Sound(db', Once)
    <3>1. Quiet(db, g, Once)
      BY <1>3
    <3>2. Leads(db, db', N, k, Once)
      BY <2>3, <2>4, <3>1, QuietLeads
    <3>. QED
      BY <3>2 DEF Leads
  <2>6. /\ DOMAIN f.bundle = DOMAIN g.bundle \cup N
        /\ f.bundle[new] \in Bundle /\ f.bundle[new].in = {} /\ ~f.bundle[new].overdue
        /\ f.bundle[new].key = k
        /\ \A c \in DOMAIN g.bundle \ N : f.bundle[c] = g.bundle[c]
    <3>1. /\ DOMAIN f.bundle = DOMAIN g.bundle \cup N
          /\ \A c \in N : /\ f.bundle[c] \in Bundle /\ f.bundle[c].key = g.bundle[b].key
                          /\ f.bundle[c].in = {} /\ ~f.bundle[c].overdue
          /\ \A c \in DOMAIN g.bundle \ N : f.bundle[c] = g.bundle[c]
      BY <1>5, <2>2, <2>3, CloneIs DEF f
    <3>. QED
      BY <2>3, <3>1 DEF k
  <2>7. DOMAIN db'.bundle = DOMAIN f.bundle
    BY <2>3, SameBundles
  <2>8. ASSUME NEW c \in DOMAIN db'.bundle, c # new
        PROVE  /\ c \in DOMAIN g.bundle /\ db'.bundle[c] = g.bundle[c]
               /\ c \in DOMAIN db.bundle /\ db'.bundle[c].key = db.bundle[c].key
    <3>1. c \in DOMAIN g.bundle \ N /\ c \in DOMAIN f.bundle /\ f.bundle[c] = g.bundle[c]
      BY <2>6, <2>7, <2>8 DEF N
    <3>2. ToLimbo(f, {new}).bundle[c] = f.bundle[c]
      BY <2>8, <3>1, OthersStay, Zenon
    <3>. QED
      BY <1>3, <2>3, <3>1, <3>2 DEF N, Quiet
  <2>9. /\ b \in DOMAIN db'.bundle /\ b # new /\ db'.bundle[b].key = k
        /\ new \in DOMAIN db'.bundle /\ db'.bundle[new].key = k
    <3>1. b \in DOMAIN db'.bundle /\ b # new /\ new \in DOMAIN db'.bundle
      BY <1>5, <2>2, <2>3, <2>6, <2>7
    <3>. QED
      BY <2>2, <2>3, <2>5, <2>8, <3>1 DEF Leads
  <2>10. ASSUME NEW c \in DOMAIN db'.bundle, db'.bundle[c].key = k
         PROVE  Leading(db', xmit', c) = {}
    <3>1. Find(db', k) \notin DOMAIN db'.bundle
      <4>1. ASSUME Find(db', k) \in DOMAIN db'.bundle PROVE FALSE
        <5>1. Find(db', k) # 0
          BY <2>5, <4>1 DEF Sound, DbOK
        <5>2. OfKey(db', DOMAIN db'.bundle, k) = {Find(db', k)}
          BY <2>5, <5>1, Found DEF Sound, HashOK
        <5>. QED
          BY <2>9, <5>2 DEF OfKey
      <4>. QED
        BY <4>1
    <3>2. ASSUME NEW x \in xmit', Find(db', x.key) = c PROVE FALSE
      <4>1. c # 0
        BY <2>5 DEF Sound, DbOK
      <4>2. x.key = k
        BY <2>5, <2>10, <3>2, <4>1, Found
      <4>. QED
        BY <3>1, <3>2, <4>2
    <3>. QED
      BY <3>2 DEF Leading
  <2>11. ASSUME NEW c \in Usual(db, Once), db.bundle[c].key = k
         PROVE  Leading(db, xmit, c) = {}
    <3>1. c \in DOMAIN db.bundle /\ c # 0
      BY <1>1 DEF Usual, Sound, DbOK
    <3>2. CASE c = b
      BY <1>2, <2>11, <3>2 DEF Custodial, InCustody
    <3>3. CASE c # b
      <4>1. ASSUME NEW x \in xmit, Find(db, x.key) = c PROVE FALSE
        <5>1. x.key = k /\ db.hash[k].obj = c /\ k \in DOMAIN db.hash
          BY <1>1, <2>11, <3>1, <4>1, Found
        <5>2. OfKey(db, DOMAIN db.bundle, k) = {c}
          BY <1>1, <3>1, <5>1 DEF Sound, HashOK
        <5>. QED
          BY <1>2, <2>2, <3>3, <5>2 DEF OfKey
      <4>. QED
        BY <4>1 DEF Leading
    <3>. QED
      BY <3>2, <3>3
  <2>12. ASSUME NEW c \in Usual(db', Once), c # new
         PROVE  c <= made /\ c \in Usual(db, Once) /\ Shifted(db, xmit, db', xmit', DOMAIN held, c)
    <3>1. /\ c \in DOMAIN db'.bundle /\ c \in DOMAIN g.bundle /\ db'.bundle[c] = g.bundle[c]
          /\ c \in DOMAIN db.bundle /\ db'.bundle[c].key = db.bundle[c].key /\ c <= made
      BY <2>2, <2>8, <2>12 DEF Usual
    <3>2. c \in Usual(db, Once) /\ c \in Usual(g, Once)
      BY <2>12, <3>1 DEF Usual
    <3>3. Followed(db.bundle[c], db'.bundle[c])
      BY <1>3, <3>1, <3>2 DEF Follows
    <3>4. Leading(db', xmit', c) = Leading(db, xmit, c)
      <4>1. CASE db'.bundle[c].key = k
        BY <2>10, <2>11, <3>1, <3>2, <4>1
      <4>2. CASE db'.bundle[c].key # k
        <5>1. c \notin N
          BY <2>12 DEF N
        <5>. QED
          BY <1>1, <2>5, <3>1, <4>2, <5>1, LeadingLeads
      <4>. QED
        BY <4>1, <4>2
    <3>. QED
      BY <3>1, <3>2, <3>3, <3>4 DEF Followed, Shifted
  <2>13. ASSUME new \in Usual(db', Once) PROVE Arrived(db', xmit', new)
    <3> DEFINE B == {new}
    <3>1. new \in DOMAIN f.bundle /\ f.bundle[new].key \notin Critical /\ new \in B
      BY <2>6, <2>7, <2>9, <2>13 DEF Usual
    <3>2. db' = ToLimbo(f, B)
      BY <2>3 DEF N
    <3> HIDE DEF B
    <3>3. Turned(f, ToLimbo(f, B), new,
                 IF new \in B THEN f.bundle[new].in \cup {"limbo"} ELSE f.bundle[new].in,
                 f.bundle[new].detained, f.bundle[new].overdue)
      BY <2>6, <3>1, ToLimboTurns
    <3>4. Leading(db', xmit', new) = {}
      BY <2>9, <2>10
    <3>. QED
      BY <2>6, <3>1, <3>2, <3>3, <3>4 DEF Turned, Arrived, Fit
  <2>14. /\ made <= made' /\ DOMAIN held \subseteq DOMAIN held'
         /\ \A c \in Usual(db', Once') : IF c <= made
               THEN c \in Usual(db, Once) /\ Shifted(db, xmit, db', xmit', DOMAIN held, c)
               ELSE Arrived(db', xmit', c)
    BY <1>1, <2>1, <2>12, <2>13 DEF new
  <2>15. ASSUME Stewards PROVE Stewards'
    <3>1. ASSUME NEW x \in xmit, x.key = k, k \in Once', x.steward \in Living PROVE FALSE
      <4>1. Find(db, k) = x.steward /\ k \notin Critical /\ x.steward \in DOMAIN db.bundle
        BY <1>1, <2>15, <3>1 DEF Stewards, Living
      <4>2. db.bundle[x.steward].key = k
        BY <1>1, <4>1, Found DEF Sound, DbOK
      <4>3. x.steward \in Usual(db, Once)
        BY <1>1, <3>1, <4>1, <4>2 DEF Usual
      <4>. QED
        BY <2>11, <3>1, <4>1, <4>2, <4>3 DEF Leading
    <3>2. Leads(db, db', N, k, Once') /\ N = (made + 1)..made' /\ Once' \subseteq Once
      BY <1>1, <1>5, <2>5 DEF N, new
    <3>. QED
      BY <1>1, <2>15, <3>1, <3>2, StewardsLeads
  <2>. QED
    BY <2>14, <2>15, CustodyStep DEF Upheld
<1>. QED
  BY <1>3, <1>4, <1>5

-----------------------------------------------------------------------------
(* The refinement.                                                          *)

LEMMA InitCustody == Init => Custodial /\ Stewards /\ Custody!Init
<1> SUFFICES ASSUME Init PROVE Custodial /\ Stewards /\ Custody!Init
  OBVIOUS
<1>1. Usual(db, Once) = {} /\ made = 0
  BY DEF Init, Empty, Usual
<1>2. ASSUME NEW c \in 1..MaxBundles PROVE Custodian(c) = "none"
  BY <1>1, BpAgentAssumption DEF Custodian
<1>. QED
  BY <1>1, <1>2 DEF Init, Stewards, Custodial, InCustody, Custody!Init, Custody!Id

LEMMA NextCustody ==
    ASSUME Inv, Inv', Custodial, [Next]_vars
    PROVE  Upheld
<1>1. CASE Application
  BY <1>1, SendCustody, ReleaseCustody, ApplicationCustody DEF Application
<1>2. CASE Daemons
  <2>1. ASSUME NEW k \in Key, Acquire(k) PROVE Upheld
    BY <2>1, AcquireCustody
  <2>2. ASSUME NEW b \in 1..made, Transit(b) \/ ForwardOrdinary(b) \/ ForwardCritical(b) \/ Dequeue(b)
        PROVE  Upheld
    BY <2>2, ApplicationCustody, ForwardOrdinaryCustody, ForwardCriticalCustody, DequeueCustody
  <2>3. ASSUME NEW b \in 1..made, NEW n \in Neighbor, Allocate(b, n)
        PROVE  Upheld
    BY <2>3, ApplicationCustody
  <2>4. ASSUME NEW x \in xmit, Success(x) \/ Failure(x)
        PROVE  Upheld
    BY <2>4, ReportCustody
  <2>. QED
    BY <1>2, <2>1, <2>2, <2>3, <2>4 DEF Daemons
<1>3. CASE Clock \/ Management
  BY <1>3, ApplicationCustody
<1>4. CASE UNCHANGED vars
  BY <1>4 DEF vars, Upheld, Custodial, Stewards, Once, Returned, Party, Custodian, Living
<1>. QED
  BY <1>1, <1>2, <1>3, <1>4 DEF Next

\* No ordinary bundle is dropped by all lists while no adapter has it, none is
\* queued again while an adapter may still report on it, and none comes back when
\* the node is done with it: the agent implements BpCustody.
THEOREM CustodyKept == Spec => OneCustodian
<1>1. Init => Inv /\ Custodial /\ Custody!Init
  BY InitInv, InitCustody
<1>2. Inv /\ Custodial /\ [Next]_vars => Inv' /\ Custodial' /\ [Custody!Next]_Party
  BY NextInv, NextCustody DEF Upheld
<1>3. Spec => Custody!Init /\ [][Custody!Next]_Party
  BY <1>1, <1>2, PTL DEF Spec
<1>. QED
  BY <1>3, PTL DEF OneCustodian, Custody!Spec, Party

\* The hash counts the living bundles of a key, and leads to the only one or to none;
\* a bundle that an adapter is the steward of is found by the key it will report,
\* unless that key has returned.
THEOREM KeysLead == Spec => []HashTrue
<1>1. Init => Inv /\ Custodial /\ Stewards
  BY InitInv, InitCustody
<1>2. Inv /\ Custodial /\ Stewards /\ [Next]_vars => Inv' /\ Custodial' /\ Stewards'
  BY NextInv, NextCustody DEF Upheld
<1>3. Inv /\ Stewards => HashTrue
  <2> SUFFICES ASSUME Inv, Stewards PROVE HashTrue
    OBVIOUS
  <2>1. HashOK(db)
    BY DEF Inv, Sound
  <2>2. \A x \in xmit : x.key \in Key
    BY DEF Inv
  <2>. QED
    BY <2>1, <2>2 DEF HashTrue, HashOK, Stewards, Once, Living
<1>. QED
  BY <1>1, <1>2, <1>3, PTL DEF Spec
=============================================================================
