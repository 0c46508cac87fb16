--------------------------- MODULE LtpSpanProofs ---------------------------
(***************************************************************************)
(* Proofs about LtpSpan for any clients and units, any window, and any     *)
(* limits on the length of a block, timeouts, checkpoints and breaks.      *)
(***************************************************************************)
EXTENDS LtpSpan, FiniteSetTheorems, SequenceTheorems, TLAPS

-----------------------------------------------------------------------------
(* Positions of a queue.                                                    *)

LEMMA Least ==
    ASSUME NEW S, S \subseteq Nat, S # {}
    PROVE  \E m \in S : \A n \in S : m <= n
<1> DEFINE R == OpToRel(<, Nat)
<1>1. IsWellFoundedOn(R, Nat)
  BY NatLessThanWellFounded
<1>2. \A m, n \in Nat : m < n => <<m, n>> \in R
  BY DEF OpToRel
<1> HIDE DEF R
<1>3. PICK m \in S : \A n \in S : ~(<<n, m>> \in R)
  BY <1>1, WFMin
<1>4. \A n \in S : ~(n < m)
  BY <1>2, <1>3
<1>. QED
  BY <1>4

(* A finite set of positions has an nth one for each n up to its size. *)
LEMMA NthExists ==
    ASSUME NEW K, K \subseteq Nat, IsFiniteSet(K), NEW n \in 1..Cardinality(K)
    PROVE  Nth(K, n) \in K
<1> DEFINE upTo(i) == {j \in K : j <= i}
           bad == {m \in 1..Cardinality(K) : ~ \E i \in K : Cardinality(upTo(i)) = m}
<1>1. Cardinality(K) \in Nat
  BY FS_CardinalityType
<1>2. SUFFICES bad = {}
  BY DEF Nth
<1>3. SUFFICES ASSUME bad # {} PROVE FALSE
  OBVIOUS
<1>4. PICK m \in bad : \A k \in bad : m <= k
  <2> DEFINE B == bad
  <2>1. B \subseteq Nat /\ B # {}
    BY <1>1, <1>3
  <2> HIDE DEF B
  <2>2. \E m \in B : \A k \in B : m <= k
    BY <2>1, Least
  <2>. QED
    BY <2>2 DEF B
<1>5. m \in 1..Cardinality(K) /\ \A i \in K : Cardinality(upTo(i)) # m
  BY <1>4
\* The next position after those of a set that is closed downwards has the next rank.
<1>6. ASSUME NEW low \in SUBSET K, Cardinality(low) = m - 1,
             \A i \in low, j \in K \ low : i < j
      PROVE  FALSE
  <2>1. IsFiniteSet(low)
    BY FS_Subset
  <2>2. K \ low # {}
    <3>1. low # K
      BY <1>1, <1>5, <1>6
    <3>. QED
      BY <3>1
  <2> DEFINE above == K \ low
  <2>3. PICK i \in above : \A j \in above : i <= j
    <3>1. above \subseteq Nat /\ above # {}
      BY <2>2
    <3> HIDE DEF above
    <3>. QED
      BY <3>1, Least
  <2>4. upTo(i) = low \cup {i}
    <3>1. \A j \in above : j <= i => j = i
      BY <2>3
    <3>2. \A j \in low : j <= i
      BY <1>6, <2>3
    <3>. QED
      BY <2>3, <3>1, <3>2
  <2>5. Cardinality(low \cup {i}) = Cardinality(low) + 1
    BY <2>1, <2>3, FS_AddElement
  <2>6. Cardinality(upTo(i)) = m
    BY <1>1, <1>5, <1>6, <2>4, <2>5
  <2>. QED
    BY <1>5, <2>3, <2>6
<1>7. CASE m = 1
  BY <1>6, <1>7, FS_EmptySet
<1>8. CASE m # 1
  <2>1. m - 1 \in 1..Cardinality(K) /\ ~(m <= m - 1)
    BY <1>1, <1>5, <1>8
  <2>2. PICK i \in K : Cardinality(upTo(i)) = m - 1
    <3>1. m - 1 \notin bad
      BY <1>4, <2>1
    <3>. QED
      BY <2>1, <3>1
  <2>3. \A k \in upTo(i), j \in K \ upTo(i) : k < j
    <3>1. \A j \in K \ upTo(i) : ~(j <= i) /\ j \in Nat
      OBVIOUS
    <3>2. \A k \in upTo(i) : k <= i /\ k \in Nat
      OBVIOUS
    <3>. QED
      BY <3>1, <3>2
  <2>. QED
    BY <1>6, <2>2, <2>3
<1>. QED
  BY <1>7, <1>8

-----------------------------------------------------------------------------
(* The inductive invariant.                                                 *)

TimerRecord == [status : {"queued", "timed", "acked"}, expirations : 0..MaxTimeouts]
SessionRecord == [sdus : SUBSET Sdu, total : Nat, red : Nat, ckpts : Timers,
                  finalAck : BOOLEAN, eobSent : BOOLEAN]

\* A queue of segments of sessions up to count, none of them of cur.
QueueOK(q, cur, count) ==
    /\ q \in Seq([session : 1..count, ckpt : 0..MaxCheckpoints])
    /\ \A i \in 1..Len(q) : q[i].session # cur

SessionsOK ==
    /\ sessionCount \in Nat
    /\ DOMAIN sessions \subseteq 1..sessionCount
    /\ sessions \in [DOMAIN sessions -> SessionRecord]

\* The session whose block is still open has no segments: nothing closes it.
CurrentOK ==
    /\ current \in DOMAIN sessions \cup {0}
    /\ current # 0 => sessions[current].ckpts = << >>
    /\ QueueOK(segments, current, sessionCount)

BlockOK ==
    /\ block \in [len : Nat, red : Nat, svc : {0} \cup {o.svc : o \in Offer}]
    /\ block.red <= block.len
    /\ current = 0 => block = EmptyBlock

Holders(u) == {s \in DOMAIN sessions : u \in sessions[s].sdus}

\* A unit is in the hands of its client, in one session, or given back.
Accounted(u) ==
    \/ u \notin Handed /\ notices[u] = 0 /\ Holders(u) = {}
    \/ u \in Handed /\ notices[u] = 0 /\ \E s \in Holders(u) : Holders(u) = {s}
    \/ u \in Handed /\ notices[u] = 1 /\ Holders(u) = {}

UnitsOK ==
    /\ sent \in [Client -> Nat] /\ notices \in [Sdu -> Nat]
    /\ \A u \in Sdu : Accounted(u)

Core == SessionsOK /\ CurrentOK /\ BlockOK /\ UnitsOK /\ RedWindow

TasksOK ==
    /\ sem \in [{"red", "green", "closed", "seg"} -> BOOLEAN]
    /\ xmit \in BOOLEAN /\ breaks \in 0..MaxBreaks
    /\ at \in [Client -> {"idle", "wait", "retry"}] /\ DOMAIN offer = Client
    /\ \A c \in Client : at[c] # "idle" => offer[c] \in Offers[c] /\ sent[c] < Units[c]
    /\ meter \in {"open", "top", "take", "work"} /\ (meter = "open" => current = 0)
    /\ lso \in {"look", "take"} /\ xn \in {"none", "lso"}

Inv == Core /\ TasksOK

-----------------------------------------------------------------------------
(* The queue.                                                               *)

LEMMA QueueElement ==
    ASSUME NEW q, NEW cur, NEW count, QueueOK(q, cur, count), NEW i \in 1..Len(q)
    PROVE  q[i].session \in 1..count /\ q[i].session # cur /\ q[i].ckpt \in 0..MaxCheckpoints
<1> DEFINE R == [session : 1..count, ckpt : 0..MaxCheckpoints]
<1>1. q \in Seq(R)
  BY DEF QueueOK
<1> HIDE DEF R
<1>2. q[i] \in R
  BY <1>1, ElementOfSeq
<1>. QED
  BY <1>2 DEF QueueOK, R

(* Part of a queue is a queue, *)
LEMMA QueuePart ==
    ASSUME NEW q, NEW cur, NEW count, QueueOK(q, cur, count), NEW p, NEW n \in Nat,
           p \in [1..n -> {q[i] : i \in 1..Len(q)}]
    PROVE  QueueOK(p, cur, count)
<1> DEFINE R == [session : 1..count, ckpt : 0..MaxCheckpoints]
<1>1. q \in Seq(R)
  BY DEF QueueOK
<1>2. \A i \in 1..Len(q) : q[i] \in R /\ q[i].session # cur
  <2> HIDE DEF R
  <2>. QED
    BY <1>1, ElementOfSeq DEF QueueOK
<1>3. p \in [1..n -> R] /\ \A i \in 1..n : p[i].session # cur
  <2> HIDE DEF R
  <2>. QED
    BY <1>2
<1>4. p \in Seq(R) /\ Len(p) = n
  <2> HIDE DEF R
  <2>. QED
    BY <1>3, SeqDef
<1>. QED
  BY <1>3, <1>4 DEF QueueOK

(* so what is left when segments leave it, *)
LEMMA StoppedOK ==
    ASSUME NEW cur, NEW count, QueueOK(segments, cur, count), NEW S
    PROVE  QueueOK(Stopped(S), cur, count)
<1> DEFINE kept == {i \in DOMAIN segments : segments[i].session \notin S}
           n == Cardinality(kept)
<1>1. DOMAIN segments = 1..Len(segments) /\ Len(segments) \in Nat
  BY DEF QueueOK
<1>2. IsFiniteSet(kept) /\ n \in Nat /\ kept \subseteq 1..Len(segments)
  <2>1. IsFiniteSet(1..Len(segments)) /\ kept \subseteq 1..Len(segments)
    BY <1>1, FS_Interval
  <2> HIDE DEF kept
  <2>. QED
    BY <2>1, FS_Subset, FS_CardinalityType
<1>3. \A k \in 1..n : Nth(kept, k) \in kept
  <2>1. kept \subseteq Nat
    BY <1>1, <1>2
  <2> HIDE DEF kept
  <2>. QED
    BY <1>2, <2>1, NthExists
<1> DEFINE p == [k \in 1..n |-> segments[Nth(kept, k)]]
<1>4. p \in [1..n -> {segments[i] : i \in 1..Len(segments)}]
  <2> HIDE DEF kept, n
  <2>. QED
    BY <1>2, <1>3
<1>5. p = Stopped(S)
  BY DEF Stopped
<1> HIDE DEF p, n
<1>. QED
  BY <1>2, <1>4, <1>5, QueuePart

(* its tail, and what is added to it. *)
LEMMA QueueSteps ==
    ASSUME NEW q, NEW cur, NEW count, QueueOK(q, cur, count)
    PROVE  /\ q # << >> => QueueOK(Tail(q), cur, count)
           /\ \A s \in 1..count, c \in 0..MaxCheckpoints :
                 s # cur => QueueOK(Append(q, Reference(s, c)), cur, count)
<1> DEFINE R == [session : 1..count, ckpt : 0..MaxCheckpoints]
<1>1. q \in Seq(R) /\ \A i \in 1..Len(q) : q[i].session # cur
  BY DEF QueueOK
<1>2. ASSUME q # << >> PROVE QueueOK(Tail(q), cur, count)
  <2> HIDE DEF R
  <2>1. /\ Tail(q) \in Seq(R) /\ Len(Tail(q)) = Len(q) - 1
        /\ \A i \in 1..Len(Tail(q)) : Tail(q)[i] = q[i + 1]
    BY <1>1, <1>2, HeadTailProperties
  <2>2. \A i \in 1..Len(Tail(q)) : i + 1 \in 1..Len(q)
    BY <1>1, <2>1, LenProperties
  <2>. QED
    BY <1>1, <2>1, <2>2 DEF QueueOK, R
<1>3. ASSUME NEW s \in 1..count, NEW c \in 0..MaxCheckpoints, s # cur
      PROVE  QueueOK(Append(q, Reference(s, c)), cur, count)
  <2> DEFINE e == Reference(s, c)
             a == Append(q, e)
  <2>1. e \in R /\ e.session # cur
    BY <1>3 DEF Reference
  <2> HIDE DEF R, e
  <2>2. /\ a \in Seq(R) /\ Len(a) = Len(q) + 1 /\ a[Len(q) + 1] = e
        /\ \A i \in 1..Len(q) : a[i] = q[i]
    BY <1>1, <2>1, AppendProperties
  <2>3. \A i \in 1..Len(a) : i \in 1..Len(q) \/ i = Len(q) + 1
    BY <1>1, <2>2, LenProperties
  <2> HIDE DEF a
  <2>4. \A i \in 1..Len(a) : a[i].session # cur
    BY <1>1, <2>1, <2>2, <2>3
  <2>. QED
    BY <2>2, <2>4 DEF QueueOK, R, a, e
<1>. QED
  BY <1>2, <1>3

(* A queue stays one when there are more sessions, whatever the new one is. *)
LEMMA QueueGrows ==
    ASSUME NEW q, NEW cur, NEW count \in Nat, QueueOK(q, cur, count), NEW d,
           d = 0 \/ d = count + 1
    PROVE  QueueOK(q, d, count + 1) /\ QueueOK(q, 0, count)
<1> DEFINE R == [session : 1..count, ckpt : 0..MaxCheckpoints]
           T == [session : 1..count + 1, ckpt : 0..MaxCheckpoints]
<1>1. q \in Seq(R)
  BY DEF QueueOK
<1>2. R \subseteq T
  OBVIOUS
<1>3. q \in Seq(T)
  <2> HIDE DEF R, T
  <2>. QED
    BY <1>1, <1>2, SeqMonotonic
<1>4. \A i \in 1..Len(q) : q[i].session \in 1..count
  BY QueueElement
<1>5. \A k \in 1..count : k # 0 /\ k # d
  OBVIOUS
<1>. QED
  BY <1>1, <1>3, <1>4, <1>5 DEF QueueOK

-----------------------------------------------------------------------------
(* What the steps do to the sessions.                                       *)

RedSessions == {s \in DOMAIN sessions :
    sessions[s].red > 0 \/ (s = current /\ block.red > 0)}

(* The window is kept when no session becomes red. *)
LEMMA WindowKept ==
    ASSUME SessionsOK, SessionsOK', RedWindow, RedSessions' \subseteq RedSessions,
           MaxExportSessions \in Nat
    PROVE  RedWindow'
<1>1. IsFiniteSet(RedSessions)
  <2>1. IsFiniteSet(1..sessionCount) /\ RedSessions \subseteq 1..sessionCount
    BY FS_Interval DEF SessionsOK, RedSessions
  <2>. QED
    BY <2>1, FS_Subset
<1>2. /\ IsFiniteSet(RedSessions') /\ Cardinality(RedSessions') <= Cardinality(RedSessions)
      /\ Cardinality(RedSessions) \in Nat /\ Cardinality(RedSessions') \in Nat
  BY <1>1, FS_Subset, FS_CardinalityType
<1>. QED
  BY <1>2 DEF RedWindow, RedSessions

LEMMA UnitsKept ==
    ASSUME UnitsOK, UNCHANGED <<sent, notices>>, \A u \in Sdu : Holders(u)' = Holders(u)
    PROVE  UnitsOK'
BY DEF UnitsOK, Accounted, Handed

(* A session is changed, but neither its units nor its red part. *)
LEMMA UpdateOK ==
    ASSUME Core, NEW s \in DOMAIN sessions, NEW r \in SessionRecord,
           r.sdus = sessions[s].sdus, r.red = sessions[s].red, s # current,
           sessions' = [sessions EXCEPT ![s] = r],
           UNCHANGED <<sessionCount, current, block, sent, notices>>,
           QueueOK(segments', current, sessionCount)
    PROVE  Core'
<1>1. SessionsOK'
  BY DEF Core, SessionsOK
<1>2. /\ DOMAIN sessions' = DOMAIN sessions
      /\ \A x \in DOMAIN sessions : /\ sessions'[x].sdus = sessions[x].sdus
                                     /\ sessions'[x].red = sessions[x].red
                                     /\ x # s => sessions'[x] = sessions[x]
  BY DEF Core, SessionsOK
<1>3. CurrentOK'
  BY <1>2 DEF Core, CurrentOK
<1>4. BlockOK'
  BY DEF Core, BlockOK
<1>5. UnitsOK'
  BY <1>2, UnitsKept DEF Core, Holders
<1>6. RedWindow'
  BY <1>1, <1>2, WindowKept, LtpSpanAssumption DEF Core, RedSessions
<1>. QED
  BY <1>1, <1>3, <1>4, <1>5, <1>6 DEF Core

(* Sessions end, and each of their units goes back to its client: whoever   *)
(* held it is gone, and it has had one notice.                              *)
LEMMA GivenBack ==
    ASSUME Core, NEW S, S \subseteq DOMAIN sessions, GiveBack(S), UNCHANGED sent,
           DOMAIN sessions \ S \subseteq DOMAIN sessions',
           \A s \in DOMAIN sessions' :
              IF s \in DOMAIN sessions \ S THEN sessions'[s] = sessions[s]
              ELSE sessions'[s].sdus = {}
    PROVE  UnitsOK'
<1>1. /\ notices' = [u \in Sdu |-> notices[u] + Cardinality({s \in S : u \in sessions[s].sdus})]
      /\ notices \in [Sdu -> Nat] /\ sent \in [Client -> Nat]
  BY DEF GiveBack, Core, UnitsOK
<1>2. ASSUME NEW u \in Sdu
      PROVE  notices'[u] \in Nat /\ Accounted(u)'
  <2> DEFINE ended == {s \in S : u \in sessions[s].sdus}
  <2>1. ended = Holders(u) \cap S /\ Holders(u)' = Holders(u) \ S
    BY DEF Holders
  <2>2. notices'[u] = notices[u] + Cardinality(ended) /\ notices[u] \in Nat
    BY <1>1
  <2> HIDE DEF ended
  <2>3. Accounted(u) /\ (u \in Handed' <=> u \in Handed)
    BY DEF Core, UnitsOK, Handed
  <2>4. CASE Holders(u) = {}
    <3>1. ended = {} /\ Cardinality(ended) = 0
      BY <2>1, <2>4, FS_EmptySet
    <3>2. notices'[u] = notices[u] /\ Holders(u)' = {}
      BY <2>1, <2>2, <2>4, <3>1
    <3>. QED
      BY <2>2, <2>3, <2>4, <3>2 DEF Accounted
  <2>5. ASSUME NEW s \in Holders(u), Holders(u) = {s}, u \in Handed, notices[u] = 0
        PROVE  notices'[u] \in Nat /\ Accounted(u)'
    <3>1. CASE s \in S
      <4>1. ended = {s} /\ Holders(u)' = {}
        BY <2>1, <2>5, <3>1
      <4>2. Cardinality(ended) = 1
        BY <4>1, FS_Singleton
      <4>3. notices'[u] = 1
        BY <2>2, <2>5, <4>2
      <4>. QED
        BY <2>3, <2>5, <4>1, <4>3 DEF Accounted
    <3>2. CASE s \notin S
      <4>1. ended = {} /\ Holders(u)' = {s}
        BY <2>1, <2>5, <3>2
      <4>2. notices'[u] = 0
        BY <2>2, <2>5, <4>1, FS_EmptySet
      <4>. QED
        BY <2>3, <2>5, <4>1, <4>2 DEF Accounted
    <3>. QED
      BY <3>1, <3>2
  <2>. QED
    BY <2>3, <2>4, <2>5 DEF Accounted
<1>3. notices' \in [Sdu -> Nat]
  BY <1>1, <1>2
<1>. QED
  BY <1>1, <1>2, <1>3 DEF UnitsOK

LEMMA NewSessionOK == NewSession \in SessionRecord
<1>1. << >> \in Timers
  BY EmptySeq DEF Timers
<1>. QED
  BY <1>1 DEF NewSession, SessionRecord

(* A session other than the current one is closed. *)
LEMMA CloseOK ==
    ASSUME Core, NEW s \in DOMAIN sessions, s # current, NEW queue, NEW signals,
           Close(s, queue, signals), UNCHANGED sent, QueueOK(queue, current, sessionCount)
    PROVE  Core'
<1>1. /\ GiveBack({s}) /\ sessions' = [x \in DOMAIN sessions \ {s} |-> sessions[x]]
      /\ segments' = queue /\ UNCHANGED <<sessionCount, current, block, sent>>
  BY DEF Close, Without
<1>2. SessionsOK'
  BY <1>1 DEF Core, SessionsOK
<1>3. CurrentOK'
  BY <1>1 DEF Core, CurrentOK
<1>4. BlockOK'
  BY <1>1 DEF Core, BlockOK
<1>5. UnitsOK'
  <2> DEFINE S == {s}
  <2>1. GiveBack(S) /\ sessions' = [x \in DOMAIN sessions \ S |-> sessions[x]]
        /\ S \subseteq DOMAIN sessions
    BY <1>1
  <2> HIDE DEF S
  <2>. QED
    BY <1>1, <2>1, GivenBack
<1>6. RedWindow'
  BY <1>1, <1>2, WindowKept, LtpSpanAssumption DEF Core, RedSessions
<1>. QED
  BY <1>2, <1>3, <1>4, <1>5, <1>6 DEF Core

(* Sessions are canceled, the current one among them or not. *)
LEMMA CancelOK ==
    ASSUME Core, NEW S, S \subseteq DOMAIN sessions, NEW rate, NEW others,
           Cancel(S, rate, others), UNCHANGED sent
    PROVE  Core' /\ (current = 0 => current' = 0)
<1>1. GiveBack(S) /\ segments' = Stopped(S) /\ UNCHANGED sent
  BY DEF Cancel
<1>2. sessionCount \in Nat /\ sessionCount + 1 \in Nat /\ DOMAIN sessions \subseteq 1..sessionCount
      /\ sessions \in [DOMAIN sessions -> SessionRecord]
  BY DEF Core, SessionsOK
<1>3. QueueOK(segments', current, sessionCount)
  BY <1>1, StoppedOK DEF Core, CurrentOK
<1>4. CASE current \in S
  <2> DEFINE D == DOMAIN sessions \ S
             n == sessionCount + 1
  <2>1. /\ sessions' = [s \in D \cup {n} |-> IF s \in D THEN sessions[s] ELSE NewSession]
        /\ sessionCount' = n /\ current' = n /\ block' = EmptyBlock
    BY <1>4 DEF Cancel, StartExportSession, Without
  <2>2. n \notin D /\ n # 0 /\ current # 0
    BY <1>2, <1>4
  <2>3. SessionsOK'
    BY <1>2, <2>1, NewSessionOK DEF SessionsOK
  <2>4. CurrentOK'
    <3>1. QueueOK(segments', n, n)
      BY <1>2, <1>3, QueueGrows
    <3>2. sessions'[n].ckpts = << >>
      BY <2>1, <2>2 DEF NewSession
    <3>. QED
      BY <2>1, <3>1, <3>2 DEF CurrentOK
  <2>5. BlockOK'
    BY <2>1, <2>2 DEF BlockOK, EmptyBlock
  <2>6. UnitsOK'
    <3>1. DOMAIN sessions \ S \subseteq DOMAIN sessions'
      BY <2>1
    <3>2. \A s \in DOMAIN sessions' :
              IF s \in DOMAIN sessions \ S THEN sessions'[s] = sessions[s]
              ELSE sessions'[s].sdus = {}
      BY <2>1 DEF NewSession
    <3>. QED
      BY <1>1, <3>1, <3>2, GivenBack
  <2>7. RedWindow'
    <3>1. RedSessions' \subseteq RedSessions
      BY <2>1, <2>2 DEF RedSessions, NewSession, EmptyBlock
    <3>. QED
      BY <2>3, <3>1, WindowKept, LtpSpanAssumption DEF Core
  <2>. QED
    BY <2>2, <2>3, <2>4, <2>5, <2>6, <2>7 DEF Core
<1>5. CASE current \notin S
  <2>1. /\ sessions' = [s \in DOMAIN sessions \ S |-> sessions[s]]
        /\ UNCHANGED <<sessionCount, current, block>>
    BY <1>5 DEF Cancel, Without
  <2>2. SessionsOK'
    BY <1>2, <2>1 DEF SessionsOK
  <2>3. CurrentOK'
    BY <1>3, <1>5, <2>1 DEF Core, CurrentOK
  <2>4. BlockOK'
    BY <2>1 DEF Core, BlockOK
  <2>5. UnitsOK'
    BY <1>1, <2>1, GivenBack
  <2>6. RedWindow'
    BY <2>1, <2>2, WindowKept, LtpSpanAssumption DEF Core, RedSessions
  <2>. QED
    BY <2>1, <2>2, <2>3, <2>4, <2>5, <2>6 DEF Core
<1>. QED
  BY <1>4, <1>5

(* ltpmeter starts a session when there is no current one. *)
LEMMA StartOK ==
    ASSUME Core, current = 0, StartExportSession(sessions),
           UNCHANGED <<block, segments, sent, notices>>
    PROVE  Core'
<1> DEFINE n == sessionCount + 1
<1>1. sessionCount \in Nat /\ n \in Nat /\ DOMAIN sessions \subseteq 1..sessionCount
      /\ sessions \in [DOMAIN sessions -> SessionRecord]
  BY DEF Core, SessionsOK
<1>2. /\ sessions' = [s \in DOMAIN sessions \cup {n} |->
                         IF s \in DOMAIN sessions THEN sessions[s] ELSE NewSession]
      /\ sessionCount' = n /\ current' = n
  BY DEF StartExportSession
<1>3. n \notin DOMAIN sessions /\ n # 0 /\ block = EmptyBlock
  BY <1>1 DEF Core, BlockOK
<1>4. SessionsOK'
  BY <1>1, <1>2, NewSessionOK DEF SessionsOK
<1>5. CurrentOK'
  <2>1. QueueOK(segments', n, n)
    BY <1>1, QueueGrows DEF Core, CurrentOK
  <2>2. sessions'[n].ckpts = << >>
    BY <1>2, <1>3 DEF NewSession
  <2>. QED
    BY <1>2, <2>1, <2>2 DEF CurrentOK
<1>6. BlockOK'
  BY <1>2, <1>3 DEF Core, BlockOK
<1>7. UnitsOK'
  BY <1>2, UnitsKept DEF Core, Holders, NewSession
<1>8. RedWindow'
  <2>1. RedSessions' \subseteq RedSessions
    BY <1>2, <1>3 DEF RedSessions, NewSession, EmptyBlock
  <2>. QED
    BY <1>4, <2>1, WindowKept, LtpSpanAssumption DEF Core
<1>. QED
  BY <1>4, <1>5, <1>6, <1>7, <1>8 DEF Core

(* ltpmeter segments the block: the session is no longer the current one,   *)
(* and is as red as the block was.                                          *)
LEMMA SegmentOK ==
    ASSUME Core, block.len > 0, SegmentBlock, UNCHANGED <<sent, notices>>
    PROVE  Core'
<1> DEFINE R == [session : 1..sessionCount, ckpt : 0..MaxCheckpoints]
           ckpts == IF block.red > 0 THEN <<Queued>> ELSE <<>>
           r == [sessions[current] EXCEPT !.total = block.len, !.red = block.red, !.ckpts = ckpts]
<1>1. sessionCount \in Nat /\ DOMAIN sessions \subseteq 1..sessionCount
      /\ sessions \in [DOMAIN sessions -> SessionRecord]
  BY DEF Core, SessionsOK
<1>2. current \in DOMAIN sessions /\ current # 0 /\ block.len \in Nat /\ block.red \in Nat
  BY DEF Core, CurrentOK, BlockOK, EmptyBlock
<1>3. ckpts \in Timers
  <2>1. Queued \in TimerRecord
    BY LtpSpanAssumption DEF Queued, TimerRecord
  <2>2. << >> \in Seq(TimerRecord) /\ <<Queued>> \in Seq(TimerRecord)
    BY <2>1, EmptySeq
  <2>. QED
    BY <2>2 DEF Timers, TimerRecord
<1>4. r \in SessionRecord /\ r.sdus = sessions[current].sdus /\ r.red = block.red
  <2>1. sessions[current] \in SessionRecord
    BY <1>1, <1>2
  <2> HIDE DEF ckpts
  <2>2. r \in SessionRecord
    BY <1>2, <1>3, <2>1, Zenon DEF SessionRecord
  <2>. QED
    BY <2>1, <2>2 DEF SessionRecord
<1>5. /\ sessions' = [sessions EXCEPT ![current] = r]
      /\ segments' = segments \o Issue /\ block' = EmptyBlock /\ current' = 0
      /\ UNCHANGED <<sessionCount, sent, notices>>
  BY <1>1, <1>2 DEF SegmentBlock, SessionRecord
<1> HIDE DEF r, ckpts
<1>6. SessionsOK'
  BY <1>1, <1>4, <1>5 DEF SessionsOK
<1>7. CurrentOK'
  <2>1. Reference(current, 0) \in R /\ Reference(current, 1) \in R
    BY <1>1, <1>2, LtpSpanAssumption DEF Reference
  <2>2. QueueOK(segments, 0, sessionCount)
    BY <1>1, QueueGrows DEF Core, CurrentOK
  <2>3. segments \in Seq(R)
    BY <2>2 DEF QueueOK
  <2> HIDE DEF R
  <2>4. Issue \in Seq(R)
    <3>1. <<Reference(current, 1)>> \in Seq(R) /\ <<Reference(current, 0)>> \in Seq(R)
          /\ << >> \in Seq(R)
      BY <2>1, EmptySeq
    <3>. QED
      BY <3>1, ConcatProperties DEF Issue
  <2>5. segments' \in Seq(R)
    BY <1>5, <2>3, <2>4, ConcatProperties
  <2>6. \A i \in 1..Len(segments') : segments'[i].session # 0
    <3> TAKE i \in 1..Len(segments')
    <3>1. segments'[i] \in R
      BY <2>5, ElementOfSeq
    <3>. QED
      BY <3>1 DEF R
  <2>. QED
    BY <1>5, <2>5, <2>6 DEF CurrentOK, QueueOK, R
<1>8. BlockOK'
  BY <1>5 DEF BlockOK, EmptyBlock
<1>9. UnitsOK'
  <2>1. \A u \in Sdu : Holders(u)' = Holders(u)
    BY <1>1, <1>2, <1>4, <1>5 DEF Holders
  <2>. QED
    BY <1>5, <2>1, UnitsKept DEF Core
<1>10. RedWindow'
  <2>1. RedSessions' \subseteq RedSessions
    BY <1>1, <1>2, <1>4, <1>5 DEF RedSessions, EmptyBlock
  <2>. QED
    BY <1>6, <2>1, WindowKept, LtpSpanAssumption DEF Core
<1>. QED
  BY <1>6, <1>7, <1>8, <1>9, <1>10 DEF Core

(* ltp_send puts a unit in the current session; the window admits a session *)
(* with red data only if all of them together are within it.                *)
LEMMA AppendOK ==
    ASSUME Core, NEW c \in Client, NEW o \in Offers[c], current # 0, CanAppend(o),
           sent[c] < Units[c], Append1(c, o), UNCHANGED notices
    PROVE  Core'
<1> DEFINE u0 == <<c, sent[c] + 1>>
           r == [sessions[current] EXCEPT !.sdus = @ \cup {u0}]
<1>1. sessionCount \in Nat /\ DOMAIN sessions \subseteq 1..sessionCount
      /\ sessions \in [DOMAIN sessions -> SessionRecord] /\ current \in DOMAIN sessions
  BY DEF Core, SessionsOK, CurrentOK
<1>2. /\ sessions' = [sessions EXCEPT ![current].sdus = sessions[current].sdus \cup {u0}]
      /\ block' = [len |-> block.len + o.len, red |-> block.red + o.red, svc |-> o.svc]
      /\ sent' = [sent EXCEPT ![c] = sent[c] + 1]
      /\ UNCHANGED <<sessionCount, current, segments, notices>>
  BY DEF Append1
<1>3. o.len \in Nat \ {0} /\ o.red \in 0..o.len /\ o \in Offer
  BY LtpSpanAssumption DEF Offer
<1>4. sent \in [Client -> Nat] /\ sent[c] \in Nat /\ Units[c] \in Nat /\ u0 \in Sdu
      /\ u0 \notin Handed
  <2>1. sent \in [Client -> Nat] /\ sent[c] \in Nat /\ Units[c] \in Nat
    BY LtpSpanAssumption DEF Core, UnitsOK
  <2>2. sent[c] + 1 \in 1..Units[c]
    BY <2>1
  <2>3. u0 \in {c} \X (1..Units[c])
    BY <2>2
  <2>4. u0 \in Sdu
    BY <2>3 DEF Sdu
  <2>5. u0[2] = sent[c] + 1 /\ u0[1] = c /\ ~(sent[c] + 1 <= sent[c])
    BY <2>1
  <2> HIDE DEF u0
  <2>. QED
    BY <2>1, <2>4, <2>5 DEF Handed
<1>5. sessions[current] \in SessionRecord /\ sessions[current].sdus \cup {u0} \in SUBSET Sdu
  BY <1>1, <1>4 DEF SessionRecord
<1> HIDE DEF u0
<1>6. r \in SessionRecord /\ r.sdus = sessions[current].sdus \cup {u0}
      /\ r.red = sessions[current].red /\ r.ckpts = sessions[current].ckpts
  <2>1. r \in SessionRecord
    BY <1>5, Zenon DEF SessionRecord
  <2>. QED
    BY <1>5, <2>1 DEF SessionRecord
<1>7. sessions' = [sessions EXCEPT ![current] = r]
  BY <1>1, <1>2
<1> HIDE DEF r
<1>8. SessionsOK'
  BY <1>1, <1>2, <1>6, <1>7 DEF SessionsOK
<1>9. CurrentOK'
  BY <1>1, <1>2, <1>6, <1>7 DEF Core, CurrentOK
<1>10. block.len \in Nat /\ block.red \in Nat /\ block.red <= block.len
  BY DEF Core, BlockOK
<1>11. BlockOK'
  <2>1. block.len + o.len \in Nat /\ block.red + o.red \in Nat
        /\ block.red + o.red <= block.len + o.len
    BY <1>3, <1>10
  <2>. QED
    BY <1>2, <1>3, <2>1 DEF BlockOK
<1>12. UnitsOK'
  <2>1. \A u \in Sdu : Holders(u)' = IF u = u0 THEN Holders(u) \cup {current} ELSE Holders(u)
    BY <1>1, <1>6, <1>7 DEF Holders
  <2>2. \A u \in Sdu : u \in Handed' <=> u \in Handed \/ u = u0
    <3> TAKE u \in Sdu
    <3>1. PICK d \in Client : u \in {d} \X (1..Units[d])
      BY DEF Sdu
    <3>2. u[1] = d /\ u[2] \in 1..Units[d] /\ u = <<u[1], u[2]>>
      BY <3>1
    <3>3. Units[d] \in Nat /\ sent[d] \in Nat /\ sent'[d] = IF d = c THEN sent[c] + 1 ELSE sent[d]
      BY <1>2, <1>4, LtpSpanAssumption
    <3>4. u = u0 <=> (u[1] = c /\ u[2] = sent[c] + 1)
      BY <3>2 DEF u0
    <3>. QED
      BY <1>4, <3>2, <3>3, <3>4 DEF Handed
  <2>3. ASSUME NEW u \in Sdu PROVE Accounted(u)'
    <3>1. Accounted(u)
      BY DEF Core, UnitsOK
    <3>2. CASE u = u0
      <4>1. Holders(u) = {} /\ notices[u] = 0
        BY <1>4, <3>1, <3>2 DEF Accounted
      <4>2. Holders(u)' = {current} /\ notices'[u] = 0 /\ u \in Handed'
        BY <1>2, <2>1, <2>2, <3>2, <4>1
      <4>. QED
        BY <4>2 DEF Accounted
    <3>3. CASE u # u0
      BY <1>2, <2>1, <2>2, <3>1, <3>3 DEF Accounted
    <3>. QED
      BY <3>2, <3>3
  <2>. QED
    BY <1>2, <1>4, <2>3 DEF Core, UnitsOK
<1>13. RedWindow'
  <2>1. RedSessions' \subseteq RedSessions \cup {current}
    BY <1>1, <1>2, <1>6, <1>7 DEF RedSessions
  <2>2. CASE RedSessions' \subseteq RedSessions
    BY <1>8, <2>2, WindowKept, LtpSpanAssumption DEF Core
  <2>3. CASE ~(RedSessions' \subseteq RedSessions)
    <3>1. current \in RedSessions' /\ current \notin RedSessions
      BY <2>1, <2>3
    <3>2. block.red = 0 /\ o.red # 0
      BY <1>2, <1>3, <1>6, <1>7, <1>10, <3>1, <1>1 DEF RedSessions
    <3>3. Cardinality(DOMAIN sessions) <= MaxExportSessions
      BY <1>10, <3>2 DEF CanAppend
    <3>4. IsFiniteSet(DOMAIN sessions)
      <4>1. IsFiniteSet(1..sessionCount) /\ DOMAIN sessions \subseteq 1..sessionCount
        BY <1>1, FS_Interval
      <4>. QED
        BY <4>1, FS_Subset
    <3>5. RedSessions' \subseteq DOMAIN sessions
      BY <1>1, <1>7 DEF RedSessions
    <3>6. /\ Cardinality(RedSessions') <= Cardinality(DOMAIN sessions)
          /\ Cardinality(RedSessions') \in Nat /\ Cardinality(DOMAIN sessions) \in Nat
      BY <3>4, <3>5, FS_Subset, FS_CardinalityType
    <3>. QED
      BY <3>3, <3>6, LtpSpanAssumption DEF RedWindow, RedSessions
  <2>. QED
    BY <2>2, <2>3
<1>. QED
  BY <1>8, <1>9, <1>11, <1>12, <1>13 DEF Core

-----------------------------------------------------------------------------
(* One lemma per task, with one step per action.                            *)

Semaphores == [{"red", "green", "closed", "seg"} -> BOOLEAN]

LEMMA SemaphoresOK ==
    ASSUME sem \in Semaphores
    PROVE  /\ \A which : Given(which) \in Semaphores
           /\ \A s : Taken(s) \in Semaphores
<1>1. ASSUME NEW which PROVE Given(which) \in Semaphores
  BY Zenon DEF Given, Semaphores
<1>2. ASSUME NEW s PROVE Taken(s) \in Semaphores
  BY DEF Taken, Semaphores
<1>. QED
  BY <1>1, <1>2

(* What a task leaves of the others when it signals. *)
LEMMA TasksKept ==
    ASSUME TasksOK, sem' \in Semaphores, xmit' \in BOOLEAN, breaks' \in 0..MaxBreaks,
           UNCHANGED clientVars,
           meter' \in {"open", "top", "take", "work"}, meter' = "open" => current' = 0,
           lso' \in {"look", "take"}, xn' \in {"none", "lso"}
    PROVE  TasksOK'
BY DEF TasksOK, Semaphores, clientVars

LEMMA SendingOK ==
    ASSUME Inv, NEW c \in Client, Sending(c)
    PROVE  Inv'
<1>1. sem \in Semaphores /\ TasksOK /\ Core /\ DOMAIN sent = Client /\ sent[c] \in Nat
  BY DEF Inv, TasksOK, Semaphores, Core, UnitsOK
<1>2. ASSUME NEW o \in Offers[c], sent[c] < Units[c], Attempt(c, o)
      PROVE  Inv'
  <2>1. UNCHANGED <<linkVars, notices, meter, lso, xn>>
    BY <1>2 DEF Attempt
  <2>2. CASE current # 0 /\ CanAppend(o)
    <3>1. Append1(c, o)
      BY <1>2, <2>2 DEF Attempt
    <3>2. Core'
      BY <1>1, <1>2, <2>1, <2>2, <3>1, AppendOK
    <3>3. /\ sem' \in Semaphores /\ at' = [at EXCEPT ![c] = "idle"]
          /\ sent' = [sent EXCEPT ![c] = @ + 1] /\ UNCHANGED <<offer, current>>
      BY <1>1, <3>1, SemaphoresOK DEF Append1
    <3>4. TasksOK'
      BY <1>1, <2>1, <3>3 DEF TasksOK, Semaphores, linkVars
    <3>. QED
      BY <3>2, <3>4 DEF Inv
  <2>3. CASE ~(current # 0 /\ CanAppend(o))
    <3>1. /\ at' = [at EXCEPT ![c] = "wait"] /\ offer' = [offer EXCEPT ![c] = o]
          /\ UNCHANGED <<spanVars, sem, sent>>
      BY <1>2, <2>3 DEF Attempt
    <3>2. Core'
      BY <1>1, <2>1, <3>1 DEF spanVars, Core, SessionsOK, CurrentOK, BlockOK, UnitsOK, Accounted,
         Holders, Handed, RedWindow
    <3>3. TasksOK'
      BY <1>1, <1>2, <2>1, <3>1 DEF TasksOK, linkVars, spanVars
    <3>. QED
      BY <3>2, <3>3 DEF Inv
  <2>. QED
    BY <2>2, <2>3
<1>3. CASE SendSdu(c)
  BY <1>2, <1>3 DEF SendSdu
<1>4. CASE Retry(c)
  BY <1>1, <1>2, <1>4 DEF Retry, TasksOK
<1>5. CASE TakeBufOpen(c)
  <2>1. /\ sem' \in Semaphores /\ at[c] = "wait" /\ at' = [at EXCEPT ![c] = "retry"]
        /\ UNCHANGED <<spanVars, linkVars, offer, sent, notices, meter, lso, xn>>
    BY <1>1, <1>5, SemaphoresOK DEF TakeBufOpen
  <2>2. Core'
    BY <1>1, <2>1 DEF spanVars, Core, SessionsOK, CurrentOK, BlockOK, UnitsOK, Accounted,
       Holders, Handed, RedWindow
  <2>3. TasksOK'
    BY <1>1, <2>1 DEF TasksOK, Semaphores, linkVars, spanVars
  <2>. QED
    BY <2>2, <2>3 DEF Inv
<1>. QED
  BY <1>3, <1>4, <1>5 DEF Sending

(* Steps that leave the span alone. *)
LEMMA SpanKept ==
    ASSUME Core, UNCHANGED <<spanVars, sent, notices>>
    PROVE  Core'
BY DEF spanVars, Core, SessionsOK, CurrentOK, BlockOK, UnitsOK, Accounted, Holders, Handed, RedWindow

LEMMA MeterOK ==
    ASSUME Inv, Meter
    PROVE  Inv'
<1>1. sem \in Semaphores /\ TasksOK /\ Core /\ (meter = "open" => current = 0)
  BY DEF Inv, TasksOK, Semaphores
<1>2. /\ UNCHANGED <<linkVars, clientVars, notices, lso, xn>> /\ UNCHANGED sent
      /\ sem' \in Semaphores
  BY <1>1, SemaphoresOK DEF Meter, MeterOpen, MeterTop, MeterTake, MeterWork, SegmentBlock, clientVars
<1>3. block.len \in Nat /\ AggrSizeLimit \in Nat \ {0}
  BY <1>1, LtpSpanAssumption DEF Core, BlockOK
<1>4. CASE MeterOpen
  <2>1. StartExportSession(sessions) /\ UNCHANGED <<block, segments>> /\ meter' = "top"
        /\ current = 0
    BY <1>1, <1>4 DEF MeterOpen
  <2>2. Core'
    BY <1>1, <1>2, <2>1, StartOK
  <2>. QED
    BY <1>1, <1>2, <2>1, <2>2, TasksKept DEF Inv, TasksOK, linkVars
<1>5. CASE SegmentBlock /\ block.len > 0
  <2>1. meter' = "open" /\ current' = 0
    BY <1>5 DEF SegmentBlock
  <2>2. Core'
    BY <1>1, <1>2, <1>5, SegmentOK
  <2>. QED
    BY <1>1, <1>2, <2>1, <2>2, TasksKept DEF Inv, TasksOK, linkVars
<1>6. CASE meter' \in {"take", "work"} /\ UNCHANGED spanVars
  <2>1. Core'
    BY <1>1, <1>2, <1>6, SpanKept
  <2>. QED
    BY <1>1, <1>2, <1>6, <2>1, TasksKept DEF Inv, TasksOK, linkVars
<1>7. MeterOpen \/ (SegmentBlock /\ block.len > 0) \/ (meter' \in {"take", "work"} /\ UNCHANGED spanVars)
  BY <1>3 DEF Meter, MeterTop, MeterTake, MeterWork
<1>. QED
  BY <1>4, <1>5, <1>6, <1>7

LEMMA ClockOK ==
    ASSUME Inv, Clock \/ StopXmit
    PROVE  Inv'
<1>1. sem \in Semaphores /\ TasksOK /\ Core
  BY DEF Inv, TasksOK, Semaphores
<1>2. UNCHANGED <<clientVars, meter, lso, xn>> /\ UNCHANGED sent
      /\ xmit' \in BOOLEAN /\ breaks' \in 0..MaxBreaks
  <2>1. UNCHANGED <<clientVars, meter, lso, xn>>
    BY DEF Clock, Tick, StartXmit, StopXmit
  <2>2. UNCHANGED sent
    BY <2>1 DEF clientVars
  <2>3. xmit \in BOOLEAN /\ breaks \in 0..MaxBreaks /\ MaxBreaks \in Nat
    BY <1>1, LtpSpanAssumption DEF TasksOK
  <2>4. CASE UNCHANGED linkVars
    BY <2>1, <2>2, <2>3, <2>4 DEF linkVars
  <2>5. CASE xmit' \in BOOLEAN /\ UNCHANGED breaks
    BY <2>1, <2>2, <2>3, <2>5
  <2>6. CASE xmit' = FALSE /\ breaks < MaxBreaks /\ breaks' = breaks + 1
    <3>1. breaks + 1 \in 0..MaxBreaks
      BY <2>3, <2>6
    <3>. QED
      BY <2>1, <2>2, <2>6, <3>1
  <2>. QED
    BY <2>4, <2>5, <2>6 DEF Clock, Tick, StartXmit, StopXmit
<1>3. CASE Clock
  <2>1. UNCHANGED <<spanVars, notices>> /\ sem' \in Semaphores
    BY <1>1, <1>3, SemaphoresOK DEF Clock, Tick, StartXmit
  <2>2. Core'
    BY <1>1, <1>2, <2>1, SpanKept
  <2>. QED
    BY <1>1, <1>2, <2>1, <2>2, TasksKept DEF Inv, TasksOK, spanVars
<1>4. CASE StopXmit
  <2>1. sem' \in Semaphores
    BY <1>1, <1>4, SemaphoresOK DEF StopXmit, Cancel
  <2>2. CASE Cancel(Populated, FALSE, Aged)
    <3>1. Core' /\ (current = 0 => current' = 0)
      BY <1>1, <1>2, <2>2, CancelOK DEF Populated
    <3>. QED
      BY <1>1, <1>2, <2>1, <3>1, TasksKept DEF Inv, TasksOK
  <2>3. CASE UNCHANGED <<spanVars, notices>>
    <3>1. Core'
      BY <1>1, <1>2, <2>3, SpanKept
    <3>. QED
      BY <1>1, <1>2, <2>1, <2>3, <3>1, TasksKept DEF Inv, TasksOK, spanVars
  <2>. QED
    BY <1>4, <2>2, <2>3 DEF StopXmit
<1>. QED
  BY <1>3, <1>4

(* What happens to the checkpoints of a session. *)
LEMMA TimersOK ==
    ASSUME NEW q \in Timers, NEW c \in DOMAIN q, NEW t \in TimerRecord
    PROVE  /\ [q EXCEPT ![c] = t] \in Timers /\ Append(q, t) \in Timers
           /\ Deactivate(t) \in TimerRecord /\ Queued \in TimerRecord
           /\ q[c] \in TimerRecord /\ c \in 1..Len(q) /\ Len(q) \in Nat
           /\ DOMAIN [q EXCEPT ![c] = t] = DOMAIN q
<1>1. Timers = Seq(TimerRecord)
  BY DEF Timers, TimerRecord
<1>2. Deactivate(t) \in TimerRecord /\ Queued \in TimerRecord
  BY LtpSpanAssumption DEF Deactivate, Queued, TimerRecord
<1>3. c \in 1..Len(q) /\ Len(q) \in Nat
  BY <1>1, LenProperties
<1>4. q[c] \in TimerRecord
  BY <1>1, <1>3, ElementOfSeq
<1>5. [q EXCEPT ![c] = t] \in Timers
  BY <1>1, <1>3, ExceptSeq
<1>6. Append(q, t) \in Timers
  BY <1>1, AppendProperties
<1>. QED
  BY <1>2, <1>3, <1>4, <1>5, <1>6

LEMMA RecordOK ==
    ASSUME NEW r \in SessionRecord, NEW q \in Timers, NEW n,
           \/ n = [r EXCEPT !.ckpts = q]
           \/ n = [r EXCEPT !.finalAck = TRUE, !.ckpts = q]
           \/ n = [r EXCEPT !.eobSent = TRUE]
    PROVE  n \in SessionRecord /\ n.sdus = r.sdus /\ n.red = r.red
<1>1. [r EXCEPT !.ckpts = q] \in SessionRecord
  BY Zenon DEF SessionRecord
<1>2. [r EXCEPT !.finalAck = TRUE, !.ckpts = q] \in SessionRecord
  BY Zenon DEF SessionRecord
<1>3. [r EXCEPT !.eobSent = TRUE] \in SessionRecord
  BY Zenon DEF SessionRecord
<1>. QED
  BY <1>1, <1>2, <1>3 DEF SessionRecord

(* A session that has a checkpoint is not the current one. *)
LEMMA NotCurrent ==
    ASSUME Core, NEW s \in DOMAIN sessions, NEW c \in DOMAIN sessions[s].ckpts
    PROVE  /\ s # current /\ s \in 1..sessionCount
           /\ sessions[s] \in SessionRecord /\ sessions[s].ckpts \in Timers
<1>1. s \in 1..sessionCount /\ sessions[s] \in SessionRecord
  BY DEF Core, SessionsOK
<1>2. CASE s = current
  <2>1. sessions[s].ckpts = << >>
    BY <1>1, <1>2 DEF Core, CurrentOK
  <2>. QED
    BY <2>1
<1>. QED
  BY <1>1, <1>2 DEF SessionRecord

(* The link service output. *)
LEMMA LsoOK ==
    ASSUME Inv, Lso
    PROVE  Inv'
<1>1. sem \in Semaphores /\ TasksOK /\ Core /\ QueueOK(segments, current, sessionCount)
  BY DEF Inv, TasksOK, Semaphores, Core, CurrentOK
<1>2. UNCHANGED <<linkVars, clientVars, meter>> /\ UNCHANGED sent
  BY DEF Lso, LsoTake, Dequeue, clientVars
<1>3. CASE LsoTake
  <2>1. UNCHANGED <<spanVars, notices, xn>> /\ sem' \in Semaphores /\ lso' = "look"
    BY <1>1, <1>3, SemaphoresOK DEF LsoTake
  <2>2. Core'
    BY <1>1, <1>2, <2>1, SpanKept
  <2>. QED
    BY <1>1, <1>2, <2>1, <2>2, TasksKept DEF Inv, TasksOK, linkVars, spanVars
<1>4. CASE Dequeue /\ (segments = << >> \/ ~xmit)
  <2>1. UNCHANGED <<spanVars, sem, notices, xn>> /\ lso' = "take"
    BY <1>4 DEF Dequeue
  <2>2. Core'
    BY <1>1, <1>2, <2>1, SpanKept
  <2>. QED
    BY <1>1, <1>2, <2>1, <2>2, TasksKept DEF Inv, TasksOK, linkVars, spanVars
<1>5. CASE Dequeue /\ segments # << >>  /\ xmit
  <2> DEFINE ref == Head(segments)
             s == ref.session
  <2>1. /\ QueueOK(Tail(segments), current, sessionCount)
        /\ s # current /\ s \in 1..sessionCount
    <3>1. Len(segments) \in Nat /\ Len(segments) # 0 /\ Head(segments) = segments[1]
      BY <1>1, <1>5, EmptySeq, LenProperties DEF QueueOK
    <3>2. 1 \in 1..Len(segments)
      BY <3>1
    <3>3. segments[1].session # current /\ segments[1].session \in 1..sessionCount
      BY <1>1, <3>2, QueueElement
    <3>. QED
      BY <1>1, <1>5, <3>1, <3>3, QueueSteps
  <2>2. UNCHANGED lso /\ UNCHANGED <<sessionCount, current, block>> /\ sem' \in Semaphores
        /\ xn' \in {"none", "lso"}
    BY <1>1, <1>5, SemaphoresOK DEF Dequeue, Abandon, SendEob, SendCheckpoint, Close, TasksOK
  <2>3. \/ s \notin DOMAIN sessions /\ Abandon
        \/ s \in DOMAIN sessions /\ (SendEob(s) \/ SendCheckpoint(s, ref.ckpt))
    BY <1>5 DEF Dequeue
  <2> HIDE DEF s, ref
  <2>4. ASSUME s \notin DOMAIN sessions, Abandon PROVE Core'
    <3>1. UNCHANGED <<sessions, notices>> /\ segments' = Tail(segments)
      BY <2>4 DEF Abandon
    <3>2. CurrentOK'
      BY <1>1, <2>1, <2>2, <3>1 DEF Core, CurrentOK
    <3>3. UnitsOK'
      BY <1>1, <1>2, <3>1, UnitsKept DEF Core, Holders
    <3>. QED
      BY <1>1, <2>2, <3>1, <3>2, <3>3 DEF Core, SessionsOK, BlockOK, RedWindow
  <2>5. ASSUME s \in DOMAIN sessions, Close(s, Tail(segments), {}) PROVE Core'
    BY <1>1, <1>2, <2>1, <2>5, CloseOK
  <2>6. ASSUME s \in DOMAIN sessions, sessions' = [sessions EXCEPT ![s].eobSent = TRUE],
               segments' = Tail(segments), UNCHANGED <<sem, notices>>
        PROVE  Core'
    <3> DEFINE r == [sessions[s] EXCEPT !.eobSent = TRUE]
    <3>1. sessions[s] \in SessionRecord /\ sessions' = [sessions EXCEPT ![s] = r]
      BY <1>1, <2>6 DEF Core, SessionsOK
    <3>2. sessions[s].ckpts \in Timers
      BY <3>1 DEF SessionRecord
    <3>3. r \in SessionRecord /\ r.sdus = sessions[s].sdus /\ r.red = sessions[s].red
      BY <3>1, <3>2, RecordOK
    <3> HIDE DEF r
    <3>. QED
      BY <1>1, <1>2, <2>1, <2>2, <2>6, <3>1, <3>3, UpdateOK
  <2>7. ASSUME s \in DOMAIN sessions, SendCheckpoint(s, ref.ckpt) PROVE Core'
    <3> DEFINE c == ref.ckpt
               r == [sessions[s] EXCEPT !.ckpts = [sessions[s].ckpts EXCEPT
                        ![c] = [sessions[s].ckpts[c] EXCEPT !.status = "timed"]]]
    <3>1. /\ sessions[s] \in SessionRecord /\ sessions' = [sessions EXCEPT ![s] = r]
          /\ segments' = Tail(segments) /\ UNCHANGED <<sem, notices>>
      BY <1>1, <2>7 DEF Core, SessionsOK, SendCheckpoint
    <3>2. sessions[s].ckpts \in Timers
      BY <3>1 DEF SessionRecord
    <3>3. [sessions[s].ckpts EXCEPT ![c] = [sessions[s].ckpts[c] EXCEPT !.status = "timed"]] \in Timers
      <4> HIDE DEF c
      <4>1. CASE c \in DOMAIN sessions[s].ckpts
        <5>1. sessions[s].ckpts[c] \in TimerRecord
          <6>1. Timers = Seq(TimerRecord)
            BY DEF Timers, TimerRecord
          <6>2. c \in 1..Len(sessions[s].ckpts)
            BY <3>2, <4>1, <6>1, LenProperties
          <6>. QED
            BY <3>2, <6>1, <6>2, ElementOfSeq
        <5>2. [sessions[s].ckpts[c] EXCEPT !.status = "timed"] \in TimerRecord
          BY <5>1 DEF TimerRecord
        <5>. QED
          BY <3>2, <4>1, <5>2, TimersOK
      <4>2. CASE c \notin DOMAIN sessions[s].ckpts
        <5>1. [sessions[s].ckpts EXCEPT ![c] = [sessions[s].ckpts[c] EXCEPT !.status = "timed"]]
              = sessions[s].ckpts
          BY <3>2, <4>2 DEF Timers
        <5>. QED
          BY <3>2, <5>1
      <4>. QED
        BY <4>1, <4>2
    <3>4. r \in SessionRecord /\ r.sdus = sessions[s].sdus /\ r.red = sessions[s].red
      BY <3>1, <3>3, RecordOK
    <3> HIDE DEF r
    <3>. QED
      BY <1>1, <1>2, <2>1, <2>2, <2>7, <3>1, <3>4, UpdateOK
  <2>8. Core'
    <3>1. CASE s \in DOMAIN sessions /\ SendEob(s)
      BY <2>5, <2>6, <3>1 DEF SendEob
    <3>. QED
      BY <2>3, <2>4, <2>7, <3>1
  <2>. QED
    BY <1>1, <1>2, <2>2, <2>8, TasksKept DEF Inv, TasksOK, linkVars
<1>. QED
  BY <1>3, <1>4, <1>5 DEF Lso
(* Reports and cancellations from the receiver, and timeouts. *)

LEMMA AnswerOK ==
    ASSUME Core, NEW s \in DOMAIN sessions, NEW c \in DOMAIN sessions[s].ckpts,
           UNCHANGED sent,
           \/ AllReceived(s, c)
           \/ LessReceived(s, c)
           \/ Close(s, Stopped({s}), Signal)
           \/ Cancel({s}, xmit, {})
           \/ /\ sessions[s].ckpts[c].expirations # MaxTimeouts
              /\ sessions' = [sessions EXCEPT ![s].ckpts[c] =
                    [status |-> "queued", expirations |-> @.expirations + 1]]
              /\ segments' = Append(segments, Reference(s, c))
              /\ c \in 1..MaxCheckpoints
              /\ UNCHANGED <<sessionCount, current, block, notices>>
    PROVE  Core' /\ (current = 0 => current' = 0)
<1> DEFINE q == sessions[s].ckpts
<1>1. /\ s # current /\ s \in 1..sessionCount
      /\ sessions[s] \in SessionRecord /\ q \in Timers
      /\ QueueOK(segments, current, sessionCount) /\ QueueOK(Stopped({s}), current, sessionCount)
  <2>1. QueueOK(segments, current, sessionCount)
    BY DEF Core, CurrentOK
  <2>. QED
    BY <2>1, NotCurrent, StoppedOK
<1>2. q[c] \in TimerRecord /\ c \in 1..Len(q) /\ Len(q) \in Nat
  <2>1. Timers = Seq(TimerRecord)
    BY DEF Timers, TimerRecord
  <2> HIDE DEF q
  <2>2. c \in 1..Len(q) /\ Len(q) \in Nat
    BY <1>1, <2>1, LenProperties DEF q
  <2>. QED
    BY <1>1, <2>1, <2>2, ElementOfSeq
<1>3. ASSUME Close(s, Stopped({s}), Signal) PROVE Core' /\ UNCHANGED current
  BY <1>1, <1>3, CloseOK DEF Close
<1>4. ASSUME Cancel({s}, xmit, {}) PROVE Core' /\ (current = 0 => current' = 0)
  <2> DEFINE S == {s}
  <2>1. S \subseteq DOMAIN sessions /\ Cancel(S, xmit, {})
    BY <1>4
  <2> HIDE DEF S
  <2>. QED
    BY <2>1, CancelOK
<1>5. ASSUME NEW r, NEW p \in Timers, UNCHANGED <<sessionCount, current, block, notices>>,
             \/ r = [sessions[s] EXCEPT !.ckpts = p]
             \/ r = [sessions[s] EXCEPT !.finalAck = TRUE, !.ckpts = p],
             sessions' = [sessions EXCEPT ![s] = r],
             QueueOK(segments', current, sessionCount)
      PROVE  Core' /\ UNCHANGED current
  <2>1. CASE r = [sessions[s] EXCEPT !.ckpts = p]
    <3>1. r \in SessionRecord /\ r.sdus = sessions[s].sdus /\ r.red = sessions[s].red
      BY <1>1, <2>1, RecordOK
    <3>. QED
      BY <1>1, <1>5, <3>1, UpdateOK
  <2>2. CASE r = [sessions[s] EXCEPT !.finalAck = TRUE, !.ckpts = p]
    <3>1. r \in SessionRecord /\ r.sdus = sessions[s].sdus /\ r.red = sessions[s].red
      BY <1>1, <2>2, RecordOK
    <3>. QED
      BY <1>1, <1>5, <3>1, UpdateOK
  <2>. QED
    BY <1>5, <2>1, <2>2
<1> DEFINE p == [q EXCEPT ![c] = Deactivate(q[c])]
<1>6. Deactivate(q[c]) \in TimerRecord /\ Queued \in TimerRecord /\ p \in Timers
      /\ DOMAIN p = DOMAIN q
  <2> HIDE DEF q
  <2>1. Deactivate(q[c]) \in TimerRecord /\ Queued \in TimerRecord
    BY <1>1, <1>2, TimersOK DEF q
  <2>. QED
    BY <1>1, <2>1, TimersOK DEF q
<1>7. ASSUME AllReceived(s, c) PROVE Core' /\ UNCHANGED current
  <2>1. CASE Close(s, Stopped({s}), Signal)
    BY <1>3, <2>1
  <2>2. CASE /\ sessions' = [sessions EXCEPT ![s].finalAck = TRUE, ![s].ckpts[c] = Deactivate(@)]
             /\ UNCHANGED <<sessionCount, current, block, segments, notices>>
    <3> DEFINE r == [sessions[s] EXCEPT !.finalAck = TRUE, !.ckpts = p]
    <3>1. sessions' = [sessions EXCEPT ![s] = r]
      BY <1>1, <2>2 DEF SessionRecord
    <3> HIDE DEF p
    <3>. QED
      BY <1>1, <1>5, <1>6, <2>2, <3>1
  <2>. QED
    BY <1>7, <2>1, <2>2 DEF AllReceived
<1>8. ASSUME LessReceived(s, c) PROVE Core' /\ (current = 0 => current' = 0)
  <2>1. CASE Len(q) >= MaxCheckpoints
    BY <1>4, <1>8, <2>1 DEF LessReceived
  <2>2. CASE ~(Len(q) >= MaxCheckpoints)
    <3> DEFINE m == Append(p, Queued)
               r == [sessions[s] EXCEPT !.ckpts = m]
    <3>1. /\ sessions' = [sessions EXCEPT ![s] = r]
          /\ segments' = Append(segments, Reference(s, Len(q) + 1))
          /\ UNCHANGED <<sessionCount, current, block, notices>>
      BY <1>1, <1>8, <2>2 DEF LessReceived
    <3>2. m \in Timers
      <4> HIDE DEF p
      <4>. QED
        BY <1>6, TimersOK
    <3>3. Len(q) + 1 \in 0..MaxCheckpoints
      BY <1>2, <2>2, LtpSpanAssumption
    <3> HIDE DEF m, q
    <3>4. QueueOK(segments', current, sessionCount)
      BY <1>1, <3>1, <3>3, QueueSteps
    <3>. QED
      BY <1>5, <3>1, <3>2, <3>4
  <2>. QED
    BY <2>1, <2>2
<1>9. ASSUME /\ sessions[s].ckpts[c].expirations # MaxTimeouts
             /\ sessions' = [sessions EXCEPT ![s].ckpts[c] =
                    [status |-> "queued", expirations |-> @.expirations + 1]]
             /\ segments' = Append(segments, Reference(s, c))
             /\ c \in 1..MaxCheckpoints
             /\ UNCHANGED <<sessionCount, current, block, notices>>
      PROVE  Core' /\ UNCHANGED current
  <2> DEFINE t == [status |-> "queued", expirations |-> q[c].expirations + 1]
             m == [q EXCEPT ![c] = t]
             r == [sessions[s] EXCEPT !.ckpts = m]
  <2>1. t \in TimerRecord
    BY <1>2, <1>9, LtpSpanAssumption DEF TimerRecord
  <2>2. sessions' = [sessions EXCEPT ![s] = r]
    BY <1>1, <1>9
  <2> HIDE DEF t
  <2>3. m \in Timers
    BY <1>1, <2>1, TimersOK
  <2>4. QueueOK(segments', current, sessionCount)
    <3>1. c \in 0..MaxCheckpoints
      BY <1>9, LtpSpanAssumption
    <3>. QED
      BY <1>1, <1>9, <3>1, QueueSteps
  <2> HIDE DEF m
  <2>. QED
    BY <1>5, <1>9, <2>2, <2>3, <2>4
<1>. QED
  BY <1>3, <1>4, <1>7, <1>8, <1>9

LEMMA ReportsOK ==
    ASSUME Inv, Remote \/ Timeout
    PROVE  Inv'
<1>1. sem \in Semaphores /\ TasksOK /\ Core
  BY DEF Inv, TasksOK, Semaphores
<1>2. UNCHANGED <<linkVars, clientVars, meter, lso, xn>> /\ UNCHANGED sent /\ sem' \in Semaphores
  BY <1>1, SemaphoresOK
  DEF Remote, Timeout, HandleRS, HandleCR, ResendCheckpoint, AllReceived, LessReceived, Close,
      Cancel, clientVars
<1>3. Core' /\ (current = 0 => current' = 0)
  <2>1. ASSUME NEW s \in DOMAIN sessions, NEW c \in DOMAIN sessions[s].ckpts, HandleRS(s, c)
        PROVE  Core' /\ (current = 0 => current' = 0)
    BY <1>1, <1>2, <2>1, AnswerOK DEF HandleRS
  <2>2. ASSUME NEW s \in DOMAIN sessions, HandleCR(s)
        PROVE  Core' /\ (current = 0 => current' = 0)
    BY <1>1, <1>2, <2>2, AnswerOK DEF HandleCR
  <2>3. ASSUME NEW s \in DOMAIN sessions, NEW c \in 1..MaxCheckpoints,
               c \in DOMAIN sessions[s].ckpts, ResendCheckpoint(s, c)
        PROVE  Core' /\ (current = 0 => current' = 0)
    <3>1. \/ Cancel({s}, xmit, {})
          \/ /\ sessions[s].ckpts[c].expirations # MaxTimeouts
             /\ sessions' = [sessions EXCEPT ![s].ckpts[c] =
                    [status |-> "queued", expirations |-> @.expirations + 1]]
             /\ segments' = Append(segments, Reference(s, c))
             /\ UNCHANGED <<sessionCount, current, block, notices>>
      BY <2>3 DEF ResendCheckpoint
    <3>. QED
      BY <1>1, <1>2, <2>3, <3>1, AnswerOK
  <2>. QED
    BY <2>1, <2>2, <2>3 DEF Remote, Timeout
<1>. QED
  BY <1>1, <1>2, <1>3, TasksKept DEF Inv, TasksOK, linkVars

-----------------------------------------------------------------------------

LEMMA InitInv == Init => Inv
<1> SUFFICES ASSUME Init PROVE Inv
  OBVIOUS
<1> USE DEF Init
<1>1. DOMAIN sessions = {} /\ sessionCount = 0 /\ current = 0
  <2>1. DOMAIN << >> = {}
    OBVIOUS
  <2>. QED
    BY <2>1
<1>2. SessionsOK
  BY <1>1 DEF SessionsOK
<1>3. CurrentOK
  BY <1>1, EmptySeq DEF CurrentOK, QueueOK
<1>4. BlockOK
  BY DEF BlockOK, EmptyBlock
<1>5. UnitsOK
  <2>1. \A u \in Sdu : u \notin Handed
    <3> TAKE u \in Sdu
    <3>1. PICK d \in Client : u \in {d} \X (1..Units[d])
      BY DEF Sdu
    <3>2. u[1] = d /\ u[2] \in 1..Units[d] /\ Units[d] \in Nat
      BY <3>1, LtpSpanAssumption
    <3>. QED
      BY <3>2 DEF Handed
  <2>2. \A u \in Sdu : Holders(u) = {} /\ notices[u] = 0
    BY <1>1 DEF Holders
  <2>. QED
    BY <2>1, <2>2 DEF UnitsOK, Accounted
<1>6. RedWindow
  <2>1. RedSessions = {}
    BY <1>1 DEF RedSessions
  <2>2. Cardinality(RedSessions) = 0
    BY <2>1, FS_EmptySet
  <2>. QED
    BY <2>2, LtpSpanAssumption DEF RedWindow, RedSessions
<1>7. TasksOK
  BY LtpSpanAssumption DEF TasksOK
<1>. QED
  BY <1>2, <1>3, <1>4, <1>5, <1>6, <1>7 DEF Inv, Core

LEMMA NextInv ==
    ASSUME Inv, [Next]_vars
    PROVE  Inv'
<1>1. CASE UNCHANGED vars
  <2>1. Core'
    BY <1>1, SpanKept DEF Inv, vars, clientVars
  <2>. QED
    BY <1>1, <2>1 DEF Inv, TasksOK, vars, spanVars, linkVars, clientVars
<1>. QED
  BY <1>1, SendingOK, MeterOK, LsoOK, ClockOK, ReportsOK DEF Next

THEOREM Invariance == Spec => []Inv
<1>. QED
  BY InitInv, NextInv, PTL DEF Spec

(* The variables of the span are what the types in the code allow, and no   *)
(* reference in the queue is to a session that was never opened             *)
(* (ltpDequeueOutboundSegment, stopExportSession).                          *)
THEOREM TypeCorrect == Spec => []TypeOK
<1>1. Inv => TypeOK
  <2> SUFFICES ASSUME Inv PROVE TypeOK
    OBVIOUS
  <2>1. \A s \in DOMAIN sessions : sessions[s] \in SessionRecord
    BY DEF Inv, Core, SessionsOK
  <2>. QED
    BY <2>1 DEF Inv, Core, SessionsOK, SessionRecord, CurrentOK, QueueOK, BlockOK, UnitsOK,
       TasksOK, TypeOK
<1>. QED
  BY <1>1, Invariance, PTL

(* Whatever closes, cancels and purges sessions (closeExportSession,        *)
(* cancelSessionBySender, ltpStopXmit), a unit that ltp_send has accepted   *)
(* is in exactly one session, or was given back exactly once.               *)
THEOREM EachUnitAccounted == Spec => []SdusAccounted
<1>1. Inv => SdusAccounted
  <2> SUFFICES ASSUME Inv, NEW u \in Handed PROVE notices[u] + Cardinality(Holders(u)) = 1
    BY DEF SdusAccounted, Holders
  <2>1. u \in Sdu /\ Accounted(u)
    BY DEF Handed, Inv, Core, UnitsOK
  <2> HIDE DEF Holders
  <2>2. CASE notices[u] = 1 /\ Holders(u) = {}
    BY <2>2, FS_EmptySet
  <2>3. ASSUME NEW s, Holders(u) = {s}, notices[u] = 0
        PROVE  notices[u] + Cardinality(Holders(u)) = 1
    <3>1. Cardinality(Holders(u)) = 1
      BY <2>3, FS_Singleton
    <3>. QED
      BY <2>3, <3>1
  <2>. QED
    BY <2>1, <2>2, <2>3 DEF Accounted
<1>. QED
  BY <1>1, Invariance, PTL

(* sduCanBeAppendedToBlock lets one session more than maxExportSessions     *)
(* into the list: never do more than maxExportSessions hold red data.       *)
THEOREM WithinWindow == Spec => []RedWindow
<1>1. Inv => RedWindow
  BY DEF Inv, Core
<1>. QED
  BY <1>1, Invariance, PTL
=============================================================================
