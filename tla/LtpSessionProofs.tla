-------------------------- MODULE LtpSessionProofs --------------------------
(***************************************************************************)
(* Proofs about LtpSession for a red part of any length, any limits on     *)
(* timeouts, checkpoints, reports, claims and backlog, and whatever is     *)
(* lost, duplicated or reordered.                                          *)
(***************************************************************************)
EXTENDS LtpSession, FiniteSetTheorems, SequenceTheorems, TLAPS

-----------------------------------------------------------------------------
(* Numbers.                                                                 *)

(* A set of naturals that is not empty has a least member. *)
LEMMA MinExists ==
    ASSUME NEW S, S \subseteq Nat, S # {}
    PROVE  Min(S) \in S /\ \A n \in S : Min(S) <= n
<1> DEFINE R == OpToRel(<, Nat)
<1>1. IsWellFoundedOn(R, Nat)
  BY NatLessThanWellFounded
<1>2. \A m, n \in Nat : m < n => <<m, n>> \in R
  BY DEF OpToRel
<1> HIDE DEF R
<1>3. PICK m \in S : \A n \in S : ~(<<n, m>> \in R)
  BY <1>1, WFMin
<1>4. \A n \in S : ~(n < m)
  BY <1>2, <1>3
<1>5. \A n \in S : m <= n
  BY <1>4
<1>. QED
  BY <1>5 DEF Min

(* A bounded one has a greatest member. *)
LEMMA MaxExists ==
    ASSUME NEW S, S \subseteq Nat, S # {}, NEW b \in Nat, \A n \in S : n <= b
    PROVE  Max(S) \in S /\ \A n \in S : n <= Max(S)
<1> DEFINE D == {b - n : n \in S}
<1>2. D \subseteq Nat /\ D # {}
  <2>1. \A n \in S : b - n \in Nat
    OBVIOUS
  <2>2. PICK n \in S : TRUE
    OBVIOUS
  <2>3. b - n \in D
    BY <2>2
  <2>. QED
    BY <2>1, <2>3
<1>3. Min(D) \in D /\ \A d \in D : Min(D) <= d
  <2> HIDE DEF D
  <2>. QED
    BY <1>2, MinExists
<1>4. PICK m \in S : Min(D) = b - m
  BY <1>3
<1>5. \A n \in S : n <= m
  <2> TAKE n \in S
  <2>1. b - m <= b - n
    BY <1>3, <1>4
  <2>. QED
    BY <2>1
<1>. QED
  BY <1>5 DEF Max
-----------------------------------------------------------------------------
(* The import session and its reports.                                      *)

ReportSegment == [type : {"RS"}, serial : Nat, ckpt : Nat, lb : 0..RedLength, ub : Unit,
                  claims : SUBSET Unit]

Reports == UNION {[S -> [segment : ReportSegment, timer : Timer]] : S \in SUBSET Nat}

ImportSession ==
    [state : {"none", "open", "dead", "closed"},
     redSegments : SUBSET Unit, cleared : BOOLEAN,
     redPartLength : {0, RedLength},
     reportsCount : Nat, nextRptSerialNbr : Nat, finalRptSerialNbr : Nat,
     finalRptAcked : BOOLEAN, delivered : BOOLEAN,
     rsSegments : Reports, cr : Timer]

(* Reports have serial numbers that were given out, the final one claims    *)
(* the whole red part, and only an open session has any.                    *)
SessionOK(s) ==
    /\ s \in ImportSession
    /\ \A n \in DOMAIN s.rsSegments :
          /\ n \in 1..s.nextRptSerialNbr
          /\ s.rsSegments[n].segment.serial = n
          /\ n = s.finalRptSerialNbr => s.rsSegments[n].segment.claims = Unit
    /\ s.finalRptSerialNbr <= s.nextRptSerialNbr
    /\ s.cleared => s.redSegments = {}
    /\ s.state # "open" => DOMAIN s.rsSegments = {}

\* What happens to the reports when r is made of s by a report or its failure.
Reported(s, r) ==
    /\ SessionOK(r)
    /\ r.nextRptSerialNbr >= s.nextRptSerialNbr
    /\ r.delivered = s.delivered /\ r.finalRptAcked = s.finalRptAcked
    /\ \A n \in DOMAIN r.rsSegments :
          \/ n \in DOMAIN s.rsSegments /\ r.rsSegments[n].segment = s.rsSegments[n].segment
          \/ n > s.nextRptSerialNbr /\ r.rsSegments[n].segment.claims \subseteq s.redSegments
    /\ \/ r.finalRptSerialNbr = s.finalRptSerialNbr
       \/ r.finalRptSerialNbr > s.nextRptSerialNbr
    /\ \/ r.state = "open" /\ r.cleared = s.cleared /\ r.redSegments = s.redSegments
       \/ r.state = "dead" /\ r.cleared /\ ~Complete(s)

\* Only the reports and their counters differ.
SameButReports(s, a) ==
    a = [s EXCEPT !.rsSegments = a.rsSegments, !.nextRptSerialNbr = a.nextRptSerialNbr,
                  !.reportsCount = a.reportsCount]

(* Reports that are filed have the session's next serial numbers. *)
LEMMA AddReportsOK ==
    ASSUME NEW s, SessionOK(s), s.state = "open",
           NEW P \in SUBSET ReportSegment, NEW last \in Nat, \A rs \in P : rs.serial <= last,
           NEW a, a = AddReports(s, P)
    PROVE  /\ a \in ImportSession
           /\ SameButReports(s, a)
           /\ a.nextRptSerialNbr >= s.nextRptSerialNbr
           /\ \A rs \in P : rs.serial <= a.nextRptSerialNbr
           /\ \A n \in DOMAIN a.rsSegments :
                 \/ n \in DOMAIN s.rsSegments /\ a.rsSegments[n] = s.rsSegments[n]
                 \/ n \notin DOMAIN s.rsSegments
                    /\ \E rs \in P : rs.serial = n /\ a.rsSegments[n].segment = rs
<1> DEFINE N == {rs.serial : rs \in P}
           new == [n \in N |-> [segment |-> CHOOSE rs \in P : rs.serial = n, timer |-> Queued]]
           old == s.rsSegments
           all == [n \in DOMAIN old \cup N |-> IF n \in DOMAIN old THEN old[n] ELSE new[n]]
           next == Max({s.nextRptSerialNbr} \cup N)
<1>1. s \in ImportSession /\ s.nextRptSerialNbr \in Nat /\ s.reportsCount \in Nat
  BY DEF SessionOK, ImportSession
<1>2. N \subseteq Nat /\ \A n \in N : n <= last
  BY DEF ReportSegment
<1>3. next \in {s.nextRptSerialNbr} \cup N /\ \A n \in {s.nextRptSerialNbr} \cup N : n <= next
  <2> DEFINE M == {s.nextRptSerialNbr} \cup N
  <2>1. /\ M \subseteq Nat /\ M # {}
        /\ last + s.nextRptSerialNbr \in Nat
        /\ \A n \in M : n <= last + s.nextRptSerialNbr
    <3> DEFINE k == s.nextRptSerialNbr
    <3>1. k \in Nat
      BY <1>1
    <3> HIDE DEF N, k
    <3>2. \A n \in N : n \in Nat /\ n <= last + k
      BY <1>2, <3>1
    <3>3. M \subseteq Nat /\ M # {} /\ last + k \in Nat /\ \A n \in M : n <= last + k
      BY <3>1, <3>2 DEF k
    <3>. QED
      BY <3>3 DEF k
  <2> HIDE DEF M
  <2>2. Max(M) \in M /\ \A n \in M : n <= Max(M)
    BY <2>1, MaxExists
  <2>. QED
    BY <2>2 DEF M
<1>4. \A n \in N : /\ new[n].segment \in P /\ new[n].segment.serial = n
                    /\ new[n] \in [segment : ReportSegment, timer : Timer]
  <2> TAKE n \in N
  <2>1. \E rs \in P : rs.serial = n
    OBVIOUS
  <2>2. Queued \in Timer
    BY LtpAssumption DEF Queued, Timer
  <2>3. (CHOOSE rs \in P : rs.serial = n) \in P /\ (CHOOSE rs \in P : rs.serial = n).serial = n
    BY <2>1
  <2>. QED
    BY <2>2, <2>3
<1>5. /\ DOMAIN all = DOMAIN old \cup N /\ all = [n \in DOMAIN all |-> all[n]]
      /\ \A n \in DOMAIN old : all[n] = old[n]
      /\ \A n \in N \ DOMAIN old : all[n] = new[n]
  OBVIOUS
<1>6. all \in Reports
  <2>1. PICK S \in SUBSET Nat : old \in [S -> [segment : ReportSegment, timer : Timer]]
    BY <1>1 DEF ImportSession, Reports
  <2>2. all \in [S \cup N -> [segment : ReportSegment, timer : Timer]]
    <3> HIDE DEF N, new, all, old
    <3>1. DOMAIN all = S \cup N
      BY <2>1, <1>5
    <3>2. \A n \in S \cup N : all[n] \in [segment : ReportSegment, timer : Timer]
      BY <2>1, <1>4, <1>5
    <3>. QED
      BY <3>1, <3>2, <1>5
  <2>. QED
    BY <1>2, <2>1, <2>2 DEF Reports
<1>7. a = [s EXCEPT !.rsSegments = all, !.nextRptSerialNbr = next, !.reportsCount = @ + 1]
  BY DEF AddReports
<1> HIDE DEF all, next, N, new, old
<1>8. a.rsSegments = all /\ a.nextRptSerialNbr = next
  BY <1>1, <1>7 DEF ImportSession
<1>. QED
  <2>0. next \in Nat
    BY <1>1, <1>2, <1>3
  <2>1. a \in ImportSession
    <3>1. s.reportsCount + 1 \in Nat
      BY <1>1
    <3>. QED
      BY <2>0, <3>1, <1>1, <1>6, <1>7, Zenon DEF ImportSession
  <2>2. SameButReports(s, a)
    BY <1>1, <1>7, <1>8 DEF ImportSession, SameButReports
  <2>3. \A n \in DOMAIN a.rsSegments :
                 \/ n \in DOMAIN s.rsSegments /\ a.rsSegments[n] = s.rsSegments[n]
                 \/ n \notin DOMAIN s.rsSegments
                    /\ \E rs \in P : rs.serial = n /\ a.rsSegments[n].segment = rs
    <3> TAKE n \in DOMAIN a.rsSegments
    <3>1. CASE n \in DOMAIN old
      BY <3>1, <1>5, <1>8 DEF old
    <3>2. CASE n \in N \ DOMAIN old
      <4>1. a.rsSegments[n] = new[n]
        BY <3>2, <1>5, <1>8
      <4>. QED
        BY <3>2, <4>1, <1>4 DEF old
    <3>. QED
      BY <3>1, <3>2, <1>5, <1>8
  <2>4. a.nextRptSerialNbr >= s.nextRptSerialNbr
    BY <2>0, <1>1, <1>3, <1>8
  <2>5. \A rs \in P : rs.serial <= a.nextRptSerialNbr
    BY <1>3, <1>8 DEF N
  <2>. QED
    BY <2>1, <2>2, <2>3, <2>4, <2>5

(* The reports of what was heard have serial numbers from the next one on,  *)
(* and claim nothing that was not heard.                                    *)
LEMMA PartialReportsOK ==
    ASSUME NEW s \in ImportSession, NEW ckpt \in Nat,
           NEW lb \in 0..RedLength, NEW ub \in Unit
    PROVE  /\ PartialReports(s, ckpt, lb, ub) \subseteq ReportSegment
           /\ \E last \in Nat : \A rs \in PartialReports(s, ckpt, lb, ub) :
                 rs.serial \in s.nextRptSerialNbr..last /\ rs.claims \subseteq s.redSegments
<1> DEFINE heard    == Heard(s, lb, ub)
           starts   == {u \in heard : u = lb + 1 \/ u - 1 \notin heard}
           upTo(u)  == {v \in starts : v <= u}
           claim(u) == Cardinality(upTo(u))
           part(u)  == (claim(u) - 1) \div MaxClaims
           parts    == {part(u) : u \in heard}
           of(k)    == {u \in heard : part(u) = k}
           first(k) == Min(of(k)) - 1
           report(k) == Report(s.nextRptSerialNbr + k, ckpt,
                               IF k = 0 THEN lb ELSE first(k),
                               IF k + 1 \in parts THEN first(k + 1) ELSE ub, of(k))
<1>1. s.nextRptSerialNbr \in Nat /\ s.redSegments \subseteq Unit
  BY DEF ImportSession
<1>2. heard \subseteq Unit /\ heard \subseteq s.redSegments
  BY <1>1 DEF Heard
<1>3. RedLength \in Nat /\ Unit \subseteq Nat \ {0} /\ MaxClaims \in Nat \ {0}
  BY LtpAssumption, LtpImportAssumption DEF Unit
<1>4. \A u \in heard : claim(u) \in 1..RedLength
  <2> TAKE u \in heard
  <2> DEFINE m == Min(heard)
  <2>1. m \in heard /\ \A v \in heard : m <= v
    <3> HIDE DEF heard
    <3>. QED
      BY <1>2, <1>3, MinExists
  <2>2. m - 1 \notin heard
    <3> HIDE DEF heard, m
    <3>1. m \in Nat
      BY <2>1, <1>2, <1>3
    <3>2. ~(m <= m - 1)
      BY <3>1
    <3>. QED
      BY <2>1, <3>2
  <2>3. m \in upTo(u)
    BY <2>1, <2>2
  <2>4. upTo(u) \subseteq 1..RedLength
    BY <1>2 DEF Unit
  <2>5. IsFiniteSet(1..RedLength) /\ Cardinality(1..RedLength) = RedLength
    BY <1>3, FS_Interval
  <2> HIDE DEF heard, starts, upTo
  <2>6. IsFiniteSet(upTo(u)) /\ claim(u) <= RedLength
    BY <2>4, <2>5, FS_Subset
  <2>7. claim(u) \in Nat /\ claim(u) # 0
    BY <2>3, <2>6, FS_CardinalityType, FS_EmptySet
  <2>. QED
    BY <2>6, <2>7, <1>3
<1>5. \A u \in heard : part(u) \in 0..RedLength
  <2> TAKE u \in heard
  <2> HIDE DEF claim
  <2>1. claim(u) - 1 \in 0..RedLength
    BY <1>3, <1>4
  <2>2. \A a \in Nat : a \div MaxClaims \in 0..a
    BY <1>3
  <2>. QED
    BY <1>3, <2>1, <2>2
<1>6. \A u \in heard : part(u) # 0 => u - 1 \in Unit
  <2> TAKE u \in heard
  <2>1. SUFFICES ASSUME u = 1 PROVE part(u) = 0
    BY <1>2, <1>3 DEF Unit
  <2>2. upTo(u) \subseteq {1}
    <3>1. \A v \in upTo(u) : v \in Nat \ {0} /\ v <= 1
      <4>1. \A v \in upTo(u) : v \in heard /\ v <= u
        OBVIOUS
      <4> HIDE DEF heard, starts, upTo
      <4>. QED
        BY <4>1, <1>2, <1>3, <2>1
    <3> HIDE DEF upTo
    <3>. QED
      BY <3>1
  <2> HIDE DEF upTo
  <2> DEFINE one == {1}
  <2>3. IsFiniteSet(one) /\ Cardinality(one) = 1
    BY FS_Singleton
  <2>4. upTo(u) \subseteq one
    BY <2>2
  <2> HIDE DEF one
  <2>5. claim(u) <= 1
    BY <2>3, <2>4, FS_Subset
  <2>6. claim(u) = 1
    BY <2>5, <1>4, <1>3
  <2>7. 0 \div MaxClaims = 0
    BY <1>3
  <2>. QED
    BY <2>6, <2>7
<1> HIDE DEF part, heard
<1>7. \A k \in parts : k \in 0..RedLength /\ first(k) \in 0..RedLength
                         /\ (k # 0 => first(k) \in Unit)
  <2> TAKE k \in parts
  <2>1. of(k) # {} /\ of(k) \subseteq Nat
    BY <1>2, <1>3
  <2> DEFINE S == of(k)
  <2>2. Min(S) \in S
    <3> HIDE DEF S
    <3>. QED
      BY <2>1, MinExists DEF S
  <2>. QED
    BY <1>2, <1>3, <1>5, <1>6, <2>2 DEF Unit
<1>8. PartialReports(s, ckpt, lb, ub) = {report(k) : k \in parts}
  BY DEF PartialReports, part, heard
<1> HIDE DEF parts, first
<1>9. \A k \in parts : /\ report(k) \in ReportSegment
                         /\ report(k).serial \in s.nextRptSerialNbr..(s.nextRptSerialNbr + RedLength)
                         /\ report(k).claims \subseteq s.redSegments
  <2> TAKE k \in parts
  <2>1. k \in 0..RedLength /\ s.nextRptSerialNbr + k \in Nat
    BY <1>1, <1>3, <1>7
  <2>2. (IF k = 0 THEN lb ELSE first(k)) \in 0..RedLength
    BY <1>7
  <2>3. (IF k + 1 \in parts THEN first(k + 1) ELSE ub) \in Unit
    <3>1. k + 1 # 0
      BY <2>1
    <3>. QED
      BY <1>7, <3>1
  <2>4. of(k) \subseteq Unit /\ of(k) \subseteq s.redSegments
    BY <1>2
  <2>5. report(k) \in ReportSegment
    BY <2>1, <2>2, <2>3, <2>4 DEF Report, ReportSegment
  <2>. QED
    BY <2>1, <2>4, <2>5, <1>1, <1>3 DEF Report
<1>. QED
  <2> HIDE DEF report
  <2>1. s.nextRptSerialNbr + RedLength \in Nat
    BY <1>1, <1>3
  <2>. QED
    BY <1>8, <1>9, <2>1

-----------------------------------------------------------------------------
(* The inductive invariant.                                                 *)

\* Checkpoints and data are of the red part.  A report was given its number,
\* claims what was received, and the final one claims all; its acknowledgment
\* says that the source knows.
SegmentOK(seg) ==
    /\ seg.type = "DS" => seg.unit \in Unit
    /\ seg.type = "CP" => seg.unit \in Unit /\ seg.ckpt \in Nat /\ seg.rpt \in Nat
    /\ seg.type = "RS" =>
          /\ seg \in ReportSegment /\ seg.claims \subseteq accepted
          /\ seg.serial \in 1..session.nextRptSerialNbr
          /\ seg.serial = session.finalRptSerialNbr => seg.claims = Unit
    /\ seg.type = "RAS" =>
          /\ seg.serial \in 1..session.nextRptSerialNbr
          /\ seg.serial = session.finalRptSerialNbr => outcome = "complete"

NetOK == \A seg \in net : SegmentOK(seg)

\* The final report closes the session, so it is never among the applied ones.
ExportOK ==
    /\ ExportTypeOK
    /\ export # "open" => checkpoints = << >>
    /\ export = "open" => outcome = "none"
    /\ claims \subseteq accepted
    /\ \A n \in rsSerialNbrs : n <= session.nextRptSerialNbr /\ n # session.finalRptSerialNbr

ImportOK ==
    /\ SessionOK(session)
    /\ accepted \subseteq Unit
    /\ ~session.cleared => session.redSegments = accepted
    /\ \A n \in DOMAIN session.rsSegments : session.rsSegments[n].segment.claims \subseteq accepted
    /\ deliverables \in 0..MaxBacklog
    /\ ltpdeliv \in {"idle", "holding"} /\ (ltpdeliv = "holding" => deliverables > 0)
    /\ notices \subseteq Notice
    /\ blocks \in {0, 1} /\ (blocks = 1 => session.cleared)
    /\ session.state = "none" => deliverables = 0 /\ ~session.cleared
    /\ session.state = "open" /\ deliverables > 0 /\ ~session.cleared => session.redSegments = Unit
    /\ session.state = "open" /\ session.cleared => session.delivered
    /\ session.state = "open" => ~(session.delivered /\ session.finalRptAcked)
    /\ session.delivered => blocks = 1
    /\ session.state = "dead" => "canceled" \in notices

\* What the destination knows of the source.
Told == (session.finalRptAcked => outcome = "complete") /\ QuietClosing

Inv == NetOK /\ ExportOK /\ ImportOK /\ Told

(* The timers stay timers. *)
LEMMA TimersOK ==
    /\ Queued \in Timer
    /\ \A t \in Timer : /\ SetTimer(t) \in Timer /\ Deactivate(t) \in Timer
                        /\ ~Exhausted(t) => Requeue(t) \in Timer
<1>1. 0 \in 0..MaxTimeouts
  BY LtpAssumption
<1>. QED
  BY <1>1, LtpAssumption DEF Queued, Timer, SetTimer, Deactivate, Exhausted, Requeue

(* What was true of a segment stays true of it while the source moves, for  *)
(* it never forgets that it is complete, *)
LEMMA SegmentKept ==
    ASSUME UNCHANGED importVars, outcome = "complete" => outcome' = "complete",
           NEW seg, SegmentOK(seg)
    PROVE  SegmentOK(seg)'
  BY DEF importVars, SegmentOK

(* and while the destination moves: a final report gets a new number. *)
LEMMA SegmentKeptByImport ==
    ASSUME UNCHANGED outcome, accepted \subseteq accepted',
           session.nextRptSerialNbr \in Nat, session'.nextRptSerialNbr \in Nat,
           session.nextRptSerialNbr <= session'.nextRptSerialNbr,
           \/ session'.finalRptSerialNbr = session.finalRptSerialNbr
           \/ session'.finalRptSerialNbr > session.nextRptSerialNbr,
           NEW seg, SegmentOK(seg)
    PROVE  SegmentOK(seg)'
<1>1. \A n \in 1..session.nextRptSerialNbr :
          /\ n \in 1..session'.nextRptSerialNbr
          /\ n = session'.finalRptSerialNbr => n = session.finalRptSerialNbr
  OBVIOUS
<1>. QED
  BY <1>1 DEF SegmentOK

-----------------------------------------------------------------------------
(* The steps of the source.                                                 *)

CheckpointRecord == [unit : Unit, rpt : Nat, timer : Timer]

LEMMA CheckpointUpdate ==
    ASSUME ExportTypeOK, NEW c, NEW t, c \in DOMAIN checkpoints => t \in Timer
    PROVE  /\ [checkpoints EXCEPT ![c].timer = t] \in Seq(CheckpointRecord)
           /\ Len([checkpoints EXCEPT ![c].timer = t]) = Len(checkpoints)
<1>1. checkpoints \in Seq(CheckpointRecord)
  BY DEF ExportTypeOK, CheckpointRecord
<1>2. CASE c \in 1..Len(checkpoints)
  <2>1. checkpoints[c] \in CheckpointRecord
    BY <1>1, <1>2, ElementOfSeq
  <2>2. [checkpoints[c] EXCEPT !.timer = t] \in CheckpointRecord
    BY <1>1, <1>2, <2>1 DEF CheckpointRecord
  <2>. QED
    BY <1>1, <1>2, <2>2, ExceptSeq
<1>3. CASE c \notin 1..Len(checkpoints)
  <2>1. [checkpoints EXCEPT ![c].timer = t] = checkpoints
    BY <1>1, <1>3
  <2>. QED
    BY <1>1, <2>1
<1>. QED
  BY <1>2, <1>3

LEMMA AnsweredOK ==
    ASSUME ExportTypeOK, NEW ckpt
    PROVE  Answered(ckpt) \in Seq(CheckpointRecord) /\ Len(Answered(ckpt)) = Len(checkpoints)
<1>1. checkpoints \in Seq(CheckpointRecord)
  BY DEF ExportTypeOK, CheckpointRecord
<1> DEFINE t == Deactivate(checkpoints[ckpt].timer)
<1>2. ckpt \in DOMAIN checkpoints => t \in Timer
  <2>1. ckpt \in DOMAIN checkpoints => checkpoints[ckpt] \in CheckpointRecord
    BY <1>1, ElementOfSeq
  <2>. QED
    BY <2>1, TimersOK DEF CheckpointRecord
<1>3. /\ [checkpoints EXCEPT ![ckpt].timer = t] \in Seq(CheckpointRecord)
      /\ Len([checkpoints EXCEPT ![ckpt].timer = t]) = Len(checkpoints)
  <2> HIDE DEF t
  <2>. QED
    BY <1>2, CheckpointUpdate
<1>. QED
  BY <1>1, <1>3 DEF Answered

(* What is left to show of a step of the source. *)
LEMMA SourceStep ==
    ASSUME Inv, UNCHANGED importVars, outcome = "complete" => outcome' = "complete",
           ExportOK', \A seg \in net' : seg \in net \/ SegmentOK(seg)'
    PROVE  Inv'
<1>1. NetOK'
  <2>1. SUFFICES ASSUME NEW seg \in net' PROVE SegmentOK(seg)'
    BY DEF NetOK
  <2>2. CASE seg \in net
    BY <2>2, SegmentKept DEF Inv, NetOK
  <2>. QED
    BY <2>1, <2>2
<1>2. ImportOK'
  BY DEF Inv, ImportOK, importVars, clientVars
<1>3. Told'
  BY DEF Inv, Told, QuietClosing, importVars, clientVars
<1>. QED
  BY <1>1, <1>2, <1>3 DEF Inv

(* A session that ends takes everything of it along. *)
LEMMA EraseOK ==
    ASSUME Inv, UNCHANGED importVars, Erase, export' \in {"dead", "gone"},
           outcome' \in {"complete", "canceled"}, cs' \in Timer
    PROVE  ExportOK'
<1>1. checkpoints' \in Seq(CheckpointRecord) /\ Len(checkpoints') = 0
  BY EmptySeq DEF Erase
<1>. QED
  BY <1>1, LtpExportAssumption
  DEF Erase, Inv, ExportOK, ExportTypeOK, CheckpointRecord

LEMMA CheckpointTimers ==
    ASSUME Inv, NEW c \in DOMAIN checkpoints, DequeueCheckpoint(c) \/ ResendCheckpoint(c),
           UNCHANGED importVars
    PROVE  Inv'
<1>1. /\ checkpoints \in Seq(CheckpointRecord) /\ Len(checkpoints) \in Nat
      /\ Len(checkpoints) <= MaxCheckpoints
  BY LenProperties DEF Inv, ExportOK, ExportTypeOK, CheckpointRecord
<1>2. c \in 1..Len(checkpoints) /\ checkpoints[c] \in CheckpointRecord
  BY <1>1, ElementOfSeq
<1>3. export = "open" /\ outcome = "none"
  BY DEF Inv, ExportOK
<1>4. ASSUME NEW t \in Timer, checkpoints' = [checkpoints EXCEPT ![c].timer = t],
             UNCHANGED <<export, outcome, claims, rsSerialNbrs, cs>>
      PROVE  ExportOK'
  <2>1. checkpoints' \in Seq(CheckpointRecord) /\ Len(checkpoints') = Len(checkpoints)
    BY <1>4, CheckpointUpdate DEF Inv, ExportOK
  <2>. QED
    BY <1>1, <1>3, <1>4, <2>1 DEF Inv, ExportOK, ExportTypeOK, CheckpointRecord, importVars
<1>5. CASE DequeueCheckpoint(c)
  <2>1. ExportOK'
    BY <1>2, <1>4, <1>5, TimersOK DEF DequeueCheckpoint, CheckpointRecord
  <2>2. ASSUME NEW seg \in net' PROVE seg \in net \/ SegmentOK(seg)'
    BY <1>2, <1>5 DEF DequeueCheckpoint, Send, Checkpoint, SegmentOK, CheckpointRecord
  <2>. QED
    BY <1>5, <2>1, <2>2, SourceStep DEF DequeueCheckpoint
<1>6. CASE ResendCheckpoint(c)
  <2>1. UNCHANGED net
    BY <1>6 DEF ResendCheckpoint
  <2>2. CASE CancelBySender
    <3>1. ExportOK'
      BY <2>2, EraseOK, TimersOK DEF CancelBySender
    <3>. QED
      BY <1>3, <2>1, <3>1, SourceStep
  <2>3. CASE ~CancelBySender
    <3>1. ExportOK' /\ UNCHANGED outcome
      BY <1>2, <1>4, <1>6, <2>3, TimersOK DEF ResendCheckpoint, CheckpointRecord
    <3>. QED
      BY <2>1, <3>1, SourceStep
  <2>. QED
    BY <2>2, <2>3
<1>. QED
  BY <1>5, <1>6

LEMMA CancelOfSource ==
    ASSUME Inv, DequeueCS \/ ResendXmitCancel \/ HandleCAS \/ HandleCR, UNCHANGED importVars
    PROVE  Inv'
<1>1. ASSUME DequeueCS \/ ResendXmitCancel \/ HandleCAS PROVE Inv'
  <2>1. ExportTypeOK
    BY DEF Inv, ExportOK
  <2>2. cs' \in Timer /\ export' \in {"dead", "gone"} /\ export = "dead"
    BY <1>1, <2>1, TimersOK DEF DequeueCS, ResendXmitCancel, HandleCAS, ExportTypeOK
  <2>3. UNCHANGED <<outcome, claims, rsSerialNbrs, checkpoints>>
    BY <1>1 DEF DequeueCS, ResendXmitCancel, HandleCAS
  <2>4. ExportOK'
    BY <2>2, <2>3 DEF Inv, ExportOK, ExportTypeOK, importVars
  <2>5. \A seg \in net' : seg \in net \/ SegmentOK(seg)'
    BY <1>1 DEF DequeueCS, ResendXmitCancel, HandleCAS, Send, Cancel, SegmentOK
  <2>. QED
    BY <2>3, <2>4, <2>5, SourceStep
<1>2. ASSUME HandleCR PROVE Inv'
  <2>1. outcome # "complete"
    BY <1>2 DEF HandleCR, Inv, ExportOK
  <2>2. ExportOK'
    BY <1>2, EraseOK DEF HandleCR, Inv, ExportOK, ExportTypeOK
  <2>3. \A seg \in net' : seg \in net \/ SegmentOK(seg)'
    BY <1>2 DEF HandleCR, Send, Cancel, SegmentOK
  <2>. QED
    BY <2>1, <2>2, <2>3, SourceStep
<1>. QED
  BY <1>1, <1>2

(* A report, wherever it is applied: only the final one need complete the   *)
(* session.                                                                 *)
LEMMA HandleRSKeepsInv ==
    ASSUME Inv, NEW rs \in Arriving("RS"), HandleRS(rs), UNCHANGED importVars
    PROVE  Inv'
<1> DEFINE claimed == claims \cup rs.claims
           gaps == Scope(rs.lb, rs.ub) \ claimed
           n == rs.serial
<1>1. /\ rs \in ReportSegment /\ rs.claims \subseteq accepted
      /\ n \in 1..session.nextRptSerialNbr
      /\ n = session.finalRptSerialNbr => rs.claims = Unit
  BY DEF Arriving, Inv, NetOK, SegmentOK
<1>2. /\ checkpoints \in Seq(CheckpointRecord) /\ Len(checkpoints) \in Nat
      /\ Len(checkpoints) <= MaxCheckpoints /\ claims \subseteq Unit /\ claims \subseteq accepted
  BY LenProperties DEF Inv, ExportOK, ExportTypeOK, CheckpointRecord
<1>3. export = "open" /\ outcome = "none"
  BY DEF HandleRS, Inv, ExportOK
<1>4. accepted' = accepted /\ session' = session
  BY DEF importVars
<1>5. ASSUME n = session.finalRptSerialNbr => outcome' = "complete"
      PROVE  SegmentOK(ReportAck(n))'
  BY <1>1, <1>4, <1>5 DEF SegmentOK, ReportAck
<1>6. CASE n \in rsSerialNbrs
  <2>1. UNCHANGED exportVars /\ net' = net \cup {ReportAck(n)}
    BY <1>6 DEF HandleRS, Send
  <2>2. n # session.finalRptSerialNbr
    BY <1>6 DEF Inv, ExportOK
  <2>3. ExportOK'
    BY <1>4, <2>1 DEF Inv, ExportOK, ExportTypeOK, exportVars
  <2>. QED
    BY <1>5, <2>1, <2>2, <2>3, SourceStep DEF exportVars
<1>7. CASE n \notin rsSerialNbrs /\ claimed = Unit
  <2>1. CloseExport /\ net' = net \cup {ReportAck(n)}
    BY <1>7 DEF HandleRS, ApplyReport, AllClaimed, Send
  <2>2. ExportOK'
    BY <2>1, EraseOK DEF CloseExport, Inv, ExportOK, ExportTypeOK
  <2>. QED
    BY <1>5, <2>1, <2>2, SourceStep DEF CloseExport
<1>8. CASE n \notin rsSerialNbrs /\ claimed # Unit
  <2>1. n # session.finalRptSerialNbr
    BY <1>1, <1>2, <1>8 DEF ReportSegment
  <2>2. CASE Len(checkpoints) >= MaxCheckpoints
    <3>1. CancelBySender /\ net' = net \cup {ReportAck(n)}
      BY <1>8, <2>2 DEF HandleRS, ApplyReport, AllClaimed, Send
    <3>2. ExportOK'
      BY <3>1, EraseOK, TimersOK DEF CancelBySender
    <3>. QED
      BY <1>3, <1>5, <2>1, <3>1, <3>2, SourceStep
  <2>3. CASE ~(Len(checkpoints) >= MaxCheckpoints)
    <3>1. /\ Repair(rs, gaps)
          /\ claims' = claimed /\ rsSerialNbrs' = rsSerialNbrs \cup {n}
          /\ UNCHANGED <<export, outcome, cs>>
      BY <1>8, <2>3 DEF HandleRS, ApplyReport, AllClaimed
    <3>2. gaps \subseteq Unit
      <4>1. rs.lb \in 0..RedLength /\ rs.ub \in 1..RedLength
        BY <1>1 DEF ReportSegment, Unit
      <4>. QED
        BY <4>1, LtpAssumption DEF Scope, Unit
    <3>3. gaps # {} => Max(gaps) \in Unit
      <4> DEFINE G == gaps
      <4>1. G \subseteq Nat /\ RedLength \in Nat /\ \A u \in G : u <= RedLength
        BY <3>2, LtpAssumption DEF Unit
      <4>2. G # {} => Max(G) \in G
        <5> HIDE DEF G
        <5>. QED
          BY <4>1, MaxExists
      <4>. QED
        BY <3>2, <4>2
    <3>4. /\ Answered(rs.ckpt) \in Seq(CheckpointRecord)
          /\ Len(Answered(rs.ckpt)) = Len(checkpoints)
      BY AnsweredOK DEF Inv, ExportOK
    <3> HIDE DEF gaps
    <3>5. checkpoints' \in Seq(CheckpointRecord) /\ Len(checkpoints') <= MaxCheckpoints
      <4>1. CASE gaps = {}
        BY <1>2, <3>1, <3>4, <4>1 DEF Repair
      <4>2. CASE gaps # {}
        <5> DEFINE cp == [unit |-> Max(gaps), rpt |-> n, timer |-> Queued]
        <5>1. cp \in CheckpointRecord
          BY <1>1, <3>3, <4>2, TimersOK DEF CheckpointRecord, ReportSegment
        <5>2. checkpoints' = Append(Answered(rs.ckpt), cp)
          BY <3>1, <4>2 DEF Repair, NewCheckpoint
        <5> HIDE DEF cp
        <5>3. /\ checkpoints' \in Seq(CheckpointRecord)
              /\ Len(checkpoints') = Len(checkpoints) + 1
          BY <3>4, <5>1, <5>2, AppendProperties
        <5>. QED
          BY <1>2, <2>3, <5>3, LtpExportAssumption
      <4>. QED
        BY <4>1, <4>2
    <3>6. ExportOK'
      <4>1. n \in Nat /\ rs.claims \subseteq Unit
        BY <1>1 DEF ReportSegment
      <4>2. ExportTypeOK'
        BY <1>2, <3>1, <3>5, <4>1 DEF Inv, ExportOK, ExportTypeOK, CheckpointRecord
      <4>3. \A m \in rsSerialNbrs' : m <= session'.nextRptSerialNbr
                                     /\ m # session'.finalRptSerialNbr
        BY <1>1, <1>4, <2>1, <3>1 DEF Inv, ExportOK
      <4>. QED
        BY <1>1, <1>2, <1>3, <1>4, <3>1, <4>2, <4>3 DEF ExportOK
    <3>7. ASSUME NEW seg \in net' PROVE seg \in net \/ SegmentOK(seg)'
      <4>1. seg \in net \/ seg = ReportAck(n) \/ \E u \in Unit : seg = Data(u)
        BY <3>1, <3>2 DEF Repair, Send
      <4>2. \A u \in Unit : SegmentOK(Data(u))'
        BY DEF SegmentOK, Data
      <4>. QED
        BY <1>5, <2>1, <4>1, <4>2
    <3>. QED
      BY <3>1, <3>6, <3>7, SourceStep
  <2>. QED
    BY <2>2, <2>3
<1>. QED
  BY <1>6, <1>7, <1>8

LEMMA ExportStep ==
    ASSUME Inv, ExportNext
    PROVE  Inv'
BY CheckpointTimers, CancelOfSource, HandleRSKeepsInv DEF ExportNext, ExportTimers, ExportArrivals

-----------------------------------------------------------------------------
(* The steps of the destination.                                            *)

LEMMA CompleteMeansAll ==
    ASSUME NEW s \in ImportSession, Complete(s)
    PROVE  s.redSegments = Unit /\ s.redPartLength = RedLength
<1>1. /\ s.redSegments \subseteq Unit /\ s.redPartLength = RedLength
      /\ Cardinality(s.redSegments) = RedLength
  BY DEF Complete, ImportSession
<1>2. IsFiniteSet(Unit) /\ Cardinality(Unit) = RedLength
  BY LtpAssumption, FS_Interval DEF Unit
<1>. QED
  BY <1>1, <1>2, FS_Subset

\* A stopped session has no reports.
LEMMA StoppedOK ==
    ASSUME NEW s \in ImportSession
    PROVE  /\ Stop(s) \in ImportSession /\ DOMAIN Stop(s).rsSegments = {}
           /\ Stop(s) = [s EXCEPT !.rsSegments = << >>]
           /\ Clear(s) \in ImportSession
<1>1. << >> \in Reports /\ DOMAIN << >> = {}
  <2>1. << >> \in [{} -> [segment : ReportSegment, timer : Timer]] /\ DOMAIN << >> = {}
    BY EmptySeq
  <2>2. {} \in SUBSET Nat
    OBVIOUS
  <2>. QED
    BY <2>1, <2>2 DEF Reports
<1>2. Stop(s) \in ImportSession
  BY <1>1, Zenon DEF Stop, ImportSession
<1>3. {} \in SUBSET Unit /\ TRUE \in BOOLEAN
  OBVIOUS
<1>4. Clear(s) \in ImportSession
  BY <1>3, Zenon DEF Clear, ImportSession
<1>. QED
  BY <1>1, <1>2, <1>4 DEF Stop, ImportSession

\* Cancellation and the end of reception, whatever the session was.
LEMMA EndedOK ==
    ASSUME NEW s, SessionOK(s)
    PROVE  /\ SessionOK(CloseImport(s)) /\ SessionOK(CancelByReceiver(s)) /\ SessionOK(Clear(s))
           /\ CloseImport(s) = [s EXCEPT !.rsSegments = << >>, !.state = "closed"]
           /\ CancelByReceiver(s) = [s EXCEPT !.redSegments = {}, !.cleared = TRUE,
                  !.rsSegments = << >>, !.state = "dead", !.cr = Queued]
           /\ DOMAIN CloseImport(s).rsSegments = {} /\ DOMAIN CancelByReceiver(s).rsSegments = {}
<1>1. s \in ImportSession /\ s.finalRptSerialNbr <= s.nextRptSerialNbr
  BY DEF SessionOK
<1>2. /\ CloseImport(s) = [s EXCEPT !.rsSegments = << >>, !.state = "closed"]
      /\ CancelByReceiver(s) = [s EXCEPT !.redSegments = {}, !.cleared = TRUE,
            !.rsSegments = << >>, !.state = "dead", !.cr = Queued]
  BY <1>1 DEF CloseImport, CancelByReceiver, Stop, Clear, ImportSession
<1>3. CloseImport(s) \in ImportSession
  <2> DEFINE t == Stop(s)
  <2>1. t \in ImportSession /\ "closed" \in {"none", "open", "dead", "closed"}
    BY <1>1, StoppedOK
  <2> HIDE DEF t
  <2>2. [t EXCEPT !.state = "closed"] \in ImportSession
    BY <2>1, Zenon DEF ImportSession
  <2>. QED
    BY <2>2 DEF CloseImport, t
<1>4. CancelByReceiver(s) \in ImportSession
  <2> DEFINE t == Stop(Clear(s))
  <2>1. /\ t \in ImportSession /\ "dead" \in {"none", "open", "dead", "closed"}
        /\ Queued \in Timer
    BY <1>1, StoppedOK, TimersOK
  <2> HIDE DEF t
  <2>2. [t EXCEPT !.state = "dead", !.cr = Queued] \in ImportSession
    BY <2>1, Zenon DEF ImportSession
  <2>. QED
    BY <2>2 DEF CancelByReceiver, t
<1>5. DOMAIN << >> = {}
  OBVIOUS
<1>6. DOMAIN CloseImport(s).rsSegments = {} /\ DOMAIN CancelByReceiver(s).rsSegments = {}
  BY <1>1, <1>2, <1>5 DEF ImportSession
<1>7. SessionOK(CloseImport(s))
  BY <1>1, <1>2, <1>3, <1>6 DEF SessionOK, ImportSession
<1>8. SessionOK(CancelByReceiver(s))
  BY <1>1, <1>2, <1>4, <1>6 DEF SessionOK, ImportSession
<1>9. SessionOK(Clear(s))
  <2> DEFINE c == Clear(s)
  <2>1. c \in ImportSession
    BY <1>1, StoppedOK
  <2>2. /\ c.redSegments = {} /\ c.state = s.state /\ c.rsSegments = s.rsSegments
        /\ c.nextRptSerialNbr = s.nextRptSerialNbr
        /\ c.finalRptSerialNbr = s.finalRptSerialNbr
    BY <1>1 DEF Clear, ImportSession
  <2> HIDE DEF c
  <2>3. SessionOK(c)
    BY <2>1, <2>2 DEF SessionOK
  <2>. QED
    BY <2>3 DEF c
<1>. QED
  BY <1>2, <1>6, <1>7, <1>8, <1>9

(* A report is sent, or the session is canceled for it has sent too many. *)
LEMMA SendReportOK ==
    ASSUME NEW s, SessionOK(s), s.state = "open", ~s.cleared,
           NEW ckpt \in Nat, NEW rpt, NEW ub \in Unit
    PROVE  Reported(s, SendReport(s, ckpt, rpt, ub))
<1> DEFINE next == [s EXCEPT !.nextRptSerialNbr = s.nextRptSerialNbr + 1]
           k == s.nextRptSerialNbr
           r == SendReport(s, ckpt, rpt, ub)
<1>1. /\ s \in ImportSession /\ k \in Nat /\ k + 1 \in Nat
      /\ s.finalRptSerialNbr \in Nat /\ s.finalRptSerialNbr <= k
  BY DEF SessionOK, ImportSession
<1>2. next \in ImportSession
  BY <1>1, Zenon DEF ImportSession
<1>3. /\ next.nextRptSerialNbr = k + 1 /\ next.rsSegments = s.rsSegments
      /\ next.state = s.state /\ next.cleared = s.cleared
      /\ next.redSegments = s.redSegments /\ next.redPartLength = s.redPartLength
      /\ next.finalRptSerialNbr = s.finalRptSerialNbr
      /\ next.delivered = s.delivered /\ next.finalRptAcked = s.finalRptAcked
  BY <1>1 DEF ImportSession
<1> HIDE DEF next
<1>4. \A n \in DOMAIN s.rsSegments :
         n \in 1..k /\ s.rsSegments[n].segment.serial = n
         /\ (n = s.finalRptSerialNbr => s.rsSegments[n].segment.claims = Unit)
  BY DEF SessionOK
<1>5. SessionOK(next) /\ \A n \in DOMAIN next.rsSegments : n < k + 1
  BY <1>1, <1>2, <1>3, <1>4 DEF SessionOK
<1>6. CASE s.finalRptSerialNbr # 0
  <2>1. r = s
    BY <1>6 DEF SendReport
  <2>. QED
    BY <1>1, <2>1 DEF Reported
\* The reports P are filed, and filed becomes the final report.
<1>7. ASSUME NEW P \in SUBSET ReportSegment, NEW last \in Nat, NEW final \in Nat,
             \A rs \in P : rs.serial \in k + 1..last /\ rs.claims \subseteq s.redSegments,
             \/ final = s.finalRptSerialNbr
             \/ /\ final = k + 1
                /\ \A rs \in P : rs.serial = k + 1 /\ rs.claims = Unit,
             r = [AddReports(next, P) EXCEPT !.finalRptSerialNbr = final],
             final = s.finalRptSerialNbr \/ P # {}
      PROVE  Reported(s, r)
  <2> DEFINE a == AddReports(next, P)
  <2>1. /\ a \in ImportSession
        /\ SameButReports(next, a)
        /\ a.nextRptSerialNbr >= k + 1
        /\ \A rs \in P : rs.serial <= a.nextRptSerialNbr
        /\ \A n \in DOMAIN a.rsSegments :
              \/ n \in DOMAIN s.rsSegments /\ a.rsSegments[n] = s.rsSegments[n]
              \/ n \notin DOMAIN s.rsSegments
                 /\ \E rs \in P : rs.serial = n /\ a.rsSegments[n].segment = rs
    <3>1. /\ SessionOK(next) /\ next.state = "open"
      BY <1>1, <1>3, <1>5
    <3>2. P \in SUBSET ReportSegment /\ \A rs \in P : rs.serial <= last
      BY <1>1, <1>7
    <3> HIDE DEF k, a
    <3>3. /\ a \in ImportSession
          /\ SameButReports(next, a)
          /\ a.nextRptSerialNbr >= next.nextRptSerialNbr
          /\ \A rs \in P : rs.serial <= a.nextRptSerialNbr
          /\ \A n \in DOMAIN a.rsSegments :
                \/ n \in DOMAIN next.rsSegments /\ a.rsSegments[n] = next.rsSegments[n]
                \/ n \notin DOMAIN next.rsSegments
                   /\ \E rs \in P : rs.serial = n /\ a.rsSegments[n].segment = rs
      BY <3>1, <3>2, AddReportsOK DEF a
    <3>. QED
      BY <1>3, <3>3 DEF k
  <2> HIDE DEF a
  <2>2. r \in ImportSession
    <3>1. r = [a EXCEPT !.finalRptSerialNbr = final]
      BY <1>7 DEF a
    <3> HIDE DEF r
    <3>. QED
      BY <2>1, <3>1, Zenon DEF ImportSession
  <2>3. /\ r.rsSegments = a.rsSegments /\ r.nextRptSerialNbr = a.nextRptSerialNbr
        /\ r.finalRptSerialNbr = final
        /\ r.state = "open" /\ r.cleared = s.cleared /\ r.redSegments = s.redSegments
        /\ r.delivered = s.delivered /\ r.finalRptAcked = s.finalRptAcked
    <3>1. r = [a EXCEPT !.finalRptSerialNbr = final]
      BY <1>7 DEF a
    <3>2. /\ a.state = "open" /\ a.cleared = s.cleared /\ a.redSegments = s.redSegments
          /\ a.delivered = s.delivered /\ a.finalRptAcked = s.finalRptAcked
      BY <1>2, <1>3, <2>1 DEF ImportSession, SameButReports
    <3> HIDE DEF r
    <3>. QED
      BY <2>1, <3>1, <3>2 DEF ImportSession
  <2> HIDE DEF r
  <2>4. r.nextRptSerialNbr \in Nat /\ r.nextRptSerialNbr >= k + 1
    BY <2>1, <2>2, <2>3 DEF ImportSession
  <2>5. ASSUME NEW n \in DOMAIN r.rsSegments
        PROVE  /\ n \in 1..r.nextRptSerialNbr /\ r.rsSegments[n].segment.serial = n
               /\ n = final => r.rsSegments[n].segment.claims = Unit
               /\ \/ n \in DOMAIN s.rsSegments
                     /\ r.rsSegments[n].segment = s.rsSegments[n].segment
                  \/ n > k /\ r.rsSegments[n].segment.claims \subseteq s.redSegments
    <3>1. CASE n \in DOMAIN s.rsSegments /\ a.rsSegments[n] = s.rsSegments[n]
      <4>1. n \in 1..k /\ n # k + 1
        BY <1>1, <1>4, <3>1
      <4>. QED
        BY <1>1, <1>4, <1>7, <2>3, <2>4, <3>1, <4>1
    <3>2. ASSUME NEW rs \in P, rs.serial = n, a.rsSegments[n].segment = rs
          PROVE  /\ n \in 1..r.nextRptSerialNbr /\ r.rsSegments[n].segment.serial = n
                 /\ n = final => r.rsSegments[n].segment.claims = Unit
                 /\ n > k /\ r.rsSegments[n].segment.claims \subseteq s.redSegments
      BY <1>1, <1>7, <2>1, <2>3, <2>4, <3>2
    <3>. QED
      BY <2>1, <2>3, <3>1, <3>2
  <2>6. final <= r.nextRptSerialNbr /\ (final = s.finalRptSerialNbr \/ final > k)
    BY <1>1, <1>7, <2>4
  <2>7. SessionOK(r)
    BY <2>2, <2>3, <2>5, <2>6 DEF SessionOK
  <2>. QED
    BY <1>1, <2>3, <2>4, <2>5, <2>6, <2>7 DEF Reported
<1>8. CASE s.finalRptSerialNbr = 0 /\ Complete(s)
  <2>1. s.redSegments = Unit /\ s.redPartLength = RedLength /\ RedLength \in Unit
    BY <1>1, <1>8, CompleteMeansAll, LtpAssumption DEF Unit
  <2> DEFINE rs == Report(k + 1, ckpt, 0, RedLength, Unit)
  <2>2. rs \in ReportSegment /\ rs.serial = k + 1 /\ rs.claims = Unit
    BY <1>1, <2>1, LtpAssumption DEF Report, ReportSegment
  <2>3. r = [AddReports(next, {rs}) EXCEPT !.finalRptSerialNbr = k + 1]
    BY <1>3, <1>8, <2>1 DEF SendReport, FinalReport, next
  <2> HIDE DEF rs, r
  <2> DEFINE P == {rs}
  <2>4. /\ P \in SUBSET ReportSegment /\ P # {}
        /\ \A x \in P : x.serial \in k + 1..k + 1 /\ x.claims \subseteq s.redSegments
                       /\ x.serial = k + 1 /\ x.claims = Unit
    BY <1>1, <2>1, <2>2
  <2>5. r = [AddReports(next, P) EXCEPT !.finalRptSerialNbr = k + 1]
    BY <2>3
  <2> HIDE DEF P
  <2>. QED
    BY <1>1, <1>7, <2>4, <2>5 DEF r
<1>9. CASE s.finalRptSerialNbr = 0 /\ ~Complete(s) /\ ~MayReport(s)
  <2>1. r = CancelByReceiver(next)
    BY <1>9 DEF SendReport, next
  <2>2. /\ SessionOK(r) /\ DOMAIN r.rsSegments = {}
        /\ r = [next EXCEPT !.redSegments = {}, !.cleared = TRUE,
                  !.rsSegments = << >>, !.state = "dead", !.cr = Queued]
    <3> HIDE DEF r
    <3>. QED
      BY <1>5, <2>1, EndedOK
  <2>3. /\ r.nextRptSerialNbr = k + 1 /\ r.finalRptSerialNbr = s.finalRptSerialNbr
        /\ r.delivered = s.delivered /\ r.finalRptAcked = s.finalRptAcked
        /\ r.state = "dead" /\ r.cleared
    <3> HIDE DEF r
    <3>. QED
      BY <1>2, <1>3, <2>2 DEF ImportSession
  <2> HIDE DEF r
  <2>4. SUFFICES Reported(s, r)
    BY DEF r
  <2>. QED
    BY <1>1, <1>9, <2>2, <2>3 DEF Reported
<1>10. CASE s.finalRptSerialNbr = 0 /\ ~Complete(s) /\ MayReport(s)
  <2> DEFINE lb == LowerBound(s, rpt)
             P == PartialReports(next, ckpt, lb, ub)
  <2>1. lb \in 0..RedLength
    <3>1. \A n \in DOMAIN s.rsSegments : s.rsSegments[n].segment \in ReportSegment
      <4>1. PICK S \in SUBSET Nat :
               s.rsSegments \in [S -> [segment : ReportSegment, timer : Timer]]
        BY <1>1 DEF ImportSession, Reports
      <4>. QED
        BY <4>1
    <3>. QED
      BY <3>1, LtpAssumption DEF LowerBound, ReportSegment
  <2> HIDE DEF lb
  <2>2. /\ P \subseteq ReportSegment
        /\ \E last \in Nat : \A rs \in P :
             rs.serial \in k + 1..last /\ rs.claims \subseteq s.redSegments
    BY <1>2, <1>3, <2>1, PartialReportsOK
  <2>3. r = AddReports(next, P)
    BY <1>10 DEF SendReport, next, lb
  <2> HIDE DEF P, r
  <2>4. PICK last \in Nat : \A rs \in P :
             rs.serial \in k + 1..last /\ rs.claims \subseteq s.redSegments
    BY <2>2
  <2>5. r \in ImportSession /\ SameButReports(next, r)
    <3>1. /\ SessionOK(next) /\ next.state = "open"
      BY <1>1, <1>3, <1>5
    <3>2. P \in SUBSET ReportSegment /\ \A rs \in P : rs.serial <= last
      BY <1>1, <2>2, <2>4
    <3> HIDE DEF k
    <3>. QED
      BY <2>3, <3>1, <3>2, AddReportsOK
  <2>6. r.finalRptSerialNbr = s.finalRptSerialNbr
    BY <1>2, <1>3, <2>5 DEF ImportSession, SameButReports
  <2>7. r = [AddReports(next, P) EXCEPT !.finalRptSerialNbr = s.finalRptSerialNbr]
    BY <2>3, <2>5, <2>6 DEF ImportSession
  <2>. QED
    BY <1>1, <1>7, <2>2, <2>4, <2>7 DEF r
<1>. QED
  BY <1>6, <1>8, <1>9, <1>10

(* What is left to show of a step of the destination. *)
LEMMA DestinationStep ==
    ASSUME Inv, UNCHANGED exportVars, accepted \subseteq accepted',
           session.nextRptSerialNbr <= session'.nextRptSerialNbr,
           \/ session'.finalRptSerialNbr = session.finalRptSerialNbr
           \/ session'.finalRptSerialNbr > session.nextRptSerialNbr,
           ImportOK', Told', \A seg \in net' : seg \in net \/ SegmentOK(seg)'
    PROVE  Inv'
<1>1. session.nextRptSerialNbr \in Nat /\ session'.nextRptSerialNbr \in Nat
  BY DEF Inv, ImportOK, SessionOK, ImportSession
<1>2. NetOK'
  <2>1. SUFFICES ASSUME NEW seg \in net' PROVE SegmentOK(seg)'
    BY DEF NetOK
  <2>2. CASE seg \in net
    BY <1>1, <2>2, SegmentKeptByImport DEF Inv, NetOK, exportVars
  <2>. QED
    BY <2>1, <2>2
<1>3. ExportOK'
  <2>1. \A n \in rsSerialNbrs : n \in Nat
    BY DEF Inv, ExportOK, ExportTypeOK
  <2>2. \A n \in rsSerialNbrs : n <= session'.nextRptSerialNbr /\ n # session'.finalRptSerialNbr
    BY <1>1, <2>1 DEF Inv, ExportOK
  <2>. QED
    BY <2>2 DEF Inv, ExportOK, ExportTypeOK, exportVars
<1>. QED
  BY <1>2, <1>3 DEF Inv

(* A step that only moves a timer of the session. *)
SameSession(s, r) ==
    /\ SessionOK(r)
    /\ r.state = s.state /\ r.cleared = s.cleared /\ r.redSegments = s.redSegments
    /\ r.nextRptSerialNbr = s.nextRptSerialNbr /\ r.finalRptSerialNbr = s.finalRptSerialNbr
    /\ r.delivered = s.delivered /\ r.finalRptAcked = s.finalRptAcked
    /\ DOMAIN r.rsSegments = DOMAIN s.rsSegments
    /\ \A n \in DOMAIN s.rsSegments : r.rsSegments[n].segment = s.rsSegments[n].segment

LEMMA ReportTimer ==
    ASSUME NEW s, SessionOK(s), NEW n \in DOMAIN s.rsSegments, NEW t \in Timer
    PROVE  /\ SameSession(s, [s EXCEPT !.rsSegments[n].timer = t])
           /\ s.rsSegments[n].timer \in Timer
<1>1. s \in ImportSession
  BY DEF SessionOK
<1>2. PICK S \in SUBSET Nat : s.rsSegments \in [S -> [segment : ReportSegment, timer : Timer]]
  BY <1>1 DEF ImportSession, Reports
<1> DEFINE R == [s.rsSegments EXCEPT ![n].timer = t]
           r == [s EXCEPT !.rsSegments = R]
<1>3. /\ R \in [S -> [segment : ReportSegment, timer : Timer]]
      /\ \A m \in S : R[m].segment = s.rsSegments[m].segment
  BY <1>2
<1>4. R \in Reports /\ DOMAIN R = S /\ DOMAIN s.rsSegments = S
  <2> HIDE DEF R
  <2>. QED
    BY <1>2, <1>3 DEF Reports
<1>5. r \in ImportSession
  <2> HIDE DEF R
  <2>. QED
    BY <1>1, <1>4, Zenon DEF ImportSession
<1>6. r = [s EXCEPT !.rsSegments[n].timer = t]
  BY <1>1 DEF ImportSession
<1>7. SameSession(s, r)
  <2> HIDE DEF R
  <2>1. /\ r.state = s.state /\ r.cleared = s.cleared /\ r.redSegments = s.redSegments
        /\ r.nextRptSerialNbr = s.nextRptSerialNbr /\ r.finalRptSerialNbr = s.finalRptSerialNbr
        /\ r.delivered = s.delivered /\ r.finalRptAcked = s.finalRptAcked
        /\ r.rsSegments = R
    BY <1>1 DEF ImportSession
  <2> HIDE DEF r
  <2>2. SessionOK(r)
    BY <1>3, <1>4, <1>5, <2>1 DEF SessionOK
  <2>. QED
    BY <1>3, <1>4, <2>1, <2>2 DEF SameSession
<1>8. s.rsSegments[n].timer \in Timer
  BY <1>2
<1>. QED
  BY <1>6, <1>7, <1>8

LEMMA SameSessionStep ==
    ASSUME Inv, UNCHANGED exportVars, UNCHANGED <<clientVars, accepted>>,
           SameSession(session, session'), \A seg \in net' : seg \in net \/ SegmentOK(seg)'
    PROVE  Inv'
<1>1. session.nextRptSerialNbr \in Nat
  BY DEF Inv, ImportOK, SessionOK, ImportSession
<1>2. ImportOK'
  BY DEF Inv, ImportOK, SameSession, clientVars
<1>3. Told'
  BY DEF Inv, Told, QuietClosing, SameSession, exportVars, clientVars
<1>. QED
  BY <1>1, <1>2, <1>3, DestinationStep DEF SameSession

(* A step that ends the session. *)
Ended(s, r) ==
    /\ SessionOK(r) /\ r.state \in {"dead", "closed"}
    /\ (r.cleared = s.cleared /\ r.redSegments = s.redSegments) \/ r.cleared
    /\ r.nextRptSerialNbr = s.nextRptSerialNbr /\ r.finalRptSerialNbr = s.finalRptSerialNbr
    /\ r.delivered = s.delivered /\ r.finalRptAcked = s.finalRptAcked

LEMMA EndsSession ==
    ASSUME NEW s, SessionOK(s)
    PROVE  /\ Ended(s, CloseImport(s)) /\ Ended(s, CancelByReceiver(s))
           /\ Ended(s, CloseImport(Clear(s)))
           /\ CloseImport(s).state = "closed" /\ CancelByReceiver(s).state = "dead"
           /\ CloseImport(Clear(s)).state = "closed" /\ CloseImport(Clear(s)).cleared
<1>1. s \in ImportSession
  BY DEF SessionOK
<1>2. /\ SessionOK(Clear(s)) /\ Clear(s) = [s EXCEPT !.redSegments = {}, !.cleared = TRUE]
      /\ Clear(s) \in ImportSession
  BY EndedOK, StoppedOK, <1>1 DEF Clear
<1>3. /\ SessionOK(CloseImport(s)) /\ SessionOK(CancelByReceiver(s))
      /\ SessionOK(CloseImport(Clear(s)))
      /\ CloseImport(s) = [s EXCEPT !.rsSegments = << >>, !.state = "closed"]
      /\ CloseImport(Clear(s)) = [Clear(s) EXCEPT !.rsSegments = << >>, !.state = "closed"]
      /\ CancelByReceiver(s) = [s EXCEPT !.redSegments = {}, !.cleared = TRUE,
            !.rsSegments = << >>, !.state = "dead", !.cr = Queued]
  BY <1>2, EndedOK
<1>4. Ended(s, CloseImport(s)) /\ CloseImport(s).state = "closed"
  BY <1>1, <1>3 DEF Ended, ImportSession
<1>5. Ended(s, CancelByReceiver(s)) /\ CancelByReceiver(s).state = "dead"
  BY <1>1, <1>3 DEF Ended, ImportSession
<1>6. /\ Clear(s).nextRptSerialNbr = s.nextRptSerialNbr
      /\ Clear(s).finalRptSerialNbr = s.finalRptSerialNbr
      /\ Clear(s).delivered = s.delivered /\ Clear(s).finalRptAcked = s.finalRptAcked
      /\ Clear(s).cleared
  BY <1>1, <1>2 DEF ImportSession
<1>7. /\ Ended(s, CloseImport(Clear(s))) /\ CloseImport(Clear(s)).state = "closed"
      /\ CloseImport(Clear(s)).cleared
  BY <1>2, <1>3, <1>6 DEF Ended, ImportSession
<1>. QED
  BY <1>4, <1>5, <1>7

LEMMA EndedStep ==
    ASSUME Inv, UNCHANGED exportVars, UNCHANGED <<accepted, deliverables, ltpdeliv, blocks>>,
           Ended(session, session'), notices \subseteq notices', notices' \subseteq Notice,
           session'.state = "dead" => "canceled" \in notices', QuietClosing',
           \A seg \in net' : seg \in net \/ SegmentOK(seg)'
    PROVE  Inv'
<1>1. session.nextRptSerialNbr \in Nat
  BY DEF Inv, ImportOK, SessionOK, ImportSession
<1>2. ImportOK'
  <2>1. DOMAIN session'.rsSegments = {}
    BY DEF Ended, SessionOK
  <2>2. ~session'.cleared => session'.redSegments = accepted'
    BY DEF Inv, ImportOK, Ended
  <2>. QED
    BY <2>1, <2>2 DEF Inv, ImportOK, Ended
<1>3. Told'
  BY DEF Inv, Told, Ended, exportVars
<1>. QED
  BY <1>1, <1>2, <1>3, DestinationStep DEF Ended

LEMMA ReportTimers ==
    ASSUME Inv, NEW n \in DOMAIN session.rsSegments, DequeueRS(n) \/ ResendReport(n),
           UNCHANGED exportVars
    PROVE  Inv'
<1>1. SessionOK(session) /\ session \in ImportSession
  BY DEF Inv, ImportOK, SessionOK
<1> DEFINE timer == session.rsSegments[n].timer
<1>2. timer \in Timer
  BY <1>1, ReportTimer, TimersOK
<1> HIDE DEF timer
<1>3. ASSUME NEW t \in Timer, session' = [session EXCEPT !.rsSegments[n].timer = t]
      PROVE  SameSession(session, session')
  BY <1>1, <1>3, ReportTimer
<1>4. CASE DequeueRS(n)
  <2>1. SameSession(session, session')
    BY <1>2, <1>3, <1>4, TimersOK DEF DequeueRS, timer
  <2>2. SegmentOK(session.rsSegments[n].segment)'
    <3> DEFINE seg == session.rsSegments[n].segment
    <3>1. /\ seg \in ReportSegment /\ seg.serial = n /\ n \in 1..session.nextRptSerialNbr
          /\ n = session.finalRptSerialNbr => seg.claims = Unit
          /\ seg.claims \subseteq accepted
      <4>1. PICK S \in SUBSET Nat :
               session.rsSegments \in [S -> [segment : ReportSegment, timer : Timer]]
        BY <1>1 DEF ImportSession, Reports
      <4>. QED
        BY <4>1 DEF Inv, ImportOK, SessionOK
    <3>2. seg.type = "RS"
      BY <3>1 DEF ReportSegment
    <3>3. UNCHANGED accepted
      BY <1>4 DEF DequeueRS
    <3> HIDE DEF seg
    <3>4. SegmentOK(seg)'
      BY <2>1, <3>1, <3>2, <3>3 DEF SegmentOK, SameSession, seg
    <3>. QED
      BY <3>4 DEF seg
  <2>. QED
    BY <1>4, <2>1, <2>2, SameSessionStep DEF DequeueRS, Send
<1>5. CASE ResendReport(n) /\ Exhausted(timer)
  <2>1. /\ session' = CancelByReceiver(session) /\ notices' = notices \cup Canceling
        /\ UNCHANGED <<net, deliverables, ltpdeliv, accepted, blocks>>
    BY <1>5 DEF ResendReport, timer
  <2>2. Ended(session, session') /\ session'.state = "dead"
    BY <1>1, <2>1, EndsSession
  <2>3. notices' = notices \cup {"canceled"}
    BY <2>1, <2>2 DEF Canceling
  <2>4. QuietClosing' /\ notices' \subseteq Notice
    BY <2>3 DEF QuietClosing, Inv, ImportOK, Notice
  <2>. QED
    BY <2>1, <2>2, <2>3, <2>4, EndedStep
<1>6. CASE ResendReport(n) /\ ~Exhausted(timer)
  <2>1. /\ SameSession(session, session')
        /\ UNCHANGED <<net, deliverables, ltpdeliv, accepted, blocks>>
    BY <1>2, <1>3, <1>6, TimersOK DEF ResendReport, timer
  <2>2. notices' = notices
    BY <1>6, <2>1 DEF ResendReport, Canceling, SameSession, SessionOK, Inv, ImportOK
  <2>. QED
    BY <2>1, <2>2, SameSessionStep DEF clientVars
<1>. QED
  BY <1>4, <1>5, <1>6

LEMMA CancelTimer ==
    ASSUME NEW s, SessionOK(s), NEW t \in Timer
    PROVE  SameSession(s, [s EXCEPT !.cr = t]) /\ s.cr \in Timer
<1>1. s \in ImportSession /\ s.cr \in Timer
  BY DEF SessionOK, ImportSession
<1> DEFINE r == [s EXCEPT !.cr = t]
<1>2. r \in ImportSession
  BY <1>1, Zenon DEF ImportSession
<1>3. /\ r.state = s.state /\ r.cleared = s.cleared /\ r.redSegments = s.redSegments
      /\ r.nextRptSerialNbr = s.nextRptSerialNbr /\ r.finalRptSerialNbr = s.finalRptSerialNbr
      /\ r.delivered = s.delivered /\ r.finalRptAcked = s.finalRptAcked
      /\ r.rsSegments = s.rsSegments
  BY <1>1 DEF ImportSession
<1> HIDE DEF r
<1>4. SessionOK(r)
  BY <1>2, <1>3 DEF SessionOK
<1>5. SameSession(s, r)
  BY <1>3, <1>4 DEF SameSession
<1>. QED
  BY <1>1, <1>5 DEF r

LEMMA CancelOfDestination ==
    ASSUME Inv, DequeueCR \/ ResendRecvCancel \/ HandleCAR, UNCHANGED exportVars
    PROVE  Inv'
<1>1. SessionOK(session) /\ session.state = "dead" /\ "canceled" \in notices
  BY DEF Inv, ImportOK, DequeueCR, ResendRecvCancel, HandleCAR
<1>2. session.cr \in Timer
  BY <1>1, CancelTimer, TimersOK
<1>3. UNCHANGED <<clientVars, accepted>>
  BY DEF DequeueCR, ResendRecvCancel, HandleCAR
<1>4. \A seg \in net' : seg \in net \/ SegmentOK(seg)'
  BY DEF DequeueCR, ResendRecvCancel, HandleCAR, Send, Cancel, SegmentOK
<1>5. CASE session' = CloseImport(session)
  <2>1. Ended(session, session') /\ session'.state = "closed"
    BY <1>1, <1>5, EndsSession
  <2>2. QuietClosing' /\ notices \subseteq Notice
    BY <1>1, <1>3 DEF QuietClosing, clientVars, Inv, ImportOK
  <2>. QED
    BY <1>3, <1>4, <2>1, <2>2, EndedStep DEF clientVars
<1>6. CASE session' # CloseImport(session)
  <2>1. \E t \in Timer : session' = [session EXCEPT !.cr = t]
    BY <1>2, <1>6, TimersOK DEF DequeueCR, ResendRecvCancel, HandleCAR
  <2>2. SameSession(session, session')
    BY <1>1, <2>1, CancelTimer
  <2>. QED
    BY <1>3, <1>4, <2>2, SameSessionStep
<1>. QED
  BY <1>5, <1>6

LEMMA HandleCSKeepsInv ==
    ASSUME Inv, HandleCS, UNCHANGED exportVars
    PROVE  Inv'
<1>1. SessionOK(session)
  BY DEF Inv, ImportOK
<1>2. \A seg \in net' : seg \in net \/ SegmentOK(seg)'
  BY DEF HandleCS, Send, Cancel, SegmentOK
<1>3. CASE session.state = "open"
  <2>1. /\ session' = CloseImport(Clear(session)) /\ notices' = notices \cup {"canceled"}
        /\ UNCHANGED <<deliverables, ltpdeliv, accepted, blocks>>
    BY <1>3 DEF HandleCS
  <2>2. Ended(session, session') /\ session'.state = "closed"
    BY <1>1, <2>1, EndsSession
  <2>3. QuietClosing' /\ notices' \subseteq Notice
    BY <2>1 DEF QuietClosing, Inv, ImportOK, Notice
  <2>. QED
    BY <1>2, <2>1, <2>2, <2>3, EndedStep
<1>4. CASE session.state # "open"
  <2>1. UNCHANGED <<importVars>>
    BY <1>4 DEF HandleCS, importVars, clientVars
  <2>2. SameSession(session, session')
    BY <1>1, <2>1 DEF SameSession, importVars
  <2>. QED
    BY <1>2, <2>1, <2>2, SameSessionStep DEF importVars
<1>. QED
  BY <1>3, <1>4

(* The acknowledgment of the final report means that the source knows. *)
LEMMA HandleRAKeepsInv ==
    ASSUME Inv, NEW ra \in Arriving("RAS"), HandleRA(ra.serial), UNCHANGED exportVars
    PROVE  Inv'
<1> DEFINE n == ra.serial
           t == Deactivate(session.rsSegments[n].timer)
           acked == [session EXCEPT !.rsSegments[n].timer = t]
<1>1. /\ SessionOK(session) /\ session \in ImportSession /\ session.state = "open"
      /\ n \in DOMAIN session.rsSegments
      /\ UNCHANGED <<net, clientVars, accepted>>
  BY DEF Inv, ImportOK, SessionOK, HandleRA
<1>2. IsFinal(n) => outcome = "complete"
  BY DEF Arriving, Inv, NetOK, SegmentOK, IsFinal
<1>3. SameSession(session, acked)
  <2>1. t \in Timer
    BY <1>1, ReportTimer, TimersOK
  <2>. QED
    BY <1>1, <2>1, ReportTimer
<1>4. \/ session' = acked /\ ~IsFinal(n)
      \/ session' = CloseImport(session) /\ IsFinal(n) /\ session.delivered
      \/ session' = [acked EXCEPT !.finalRptAcked = TRUE] /\ IsFinal(n) /\ ~session.delivered
  BY DEF HandleRA
<1> HIDE DEF acked
<1>5. CASE session' = acked
  BY <1>1, <1>3, <1>5, SameSessionStep
<1>6. CASE session' = CloseImport(session) /\ IsFinal(n) /\ session.delivered
  <2>1. Ended(session, session')
    BY <1>1, <1>6, EndsSession
  <2>2. QuietClosing' /\ notices \subseteq Notice /\ session'.state = "closed"
    BY <1>1, <1>2, <1>6, EndsSession DEF QuietClosing, Inv, ImportOK, exportVars, clientVars
  <2>. QED
    BY <1>1, <2>1, <2>2, EndedStep DEF clientVars
<1>7. CASE session' = [acked EXCEPT !.finalRptAcked = TRUE] /\ IsFinal(n) /\ ~session.delivered
  <2>1. acked \in ImportSession /\ TRUE \in BOOLEAN
    BY <1>3 DEF SameSession, SessionOK
  <2>2. session' \in ImportSession
    BY <1>7, <2>1, Zenon DEF ImportSession
  <2>3. /\ session'.state = acked.state /\ session'.cleared = acked.cleared
        /\ session'.redSegments = acked.redSegments
        /\ session'.nextRptSerialNbr = acked.nextRptSerialNbr
        /\ session'.finalRptSerialNbr = acked.finalRptSerialNbr
        /\ session'.delivered = acked.delivered /\ session'.finalRptAcked
        /\ session'.rsSegments = acked.rsSegments
    BY <1>7, <2>1 DEF ImportSession
  <2>4. SessionOK(session')
    BY <1>3, <2>2, <2>3 DEF SameSession, SessionOK
  <2>5. ImportOK'
    BY <1>1, <1>3, <1>7, <2>3, <2>4 DEF Inv, ImportOK, SameSession, clientVars
  <2>6. Told'
    BY <1>1, <1>2, <1>3, <1>7, <2>3 DEF Told, QuietClosing, SameSession, exportVars
  <2>7. session.nextRptSerialNbr \in Nat
    BY <1>1 DEF ImportSession
  <2>. QED
    BY <1>1, <1>3, <2>3, <2>5, <2>6, <2>7, DestinationStep DEF SameSession
<1>. QED
  BY <1>4, <1>5, <1>6, <1>7

LEMMA PickKeepsInv ==
    ASSUME Inv, PickDeliverable, UNCHANGED exportVars
    PROVE  Inv'
<1>1. UNCHANGED <<net, session, notices, accepted, blocks>>
  BY DEF PickDeliverable
<1>2. /\ deliverables' \in 0..MaxBacklog /\ ltpdeliv' \in {"idle", "holding"}
      /\ ltpdeliv' = "holding" => deliverables' > 0
      /\ deliverables' > 0 => deliverables > 0
  BY LtpImportAssumption DEF PickDeliverable, Inv, ImportOK
<1>3. session.state = "none" => deliverables' = 0
  BY DEF PickDeliverable, Inv, ImportOK
<1>4. ImportOK'
  BY <1>1, <1>2, <1>3 DEF Inv, ImportOK
<1>5. Told'
  BY <1>1 DEF Inv, Told, QuietClosing, exportVars
<1>6. session.nextRptSerialNbr \in Nat
  BY DEF Inv, ImportOK, SessionOK, ImportSession
<1>. QED
  BY <1>1, <1>4, <1>5, <1>6, DestinationStep

(* What a deliverable that is given to the client contains. *)
LEMMA WhatIsDelivered ==
    ASSUME Inv, Deliver
    PROVE  /\ Contents \in {"block", "empty", "stale"}
           /\ Contents = "block" => /\ session.state = "open" /\ ~session.cleared /\ blocks = 0
                                    /\ accepted = Unit
           /\ Contents # "block" => session.state # "open" \/ session.delivered
<1>1. ltpdeliv = "holding" /\ deliverables > 0
  BY DEF Deliver, Finish, Inv, ImportOK
<1>2. session.redSegments = Unit => ~session.cleared
  BY LtpAssumption DEF Inv, ImportOK, SessionOK, Unit
<1>. QED
  BY <1>1, <1>2 DEF Contents, Inv, ImportOK

LEMMA DeliverKeepsInv ==
    ASSUME Inv, Deliver, UNCHANGED exportVars
    PROVE  Inv'
<1> DEFINE cleared == Clear(session)
<1>1. /\ SessionOK(session) /\ session \in ImportSession
      /\ session.nextRptSerialNbr \in Nat
  BY DEF Inv, ImportOK, SessionOK, ImportSession
<1>2. /\ UNCHANGED <<net, accepted>> /\ ltpdeliv' = "idle"
      /\ deliverables' \in 0..MaxBacklog
      /\ deliverables' > 0 => deliverables > 0
      /\ session.state # "none"
  BY LtpImportAssumption DEF Deliver, Finish, Inv, ImportOK
<1>3. /\ notices' = notices \cup {Contents} /\ notices' \subseteq Notice
      /\ "canceled" \in notices' <=> "canceled" \in notices
  BY WhatIsDelivered DEF Deliver, Inv, ImportOK, Notice
<1>4. blocks' \in {0, 1} /\ (blocks = 1 => blocks' = 1)
  BY WhatIsDelivered DEF Deliver, Inv, ImportOK
<1>5. CASE session.state # "open"
  <2>1. session' = session /\ blocks' = blocks
    BY <1>5 DEF Deliver, Contents
  <2>2. ImportOK'
    BY <1>1, <1>2, <1>3, <1>5, <2>1 DEF Inv, ImportOK
  <2>3. Told'
    BY <1>3, <2>1 DEF Inv, Told, QuietClosing, exportVars
  <2>. QED
    BY <1>1, <1>2, <2>1, <2>2, <2>3, DestinationStep
<1>6. CASE session.state = "open" /\ session.finalRptAcked
  <2>1. session' = CloseImport(Clear(session))
    BY <1>6 DEF Deliver
  <2>2. Ended(session, session') /\ session'.state = "closed" /\ session'.cleared
    BY <1>1, <2>1, EndsSession
  <2>3. blocks' = 1
    BY <1>6, WhatIsDelivered DEF Deliver, Inv, ImportOK
  <2>4. ImportOK'
    <3>1. SessionOK(session') /\ DOMAIN session'.rsSegments = {}
      BY <2>2 DEF Ended, SessionOK
    <3>. QED
      BY <1>2, <1>3, <2>2, <2>3, <3>1 DEF Inv, ImportOK
  <2>5. Told'
    BY <1>6, <2>2, <2>3 DEF Inv, Told, QuietClosing, exportVars, Ended
  <2>. QED
    BY <1>1, <1>2, <2>2, <2>4, <2>5, DestinationStep DEF Ended
<1>7. CASE session.state = "open" /\ ~session.finalRptAcked
  <2>1. session' = [cleared EXCEPT !.delivered = TRUE]
    BY <1>7 DEF Deliver
  <2>2. cleared \in ImportSession /\ TRUE \in BOOLEAN /\ SessionOK(cleared)
    BY <1>1, StoppedOK, EndedOK
  <2>3. session' \in ImportSession
    <3> HIDE DEF cleared
    <3>. QED
      BY <2>1, <2>2, Zenon DEF ImportSession
  <2>4. /\ session'.state = "open" /\ session'.cleared /\ session'.redSegments = {}
        /\ session'.nextRptSerialNbr = session.nextRptSerialNbr
        /\ session'.finalRptSerialNbr = session.finalRptSerialNbr
        /\ session'.delivered /\ session'.finalRptAcked = session.finalRptAcked
        /\ session'.rsSegments = session.rsSegments
    BY <1>1, <1>7, <2>1 DEF ImportSession, Clear
  <2>5. SessionOK(session')
    BY <1>1, <2>3, <2>4 DEF SessionOK
  <2>6. blocks' = 1
    BY <1>7, WhatIsDelivered DEF Deliver, Inv, ImportOK
  <2>7. ImportOK'
    BY <1>2, <1>3, <1>7, <2>4, <2>5, <2>6 DEF Inv, ImportOK
  <2>8. Told'
    BY <1>7, <2>4 DEF Told, QuietClosing
  <2>. QED
    BY <1>1, <1>2, <2>4, <2>7, <2>8, DestinationStep
<1>. QED
  BY <1>5, <1>6, <1>7

(* The session once a segment of data has been taken in, before anything is *)
(* reported.                                                                *)
LEMMA InsertOK ==
    ASSUME NEW s, SessionOK(s), s.state \in {"none", "open"}, ~s.cleared,
           NEW seg, seg.unit \in Unit, NEW fresh \in BOOLEAN, NEW after,
           after = LET live == [s EXCEPT !.state = "open"]
                   IN  IF fresh THEN Insert(live, seg) ELSE live
    PROVE  /\ SessionOK(after) /\ after \in ImportSession
           /\ after.state = "open" /\ ~after.cleared
           /\ after.redSegments = IF fresh THEN s.redSegments \cup {seg.unit} ELSE s.redSegments
           /\ after.nextRptSerialNbr = s.nextRptSerialNbr
           /\ after.finalRptSerialNbr = s.finalRptSerialNbr
           /\ after.delivered = s.delivered /\ after.finalRptAcked = s.finalRptAcked
           /\ after.rsSegments = s.rsSegments
<1> DEFINE live == [s EXCEPT !.state = "open"]
<1>1. s \in ImportSession /\ "open" \in {"none", "open", "dead", "closed"}
  BY DEF SessionOK
<1>2. live \in ImportSession
  BY <1>1, Zenon DEF ImportSession
<1>3. /\ live.redSegments = s.redSegments /\ live.redPartLength = s.redPartLength
      /\ live.nextRptSerialNbr = s.nextRptSerialNbr
      /\ live.finalRptSerialNbr = s.finalRptSerialNbr
      /\ live.delivered = s.delivered /\ live.finalRptAcked = s.finalRptAcked
      /\ live.rsSegments = s.rsSegments /\ live.state = "open" /\ live.cleared = s.cleared
  BY <1>1 DEF ImportSession
<1> HIDE DEF live
<1>4. SessionOK(live)
  BY <1>2, <1>3 DEF SessionOK
<1>5. CASE ~fresh
  BY <1>2, <1>3, <1>4, <1>5 DEF live
<1>6. CASE fresh
  <2> DEFINE red == s.redSegments \cup {seg.unit}
             len == IF seg.type = "CP" /\ seg.unit = RedLength THEN RedLength
                    ELSE live.redPartLength
  <2>1. after = [live EXCEPT !.redSegments = red, !.redPartLength = len]
    BY <1>2, <1>3, <1>6 DEF Insert, live, ImportSession
  <2>2. red \in SUBSET Unit /\ len \in {0, RedLength}
    BY <1>1, <1>2 DEF ImportSession
  <2> HIDE DEF red, len
  <2>3. after \in ImportSession
    BY <1>2, <2>1, <2>2, Zenon DEF ImportSession
  <2>4. /\ after.redSegments = red /\ after.state = "open" /\ ~after.cleared
        /\ after.nextRptSerialNbr = s.nextRptSerialNbr
        /\ after.finalRptSerialNbr = s.finalRptSerialNbr
        /\ after.delivered = s.delivered /\ after.finalRptAcked = s.finalRptAcked
        /\ after.rsSegments = s.rsSegments
    BY <1>2, <1>3, <2>1 DEF ImportSession
  <2>5. SessionOK(after)
    BY <2>3, <2>4 DEF SessionOK
  <2>. QED
    BY <1>6, <2>3, <2>4, <2>5 DEF red
<1>. QED
  BY <1>5, <1>6

LEMMA HandleDataKeepsInv ==
    ASSUME Inv, NEW seg, seg.unit \in Unit, NEW ckpt \in Nat, NEW rpt,
           NEW heapLeft \in BOOLEAN, HandleDataSegment(seg, ckpt, rpt, heapLeft),
           UNCHANGED exportVars
    PROVE  Inv'
<1> DEFINE s == session
           fresh == heapLeft /\ seg.unit \notin s.redSegments
           live == [s EXCEPT !.state = "open"]
           after == IF fresh THEN Insert(live, seg) ELSE live
           ub == IF fresh THEN seg.unit ELSE after.redPartLength
           acts == Acts(seg, after) /\ ub # 0
<1>1. /\ SessionOK(s) /\ s.state \in {"none", "open"} /\ ~s.cleared
      /\ s.redSegments = accepted /\ accepted \subseteq Unit
      /\ deliverables \in 0..MaxBacklog /\ deliverables < MaxBacklog
      /\ s.nextRptSerialNbr \in Nat /\ blocks = 0
  BY LtpImportAssumption DEF HandleDataSegment, Accepts, Inv, ImportOK, SessionOK, ImportSession
<1>2. /\ session' = IF acts THEN SendReport(after, ckpt, rpt, ub) ELSE after
      /\ accepted' = IF fresh THEN accepted \cup {seg.unit} ELSE accepted
      /\ deliverables' = IF acts /\ Complete(after) THEN deliverables + 1 ELSE deliverables
      /\ notices' = notices \cup Canceling
      /\ UNCHANGED <<net, ltpdeliv, blocks>>
  BY DEF HandleDataSegment
<1>3. /\ SessionOK(after) /\ after \in ImportSession
      /\ after.state = "open" /\ ~after.cleared
      /\ after.redSegments = IF fresh THEN s.redSegments \cup {seg.unit} ELSE s.redSegments
      /\ after.nextRptSerialNbr = s.nextRptSerialNbr
      /\ after.finalRptSerialNbr = s.finalRptSerialNbr
      /\ after.delivered = s.delivered /\ after.finalRptAcked = s.finalRptAcked
      /\ after.rsSegments = s.rsSegments
  <2> DEFINE f == fresh
             a == after
  <2>1. f \in BOOLEAN /\ a = LET l == [s EXCEPT !.state = "open"]
                              IN  IF f THEN Insert(l, seg) ELSE l
    OBVIOUS
  <2> HIDE DEF s, f, a
  <2>2. /\ SessionOK(a) /\ a \in ImportSession
        /\ a.state = "open" /\ ~a.cleared
        /\ a.redSegments = IF f THEN s.redSegments \cup {seg.unit} ELSE s.redSegments
        /\ a.nextRptSerialNbr = s.nextRptSerialNbr
        /\ a.finalRptSerialNbr = s.finalRptSerialNbr
        /\ a.delivered = s.delivered /\ a.finalRptAcked = s.finalRptAcked
        /\ a.rsSegments = s.rsSegments
    BY <1>1, <2>1, InsertOK
  <2>. QED
    BY <2>2 DEF a, f
<1>4. acts => ub \in Unit
  BY <1>3, LtpAssumption DEF ImportSession, Unit
<1> HIDE DEF after, ub
<1>5. after.redSegments = accepted' /\ accepted \subseteq accepted' /\ accepted' \subseteq Unit
  BY <1>1, <1>2, <1>3
<1>6. deliverables > 0 => s.state = "open" /\ s.redSegments = Unit
  BY <1>1 DEF Inv, ImportOK
<1>7. /\ deliverables' \in 0..MaxBacklog /\ deliverables' >= deliverables
      /\ deliverables' > 0 => after.redSegments = Unit
      /\ deliverables' # deliverables => after.redSegments = Unit
  <2>1. Complete(after) => after.redSegments = Unit
    BY <1>3, CompleteMeansAll
  <2>2. deliverables > 0 => after.redSegments = Unit
    BY <1>1, <1>5, <1>6
  <2>. QED
    BY <1>1, <1>2, <2>1, <2>2, LtpImportAssumption
<1>8. \/ session' = after
      \/ Reported(after, session')
  <2>1. acts => Reported(after, SendReport(after, ckpt, rpt, ub))
    BY <1>3, <1>4, SendReportOK
  <2>. QED
    BY <1>2, <2>1
<1> HIDE DEF acts, fresh
<1>9. /\ SessionOK(session') /\ session'.state \in {"open", "dead"}
      /\ s.nextRptSerialNbr <= session'.nextRptSerialNbr
      /\ session'.finalRptSerialNbr = s.finalRptSerialNbr
         \/ session'.finalRptSerialNbr > s.nextRptSerialNbr
      /\ session'.delivered = s.delivered /\ session'.finalRptAcked = s.finalRptAcked
      /\ session'.state = "open" => ~session'.cleared /\ session'.redSegments = accepted'
      /\ session'.state = "dead" => session'.cleared
  BY <1>1, <1>3, <1>5, <1>8 DEF Reported
<1>10. \A n \in DOMAIN session'.rsSegments :
           session'.rsSegments[n].segment.claims \subseteq accepted'
  <2>1. \A n \in DOMAIN s.rsSegments : s.rsSegments[n].segment.claims \subseteq accepted'
    BY <1>5 DEF Inv, ImportOK
  <2>2. CASE session' = after
    BY <1>3, <2>1, <2>2
  <2>3. CASE Reported(after, session')
    <3> TAKE n \in DOMAIN session'.rsSegments
    <3>1. CASE n \in DOMAIN after.rsSegments
               /\ session'.rsSegments[n].segment = after.rsSegments[n].segment
      BY <1>3, <2>1, <3>1
    <3>2. CASE session'.rsSegments[n].segment.claims \subseteq after.redSegments
      BY <1>5, <3>2
    <3>. QED
      BY <2>3, <3>1, <3>2 DEF Reported
  <2>. QED
    BY <1>8, <2>2, <2>3
<1>11. /\ notices \subseteq notices' /\ notices' \subseteq Notice
       /\ session'.state = "dead" => "canceled" \in notices'
  BY <1>2 DEF Canceling, Inv, ImportOK, Notice
<1>12. ImportOK'
  <2>1. ltpdeliv' = "holding" => deliverables' > 0
    BY <1>1, <1>2, <1>7 DEF Inv, ImportOK
  <2>2. ~session'.delivered
    BY <1>1, <1>9 DEF Inv, ImportOK
  <2>3. session'.state = "open" /\ deliverables' > 0 => session'.redSegments = Unit
    BY <1>5, <1>7, <1>9
  <2>4. ltpdeliv' \in {"idle", "holding"} /\ blocks' = 0
    BY <1>1, <1>2 DEF Inv, ImportOK
  <2>. QED
    BY <1>5, <1>7, <1>9, <1>10, <1>11, <2>1, <2>2, <2>3, <2>4 DEF ImportOK
<1>13. Told'
  BY <1>9 DEF Inv, Told, QuietClosing, exportVars
<1>. QED
  BY <1>2, <1>5, <1>9, <1>12, <1>13, DestinationStep

LEMMA ImportStep ==
    ASSUME Inv, ImportNext
    PROVE  Inv'
<1>1. CASE ImportTimers
  BY <1>1, ReportTimers, CancelOfDestination DEF ImportNext, ImportTimers
<1>2. CASE Delivery
  BY <1>2, PickKeepsInv, DeliverKeepsInv DEF ImportNext, Delivery
<1>3. CASE ImportArrivals
  <2>1. ASSUME NEW heapLeft \in BOOLEAN, NEW seg \in Arriving("DS"),
               HandleDataSegment(seg, 0, 0, heapLeft)
        PROVE  Inv'
    <3>1. seg.unit \in Unit
      BY DEF Arriving, Inv, NetOK, SegmentOK
    <3>. QED
      BY <2>1, <3>1, HandleDataKeepsInv DEF ImportNext
  <2>2. ASSUME NEW heapLeft \in BOOLEAN, NEW seg \in Arriving("CP"),
               HandleDataSegment(seg, seg.ckpt, seg.rpt, heapLeft)
        PROVE  Inv'
    <3>1. seg.unit \in Unit /\ seg.ckpt \in Nat
      BY DEF Arriving, Inv, NetOK, SegmentOK
    <3>. QED
      BY <2>2, <3>1, HandleDataKeepsInv DEF ImportNext
  <2>. QED
    BY <1>3, <2>1, <2>2, HandleRAKeepsInv, HandleCSKeepsInv, CancelOfDestination
    DEF ImportNext, ImportArrivals
<1>. QED
  BY <1>1, <1>2, <1>3 DEF ImportNext

-----------------------------------------------------------------------------
(* The invariant, and what follows from it.                                 *)

LEMMA InitInv == Init => Inv
<1> SUFFICES ASSUME Init PROVE Inv
  OBVIOUS
<1>1. NetOK
  BY DEF Init, NetOK, SegmentOK, Data
<1>2. ExportOK
  <2> DEFINE cp == [unit |-> RedLength, rpt |-> 0, timer |-> Queued]
  <2>1. cp \in CheckpointRecord
    BY TimersOK, LtpAssumption DEF CheckpointRecord, Unit
  <2> HIDE DEF cp
  <2>2. <<cp>> \in Seq(CheckpointRecord) /\ Len(<<cp>>) = 1
    BY <2>1
  <2>3. checkpoints = <<cp>>
    BY DEF Init, ExportInit, cp
  <2>4. checkpoints \in Seq(CheckpointRecord) /\ Len(checkpoints) <= MaxCheckpoints
    BY <2>2, <2>3, LtpExportAssumption
  <2>. QED
    BY <2>4, TimersOK DEF Init, ExportInit, ExportOK, ExportTypeOK, CheckpointRecord
<1>3. SessionOK(session)
  <2>1. << >> \in Reports /\ DOMAIN << >> = {}
    <3>1. << >> \in [{} -> [segment : ReportSegment, timer : Timer]] /\ {} \in SUBSET Nat
      BY EmptySeq
    <3>. QED
      BY <3>1 DEF Reports
  <2>2. session \in ImportSession
    BY <2>1, TimersOK DEF Init, ImportInit, ImportSession
  <2>. QED
    BY <2>1, <2>2 DEF Init, ImportInit, SessionOK
<1>4. ImportOK
  BY <1>3, LtpImportAssumption DEF Init, ImportInit, ImportOK
<1>5. Told
  BY DEF Init, ImportInit, Told, QuietClosing
<1>. QED
  BY <1>1, <1>2, <1>4, <1>5 DEF Inv

LEMMA NextInv == Inv /\ [Next]_vars => Inv'
<1> SUFFICES ASSUME Inv, [Next]_vars PROVE Inv'
  OBVIOUS
<1>1. CASE UNCHANGED vars
  BY <1>1, DestinationStep
  DEF vars, importVars, clientVars, exportVars, Inv, NetOK, SegmentOK, ExportOK, ExportTypeOK,
      ImportOK, Told, QuietClosing
<1>. QED
  BY <1>1, ExportStep, ImportStep DEF Next

THEOREM Invariance == Spec => []Inv
BY InitInv, NextInv, PTL DEF Spec

(* The state of both engines keeps its shape; above all no timer expires    *)
(* more often than the span allows, and no session has more checkpoints.    *)
THEOREM TypeCorrect == Spec => []TypeOK
<1>1. Inv => TypeOK
  <2> SUFFICES ASSUME Inv PROVE TypeOK
    OBVIOUS
  <2>1. SessionOK(session) /\ session \in ImportSession
    BY DEF Inv, ImportOK, SessionOK
  <2>2. [f \in DOMAIN session \ {"rsSegments"} |-> session[f]] \in Session
    BY <2>1 DEF ImportSession, Session
  <2>3. ReportsOK(session.rsSegments, session.nextRptSerialNbr)
    <3>1. PICK S \in SUBSET Nat :
             session.rsSegments \in [S -> [segment : ReportSegment, timer : Timer]]
      BY <2>1 DEF ImportSession, Reports
    <3>. QED
      BY <2>1, <3>1 DEF ReportsOK, SessionOK, ReportSegment
  <2>. QED
    BY <2>2, <2>3 DEF TypeOK, ImportTypeOK, Inv, ImportOK, ExportOK
<1>. QED
  BY <1>1, Invariance, PTL

(* Whatever is lost, duplicated or reordered, no report claims a unit that  *)
(* the destination has not received, and the source believes none of one.   *)
THEOREM ClaimsTrue == Spec => []ClaimsAreTrue
<1>1. Inv => ClaimsAreTrue
  BY DEF Inv, NetOK, SegmentOK, ExportOK, ClaimsAreTrue, Arriving
<1>. QED
  BY <1>1, Invariance, PTL

(* An import session that is closed without a cancellation has given its    *)
(* client the block, and its source knows that it is complete.              *)
THEOREM ClosedQuietly == Spec => []QuietClosing
<1>1. Inv => QuietClosing
  BY DEF Inv, Told
<1>. QED
  BY <1>1, Invariance, PTL

-----------------------------------------------------------------------------
(* The session implements LtpBlock.                                         *)

(* The source tells its client of completion only when all has arrived. *)
LEMMA ExportImplements ==
    ASSUME Inv, ExportNext
    PROVE  Block!Next \/ UNCHANGED Block!vars
<1>1. UNCHANGED <<accepted, blocks>>
  BY DEF ExportNext, importVars, clientVars
<1>2. outcome' = outcome \/ (export = "open" /\ outcome' = "canceled")
      \/ (export = "open" /\ outcome' = "complete" /\ accepted = Unit)
  <2>1. CASE ExportTimers
    <3>1. \A c \in DOMAIN checkpoints : export = "open"
      BY DEF Inv, ExportOK
    <3>. QED
      BY <2>1, <3>1 DEF ExportTimers, DequeueCheckpoint, ResendCheckpoint, DequeueCS,
         ResendXmitCancel, CancelBySender
  <2>2. CASE HandleCAS \/ HandleCR
    BY <2>2 DEF HandleCAS, HandleCR
  <2>3. ASSUME NEW rs \in Arriving("RS"), HandleRS(rs)
        PROVE  outcome' = outcome \/ (export = "open" /\ outcome' = "canceled")
               \/ (export = "open" /\ outcome' = "complete" /\ accepted = Unit)
    <3>1. claims \cup rs.claims \subseteq accepted /\ accepted \subseteq Unit
      BY DEF Arriving, Inv, NetOK, SegmentOK, ExportOK, ImportOK
    <3>. QED
      BY <2>3, <3>1 DEF HandleRS, ApplyReport, AllClaimed, CloseExport, CancelBySender, exportVars
  <2>. QED
    BY <2>1, <2>2, <2>3 DEF ExportNext, ExportArrivals
<1>3. export = "open" => outcome = "none"
  BY DEF Inv, ExportOK
<1>. QED
  BY <1>1, <1>2, <1>3 DEF Block!Next, Block!Complete, Block!Abandon, Block!vars, Block!Unit, Unit

(* The destination takes a unit once, and gives the block only when it has *)
(* all of it and has not given it before.                                   *)
LEMMA ImportImplements ==
    ASSUME Inv, ImportNext
    PROVE  Block!Next \/ UNCHANGED Block!vars
<1>1. UNCHANGED outcome
  BY DEF ImportNext, exportVars
<1>2. ASSUME NEW heapLeft \in BOOLEAN, NEW seg \in Arriving("DS") \cup Arriving("CP"),
             NEW ckpt, NEW rpt, HandleDataSegment(seg, ckpt, rpt, heapLeft)
      PROVE  Block!Next \/ UNCHANGED Block!vars
  <2>1. seg.unit \in Unit
    BY DEF Arriving, Inv, NetOK, SegmentOK
  <2>2. session.redSegments = accepted
    BY <1>2 DEF HandleDataSegment, Accepts, Inv, ImportOK
  <2>3. UNCHANGED blocks /\ (accepted' = accepted
             \/ (seg.unit \notin accepted /\ accepted' = accepted \cup {seg.unit}))
    BY <1>2, <2>2 DEF HandleDataSegment
  <2>. QED
    BY <1>1, <2>1, <2>3 DEF Block!Next, Block!Accept, Block!vars, Block!Unit, Unit
<1>3. CASE Deliver
  <2>1. UNCHANGED accepted
    BY <1>3 DEF Deliver, Finish
  <2>2. CASE Contents = "block"
    <3>1. blocks = 0 /\ accepted = Unit /\ blocks' = 1
      BY <1>3, <2>2, WhatIsDelivered DEF Deliver
    <3>. QED
      BY <1>1, <2>1, <3>1 DEF Block!Next, Block!Deliver, Block!Unit, Unit
  <2>3. CASE Contents # "block"
    BY <1>1, <1>3, <2>1, <2>3 DEF Deliver, Block!vars
  <2>. QED
    BY <2>2, <2>3
<1>4. CASE ImportTimers \/ PickDeliverable \/ HandleCS \/ HandleCAR
           \/ \E ra \in Arriving("RAS") : HandleRA(ra.serial)
  <2>1. UNCHANGED <<accepted, blocks>>
    BY <1>4 DEF ImportTimers, DequeueRS, ResendReport, DequeueCR, ResendRecvCancel,
       PickDeliverable, HandleCS, HandleCAR, HandleRA, clientVars
  <2>. QED
    BY <1>1, <2>1 DEF Block!vars
<1>. QED
  BY <1>2, <1>3, <1>4 DEF ImportNext, ImportArrivals, Delivery

(* For every red part, every limit and every loss, duplication and          *)
(* reordering, the session keeps the promise of LtpBlock.                   *)
THEOREM Implementation == Spec => BlockSpec
<1>1. Init => Block!Init
  BY DEF Init, ExportInit, ImportInit, Block!Init
<1>2. Inv /\ [Next]_vars => [Block!Next]_Block!vars
  BY ExportImplements, ImportImplements
  DEF Next, vars, exportVars, importVars, clientVars, Block!vars
<1>. QED
  BY <1>1, <1>2, Invariance, PTL DEF Spec, BlockSpec, Block!Spec
=============================================================================
