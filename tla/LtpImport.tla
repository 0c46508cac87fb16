----------------------------- MODULE LtpImport -----------------------------
(***************************************************************************)
(* The destination of a block: one import session and ltpdeliv, the task   *)
(* that hands its red part to the client.  handleDataSegment, sendReport,  *)
(* handleRA, handleCS, handleCAR, ltpResendReport, ltpResendRecvCancel of  *)
(* ltp/library/libltpP.c and the loop of ltp/daemon/ltpdeliv.c.            *)
(*                                                                         *)
(* ltpdeliv looks at a deliverable in one transaction and delivers it in   *)
(* another; between them it waits for space and anything may happen to the *)
(* session, whose address it keeps.                                        *)
(***************************************************************************)
EXTENDS LtpSegments, FiniteSetsExt

CONSTANTS
    MaxReports,   \* what getMaxReports says of the red part
    MaxClaims,    \* MAX_CLAIMS_PER_RS
    MaxBacklog    \* deliverables at which red segments are discarded

ASSUME LtpImportAssumption ==
    /\ MaxReports \in Nat
    /\ MaxClaims \in Nat \ {0}
    /\ MaxBacklog \in Nat \ {0}

VARIABLES
    session,      \* the import session: see Session
    deliverables, \* entries for the session in the list of deliverables
    ltpdeliv,     \* "idle", or "holding" the address of the session
    notices,      \* kinds of notice posted to the client
    accepted,     \* history: units ever received
    blocks        \* history: how often the client was given the whole block

clientVars == <<deliverables, ltpdeliv, notices, blocks>>
importVars == <<session, clientVars, accepted>>

\* "dead" sessions are in deadImports, "closed" ones in closedImports.
Session ==
    [state : {"none", "open", "dead", "closed"},
     redSegments : SUBSET Unit, cleared : BOOLEAN,
     redPartLength : {0, RedLength},
     reportsCount : Nat, nextRptSerialNbr : Nat, finalRptSerialNbr : Nat,
     finalRptAcked : BOOLEAN, delivered : BOOLEAN,
     cr : Timer]

Notice == {"block", "empty", "stale", "canceled"}

\* The reports of the session, by serial number.
ReportsOK(rs, last) ==
    \A serial \in DOMAIN rs :
        /\ serial \in 1..last
        /\ rs[serial].segment \in [type : {"RS"}, serial : {serial}, ckpt : Nat,
                lb : 0..RedLength, ub : Unit, claims : SUBSET Unit]
        /\ rs[serial].timer \in Timer

ImportTypeOK ==
    /\ [f \in DOMAIN session \ {"rsSegments"} |-> session[f]] \in Session
    /\ ReportsOK(session.rsSegments, session.nextRptSerialNbr)
    /\ deliverables \in 0..MaxBacklog
    /\ ltpdeliv \in {"idle", "holding"}
    /\ notices \subseteq Notice /\ accepted \subseteq Unit /\ blocks \in Nat

ImportInit ==
    /\ session = [state |-> "none", redSegments |-> {}, cleared |-> FALSE,
         redPartLength |-> 0, reportsCount |-> 0, nextRptSerialNbr |-> 0,
         finalRptSerialNbr |-> 0, finalRptAcked |-> FALSE, delivered |-> FALSE,
         rsSegments |-> << >>, cr |-> Queued]
    /\ deliverables = 0 /\ ltpdeliv = "idle"
    /\ notices = {} /\ accepted = {} /\ blocks = 0

-----------------------------------------------------------------------------
(* The ends of a session.                                                   *)

Clear(s) == [s EXCEPT !.redSegments = {}, !.cleared = TRUE]
Stop(s)  == [s EXCEPT !.rsSegments = << >>]
CloseImport(s) == [Stop(s) EXCEPT !.state = "closed"]

CancelByReceiver(s) == [Stop(Clear(s)) EXCEPT !.state = "dead", !.cr = Queued]

\* The notice that goes with it.
Canceling == IF session'.state = "dead" THEN {"canceled"} ELSE {}

-----------------------------------------------------------------------------
(* Reports.                                                                 *)

Complete(s) == s.redPartLength > 0 /\ Cardinality(s.redSegments) = s.redPartLength

AddReports(s, reports) ==
    LET serials == {rs.serial : rs \in reports}
        Filed(n) == [segment |-> CHOOSE rs \in reports : rs.serial = n, timer |-> Queued]
    IN  [s EXCEPT
            !.rsSegments = [n \in DOMAIN @ \cup serials |-> IF n \in DOMAIN @ THEN @[n] ELSE Filed(n)],
            !.nextRptSerialNbr = Max({@} \cup serials),
            !.reportsCount = @ + 1]

FinalReport(s, ckpt) ==
    [AddReports(s, {Report(s.nextRptSerialNbr, ckpt, 0, s.redPartLength, Unit)})
        EXCEPT !.finalRptSerialNbr = s.nextRptSerialNbr]

\* mutant: claims all that the report covers
WholeScope(s, lb, ub) == Scope(lb, ub)
Heard(s, lb, ub) == s.redSegments \cap Scope(lb, ub)

\* One claim for each run of units heard, in reports of MaxClaims claims; each
\* report ends where the first claim of the next one begins.
PartialReports(s, ckpt, lb, ub) ==
    LET heard    == Heard(s, lb, ub)
        starts   == {u \in heard : u = lb + 1 \/ u - 1 \notin heard}
        claim(u) == Cardinality({v \in starts : v <= u})
        part(u)  == (claim(u) - 1) \div MaxClaims
        parts    == {part(u) : u \in heard}
        first(k) == Min({u \in heard : part(u) = k}) - 1
    IN  {Report(s.nextRptSerialNbr + k, ckpt,
                IF k = 0 THEN lb ELSE first(k),
                IF k + 1 \in parts THEN first(k + 1) ELSE ub,
                {u \in heard : part(u) = k}) : k \in parts}

\* The bound of a report that cites an earlier one.
LowerBound(s, rpt) ==
    IF rpt \in DOMAIN s.rsSegments THEN s.rsSegments[rpt].segment.lb ELSE 0

\* maxReports is computed when the end of the red part arrives.
MayReport(s) == s.redPartLength > 0 /\ s.reportsCount < MaxReports

SendReport(s, ckpt, rpt, ub) ==
    LET next == [s EXCEPT !.nextRptSerialNbr = @ + 1]
    IN  IF s.finalRptSerialNbr # 0 THEN s
        ELSE IF Complete(s) THEN FinalReport(next, ckpt)
        ELSE IF ~MayReport(s) THEN CancelByReceiver(next)
        ELSE AddReports(next, PartialReports(next, ckpt, LowerBound(s, rpt), ub))

DequeueRS(n) ==
    /\ session.rsSegments[n].timer.status = "queued"
    /\ Send({session.rsSegments[n].segment})
    /\ session' = [session EXCEPT !.rsSegments[n].timer = SetTimer(@)]
    /\ UNCHANGED <<clientVars, accepted>>

ResendReport(n) ==
    LET timer == session.rsSegments[n].timer
    IN  /\ timer.status = "timed"
        /\ session' = IF Exhausted(timer)
                      THEN CancelByReceiver(session)
                      ELSE [session EXCEPT !.rsSegments[n].timer = Requeue(timer)]
        /\ notices' = notices \cup Canceling
        /\ UNCHANGED <<net, deliverables, ltpdeliv, accepted, blocks>>

-----------------------------------------------------------------------------
(* Data.                                                                    *)

\* A segment starts the session if it is neither live, nor canceled, nor
\* remembered as closed; it is discarded when reception is over or the
\* deliverables are too many.
Accepts ==
    /\ session.state \in {"none", "open"}
    /\ ~session.cleared
    /\ deliverables < MaxBacklog

Insert(s, seg) ==
    [s EXCEPT !.redSegments = @ \cup {seg.unit},
              !.redPartLength = IF seg.type = "CP" /\ seg.unit = RedLength THEN RedLength ELSE @]

ActsWhenAsked(seg, s) == seg.type = "CP"   \* mutant: on checkpoints only

\* A checkpoint is answered even if its data are not new, and the arrival of
\* the last missing unit is reported unasked.
Acts(seg, s) == seg.type = "CP" \/ Complete(s)

HandleDataSegment(seg, ckpt, rpt, heapLeft) ==
    LET live  == [session EXCEPT !.state = "open"]
        fresh == heapLeft /\ seg.unit \notin session.redSegments
        after == IF fresh THEN Insert(live, seg) ELSE live
        upperBound == IF fresh THEN seg.unit ELSE after.redPartLength
        acts  == Acts(seg, after) /\ upperBound # 0
    IN  /\ Accepts
        /\ session' = IF acts THEN SendReport(after, ckpt, rpt, upperBound) ELSE after
        /\ accepted' = IF fresh THEN accepted \cup {seg.unit} ELSE accepted
        /\ deliverables' = IF acts /\ Complete(after) THEN deliverables + 1 ELSE deliverables
        /\ notices' = notices \cup Canceling
        /\ UNCHANGED <<net, ltpdeliv, blocks>>

-----------------------------------------------------------------------------
(* The answers of the source, and cancellation.                             *)

AnyReport(serial) == TRUE   \* mutant: whatever report is acknowledged
IsFinal(serial) == serial = session.finalRptSerialNbr

HandleRA(serial) ==
    /\ session.state = "open"
    /\ serial \in DOMAIN session.rsSegments
    /\ LET acked == [session EXCEPT !.rsSegments[serial].timer = Deactivate(@)]
       IN  session' = IF ~IsFinal(serial) THEN acked
                      ELSE IF session.delivered THEN CloseImport(session)
                      ELSE [acked EXCEPT !.finalRptAcked = TRUE]
    /\ UNCHANGED <<net, clientVars, accepted>>

HandleCS ==
    /\ Arriving("CS") # {}
    /\ Send({Cancel("CAS")})
    /\ IF session.state = "open"
       THEN session' = CloseImport(Clear(session)) /\ notices' = notices \cup {"canceled"}
       ELSE UNCHANGED <<session, notices>>
    /\ UNCHANGED <<deliverables, ltpdeliv, accepted, blocks>>

DequeueCR ==
    /\ session.state = "dead" /\ session.cr.status = "queued"
    /\ Send({Cancel("CR")})
    /\ session' = [session EXCEPT !.cr = SetTimer(@)]
    /\ UNCHANGED <<clientVars, accepted>>

ResendRecvCancel ==
    /\ session.state = "dead" /\ session.cr.status = "timed"
    /\ session' = IF Exhausted(session.cr) THEN CloseImport(session)
                  ELSE [session EXCEPT !.cr = Requeue(@)]
    /\ UNCHANGED <<net, clientVars, accepted>>

HandleCAR ==
    /\ session.state = "dead"
    /\ Arriving("CAR") # {}
    /\ session' = CloseImport(session)
    /\ UNCHANGED <<net, clientVars, accepted>>

-----------------------------------------------------------------------------
(* ltpdeliv.                                                                *)

\* The first transaction discards a deliverable whose session is gone, and
\* remembers the session of another.
PickDeliverable ==
    /\ ltpdeliv = "idle" /\ deliverables > 0
    /\ IF session.state = "open"
       THEN ltpdeliv' = "holding" /\ UNCHANGED deliverables
       ELSE deliverables' = deliverables - 1 /\ UNCHANGED ltpdeliv
    /\ UNCHANGED <<net, session, notices, accepted, blocks>>

\* The second one, once space is awarded.  The session it remembers may be
\* canceled or freed: then what it reads there is posted.
Finish == /\ ltpdeliv = "holding"
          /\ ltpdeliv' = "idle" /\ deliverables' = deliverables - 1
          /\ UNCHANGED <<net, accepted>>

Contents ==
    IF session.state # "open" THEN "stale"
    ELSE IF session.redSegments = Unit THEN "block" ELSE "empty"

Deliver ==
    /\ Finish
    /\ notices' = notices \cup {Contents}
    /\ blocks' = IF Contents = "block" THEN blocks + 1 ELSE blocks
    /\ session' = IF session.state # "open" THEN session
                  ELSE IF session.finalRptAcked THEN CloseImport(Clear(session))
                  ELSE [Clear(session) EXCEPT !.delivered = TRUE]

ImportTimers ==
    \/ \E n \in DOMAIN session.rsSegments : DequeueRS(n) \/ ResendReport(n)
    \/ DequeueCR
    \/ ResendRecvCancel

Delivery == PickDeliverable \/ Deliver

ImportArrivals ==
    \/ \E heapLeft \in BOOLEAN :
         \/ \E seg \in Arriving("DS") : HandleDataSegment(seg, 0, 0, heapLeft)
         \/ \E seg \in Arriving("CP") : HandleDataSegment(seg, seg.ckpt, seg.rpt, heapLeft)
    \/ \E ra \in Arriving("RAS") : HandleRA(ra.serial)
    \/ HandleCS
    \/ HandleCAR
=============================================================================
