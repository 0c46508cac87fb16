----------------------------- MODULE LtpExport -----------------------------
(***************************************************************************)
(* The source of a block: one export session with a red part only.         *)
(* handleRS, handleCAS, handleCR, ltpResendCheckpoint, ltpResendXmitCancel *)
(* and the dequeueing of segments, of ltp/library/libltpP.c.               *)
(*                                                                         *)
(* A data segment that is no checkpoint is sent once and forgotten, so it  *)
(* is in net from the moment it is issued; checkpoints and cancellations   *)
(* wait in the queue of the span.                                          *)
(***************************************************************************)
EXTENDS LtpSegments, Sequences, FiniteSetsExt

CONSTANT MaxCheckpoints   \* maxCheckpoints of the session

ASSUME LtpExportAssumption == MaxCheckpoints \in Nat \ {0}

VARIABLES
    export,       \* "open", "dead" in deadExports, "gone"
    outcome,      \* "none", "complete" or "canceled": the notice to the client
    claims,       \* units the reports have claimed
    rsSerialNbrs, \* reports applied already
    checkpoints,  \* by serial number: unit, cited report and timer
    cs            \* timer of the cancellation

exportVars == <<export, outcome, claims, rsSerialNbrs, checkpoints, cs>>

ExportTypeOK ==
    /\ export \in {"open", "dead", "gone"}
    /\ outcome \in {"none", "complete", "canceled"}
    /\ claims \subseteq Unit
    /\ rsSerialNbrs \subseteq Nat
    /\ checkpoints \in Seq([unit : Unit, rpt : Nat, timer : Timer])
    /\ Len(checkpoints) <= MaxCheckpoints
    /\ cs \in Timer

\* mutant: the last segment of the repair is no checkpoint
NoCheckpoint(cps, u, rpt) == cps

NewCheckpoint(cps, u, rpt) == Append(cps, [unit |-> u, rpt |-> rpt, timer |-> Queued])

\* The block has been segmented: its last red segment is the checkpoint.
ExportInit ==
    /\ export = "open" /\ outcome = "none"
    /\ claims = {} /\ rsSerialNbrs = {}
    /\ checkpoints = <<[unit |-> RedLength, rpt |-> 0, timer |-> Queued]>>
    /\ cs = Queued

DequeueCheckpoint(c) ==
    /\ checkpoints[c].timer.status = "queued"
    /\ Send({Checkpoint(checkpoints[c].unit, c, checkpoints[c].rpt)})
    /\ checkpoints' = [checkpoints EXCEPT ![c].timer = SetTimer(@)]
    /\ UNCHANGED <<export, outcome, claims, rsSerialNbrs, cs>>

-----------------------------------------------------------------------------
(* How a session ends.                                                      *)

Erase == claims' = {} /\ rsSerialNbrs' = {} /\ checkpoints' = <<>>

CloseExport ==
    /\ export' = "gone" /\ outcome' = "complete"
    /\ Erase /\ UNCHANGED cs

CancelBySender ==
    /\ export' = "dead" /\ outcome' = "canceled"
    /\ Erase /\ cs' = Queued

-----------------------------------------------------------------------------
(* Reports.                                                                 *)

LastClaimed(claimed) == RedLength \in claimed   \* mutant: looks at the end only
AllClaimed(claimed) == claimed = Unit

\* The checkpoint that a report answers need not be sent again.
Answered(ckpt) ==
    IF ckpt = 0 THEN checkpoints
    ELSE [checkpoints EXCEPT ![ckpt].timer = Deactivate(@)]

\* Send again what the scope of the report lacks, the last segment of it as
\* a checkpoint that cites the report.
Repair(rs, gaps) ==
    LET last == Max(gaps)
    IN  IF gaps = {}
        THEN /\ checkpoints' = Answered(rs.ckpt)
             /\ Send({ReportAck(rs.serial)})
        ELSE /\ checkpoints' = NewCheckpoint(Answered(rs.ckpt), last, rs.serial)
             /\ Send({ReportAck(rs.serial)} \cup {Data(u) : u \in gaps \ {last}})

ApplyReport(rs) ==
    LET claimed == claims \cup rs.claims
    IN  IF AllClaimed(claimed)
        THEN CloseExport /\ Send({ReportAck(rs.serial)})
        ELSE IF Len(checkpoints) >= MaxCheckpoints
        THEN CancelBySender /\ Send({ReportAck(rs.serial)})
        ELSE /\ Repair(rs, Scope(rs.lb, rs.ub) \ claimed)
             /\ claims' = claimed
             /\ rsSerialNbrs' = rsSerialNbrs \cup {rs.serial}
             /\ UNCHANGED <<export, outcome, cs>>

\* A report of a session that is closed or canceled is ignored, one that has
\* been applied is acknowledged again.
HandleRS(rs) ==
    /\ export = "open"
    /\ IF rs.serial \in rsSerialNbrs
       THEN Send({ReportAck(rs.serial)}) /\ UNCHANGED exportVars
       ELSE ApplyReport(rs)

-----------------------------------------------------------------------------
(* Timeouts and cancellation.                                               *)

ResendCheckpoint(c) ==
    /\ checkpoints[c].timer.status = "timed"
    /\ IF Exhausted(checkpoints[c].timer)
       THEN CancelBySender
       ELSE /\ checkpoints' = [checkpoints EXCEPT ![c].timer = Requeue(@)]
            /\ UNCHANGED <<export, outcome, claims, rsSerialNbrs, cs>>
    /\ UNCHANGED net

DequeueCS ==
    /\ export = "dead" /\ cs.status = "queued"
    /\ Send({Cancel("CS")})
    /\ cs' = SetTimer(cs)
    /\ UNCHANGED <<export, outcome, claims, rsSerialNbrs, checkpoints>>

ResendXmitCancel ==
    /\ export = "dead" /\ cs.status = "timed"
    /\ IF Exhausted(cs)
       THEN export' = "gone" /\ UNCHANGED cs
       ELSE cs' = Requeue(cs) /\ UNCHANGED export
    /\ UNCHANGED <<net, outcome, claims, rsSerialNbrs, checkpoints>>

HandleCAS ==
    /\ export = "dead"
    /\ Arriving("CAS") # {}
    /\ export' = "gone"
    /\ UNCHANGED <<net, outcome, claims, rsSerialNbrs, checkpoints, cs>>

\* Unless the session is open the cancellation is not even acknowledged.
HandleCR ==
    /\ export = "open"
    /\ Arriving("CR") # {}
    /\ Send({Cancel("CAR")})
    /\ export' = "gone" /\ outcome' = "canceled"
    /\ Erase /\ UNCHANGED cs

ExportTimers ==
    \/ \E c \in DOMAIN checkpoints : DequeueCheckpoint(c) \/ ResendCheckpoint(c)
    \/ DequeueCS
    \/ ResendXmitCancel

ExportArrivals ==
    \/ \E rs \in Arriving("RS") : HandleRS(rs)
    \/ HandleCAS
    \/ HandleCR
=============================================================================
