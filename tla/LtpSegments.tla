---------------------------- MODULE LtpSegments ----------------------------
(***************************************************************************)
(* What the two engines of one LTP session share: the segments between     *)
(* them and the timer of a segment that is sent until it is answered       *)
(* (ltp/library/ltpP.h, libltpP.c).                                        *)
(*                                                                         *)
(* The red part is RedLength units, each one data segment long; offsets    *)
(* and bounds count units, so unit u is the data from u - 1 to u.          *)
(*                                                                         *)
(* net never shrinks.  A segment that nobody receives is lost, one that is *)
(* received again is a duplicate, and any order of arrival is possible.    *)
(***************************************************************************)
EXTENDS Integers

CONSTANTS
    RedLength,    \* units in the red part of the block
    MaxTimeouts   \* maxTimeouts of the span

ASSUME LtpAssumption ==
    /\ RedLength \in Nat \ {0}
    /\ MaxTimeouts \in Nat

VARIABLE net

Unit == 1..RedLength

\* The units between two bounds of a report.
Scope(lowerBound, upperBound) == (lowerBound + 1)..upperBound

Data(u) == [type |-> "DS", unit |-> u]
Checkpoint(u, ckpt, rpt) == [type |-> "CP", unit |-> u, ckpt |-> ckpt, rpt |-> rpt]
Report(serial, ckpt, lb, ub, claims) ==
    [type |-> "RS", serial |-> serial, ckpt |-> ckpt, lb |-> lb, ub |-> ub, claims |-> claims]
ReportAck(serial) == [type |-> "RAS", serial |-> serial]
Management == {[type |-> t] : t \in {"CS", "CAS", "CR", "CAR"}}
Cancel(t) == [type |-> t]

Arriving(type) == {segment \in net : segment.type = type}
Send(segments) == net' = net \cup segments

-----------------------------------------------------------------------------
(* The timer of a checkpoint, a report or a cancellation.  It starts when   *)
(* the link service output dequeues the segment, and an answer stops it     *)
(* only then: the answer to a segment that is queued again is undone when   *)
(* the segment is dequeued.                                                 *)

Queued == [status |-> "queued", expirations |-> 0]
SetTimer(timer) == [timer EXCEPT !.status = "timed"]
Deactivate(timer) == IF timer.status = "timed" THEN [timer EXCEPT !.status = "acked"] ELSE timer
Requeue(timer) == [status |-> "queued", expirations |-> timer.expirations + 1]

NeverExhausted(timer) == FALSE   \* mutant: retransmits without a limit
Exhausted(timer) == timer.expirations = MaxTimeouts

Timer == [status : {"queued", "timed", "acked"}, expirations : 0..MaxTimeouts]
=============================================================================
