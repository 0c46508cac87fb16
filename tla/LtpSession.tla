----------------------------- MODULE LtpSession -----------------------------
(***************************************************************************)
(* One LTP session between two engines: LtpExport and LtpImport over the   *)
(* segments between them.                                                  *)
(***************************************************************************)
EXTENDS LtpExport, LtpImport

vars == <<net, exportVars, importVars>>

\* The red segments before the checkpoint have been sent.
Init ==
    /\ net = {Data(u) : u \in Unit \ {RedLength}}
    /\ ExportInit
    /\ ImportInit

ExportNext == (ExportTimers \/ ExportArrivals) /\ UNCHANGED importVars
ImportNext == (ImportTimers \/ ImportArrivals \/ Delivery) /\ UNCHANGED exportVars
Next == ExportNext \/ ImportNext

Spec == Init /\ [][Next]_vars

\* Links come back, so what is queued is sent and timers expire; ltpdeliv runs
\* and is awarded space.  Nothing that is sent need ever arrive.
Fairness ==
    /\ WF_vars(ExportTimers /\ UNCHANGED importVars)
    /\ WF_vars(ImportTimers /\ UNCHANGED exportVars)
    /\ WF_vars(Delivery /\ UNCHANGED exportVars)

FairSpec == Spec /\ Fairness

-----------------------------------------------------------------------------

\* Shape of the state of both engines.
TypeOK == ExportTypeOK /\ ImportTypeOK

\* No report, and nothing the source concludes from the reports it got, ever
\* claims a unit that the destination has not received.
ClaimsAreTrue ==
    /\ \A rs \in Arriving("RS") : rs.claims \subseteq accepted
    /\ claims \subseteq accepted

\* An import session is closed quietly only when the client has the block and
\* the source has been told that the session is complete.
QuietClosing ==
    session.state = "closed" /\ "canceled" \notin notices =>
        outcome = "complete" /\ blocks = 1

\* The promise of the protocol for the red part, LtpBlock: completion is
\* notified only when all was received, and the block is given whole and once.
Block == INSTANCE LtpBlock
BlockSpec == Block!Spec

\* The session of the source ends, whatever is lost: the report or the
\* cancellation that it waits for is given up after maxTimeouts.
ExportEnds == <>(export = "gone")

\* A red part that has been received is delivered unless the session is canceled.
ReceivedIsDelivered ==
    accepted = Unit /\ session.state = "open" ~> notices \cap {"block", "canceled"} # {}

\* An LtpRecvRedPart notice carries the red part of the block.
NoticeHasBlock == "empty" \notin notices

\* ltpdeliv delivers from the session it picked.
DeliversOwnSession == "stale" \notin notices
=============================================================================
