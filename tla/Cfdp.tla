-------------------------------- MODULE Cfdp --------------------------------
(***************************************************************************)
(* File delivery between two CFDP entities, in unacknowledged mode: the    *)
(* outbound FDUs of the source (libcfdp.c, libcfdpP.c), the inbound FDUs   *)
(* of the destination (libcfdpP.c), the clock of each (cfdpclock.c), and   *)
(* the adapters that pass PDUs to BP (bputa.c).  Every action is one       *)
(* transaction of the SDR.                                                 *)
(*                                                                         *)
(* BP may lose PDUs, deliver them in any order, and deliver them again.    *)
(* A deadline may pass at any time.                                        *)
(***************************************************************************)
EXTENDS CfdpExtents, Sequences, SequencesExt

CONSTANTS
    Txn,         \* transactions that users of the source may ask for
    Foreign,     \* transactions of another implementation of CFDP,
    ForeignSegs, \* and the segments it sends of each file
    Size,        \* of each file, in units
    SegSize,     \* maxFileDataLength
    Closure,     \* transactions with a closure latency
    Handler,     \* what each transaction's metadata say of each fault
    Default,     \* what the destination does of each fault unless told
    Type,        \* the type of checksum that each transaction asks for
    Discard,     \* discardIncompleteFile
    CheckLimit,  \* checkTimeoutLimit
    MaxCancels, MaxSuspends, MaxDups, MaxOpenFails \* bounds

AnyTxn == Txn \cup Foreign
Fault == {"reject", "checksum", "limit", "inactive"}

ASSUME CfdpAssumption ==
    /\ IsFiniteSet(AnyTxn) /\ Txn \cap Foreign = {} /\ Closure \subseteq Txn
    /\ Size \in [AnyTxn -> Nat] /\ SegSize \in Nat \ {0}
    /\ \A t \in Foreign : \A s \in ToSet(ForeignSegs[t]) :
          s \in Extent(Size[t]) /\ s.offset < s.end
    /\ Handler \in [AnyTxn -> [Fault -> {"none", "cancel", "ignore"}]]
    /\ Default \in [Fault -> {"cancel", "ignore"}]
    /\ Type \in [AnyTxn -> {"null", "modular", "crc"}]
    /\ Discard \in BOOLEAN
    /\ {CheckLimit, MaxCancels, MaxSuspends, MaxDups, MaxOpenFails} \subseteq Nat

VARIABLES
    out,        \* the outbound FDU of each transaction, at the source
    outbound,   \* the list of outbound FDUs
    bp,         \* bundles that wait for transmission at the source
    net,        \* PDUs on their way to the destination
    sink,       \* the inbound FDU of each transaction and its files
    finishPdus, \* Finished PDUs that wait at the destination
    back,       \* Finished PDUs on their way to the source
    told,       \* Transaction-Finished indications at the source
    delivered,  \* transactions whose file the destination has delivered
    spent       \* of the bounds

vars == <<out, outbound, bp, net, sink, finishPdus, back, told, delivered, spent>>

-----------------------------------------------------------------------------
(* Outbound FDUs.                                                            *)

NoFdu == [state |-> "none"]

\* createFDU cuts the file into segments.  The last may be shorter.
Segments(t) ==
    [k \in 1 .. (Size[t] + SegSize - 1) \div SegSize |->
        [offset |-> (k - 1) * SegSize, end |-> Min({k * SegSize, Size[t]})]]

NewOutFdu(t) ==
    [state |-> "active", metadata |-> TRUE, segments |-> Segments(t), eof |-> TRUE,
     xmit |-> 0, transmitted |-> FALSE, finished |-> FALSE, pending |-> FALSE]

Out(t) == out[t].state # "none"

\* zco_file_ref_xmit_eof: the highest place read by a link service.
Issued(t) == out[t].segments = <<>> \/ out[t].state = "canceled"
Sent(t) == out[t].segments = Segments(t) \/ out[t].xmit = Size[t]

Metadata(t) == [txn |-> t, kind |-> "metadata"]
FileData(t, s) == [txn |-> t, kind |-> "data", seg |-> s]
Eof(t) == [txn |-> t, kind |-> "eof"]

Put(t) ==
    /\ out[t].state = "none" /\ t \notin spent.put
    /\ out' = [out EXCEPT ![t] = NewOutFdu(t)]
    /\ outbound' = Append(outbound, t)
    /\ spent' = [spent EXCEPT !.put = @ \cup {t}]
    /\ UNCHANGED <<bp, net, sink, finishPdus, back, told, delivered>>

\* selectFduPdu, and the bundle that bputa sends next; if bputa dies between
\* the two, that is a bundle that is not transmitted.
NextPdu(t) ==
    IF out[t].metadata THEN Metadata(t)
    ELSE IF out[t].segments # <<>> THEN FileData(t, Head(out[t].segments)) ELSE Eof(t)

AfterPdu(fdu) ==
    IF fdu.metadata THEN [fdu EXCEPT !.metadata = FALSE]
    ELSE IF fdu.segments # <<>> THEN [fdu EXCEPT !.segments = Tail(@)]
    ELSE [fdu EXCEPT !.eof = FALSE]

\* selectOutFdu: the first of the list that is active and has not sent all.
Ready(t) == out[t].state = "active" /\ out[t].eof

SendPdu ==
    /\ \E i \in DOMAIN outbound :
          LET t == outbound[i]
          IN  /\ Ready(t) /\ \A j \in 1 .. i - 1 : ~Ready(outbound[j])
              /\ bp' = Append(bp, NextPdu(t))
              /\ out' = [out EXCEPT ![t] = AfterPdu(@)]
    /\ UNCHANGED <<outbound, net, sink, finishPdus, back, told, delivered, spent>>

\* A link service reads the bundle; reading segments moves xmitProgress.
Transmit ==
    /\ bp # <<>>
    /\ LET p == Head(bp)
       IN  /\ net' = net \cup {p}
           /\ out' = IF p.kind = "data" /\ Out(p.txn)
                     THEN [out EXCEPT ![p.txn].xmit = Max({@, p.seg.end})] ELSE out
    /\ bp' = Tail(bp)
    /\ UNCHANGED <<outbound, sink, finishPdus, back, told, delivered, spent>>

\* The bundle's time to live is over.
Expire ==
    /\ bp # <<>>
    /\ bp' = Tail(bp)
    /\ UNCHANGED <<out, outbound, net, sink, finishPdus, back, told, delivered, spent>>

Tell(t) == told' = [told EXCEPT ![t] = @ + 1]

\* cfdp_cancel, cfdp_suspend and cfdp_resume.
Cancel(t) ==
    /\ out[t].state \in {"active", "suspended"} /\ spent.cancels < MaxCancels
    /\ out' = [out EXCEPT ![t].state = "canceled"]
    /\ Tell(t)
    /\ spent' = [spent EXCEPT !.cancels = @ + 1]
    /\ UNCHANGED <<outbound, bp, net, sink, finishPdus, back, delivered>>

Suspend(t) ==
    /\ out[t].state = "active" /\ spent.suspends < MaxSuspends
    /\ out' = [out EXCEPT ![t].state = "suspended"]
    /\ spent' = [spent EXCEPT !.suspends = @ + 1]
    /\ UNCHANGED <<outbound, bp, net, sink, finishPdus, back, told, delivered>>

Resume(t) ==
    /\ out[t].state = "suspended"
    /\ out' = [out EXCEPT ![t].state = "active"]
    /\ UNCHANGED <<outbound, bp, net, sink, finishPdus, back, told, delivered, spent>>

\* A Finished PDU is spurious before the EOF has been sent, and redundant
\* after the first.
Closes(t) == Out(t) /\ t \in Closure /\ ~out[t].eof /\ ~out[t].finished

\* Mutant: the FDU stays in the list of pending closures.
HandleFinishPduOnce(p, again) ==
    /\ p \in back
    /\ back' = IF again THEN back ELSE back \ {p}
    /\ again => spent.dups < MaxDups
    /\ spent' = IF again THEN [spent EXCEPT !.dups = @ + 1] ELSE spent
    /\ IF Closes(p.txn)
       THEN out' = [out EXCEPT ![p.txn].finished = TRUE] /\ Tell(p.txn)
       ELSE UNCHANGED <<out, told>>
    /\ UNCHANGED <<outbound, bp, net, sink, finishPdus, delivered>>

HandleFinishPdu(p, again) ==
    /\ p \in back
    /\ again => spent.dups < MaxDups
    /\ back' = IF again THEN back ELSE back \ {p}
    /\ spent' = IF again THEN [spent EXCEPT !.dups = @ + 1] ELSE spent
    /\ IF Closes(p.txn)
       THEN /\ out' = [out EXCEPT ![p.txn].finished = TRUE, ![p.txn].pending = FALSE]
            /\ Tell(p.txn)
       ELSE UNCHANGED <<out, told>>
    /\ UNCHANGED <<outbound, bp, net, sink, finishPdus, delivered>>

\* scanFinsPending, for FDUs whose deadline has passed.
ScanFinsPending(due) ==
    /\ due # {} /\ \A t \in due : Out(t) /\ out[t].pending
    /\ out' = [t \in Txn |-> IF t \in due
                             THEN [out[t] EXCEPT !.finished = TRUE, !.pending = FALSE]
                             ELSE out[t]]
    /\ told' = [t \in Txn |-> IF t \in due THEN told[t] + 1 ELSE told[t]]
    /\ UNCHANGED <<outbound, bp, net, sink, finishPdus, back, delivered, spent>>

\* scanOutFdus: the indications at the end of the transmission, and the
\* destruction of what is done.
Completed(t) == Out(t) /\ Issued(t) /\ Sent(t)

\* Mutant: no timer is started for the Finished PDU.
NotedOnly(t) ==
    IF Completed(t) /\ ~out[t].eof /\ ~out[t].transmitted /\ out[t].state # "canceled"
    THEN [out[t] EXCEPT !.transmitted = TRUE] ELSE out[t]

Noted(t) ==
    IF Completed(t) /\ ~out[t].eof /\ ~out[t].transmitted /\ out[t].state # "canceled"
    THEN [out[t] EXCEPT !.transmitted = TRUE, !.pending = t \in Closure]
    ELSE out[t]

Done(t) == Completed(t) /\ Noted(t).transmitted /\ (t \in Closure => out[t].finished)

\* What is left of a list.
Kept(list, S) ==
    LET kept == {i \in DOMAIN list : list[i] \in S}
    IN  [n \in 1 .. Cardinality(kept) |-> list[Nth(kept, n)]]

\* Mutant: the FDU is freed and stays in the list.
ScanOutFdusListed ==
    /\ out' = [t \in Txn |-> IF Done(t) THEN NoFdu ELSE Noted(t)]
    /\ told' = [t \in Txn |-> IF Noted(t) # out[t] /\ t \notin Closure
                              THEN told[t] + 1 ELSE told[t]]
    /\ UNCHANGED <<outbound, bp, net, sink, finishPdus, back, delivered, spent>>

ScanOutFdus ==
    /\ out' = [t \in Txn |-> IF Done(t) THEN NoFdu ELSE Noted(t)]
    /\ told' = [t \in Txn |-> IF Noted(t) # out[t] /\ t \notin Closure
                              THEN told[t] + 1 ELSE told[t]]
    /\ outbound' = Kept(outbound, {t \in Txn : ~Done(t)})
    /\ UNCHANGED <<bp, net, sink, finishPdus, back, delivered, spent>>

-----------------------------------------------------------------------------
(* Inbound FDUs.  A file is a function from places to units; there is no     *)
(* file while it is empty.                                                   *)

Empty == [p \in {} |-> 0]

\* createInFdu
NewInFdu ==
    [state |-> "active", metadata |-> FALSE, eof |-> FALSE, extents |-> {},
     bytesReceived |-> 0, ckType |-> "null", inOrder |-> TRUE, workingFile |-> "none",
     watched |-> TRUE, checkTimeouts |-> 0]

\* findInFdu, which makes an FDU for whatever arrives.
Found(s) == IF s.fdu = NoFdu THEN [s EXCEPT !.fdu = NewInFdu] ELSE s

\* handleFault asks the FDU, then the configuration.
HandlerOf(s, t, fault) ==
    IF s.fdu.metadata /\ Handler[t][fault] # "none" THEN Handler[t][fault] ELSE Default[fault]

Rename(s) == IF s.fdu.workingFile = "temp" /\ s.temp # Empty
             THEN [s EXCEPT !.dest = s.temp, !.temp = Empty] ELSE s
Unlink(s) == IF s.fdu.workingFile = "dest" THEN [s EXCEPT !.dest = Empty]
             ELSE [s EXCEPT !.temp = Empty]

\* completeInFdu: what becomes of the file; an FDU without metadata knows of none.
Settled(s, t, condition) ==
    LET known    == s.fdu.metadata /\ Size[t] > 0
        disposed == condition \notin {"complete", "reject"} /\ known
    IN  IF condition = "complete" \/ (disposed /\ ~Discard) THEN Rename(s)
        ELSE IF disposed THEN Unlink(s) ELSE s

\* The FDU ends, with a Finished PDU if the metadata ask for one.
Complete(s, t, condition) ==
    [Settled(s, t, condition) EXCEPT
        !.fdu = NoFdu,
        !.ended = condition,
        !.reply = s.fdu.metadata /\ t \in Closure]

Faulty(s, t, fault) == IF HandlerOf(s, t, fault) = "cancel" THEN Complete(s, t, fault) ELSE s

\* The checksum is computed over units as they come.
ChecksumFits(s, t) ==
    \/ s.fdu.ckType = "null"
    \/ s.fdu.bytesReceived = Size[t] /\ (s.fdu.ckType = "crc" => s.fdu.inOrder)

\* checkInFduComplete
Checked(s, t) ==
    IF ~s.fdu.metadata \/ ~s.fdu.eof \/ s.fdu.bytesReceived < Size[t] THEN s
    ELSE IF ChecksumFits(s, t) \/ HandlerOf(s, t, "checksum") = "ignore"
         THEN Complete(s, t, "complete")
    ELSE Complete(s, t, "checksum")

\* Mutant: nobody looks whether the file exists.
WithMetadataBlind(s, t) ==
    LET fdu == [s.fdu EXCEPT
                   !.metadata = TRUE, !.watched = TRUE,
                   !.workingFile = IF @ = "none" /\ Size[t] > 0 THEN "dest" ELSE @]
    IN  IF s.fdu.metadata THEN s ELSE Checked([s EXCEPT !.fdu = fdu], t)

\* handleMetadataPdu.  The type of checksum is not changed after the first data.
WithMetadata(s, t) ==
    LET fdu == [s.fdu EXCEPT
                   !.metadata = TRUE, !.watched = TRUE,
                   !.ckType = IF s.fdu.bytesReceived = 0 THEN Type[t] ELSE @,
                   !.workingFile = IF @ = "none" /\ Size[t] > 0 THEN "dest" ELSE @]
        noted == [s EXCEPT !.fdu = fdu]
    IN  IF s.fdu.metadata THEN s
        ELSE IF s.dest # Empty /\ HandlerOf(noted, t, "reject") = "cancel"
             THEN Complete(noted, t, "reject")
        ELSE Checked(noted, t)

\* handleEofPdu.  The source is right about the size of the file.
WithEof(s, t) ==
    IF s.fdu.eof THEN s
    ELSE Checked([s EXCEPT !.fdu.eof = TRUE, !.fdu.watched = TRUE], t)

\* writeSegmentData
Overwritten(file, data) ==
    [p \in DOMAIN file \cup DOMAIN data |-> IF p \in DOMAIN data THEN data[p] ELSE file[p]]

WithData(s, t, seg) ==
    LET new  == NewUnits(s.fdu.extents, seg)
        n    == s.fdu.bytesReceived
        file == IF s.fdu.workingFile = "dest" THEN "dest" ELSE "temp"
        fdu  == [s.fdu EXCEPT
                    !.watched = TRUE,
                    !.extents = Merged(@, seg),
                    !.bytesReceived = @ + Cardinality(new),
                    !.inOrder = @ /\ new = n .. n + Cardinality(new) - 1,
                    !.workingFile = file]
    IN  [s EXCEPT !.fdu = fdu, ![file] = Overwritten(@, WrittenAt(s.fdu.extents, seg))]

\* handleFileDataPdu.  When the file cannot be opened, or there is no memory to
\* fill it up to the segment, the extents have been changed already and the
\* rest of the FDU has not.
HandleData(s, t, seg, opens) ==
    IF Known(s.fdu.extents, seg) THEN s
    ELSE IF opens THEN Checked(WithData(s, t, seg), t)
    ELSE Faulty([s EXCEPT !.fdu.extents = Merged(@, seg)], t, "reject")

Handled(p, opens) ==
    LET s == Found(sink[p.txn])
    IN  CASE p.kind = "metadata" -> WithMetadata(s, p.txn)
          [] p.kind = "eof" -> WithEof(s, p.txn)
          [] p.kind = "data" -> HandleData(s, p.txn, p.seg, opens)

\* The transactions in the domain of new come to that.
SinkBecomes(new) ==
    LET T == DOMAIN new
        ends == {t \in T : new[t].ended # "none"}
        reply(t) == [txn |-> t,
                     code |-> IF new[t].ended = "complete" THEN "complete" ELSE "incomplete"]
    IN  /\ sink' = [t \in AnyTxn |-> IF t \in T
                       THEN [new[t] EXCEPT !.ended = "none", !.reply = FALSE] ELSE sink[t]]
        /\ finishPdus' = finishPdus \o
              SetToSeq({reply(t) : t \in {u \in ends : new[u].reply}})
        /\ delivered' = delivered \cup {t \in ends : new[t].ended = "complete"}

\* cfdpHandleInboundPdu, toward the destination.
HandlePdu(p, again, opens) ==
    /\ p \in net
    /\ again => spent.dups < MaxDups
    /\ ~opens => p.kind = "data" /\ spent.opens < MaxOpenFails
    /\ net' = IF again THEN net ELSE net \ {p}
    /\ spent' = [spent EXCEPT !.dups = IF again THEN @ + 1 ELSE @,
                              !.opens = IF opens THEN @ ELSE @ + 1]
    /\ SinkBecomes([t \in {p.txn} |-> Handled(p, opens)])
    /\ UNCHANGED <<out, outbound, bp, back, told>>

Lose(p) ==
    /\ \/ p \in net /\ net' = net \ {p} /\ UNCHANGED back
       \/ p \in back /\ back' = back \ {p} /\ UNCHANGED net
    /\ UNCHANGED <<out, outbound, bp, sink, finishPdus, told, delivered, spent>>

\* cfdp_cancel at the destination.
CancelInbound(t) ==
    /\ sink[t].fdu # NoFdu /\ spent.cancels < MaxCancels
    /\ SinkBecomes([u \in {t} |-> Complete(sink[u], u, "canceled")])
    /\ spent' = [spent EXCEPT !.cancels = @ + 1]
    /\ UNCHANGED <<out, outbound, bp, net, back, told>>

\* The Finished PDU leaves: selectOutPdu takes these before any others.
SendFinishPdu ==
    /\ finishPdus # <<>>
    /\ back' = back \cup {Head(finishPdus)}
    /\ finishPdus' = Tail(finishPdus)
    /\ UNCHANGED <<out, outbound, bp, net, sink, told, delivered, spent>>

\* scanInFdus, for an FDU of which nothing was heard for too long (quiet),
\* and one whose check time has passed (late).
Unwatched(s, t) == Faulty([s EXCEPT !.fdu.watched = FALSE], t, "inactive")
Counted(s) == IF s.fdu.eof /\ s.fdu.checkTimeouts <= CheckLimit
              THEN [s EXCEPT !.fdu.checkTimeouts = @ + 1] ELSE s
Limited(s, t) == IF s.fdu.checkTimeouts > CheckLimit THEN Faulty(s, t, "limit") ELSE s

Scanned(s, t, quiet, late) ==
    LET first == IF quiet /\ s.fdu.watched THEN Unwatched(s, t) ELSE s
    IN  IF first.fdu = NoFdu THEN first
        ELSE Limited(IF late THEN Counted(first) ELSE first, t)

ScanInFdus(quiet, late) ==
    LET T == {t \in AnyTxn : sink[t].fdu # NoFdu}
    IN  /\ quiet \subseteq T /\ late \subseteq T
        /\ SinkBecomes([t \in T |-> Scanned(sink[t], t, t \in quiet, t \in late)])
        /\ UNCHANGED <<out, outbound, bp, net, back, told, spent>>

-----------------------------------------------------------------------------
(* The PDUs of another implementation are on their way from the start.       *)

Init ==
    /\ out = [t \in Txn |-> NoFdu] /\ outbound = <<>> /\ bp = <<>>
    /\ net = UNION {{Metadata(t), Eof(t)} \cup {FileData(t, s) : s \in ToSet(ForeignSegs[t])} :
                       t \in Foreign}
    /\ sink = [t \in AnyTxn |-> [fdu |-> NoFdu, dest |-> Empty, temp |-> Empty,
                                 ended |-> "none", reply |-> FALSE]]
    /\ finishPdus = <<>> /\ back = {}
    /\ told = [t \in Txn |-> 0] /\ delivered = {}
    /\ spent = [put |-> {}, cancels |-> 0, suspends |-> 0, dups |-> 0, opens |-> 0]

Next ==
    \/ \E t \in Txn : Put(t) \/ Cancel(t) \/ Suspend(t) \/ Resume(t)
    \/ SendPdu \/ Transmit \/ Expire \/ SendFinishPdu
    \/ \E p \in net, again, opens \in BOOLEAN : HandlePdu(p, again, opens)
    \/ \E p \in back, again \in BOOLEAN : HandleFinishPdu(p, again)
    \/ \E p \in net \cup back : Lose(p)
    \/ \E t \in AnyTxn : CancelInbound(t)
    \/ \E due \in SUBSET Txn : ScanFinsPending(due)
    \/ ScanOutFdus
    \/ \E quiet, late \in SUBSET AnyTxn : ScanInFdus(quiet, late)

Spec == Init /\ [][Next]_vars

\* The adapters run, link services transmit or bundles expire, the clocks
\* run, and deadlines pass.  Nothing need ever arrive.
FairSpec ==
    /\ Spec
    /\ WF_vars(SendPdu) /\ WF_vars(Transmit \/ Expire) /\ WF_vars(SendFinishPdu)
    /\ WF_vars(ScanOutFdus)
    /\ \A t \in Txn : WF_vars(\E due \in SUBSET Txn : t \in due /\ ScanFinsPending(due))
    /\ \A t \in AnyTxn : WF_vars(\E quiet, late \in SUBSET AnyTxn :
                                    {t} \subseteq quiet \cap late /\ ScanInFdus(quiet, late))

-----------------------------------------------------------------------------
(* Properties.                                                               *)

Segment == [offset : Nat, end : Nat]
Contents(t) == UNION {[S -> 0 .. Size[t]] : S \in SUBSET (0 .. Size[t])}

\* Every variable holds values of its type; the lists name FDUs that exist.
TypeOK ==
    /\ \A t \in Txn : Out(t) =>
          /\ out[t].state \in {"active", "suspended", "canceled"}
          /\ out[t].segments \in Seq(Segment) /\ out[t].xmit \in 0 .. Size[t]
          /\ {out[t].metadata, out[t].eof, out[t].transmitted, out[t].finished,
              out[t].pending} \subseteq BOOLEAN
    /\ \A i, j \in DOMAIN outbound : outbound[i] = outbound[j] => i = j
    /\ ToSet(outbound) = {t \in Txn : Out(t)}
    /\ \A p \in ToSet(bp) \cup net : p.txn \in AnyTxn /\ p.kind \in {"metadata", "data", "eof"}
    /\ \A p \in ToSet(finishPdus) \cup back :
          p.txn \in Closure /\ p.code \in {"complete", "incomplete"}
    /\ \A t \in AnyTxn :
          /\ {sink[t].dest, sink[t].temp} \subseteq Contents(t)
          /\ sink[t].ended = "none" /\ ~sink[t].reply
    /\ told \in [Txn -> 0 .. 2] /\ delivered \subseteq AnyTxn

\* What the destination counts as received is in its file, at the place where
\* it belongs, and is counted once, in whatever order and how often segments
\* arrive: handleFileDataPdu and writeSegmentData.
ReceivedIsWritten ==
    \A t \in AnyTxn : sink[t].fdu # NoFdu =>
        LET fdu  == sink[t].fdu
            file == IF fdu.workingFile = "dest" THEN sink[t].dest ELSE sink[t].temp
        IN  /\ Separate(fdu.extents)
            /\ fdu.bytesReceived = Cardinality(Covered(fdu.extents))
            /\ \A u \in Covered(fdu.extents) : u \in DOMAIN file /\ file[u] = u

Whole(file, t) == file = [u \in 0 .. Size[t] - 1 |-> u]

\* A file that was reported complete is whole, and stays so, whatever arrives
\* of its transaction afterwards: findInFdu starts an FDU once more for it.
DeliveredFileStays ==
    \A t \in delivered : Whole(sink[t].dest, t)

\* The segments that another implementation sends of a file do not overlap
\* (the source's own never do), and a file that is there is not to be replaced.
Apart(t) == t \in Foreign => \A r, s \in ToSet(ForeignSegs[t]) :
                                r = s \/ Units(r) \cap Units(s) = {}
Refuses(t) == Default["reject"] = "cancel" /\ Handler[t]["reject"] # "ignore"

\* Whatever the handlers: a file is whole when it is reported complete, and is
\* lost later only if it may be replaced, when an FDU that findInFdu has
\* started again for its transaction ends (completeInFdu).
LostOnlyAtEnd ==
    [][\A t \in AnyTxn : Apart(t) =>
          /\ t \in delivered' \ delivered => Whole(sink'[t].dest, t)
          /\ t \in delivered /\ Whole(sink[t].dest, t) /\ ~Whole(sink'[t].dest, t) =>
                ~Refuses(t) /\ sink'[t].fdu = NoFdu]_vars

\* An FDU is in the list of pending closures exactly while the source waits
\* for its Finished PDU: handleFinishPdu, handleFinishOverdue and scanOutFdus
\* free the element, each on its own.  No FDU goes without an indication.
ClosureInStep ==
    \A t \in Txn :
        /\ Out(t) => out[t].pending = (out[t].transmitted /\ t \in Closure /\ ~out[t].finished)
        /\ Out(t) /\ out[t].finished => told[t] > 0
        /\ ~Out(t) /\ t \in spent.put => told[t] > 0

\* A transaction ends at the source, unless it is suspended or canceled or the
\* end of its file expired before it was transmitted, with or without an
\* answer; an FDU ends at the destination, unless its fault handlers ignore
\* the silence and its EOF is lost.
Stuck(t) == Issued(t) /\ ~Sent(t) /\ \A p \in ToSet(bp) : p.txn = t => p.kind # "data"
TransactionsEnd ==
    /\ \A t \in Txn : Out(t) ~> (~Out(t) \/ out[t].state # "active" \/ Stuck(t))
    /\ \A t \in AnyTxn : sink[t].fdu # NoFdu ~>
          (sink[t].fdu = NoFdu \/ (~sink[t].fdu.watched /\ ~sink[t].fdu.eof))

\* "If all of the PDUs have been either delivered or destroyed (e.g., due to
\* FDU cancellation or to expiration of bundle TTL), destroy the FDU."
CanceledFdusGo == \A t \in Txn : out[t].state = "canceled" ~> ~Out(t)
=============================================================================
