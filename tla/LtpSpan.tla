------------------------------ MODULE LtpSpan ------------------------------
(***************************************************************************)
(* A span of LTP: what is between the clients that send service data units *)
(* and the link service output.  ltp_send and the flow control window of   *)
(* ltp/library/libltp.c, the block buffer that ltpmeter closes and         *)
(* segments, the queue that ltpDequeueOutboundSegment empties, the         *)
(* starting, closing and canceling of export sessions, and manageLinks of  *)
(* ltpclock.                                                               *)
(*                                                                         *)
(* A colour of a block is one data segment long, and a block is a          *)
(* checkpoint, if it has red data, and a green end of block, if it has     *)
(* green data.  What a report says is abstracted to "all of the red part"  *)
(* or "less"; LtpSession has the claims.  Control segments, which share the *)
(* queue, are left out of it.                                              *)
(***************************************************************************)
EXTENDS Integers, Sequences, FiniteSets

CONSTANTS
    Client,            \* tasks that call ltp_send
    Offers,            \* [Client -> sets of service data units [svc, red, len]]
    Units,             \* bound: [Client -> number of units it sends]
    MaxExportSessions, \* the window of the span
    AggrSizeLimit,
    MaxTimeouts,
    MaxCheckpoints,    \* maxCheckpoints of every session
    Purge,             \* the span cancels its sessions when transmission stops
    MaxBreaks          \* bound: stops of transmission

ASSUME LtpSpanAssumption ==
    /\ \A c \in Client : \A o \in Offers[c] : o.len \in Nat \ {0} /\ o.red \in 0..o.len
    /\ Units \in [Client -> Nat] /\ {MaxTimeouts, MaxBreaks} \subseteq Nat
    /\ {MaxExportSessions, AggrSizeLimit, MaxCheckpoints} \subseteq Nat \ {0}
    /\ Purge \in BOOLEAN

VARIABLES
    sessions,     \* exportSessions, by number
    sessionCount,
    current,      \* currentExportSessionObj, 0 for none
    block,        \* lengthOfBufferedBlock, redLengthOfBufferedBlock, clientSvcIdOfBufferedBlock
    segments,     \* queue of references to data segments
    sem,          \* the four semaphores, TRUE when they can be taken
    xmit,         \* localXmitRate > 0
    breaks,
    at, offer,    \* where each client is in ltp_send, and with which unit
    sent,         \* units each client has handed over
    notices,      \* number of times each unit was given back to its client
    meter, lso,   \* where ltpmeter and the link service output are
    xn            \* "lso" when that task has left a transaction open

spanVars   == <<sessions, sessionCount, current, block, segments>>
linkVars   == <<xmit, breaks>>
clientVars == <<at, offer, sent>>
vars == <<spanVars, linkVars, clientVars, sem, notices, meter, lso, xn>>

Sdu == UNION {{c} \X (1..Units[c]) : c \in Client}
Offer == UNION {Offers[c] : c \in Client}
EmptyBlock == [len |-> 0, red |-> 0, svc |-> 0]
Timers == Seq([status : {"queued", "timed", "acked"}, expirations : 0..MaxTimeouts])

TypeOK ==
    /\ DOMAIN sessions \subseteq 1..sessionCount
    /\ \A s \in DOMAIN sessions : sessions[s] \in
          [sdus : SUBSET Sdu, total : Nat, red : Nat,
           ckpts : Timers, finalAck : BOOLEAN, eobSent : BOOLEAN]
    /\ current \in DOMAIN sessions \cup {0}
    /\ block \in [len : Nat, red : Nat, svc : {0} \cup {o.svc : o \in Offer}]
    /\ segments \in Seq([session : 1..sessionCount, ckpt : 0..MaxCheckpoints])
    /\ sem \in [{"red", "green", "closed", "seg"} -> BOOLEAN]
    /\ xmit \in BOOLEAN /\ breaks \in 0..MaxBreaks
    /\ at \in [Client -> {"idle", "wait", "retry"}]
    /\ sent \in [Client -> Nat] /\ notices \in [Sdu -> Nat]
    /\ meter \in {"open", "top", "take", "work"}
    /\ lso \in {"look", "take"} /\ xn \in {"none", "lso"}

Init ==
    /\ sessions = <<>> /\ sessionCount = 0 /\ current = 0
    /\ block = EmptyBlock /\ segments = <<>>
    /\ sem = [s \in {"red", "green", "closed", "seg"} |-> FALSE]
    /\ xmit \in BOOLEAN /\ breaks = 0
    /\ at = [c \in Client |-> "idle"] /\ offer = [c \in Client |-> CHOOSE o \in Offers[c] : TRUE]
    /\ sent = [c \in Client |-> 0] /\ notices = [u \in Sdu |-> 0]
    /\ meter = "open" /\ lso = "look" /\ xn = "none"

\* Nobody else is in a transaction.
Free == xn = "none"

Given(which) == [s \in DOMAIN sem |-> s \in which \/ sem[s]]
Taken(s) == [sem EXCEPT ![s] = FALSE]

\* signalLso
Signal == IF xmit THEN {"seg"} ELSE {}

-----------------------------------------------------------------------------
(* ltp_send.                                                                *)

CanAppendLate(o) ==   \* mutant: the window is one session too wide
    \/ /\ block.len = 0
       /\ Cardinality(DOMAIN sessions) <= MaxExportSessions + 1 \/ o.red = 0
    \/ /\ block.len > 0 /\ block.len = block.red
       /\ block.len < AggrSizeLimit
       /\ o.svc = block.svc

\* sduCanBeAppendedToBlock: the session beyond the window takes green units
\* only; a block is open until it has green data or is long enough, and is for
\* one client service.
CanAppend(o) ==
    \/ /\ block.len = 0
       /\ Cardinality(DOMAIN sessions) <= MaxExportSessions \/ o.red = 0
    \/ /\ block.len > 0 /\ block.len = block.red
       /\ block.len < AggrSizeLimit
       /\ o.svc = block.svc

Append1(c, o) ==
    LET longer == [len |-> block.len + o.len, red |-> block.red + o.red, svc |-> o.svc]
    IN  /\ sessions' = [sessions EXCEPT ![current].sdus = @ \cup {<<c, sent[c] + 1>>}]
        /\ block' = longer
        /\ sem' = Given(IF longer.len >= AggrSizeLimit \/ longer.red < longer.len
                        THEN {"closed"} ELSE {})
        /\ sent' = [sent EXCEPT ![c] = @ + 1]
        /\ at' = [at EXCEPT ![c] = "idle"]
        /\ UNCHANGED <<sessionCount, current, segments, offer>>

Attempt(c, o) ==
    /\ Free
    /\ IF current # 0 /\ CanAppend(o)
       THEN Append1(c, o)
       ELSE /\ at' = [at EXCEPT ![c] = "wait"]
            /\ offer' = [offer EXCEPT ![c] = o]
            /\ UNCHANGED <<spanVars, sem, sent>>
    /\ UNCHANGED <<linkVars, notices, meter, lso, xn>>

SendSdu(c) ==
    /\ at[c] = "idle" /\ sent[c] < Units[c]
    /\ \E o \in Offers[c] : Attempt(c, o)

BufOpen(o) == IF o.red > 0 THEN "red" ELSE "green"

TakeBufOpen(c) ==
    /\ at[c] = "wait"
    /\ sem[BufOpen(offer[c])]
    /\ sem' = Taken(BufOpen(offer[c]))
    /\ at' = [at EXCEPT ![c] = "retry"]
    /\ UNCHANGED <<spanVars, linkVars, offer, sent, notices, meter, lso, xn>>

Retry(c) == at[c] = "retry" /\ Attempt(c, offer[c])

-----------------------------------------------------------------------------
(* Export sessions.                                                         *)

NewSession == [sdus |-> {}, total |-> 0, red |-> 0, ckpts |-> <<>>,
               finalAck |-> FALSE, eobSent |-> FALSE]

\* startExportSession, on the sessions in list.
StartExportSession(list) ==
    /\ sessionCount' = sessionCount + 1
    /\ sessions' = [s \in DOMAIN list \cup {sessionCount + 1} |->
                        IF s \in DOMAIN list THEN list[s] ELSE NewSession]
    /\ current' = sessionCount + 1

WindowOpen == IF xmit THEN {"red", "green"} ELSE {}

Without(S) == [s \in DOMAIN sessions \ S |-> sessions[s]]

\* Each unit of the sessions S goes back to its client in a notice.
GiveBack(S) ==
    notices' = [u \in Sdu |-> notices[u] + Cardinality({s \in S : u \in sessions[s].sdus})]

\* The nth of a set of positions.
Nth(K, n) == CHOOSE i \in K : Cardinality({j \in K : j <= i}) = n

\* stopExportSession: references to the segments of S leave the queue, the
\* others stay in order.
Stopped(S) ==
    LET kept == {i \in DOMAIN segments : segments[i].session \notin S}
    IN  [n \in 1..Cardinality(kept) |-> segments[Nth(kept, n)]]

Reference(s, c) == [session |-> s, ckpt |-> c]

\* mutant: the clients are not told that the window has opened
CloseSilently(s, queue, signals) ==
    /\ GiveBack({s})
    /\ sessions' = Without({s})
    /\ segments' = queue
    /\ sem' = Given(signals)
    /\ UNCHANGED <<sessionCount, current, block>>

\* closeExportSession
Close(s, queue, signals) ==
    /\ GiveBack({s})
    /\ sessions' = Without({s})
    /\ segments' = queue
    /\ sem' = Given({"red", "green"} \cup signals)
    /\ UNCHANGED <<sessionCount, current, block>>

\* mutant: the canceled sessions stay in the list of active ones
CancelStaysActive(S, rate, others) ==
    /\ GiveBack(S)
    /\ segments' = Stopped(S)
    /\ IF current \in S
       THEN StartExportSession(sessions) /\ block' = EmptyBlock
       ELSE UNCHANGED <<sessions, sessionCount, current, block>>
    /\ sem' = Given(others \cup {"red", "green"})

\* cancelSessionBySender, of each of S in turn, with localXmitRate > 0 iff rate:
\* the current session is replaced by a new one, the end of any other may let
\* a client in.
Cancel(S, rate, others) ==
    /\ GiveBack(S)
    /\ segments' = Stopped(S)
    /\ IF current \in S
       THEN StartExportSession(Without(S)) /\ block' = EmptyBlock
       ELSE sessions' = Without(S) /\ UNCHANGED <<sessionCount, current, block>>
    /\ sem' = Given(others \cup (IF rate THEN {"red", "green", "seg"} ELSE {})
                    \cup (IF S \ {current} # {} THEN {"red", "green"} ELSE {}))

-----------------------------------------------------------------------------
(* ltpmeter.                                                                *)

MeterOpen ==
    /\ meter = "open" /\ Free
    /\ StartExportSession(sessions)
    /\ sem' = Given(WindowOpen)
    /\ meter' = "top"
    /\ UNCHANGED <<block, segments, linkVars, clientVars, notices, lso, xn>>

Queued == [status |-> "queued", expirations |-> 0]

\* issueSegments: the red part ends with a checkpoint, the green one with the
\* end of the block.
Issue ==
    (IF block.red > 0 THEN <<Reference(current, 1)>> ELSE <<>>) \o
    (IF block.len > block.red THEN <<Reference(current, 0)>> ELSE <<>>)

\* mutant: the session stays the current one of the span
SegmentKeepsCurrent ==
    /\ sessions' = [sessions EXCEPT ![current].total = block.len, ![current].red = block.red,
                        ![current].ckpts = IF block.red > 0 THEN <<Queued>> ELSE <<>>]
    /\ segments' = segments \o Issue
    /\ sem' = Given(Signal)
    /\ block' = EmptyBlock /\ UNCHANGED current
    /\ meter' = "open"
    /\ UNCHANGED sessionCount

SegmentBlock ==
    /\ sessions' = [sessions EXCEPT ![current].total = block.len, ![current].red = block.red,
                        ![current].ckpts = IF block.red > 0 THEN <<Queued>> ELSE <<>>]
    /\ segments' = segments \o Issue
    /\ sem' = Given(Signal)
    /\ block' = EmptyBlock /\ current' = 0
    /\ meter' = "open"
    /\ UNCHANGED sessionCount

\* The wait for the buffer is skipped when it is long enough already.
MeterTop ==
    /\ meter = "top" /\ Free
    /\ IF block.len < AggrSizeLimit
       THEN meter' = "take" /\ UNCHANGED <<spanVars, sem>>
       ELSE SegmentBlock
    /\ UNCHANGED <<linkVars, clientVars, notices, lso, xn>>

MeterTake ==
    /\ meter = "take" /\ sem["closed"]
    /\ sem' = Taken("closed")
    /\ meter' = "work"
    /\ UNCHANGED <<spanVars, linkVars, clientVars, notices, lso, xn>>

MeterWork ==
    /\ meter = "work" /\ Free
    /\ IF block.len = 0
       THEN meter' = "take" /\ UNCHANGED <<spanVars, sem>>
       ELSE SegmentBlock
    /\ UNCHANGED <<linkVars, clientVars, notices, lso, xn>>

-----------------------------------------------------------------------------
(* ltpDequeueOutboundSegment, called by the link service output.            *)

LsoTake ==
    /\ lso = "take" /\ sem["seg"]
    /\ sem' = Taken("seg")
    /\ lso' = "look"
    /\ UNCHANGED <<spanVars, linkVars, clientVars, notices, meter, xn>>

\* The end of the block closes the session if no red data are outstanding.
SendEob(s) ==
    IF sessions[s].red = 0 \/ sessions[s].finalAck
    THEN Close(s, Tail(segments), {})
    ELSE /\ sessions' = [sessions EXCEPT ![s].eobSent = TRUE]
         /\ segments' = Tail(segments)
         /\ UNCHANGED <<sessionCount, current, block, sem, notices>>

SendCheckpoint(s, c) ==
    /\ sessions' = [sessions EXCEPT ![s].ckpts[c].status = "timed"]
    /\ segments' = Tail(segments)
    /\ UNCHANGED <<sessionCount, current, block, sem, notices>>

\* A reference to a session that is closed: the function returns from the
\* middle of its transaction.
Abandon ==
    /\ xn' = "lso"
    /\ segments' = Tail(segments)
    /\ UNCHANGED <<sessions, sessionCount, current, block, sem, notices>>

Dequeue ==
    /\ lso = "look"
    /\ IF segments = <<>> \/ ~xmit
       THEN lso' = "take" /\ UNCHANGED <<spanVars, sem, notices, xn>>
       ELSE LET ref == Head(segments)
            IN  /\ IF ref.session \notin DOMAIN sessions THEN Abandon
                   ELSE IF ref.ckpt = 0 THEN SendEob(ref.session) /\ UNCHANGED xn
                   ELSE SendCheckpoint(ref.session, ref.ckpt) /\ UNCHANGED xn
                /\ UNCHANGED lso
    /\ UNCHANGED <<linkVars, clientVars, meter>>

-----------------------------------------------------------------------------
(* Reports, cancellations and timeouts of the open sessions.                *)

Answerable(t) == t.status # "queued" \/ t.expirations > 0
Deactivate(t) == IF t.status = "timed" THEN [t EXCEPT !.status = "acked"] ELSE t

\* A report says that all of the red part has been received.
AllReceived(s, c) ==
    IF sessions[s].red = sessions[s].total \/ sessions[s].eobSent
    THEN Close(s, Stopped({s}), Signal)
    ELSE /\ sessions' = [sessions EXCEPT ![s].finalAck = TRUE, ![s].ckpts[c] = Deactivate(@)]
         /\ sem' = Given(Signal)
         /\ UNCHANGED <<sessionCount, current, block, segments, notices>>

\* A report says that less has been received: repair, up to the limit.
LessReceived(s, c) ==
    LET ckpts == sessions[s].ckpts
    IN  IF Len(ckpts) >= MaxCheckpoints
        THEN Cancel({s}, xmit, {})
        ELSE /\ sessions' = [sessions EXCEPT
                    ![s].ckpts = Append([ckpts EXCEPT ![c] = Deactivate(@)], Queued)]
             /\ segments' = Append(segments, Reference(s, Len(ckpts) + 1))
             /\ sem' = Given(Signal)
             /\ UNCHANGED <<sessionCount, current, block, notices>>

HandleRS(s, c) ==
    /\ Free
    /\ Answerable(sessions[s].ckpts[c])
    /\ AllReceived(s, c) \/ LessReceived(s, c)
    /\ UNCHANGED <<linkVars, clientVars, meter, lso, xn>>

\* The receiver cancels; it knows only sessions of which something was sent.
HandleCR(s) ==
    /\ Free
    /\ \E c \in DOMAIN sessions[s].ckpts : Answerable(sessions[s].ckpts[c])
    /\ Close(s, Stopped({s}), Signal)
    /\ UNCHANGED <<linkVars, clientVars, meter, lso, xn>>

ResendCheckpoint(s, c) ==
    /\ Free
    /\ sessions[s].ckpts[c].status = "timed"
    /\ IF sessions[s].ckpts[c].expirations = MaxTimeouts
       THEN Cancel({s}, xmit, {})
       ELSE /\ sessions' = [sessions EXCEPT ![s].ckpts[c] =
                    [status |-> "queued", expirations |-> @.expirations + 1]]
            /\ segments' = Append(segments, Reference(s, c))
            /\ sem' = Given(Signal)
            /\ UNCHANGED <<sessionCount, current, block, notices>>
    /\ UNCHANGED <<linkVars, clientVars, meter, lso, xn>>

Remote == \E s \in DOMAIN sessions :
    \/ \E c \in DOMAIN sessions[s].ckpts : HandleRS(s, c)
    \/ HandleCR(s)

Timeout == \E s \in DOMAIN sessions, c \in 1..MaxCheckpoints :
    c \in DOMAIN sessions[s].ckpts /\ ResendCheckpoint(s, c)

-----------------------------------------------------------------------------
(* manageLinks: the age of the block and the state of the link.  The block  *)
(* is old after one tick of the clock.                                      *)

Aged == IF block.len > 0 THEN {"closed"} ELSE {}

Populated == {s \in DOMAIN sessions : sessions[s].sdus # {}}

Tick ==
    /\ Free
    /\ block.len > 0
    /\ sem' = Given(Aged)
    /\ UNCHANGED <<spanVars, linkVars, clientVars, notices, meter, lso, xn>>

\* ltpStopXmit; the block may be purged after its age has been noticed.
StopXmit ==
    /\ Free
    /\ xmit /\ breaks < MaxBreaks
    /\ xmit' = FALSE /\ breaks' = breaks + 1
    /\ IF Purge /\ Populated # {}
       THEN Cancel(Populated, FALSE, Aged)
       ELSE /\ sem' = Given(Aged)
            /\ UNCHANGED <<spanVars, notices>>
    /\ UNCHANGED <<clientVars, meter, lso, xn>>

\* ltpStartXmit
StartXmit ==
    /\ Free
    /\ ~xmit
    /\ xmit' = TRUE
    /\ sem' = Given(Aged \cup {"red", "green"} \cup IF segments # <<>> THEN {"seg"} ELSE {})
    /\ UNCHANGED <<spanVars, breaks, clientVars, notices, meter, lso, xn>>

-----------------------------------------------------------------------------

Sending(c) == SendSdu(c) \/ TakeBufOpen(c) \/ Retry(c)
Meter == MeterOpen \/ MeterTop \/ MeterTake \/ MeterWork
Lso == LsoTake \/ Dequeue
Clock == Tick \/ StartXmit

Next ==
    \/ \E c \in Client : Sending(c)
    \/ Meter
    \/ Lso
    \/ Clock
    \/ StopXmit
    \/ Timeout
    \/ Remote

Spec == Init /\ [][Next]_vars

\* The tasks run and timers expire; the link comes back.  Reports need not come.
Fairness ==
    /\ \A c \in Client : WF_vars(TakeBufOpen(c)) /\ WF_vars(Retry(c))
    /\ WF_vars(Meter) /\ WF_vars(Lso)
    /\ WF_vars(Tick) /\ WF_vars(StartXmit) /\ WF_vars(Timeout)

FairSpec == Spec /\ Fairness

-----------------------------------------------------------------------------

Handed == {u \in Sdu : u[2] <= sent[u[1]]}

\* A unit that ltp_send has accepted is in one open session or has been given
\* back to its client once: whatever closes, cancels and purges sessions, none
\* is lost and none is given back twice.
SdusAccounted == \A u \in Handed :
    notices[u] + Cardinality({s \in DOMAIN sessions : u \in sessions[s].sdus}) = 1

\* Flow control: not more than maxExportSessions sessions hold red data, though
\* the list may be longer.
RedWindow == Cardinality({s \in DOMAIN sessions :
    sessions[s].red > 0 \/ (s = current /\ block.red > 0)}) <= MaxExportSessions

\* A client that waits for the buffer gets its unit in, as long as no
\* transaction has been left open.
ClientsServed == \A c \in Client : at[c] = "wait" ~> at[c] = "idle" \/ xn = "lso"

\* A reference to a segment of a closed session is "nothing more to do": the
\* link service output goes on without a transaction left open behind it.
NoTransactionLeftOpen == Free
=============================================================================
