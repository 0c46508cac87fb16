----------------------------- MODULE CfdpProofs -----------------------------
(***************************************************************************)
(* The source of CFDP reports every transaction, and waits for a Finished  *)
(* PDU exactly while its list of pending closures says so.  The            *)
(* destination counts what it has written, and what it has delivered stays *)
(* as it is.  All this for any number of transactions, files and segments  *)
(* of any size, and whatever arrives.                                      *)
(***************************************************************************)
EXTENDS Cfdp, FiniteSetTheorems, WellFoundedInduction, TLAPS

FduFields == {"state", "metadata", "segments", "eof", "xmit", "transmitted", "finished", "pending"}

\* The outbound FDU of a transaction, when it has one.
OutFdu(f) ==
    /\ DOMAIN f = FduFields
    /\ f.state \in {"active", "suspended", "canceled"}
    /\ {f.metadata, f.eof, f.transmitted, f.finished, f.pending} \subseteq BOOLEAN

OutTypes ==
    /\ out = [t \in Txn |-> out[t]] /\ \A t \in Txn : out[t] = NoFdu \/ OutFdu(out[t])
    /\ told \in [Txn -> Nat]
    /\ DOMAIN spent = {"put", "cancels", "suspends", "dups", "opens"}

(* A transaction without closure is reported when it has been transmitted;  *)
(* one with closure, when it is finished; and what was never put is not.    *)
Reported ==
    \A t \in Txn : Out(t) =>
        /\ t \in spent.put
        /\ out[t].pending = (out[t].transmitted /\ t \in Closure /\ ~out[t].finished)
        /\ out[t].finished \/ (out[t].transmitted /\ t \notin Closure) => told[t] > 0

Gone == \A t \in Txn : ~Out(t) /\ t \in spent.put => told[t] > 0

ClosureInv == OutTypes /\ Reported /\ Gone

\* A step that changes the FDU of t into f, and perhaps reports it, keeps all this.
LEMMA FduChanges ==
    ASSUME ClosureInv, NEW t \in Txn, NEW f, OutFdu(f),
           out' = [out EXCEPT ![t] = f], told' \in [Txn -> Nat],
           \A u \in Txn : told'[u] >= told[u],
           DOMAIN spent' = DOMAIN spent, spent'.put = spent.put \cup {t},
           f.pending = (f.transmitted /\ t \in Closure /\ ~f.finished),
           f.finished \/ (f.transmitted /\ t \notin Closure) => told'[t] > 0
    PROVE  ClosureInv'
<1>1. f.state # "none"
  BY DEF OutFdu
<1>2. \A u \in Txn : out'[u] = IF u = t THEN f ELSE out[u]
  BY DEF ClosureInv, OutTypes
<1>3. OutTypes'
  BY <1>2 DEF ClosureInv, OutTypes
<1>4. Reported'
  BY <1>2, <1>3 DEF ClosureInv, OutTypes, Reported, Out
<1>5. Gone'
  BY <1>1, <1>2, <1>3 DEF ClosureInv, OutTypes, Gone, Out
<1>. QED
  BY <1>3, <1>4, <1>5 DEF ClosureInv

\* Nothing else can disturb it.
LEMMA FduStays ==
    ASSUME ClosureInv, UNCHANGED <<out, told>>, DOMAIN spent' = DOMAIN spent,
           spent'.put = spent.put
    PROVE  ClosureInv'
BY DEF ClosureInv, OutTypes, Reported, Gone, Out

\* FDUs of several transactions may become others, or none, at once: f says
\* which, and those that go have been reported.
LEMMA FdusChange ==
    ASSUME ClosureInv, NEW f, out' = [t \in Txn |-> f[t]], told' \in [Txn -> Nat],
           \A t \in Txn : told'[t] >= told[t], spent' = spent,
           \A t \in Txn : ~Out(t) => f[t] = NoFdu,
           \A t \in Txn : Out(t) /\ f[t] = NoFdu => told'[t] > 0,
           \A t \in Txn : Out(t) /\ f[t] # NoFdu =>
               /\ OutFdu(f[t])
               /\ f[t].pending = (f[t].transmitted /\ t \in Closure /\ ~f[t].finished)
               /\ f[t].finished \/ (f[t].transmitted /\ t \notin Closure) => told'[t] > 0
    PROVE  ClosureInv'
<1>1. \A t \in Txn : out'[t] = f[t] /\ (Out(t)' <=> f[t].state # "none")
  BY DEF Out
<1>2. NoFdu.state = "none"
  BY DEF NoFdu
<1>3. \A t \in Txn : f[t] = NoFdu \/ OutFdu(f[t])
  OBVIOUS
<1>4. OutTypes'
  BY <1>1, <1>3 DEF ClosureInv, OutTypes
<1>5. Reported'
  BY <1>1, <1>2 DEF ClosureInv, OutTypes, Reported
<1>6. Gone'
  <2> SUFFICES ASSUME NEW t \in Txn, ~Out(t)', t \in spent.put
               PROVE  told'[t] > 0
    BY DEF Gone
  <2>1. CASE Out(t)
    BY <1>1, <2>1 DEF OutFdu
  <2>2. CASE ~Out(t)
    BY <2>2 DEF ClosureInv, OutTypes, Gone
  <2>. QED
    BY <2>1, <2>2
<1>. QED
  BY <1>4, <1>5, <1>6 DEF ClosureInv

\* What is known of an FDU.
LEMMA FduKnown ==
    ASSUME ClosureInv, NEW t \in Txn, Out(t)
    PROVE  /\ OutFdu(out[t]) /\ told[t] \in Nat /\ t \in spent.put
           /\ out[t].pending = (out[t].transmitted /\ t \in Closure /\ ~out[t].finished)
           /\ out[t].finished \/ (out[t].transmitted /\ t \notin Closure) => told[t] > 0
BY DEF ClosureInv, OutTypes, Reported, Out, NoFdu

(* The calls of the user. *)
LEMMA UserStep ==
    ASSUME ClosureInv, NEW t \in Txn, Put(t) \/ Cancel(t) \/ Suspend(t) \/ Resume(t)
    PROVE  ClosureInv'
<1>0. DOMAIN spent = {"put", "cancels", "suspends", "dups", "opens"} /\ told \in [Txn -> Nat]
  BY DEF ClosureInv, OutTypes
<1>1. CASE Put(t)
  <2> DEFINE f == NewOutFdu(t)
  <2>1. /\ out' = [out EXCEPT ![t] = f] /\ told' = told /\ t \notin spent.put
        /\ spent' = [spent EXCEPT !.put = @ \cup {t}]
    BY <1>1 DEF Put
  <2>2. DOMAIN spent' = DOMAIN spent /\ spent'.put = spent.put \cup {t}
    BY <1>0, <2>1
  <2>3. OutFdu(f) /\ ~f.pending /\ ~f.transmitted /\ ~f.finished
    BY DEF OutFdu, NewOutFdu, FduFields
  <2>4. told' \in [Txn -> Nat] /\ \A u \in Txn : told'[u] >= told[u]
    BY <1>0, <2>1
  <2> HIDE DEF f
  <2>5. f.pending = (f.transmitted /\ t \in Closure /\ ~f.finished)
    BY <2>3 DEF OutFdu
  <2>. QED
    BY <2>1, <2>2, <2>3, <2>4, <2>5, FduChanges, Zenon
<1>2. CASE Cancel(t) \/ Suspend(t) \/ Resume(t)
  <2>1. PICK s \in {"active", "suspended", "canceled"} : out' = [out EXCEPT ![t].state = s]
    BY <1>2 DEF Cancel, Suspend, Resume
  <2> DEFINE f == [out[t] EXCEPT !.state = s]
  <2>2. Out(t) /\ out' = [out EXCEPT ![t] = f]
    BY <1>2, <2>1 DEF Cancel, Suspend, Resume, Out
  <2>3. OutFdu(out[t]) /\ told[t] \in Nat /\ t \in spent.put
    BY <2>2, FduKnown
  <2>4. /\ OutFdu(f) /\ f.pending = out[t].pending /\ f.transmitted = out[t].transmitted
        /\ f.finished = out[t].finished
    BY <2>3 DEF OutFdu, FduFields
  <2>5. told' \in [Txn -> Nat] /\ \A u \in Txn : told'[u] >= told[u]
    BY <1>0, <1>2 DEF Cancel, Suspend, Resume, Tell
  <2>6. DOMAIN spent' = DOMAIN spent /\ spent'.put = spent.put \cup {t}
    BY <1>0, <1>2, <2>3 DEF Cancel, Suspend, Resume
  <2>7. f.pending = (f.transmitted /\ t \in Closure /\ ~f.finished)
    BY <2>2, <2>4, FduKnown
  <2>8. f.finished \/ (f.transmitted /\ t \notin Closure) => told'[t] > 0
    <3>1. f.finished \/ (f.transmitted /\ t \notin Closure) => told[t] > 0
      BY <2>2, <2>4, FduKnown
    <3> HIDE DEF f
    <3>. QED
      BY <2>3, <2>5, <3>1
  <2> HIDE DEF f
  <2>. QED
    BY <2>2, <2>4, <2>5, <2>6, <2>7, <2>8, FduChanges, Zenon
<1>. QED
  BY <1>1, <1>2

(* PDUs leave the source. *)
LEMMA SendStep ==
    ASSUME ClosureInv, SendPdu \/ Transmit
    PROVE  ClosureInv'
<1>0. told' = told /\ spent' = spent /\ told \in [Txn -> Nat] /\ out = [t \in Txn |-> out[t]]
  BY DEF ClosureInv, OutTypes, SendPdu, Transmit
<1>1. ASSUME NEW t, NEW f, out' = [out EXCEPT ![t] = f],
             t \in Txn => /\ Out(t) /\ OutFdu(f) /\ f.pending = out[t].pending
                          /\ f.transmitted = out[t].transmitted /\ f.finished = out[t].finished
      PROVE  ClosureInv'
  <2>1. CASE t \in Txn
    <3>1. spent'.put = spent.put \cup {t} /\ \A u \in Txn : told'[u] >= told[u]
      BY <1>0, <1>1, <2>1, FduKnown
    <3>. QED
      BY <1>0, <1>1, <2>1, <3>1, FduKnown, FduChanges
  <2>2. CASE t \notin Txn
    <3>1. out' = out
      BY <1>0, <1>1, <2>2 DEF ClosureInv, OutTypes
    <3>. QED
      BY <1>0, <3>1, FduStays
  <2>. QED
    BY <2>1, <2>2
<1>2. CASE SendPdu
  <2>1. PICK i \in DOMAIN outbound :
            Ready(outbound[i]) /\ out' = [out EXCEPT ![outbound[i]] = AfterPdu(@)]
    BY <1>2 DEF SendPdu
  <2> DEFINE t == outbound[i]
  <2>2. Out(t)
    BY <2>1 DEF Ready, Out
  <2> HIDE DEF t
  <2>3. t \in Txn => OutFdu(out[t])
    BY <2>2, FduKnown
  <2>4. t \in Txn => LET f == AfterPdu(out[t]) IN
            /\ OutFdu(f) /\ f.pending = out[t].pending
            /\ f.transmitted = out[t].transmitted /\ f.finished = out[t].finished
    BY <2>3 DEF OutFdu, FduFields, AfterPdu
  <2>5. out' = [out EXCEPT ![t] = AfterPdu(out[t])]
    BY <1>0, <2>1 DEF t
  <2>. QED
    BY <1>1, <2>2, <2>4, <2>5
<1>3. CASE Transmit
  <2> DEFINE p == Head(bp)
             t == p.txn
             x == Max({out[t].xmit, p.seg.end})
             f == [out[t] EXCEPT !.xmit = x]
  <2>1. out' = out \/ (Out(t) /\ out' = [out EXCEPT ![t] = f])
    BY <1>0, <1>3 DEF Transmit
  <2> HIDE DEF t, x
  <2>2. Out(t) /\ t \in Txn => /\ OutFdu(f) /\ f.pending = out[t].pending
                               /\ f.transmitted = out[t].transmitted
                               /\ f.finished = out[t].finished
    BY FduKnown DEF OutFdu, FduFields
  <2> HIDE DEF f
  <2>. QED
    BY <1>0, <1>1, <2>1, <2>2, FduStays
<1>. QED
  BY <1>2, <1>3

(* A Finished PDU, in time, late, again, or for nothing. *)
LEMMA FinishStep ==
    ASSUME ClosureInv, NEW p, NEW again \in BOOLEAN, HandleFinishPdu(p, again)
    PROVE  ClosureInv'
<1> DEFINE t == p.txn
           f == [out[t] EXCEPT !.finished = TRUE, !.pending = FALSE]
<1>0. /\ told \in [Txn -> Nat] /\ out = [u \in Txn |-> out[u]]
      /\ DOMAIN spent = {"put", "cancels", "suspends", "dups", "opens"}
  BY DEF ClosureInv, OutTypes
<1>1. DOMAIN spent' = DOMAIN spent /\ spent'.put = spent.put
  BY <1>0 DEF HandleFinishPdu
<1>2. CASE ~Closes(t) \/ t \notin Txn
  <2>1. CASE ~Closes(t)
    BY <1>1, <2>1, FduStays DEF HandleFinishPdu
  <2>2. CASE t \notin Txn
    <3>1. [out EXCEPT ![t].finished = TRUE, ![t].pending = FALSE] = out
      BY <1>0, <2>2
    <3>2. [told EXCEPT ![t] = @ + 1] = told
      BY <1>0, <2>2
    <3>3. out' = out /\ told' = told
      BY <3>1, <3>2 DEF HandleFinishPdu, Tell
    <3>. QED
      BY <1>1, <3>3, FduStays
  <2>. QED
    BY <1>2, <2>1, <2>2
<1>3. CASE Closes(t) /\ t \in Txn
  <2>1. /\ Out(t) /\ out' = [out EXCEPT ![t] = f] /\ told' = [told EXCEPT ![t] = @ + 1]
    BY <1>0, <1>3 DEF HandleFinishPdu, Tell, Closes
  <2>2. OutFdu(out[t]) /\ t \in spent.put
    BY <1>3, <2>1, FduKnown
  <2>3. OutFdu(f) /\ f.finished /\ ~f.pending
    BY <2>2 DEF OutFdu, FduFields
  <2>4. told' \in [Txn -> Nat] /\ told'[t] > 0 /\ \A u \in Txn : told'[u] >= told[u]
    BY <1>0, <1>3, <2>1
  <2>5. spent'.put = spent.put \cup {t}
    BY <1>1, <2>2
  <2> HIDE DEF f
  <2>6. f.pending = (f.transmitted /\ t \in Closure /\ ~f.finished)
    BY <2>3 DEF OutFdu
  <2>. QED
    BY <1>1, <1>3, <2>1, <2>3, <2>4, <2>5, <2>6, FduChanges, Zenon
<1>. QED
  BY <1>2, <1>3

(* The clock of the source: Finished PDUs that are overdue, and what is done. *)
LEMMA OverdueStep ==
    ASSUME ClosureInv, NEW due \in SUBSET Txn, ScanFinsPending(due)
    PROVE  ClosureInv'
<1> DEFINE f == [t \in Txn |-> IF t \in due
                               THEN [out[t] EXCEPT !.finished = TRUE, !.pending = FALSE]
                               ELSE out[t]]
<1>1. /\ out' = f /\ spent' = spent /\ \A t \in due : Out(t)
      /\ told' = [t \in Txn |-> IF t \in due THEN told[t] + 1 ELSE told[t]]
  BY DEF ScanFinsPending
<1>2. /\ told \in [Txn -> Nat] /\ \A t \in Txn : out[t] = NoFdu \/ OutFdu(out[t])
  BY DEF ClosureInv, OutTypes
<1>3. told' \in [Txn -> Nat] /\ \A t \in Txn : told'[t] >= told[t] /\ (t \in due => told'[t] > 0)
  <2>1. \A t \in Txn : told[t] \in Nat /\ told'[t] = IF t \in due THEN told[t] + 1 ELSE told[t]
    BY <1>1, <1>2, Zenon
  <2>2. \A t \in Txn : told'[t] \in Nat
    BY <2>1
  <2>3. told' = [t \in Txn |-> told'[t]]
    BY <1>1
  <2>. QED
    BY <2>1, <2>2, <2>3
<1>4. ASSUME NEW t \in Txn, Out(t)
      PROVE  /\ OutFdu(f[t]) /\ f[t] # NoFdu
             /\ f[t].pending = (f[t].transmitted /\ t \in Closure /\ ~f[t].finished)
             /\ f[t].finished \/ (f[t].transmitted /\ t \notin Closure) => told'[t] > 0
  <2>1. /\ OutFdu(out[t]) /\ told[t] \in Nat
        /\ out[t].pending = (out[t].transmitted /\ t \in Closure /\ ~out[t].finished)
        /\ out[t].finished \/ (out[t].transmitted /\ t \notin Closure) => told[t] > 0
    BY <1>4, FduKnown
  <2>2. CASE t \in due
    <3> DEFINE g == [out[t] EXCEPT !.finished = TRUE, !.pending = FALSE]
    <3>1. f[t] = g
      BY <2>2
    <3>2. OutFdu(g) /\ g.finished /\ ~g.pending
      BY <2>1 DEF OutFdu, FduFields
    <3>3. g.state # "none" /\ NoFdu.state = "none"
      BY <3>2 DEF OutFdu, NoFdu
    <3> HIDE DEF f, g
    <3>4. g # NoFdu /\ told'[t] > 0
      BY <1>3, <2>2, <3>3
    <3>5. g.pending = (g.transmitted /\ t \in Closure /\ ~g.finished)
      BY <3>2 DEF OutFdu
    <3>. QED
      BY <3>1, <3>2, <3>4, <3>5, Zenon
  <2>3. CASE t \notin due
    <3>1. f[t] = out[t]
      BY <2>3
    <3> HIDE DEF f
    <3>2. told'[t] = told[t]
      BY <1>1, <2>3
    <3>3. out[t] # NoFdu
      BY <1>4 DEF Out, NoFdu
    <3>. QED
      BY <2>1, <3>1, <3>2, <3>3, Zenon
  <2>. QED
    BY <2>2, <2>3
<1>5. \A t \in Txn : ~Out(t) => f[t] = NoFdu
  <2> SUFFICES ASSUME NEW t \in Txn, ~Out(t) PROVE f[t] = NoFdu
    OBVIOUS
  <2>1. f[t] = out[t]
    BY <1>1
  <2>. QED
    BY <1>2, <2>1 DEF Out, OutFdu
<1>6. out' = [t \in Txn |-> f[t]]
  BY <1>1
<1> HIDE DEF f
<1>. QED
  BY <1>1, <1>3, <1>4, <1>5, <1>6, FdusChange

(* The clock of the source: what has been transmitted, and what is done.   *)
LEMMA DoneStep ==
    ASSUME ClosureInv, ScanOutFdus
    PROVE  ClosureInv'
<1> DEFINE f == [t \in Txn |-> IF Done(t) THEN NoFdu ELSE Noted(t)]
<1>1. /\ out' = f /\ spent' = spent
      /\ told' = [t \in Txn |-> IF Noted(t) # out[t] /\ t \notin Closure
                                THEN told[t] + 1 ELSE told[t]]
  BY DEF ScanOutFdus
<1>2. /\ told \in [Txn -> Nat] /\ \A t \in Txn : out[t] = NoFdu \/ OutFdu(out[t])
  BY DEF ClosureInv, OutTypes
<1>3. told' \in [Txn -> Nat] /\ \A t \in Txn : told'[t] >= told[t]
  BY <1>1, <1>2
<1>4. ASSUME NEW t \in Txn, Out(t)
      PROVE  /\ Done(t) => told'[t] > 0
             /\ ~Done(t) => /\ OutFdu(Noted(t)) /\ Noted(t) # NoFdu
                            /\ Noted(t).pending
                               = (Noted(t).transmitted /\ t \in Closure /\ ~Noted(t).finished)
                            /\ Noted(t).finished \/ (Noted(t).transmitted /\ t \notin Closure)
                                 => told'[t] > 0
  <2>1. /\ OutFdu(out[t]) /\ told[t] \in Nat
        /\ out[t].pending = (out[t].transmitted /\ t \in Closure /\ ~out[t].finished)
        /\ out[t].finished \/ (out[t].transmitted /\ t \notin Closure) => told[t] > 0
    BY <1>4, FduKnown
  <2> DEFINE now == Completed(t) /\ ~out[t].eof /\ ~out[t].transmitted /\ out[t].state # "canceled"
             g == [out[t] EXCEPT !.transmitted = TRUE, !.pending = t \in Closure]
  <2>2. CASE now
    <3>1. Noted(t) = g
      BY <2>2 DEF Noted
    <3>2. /\ OutFdu(g) /\ g.transmitted /\ g.pending = (t \in Closure)
          /\ g.finished = out[t].finished /\ g.state # "none"
      BY <2>1 DEF OutFdu, FduFields
    <3>3. ~out[t].transmitted /\ Completed(t)
      BY <2>2
    <3> HIDE DEF now, g
    <3>4. g # out[t] /\ NoFdu.state = "none"
      BY <3>2, <3>3 DEF NoFdu
    <3>5. t \notin Closure => told'[t] > 0
      BY <1>1, <2>1, <3>1, <3>4
    <3>6. Done(t) <=> (t \in Closure => out[t].finished)
      BY <3>1, <3>2, <3>3 DEF Done
    <3>7. out[t].finished => told'[t] > 0
      BY <1>2, <1>3, <2>1
    <3>. QED
      BY <3>1, <3>2, <3>4, <3>5, <3>6, <3>7 DEF OutFdu
  <2>3. CASE ~now
    <3>1. Noted(t) = out[t]
      BY <2>3 DEF Noted
    <3> HIDE DEF now, g
    <3>2. told'[t] = told[t] /\ out[t] # NoFdu
      BY <1>1, <1>4, <3>1 DEF Out, NoFdu
    <3>3. Done(t) => out[t].transmitted /\ (t \in Closure => out[t].finished)
      BY <3>1 DEF Done
    <3>. QED
      BY <2>1, <3>1, <3>2, <3>3
  <2>. QED
    BY <2>2, <2>3
<1>5. ASSUME NEW t \in Txn, ~Out(t)
      PROVE  f[t] = NoFdu
  <2>1. Noted(t) = out[t] /\ out[t] = NoFdu
    BY <1>2, <1>5 DEF Noted, Completed, Out, OutFdu
  <2>. QED
    BY <2>1
<1>6. /\ out' = [t \in Txn |-> f[t]]
      /\ \A t \in Txn : f[t] = IF Done(t) THEN NoFdu ELSE Noted(t)
  BY <1>1
<1> HIDE DEF f
<1>. QED
  BY <1>1, <1>3, <1>4, <1>5, <1>6, FdusChange

\* Every step keeps the list of pending closures in step.
LEMMA ClosureStep == ClosureInv /\ [Next]_vars => ClosureInv'
<1> SUFFICES ASSUME ClosureInv, [Next]_vars PROVE ClosureInv'
  OBVIOUS
<1>0. DOMAIN spent = {"put", "cancels", "suspends", "dups", "opens"}
  BY DEF ClosureInv, OutTypes
<1>1. CASE \E t \in Txn : Put(t) \/ Cancel(t) \/ Suspend(t) \/ Resume(t)
  BY <1>1, UserStep
<1>2. CASE SendPdu \/ Transmit
  BY <1>2, SendStep
<1>3. CASE \E p \in back, again \in BOOLEAN : HandleFinishPdu(p, again)
  BY <1>3, FinishStep
<1>4. CASE \E due \in SUBSET Txn : ScanFinsPending(due)
  BY <1>4, OverdueStep
<1>5. CASE ScanOutFdus
  BY <1>5, DoneStep
<1>6. CASE Expire \/ SendFinishPdu \/ \E p \in net \cup back : Lose(p)
  BY <1>6, FduStays DEF Expire, SendFinishPdu, Lose
<1>7. ASSUME NEW p \in net, NEW again \in BOOLEAN, NEW opens \in BOOLEAN,
             HandlePdu(p, again, opens)
      PROVE  ClosureInv'
  <2>1. DOMAIN spent' = DOMAIN spent /\ spent'.put = spent.put
    BY <1>0, <1>7 DEF HandlePdu
  <2>. QED
    BY <1>7, <2>1, FduStays DEF HandlePdu
<1>8. ASSUME NEW t \in AnyTxn, CancelInbound(t)
      PROVE  ClosureInv'
  <2>1. DOMAIN spent' = DOMAIN spent /\ spent'.put = spent.put
    BY <1>0, <1>8 DEF CancelInbound
  <2>. QED
    BY <1>8, <2>1, FduStays DEF CancelInbound
<1>9. ASSUME NEW quiet, NEW late, ScanInFdus(quiet, late)
      PROVE  ClosureInv'
  BY <1>9, FduStays DEF ScanInFdus
<1>10. CASE UNCHANGED vars
  BY <1>10, FduStays DEF vars
<1>. QED
  BY <1>1, <1>2, <1>3, <1>4, <1>5, <1>6, <1>7, <1>8, <1>9, <1>10 DEF Next

\* The initial state has nothing in it.
LEMMA ClosureInit == Init => ClosureInv
<1> SUFFICES ASSUME Init PROVE ClosureInv
  OBVIOUS
<1>1. /\ out = [t \in Txn |-> NoFdu] /\ told = [t \in Txn |-> 0]
      /\ spent = [put |-> {}, cancels |-> 0, suspends |-> 0, dups |-> 0, opens |-> 0]
  BY DEF Init
<1>2. \A t \in Txn : ~Out(t)
  BY <1>1 DEF Out, NoFdu
<1>3. OutTypes
  BY <1>1 DEF OutTypes
<1>. QED
  BY <1>1, <1>2, <1>3 DEF ClosureInv, Reported, Gone

(* No FDU goes without an indication to the user, and the list of pending   *)
(* closures names exactly the FDUs that wait for a Finished PDU:            *)
(* handleFinishPdu, handleFinishOverdue and scanOutFdus each free the       *)
(* element, and none of them frees it twice or forgets it.                  *)
THEOREM ClosuresInStep == Spec => []ClosureInStep
<1>1. ClosureInv => ClosureInStep
  BY DEF ClosureInv, Reported, Gone, ClosureInStep
<1>. QED
  BY <1>1, ClosureInit, ClosureStep, PTL DEF Spec

-----------------------------------------------------------------------------
(* Numbers, lists and extents.                                               *)

(* Some set of naturals has a least element. *)
LEMMA LeastExists ==
    ASSUME NEW S \in SUBSET Nat, S # {}
    PROVE  \E n \in S : \A m \in S : n <= m
<1> DEFINE R == OpToRel(<, Nat)
<1>1. IsWellFoundedOn(R, Nat)
  BY NatLessThanWellFounded
<1>2. \A m, n \in Nat : m < n => <<m, n>> \in R
  BY DEF OpToRel
<1> HIDE DEF R
<1>3. PICK n \in S : \A m \in S : ~(<<m, n>> \in R)
  BY <1>1, WFMin
<1>4. \A m \in S : ~(m < n)
  BY <1>2, <1>3
<1>. QED
  BY <1>4

(* Numbers up to a bound have a least and a greatest, which Min and Max of  *)
(* FiniteSetsExt choose.                                                    *)
LEMMA MinMax ==
    ASSUME NEW N \in Nat, NEW S \in SUBSET (0 .. N), S # {}
    PROVE  /\ Min(S) \in S /\ \A m \in S : Min(S) <= m
           /\ Max(S) \in S /\ \A m \in S : m <= Max(S)
<1>1. \E n \in S : \A m \in S : n <= m
  BY LeastExists
<1>2. \E n \in S : \A m \in S : n >= m
  <2> DEFINE U == {n \in Nat : \A m \in S : m <= n}
  <2>1. N \in U
    OBVIOUS
  <2>2. PICK n \in U : \A m \in U : n <= m
    BY <2>1, LeastExists
  <2>3. CASE n \in S
    BY <2>3
  <2>4. CASE n \notin S
    <3>1. \A m \in S : m < n
      BY <2>4
    <3>2. PICK m \in S : TRUE
      OBVIOUS
    <3>3. n - 1 \in U /\ ~(n <= n - 1)
      BY <3>1, <3>2
    <3>. QED
      BY <2>2, <3>3
  <2>. QED
    BY <2>3, <2>4
<1>. QED
  BY <1>1, <1>2 DEF Min, Max

(* Nth finds each number of a finite set. *)
LEMMA NthExists ==
    ASSUME NEW S \in SUBSET Int, IsFiniteSet(S), NEW n \in 1 .. Cardinality(S)
    PROVE  Nth(S, n) \in S /\ Cardinality({j \in S : j <= Nth(S, n)}) = n
<1> DEFINE upTo(i) == {j \in S : j <= i}
           rank == [i \in S |-> Cardinality(upTo(i))]
           T == 1 .. Cardinality(S)
<1>1. Cardinality(S) \in Nat
  BY FS_CardinalityType
<1>2. \A i \in S : IsFiniteSet(upTo(i)) /\ Cardinality(upTo(i)) \in 1 .. Cardinality(S)
  <2> SUFFICES ASSUME NEW i \in S
               PROVE  IsFiniteSet(upTo(i)) /\ Cardinality(upTo(i)) \in 1 .. Cardinality(S)
    OBVIOUS
  <2>1. upTo(i) \in SUBSET S /\ upTo(i) # {}
    OBVIOUS
  <2>2. IsFiniteSet(upTo(i)) /\ Cardinality(upTo(i)) <= Cardinality(S)
    BY <2>1, FS_Subset
  <2>3. Cardinality(upTo(i)) \in Nat /\ Cardinality(upTo(i)) # 0
    BY <2>1, <2>2, FS_CardinalityType, FS_EmptySet
  <2>. QED
    BY <1>1, <2>2, <2>3
<1>3. \A i, k \in S : i < k => rank[i] # rank[k]
  <2> SUFFICES ASSUME NEW i \in S, NEW k \in S, i < k, rank[i] = rank[k]
               PROVE  FALSE
    OBVIOUS
  <2>1. k \in upTo(k) /\ k \notin upTo(i) /\ \A j \in S : j <= i => j <= k
    OBVIOUS
  <2>3. upTo(i) \in SUBSET upTo(k)
    BY <2>1
  <2>2. Cardinality(upTo(k)) = Cardinality(upTo(i)) => upTo(k) = upTo(i)
    BY <1>2, <2>3, FS_Subset
  <2>. QED
    BY <2>1, <2>2
<1>4. rank \in Injection(S, T)
  <2>1. rank \in [S -> T]
    BY <1>2
  <2> HIDE DEF rank
  <2>2. \A a, b \in S : rank[a] = rank[b] => a = b
    BY <1>3
  <2>. QED
    BY <2>1, <2>2 DEF Injection, IsInjective
<1>5. IsFiniteSet(T) /\ Cardinality(T) = Cardinality(S)
  BY <1>1, FS_Interval
<1>6. rank \in Surjection(S, T)
  BY <1>4, <1>5, FS_Injection
<1>7. PICK i \in S : rank[i] = n
  BY <1>6 DEF Surjection
<1>8. Cardinality({j \in S : j <= i}) = n
  BY <1>7
<1>. QED
  BY <1>8 DEF Nth

(* The numbers of an interval, one after the other. *)
LEMMA NthOfInterval ==
    ASSUME NEW a \in Int, NEW b \in Int, NEW n \in 1 .. b - a
    PROVE  Nth(a .. b - 1, n) = a + n - 1
<1> DEFINE S == a .. b - 1
           i == Nth(S, n)
<1>1. IsFiniteSet(S) /\ Cardinality(S) = b - a
  BY FS_Interval
<1> HIDE DEF S
<1>2. i \in S /\ Cardinality({j \in S : j <= i}) = n
  <2>1. S \in SUBSET Int
    BY DEF S
  <2>. QED
    BY <1>1, <2>1, NthExists
<1> HIDE DEF i
<1>3. {j \in S : j <= i} = a .. i
  BY <1>2 DEF S
<1>4. i \in Int /\ a <= i /\ Cardinality(a .. i) = i - a + 1
    <2>1. i \in Int /\ a <= i
    BY <1>2 DEF S
  <2>. QED
    BY <2>1, FS_Interval
<1>5. Cardinality(a .. i) = n
  BY <1>2, <1>3
<1>6. i = a + n - 1
  BY <1>4, <1>5
<1>. QED
  BY <1>6 DEF i, S

(* A segment all of whose units have come lies in one extent.  *)
LEMMA KnownIfCovered ==
    ASSUME NEW N \in Nat, NEW E \in SUBSET Extent(N), Separate(E),
           NEW seg \in Extent(N), seg.offset < seg.end, Units(seg) \subseteq Covered(E)
    PROVE  Known(E, seg)
<1>1. seg.offset \in Units(seg) /\ seg.offset \in Int /\ seg.end \in Int
  BY DEF Extent, Units
<1>2. PICK e \in E : seg.offset \in Units(e)
  BY <1>1 DEF Covered
<1>3. e.offset \in Int /\ e.end \in Int /\ e.offset <= seg.offset /\ seg.offset < e.end
  BY <1>1, <1>2 DEF Extent, Units
<1>4. CASE seg.end <= e.end
  BY <1>3, <1>4 DEF Known
<1>5. CASE e.end < seg.end
  <2>1. e.end \in Units(seg)
    BY <1>1, <1>3, <1>5 DEF Units
  <2>2. PICK d \in E : e.end \in Units(d)
    BY <2>1 DEF Covered
  <2>3. d.offset \in Int /\ d.end \in Int /\ d.offset <= e.end /\ e.end < d.end
    BY <1>3, <2>2 DEF Extent, Units
  <2>4. d # e /\ ~(d.end < e.offset) /\ ~(e.end < d.offset)
    BY <1>1, <1>3, <2>3
  <2>. QED
    BY <2>4 DEF Separate
<1>. QED
  BY <1>1, <1>3, <1>4, <1>5

\* An extent that is just as long as it takes.
Bridges(new, E, seg) ==
    /\ \A e \in Touched(E, seg) \cup {seg} : new.offset <= e.offset /\ e.end <= new.end
    /\ \E e \in Touched(E, seg) \cup {seg} : new.offset = e.offset
    /\ \E e \in Touched(E, seg) \cup {seg} : new.end = e.end

(* What Merged returns.  *)
LEMMA MergedExtent ==
    ASSUME NEW N \in Nat, NEW E \in SUBSET Extent(N), NEW seg \in Extent(N)
    PROVE  \E new \in Extent(N) :
              Merged(E, seg) = (E \ Touched(E, seg)) \cup {new} /\ Bridges(new, E, seg)
<1> DEFINE T == Touched(E, seg) \cup {seg}
           lo == Min({e.offset : e \in T})
           hi == Max({e.end : e \in T})
           new == [offset |-> lo, end |-> hi]
<1>1. T \in SUBSET Extent(N) /\ seg \in T
  BY DEF Touched
<1> HIDE DEF T
<1>2. lo \in {e.offset : e \in T} /\ \A m \in {e.offset : e \in T} : lo <= m
  <2>1. {e.offset : e \in T} \in SUBSET (0 .. N) /\ {e.offset : e \in T} # {}
    BY <1>1 DEF Extent
  <2>. QED
    BY <2>1, MinMax
<1>3. hi \in {e.end : e \in T} /\ \A m \in {e.end : e \in T} : m <= hi
  <2>1. {e.end : e \in T} \in SUBSET (0 .. N) /\ {e.end : e \in T} # {}
    BY <1>1 DEF Extent
  <2>. QED
    BY <2>1, MinMax
<1>4. Merged(E, seg) = (E \ Touched(E, seg)) \cup {new}
  BY DEF Merged, T
<1> HIDE DEF lo, hi
<1>5. new \in Extent(N)
  BY <1>1, <1>2, <1>3 DEF Extent
<1>6. \A e \in T : new.offset <= e.offset /\ e.end <= new.end
  BY <1>2, <1>3
<1>7. (\E e \in T : new.offset = e.offset) /\ (\E e \in T : new.end = e.end)
  BY <1>2, <1>3
<1>. QED
  BY <1>4, <1>5, <1>6, <1>7 DEF T, Bridges

(* Merging keeps the extents apart and adds the units of the segment, and   *)
(* no others.                                                               *)
LEMMA MergedCovers ==
    ASSUME NEW N \in Nat, NEW E \in SUBSET Extent(N), Separate(E),
           NEW seg \in Extent(N), seg.offset < seg.end
    PROVE  /\ Merged(E, seg) \in SUBSET Extent(N) /\ Separate(Merged(E, seg))
           /\ Covered(Merged(E, seg)) = Covered(E) \cup Units(seg)
<1> DEFINE T == Touched(E, seg) \cup {seg}
           rest == E \ Touched(E, seg)
<1>0. PICK new \in Extent(N) : Merged(E, seg) = rest \cup {new} /\ Bridges(new, E, seg)
  BY MergedExtent, Zenon
<1>1. /\ Merged(E, seg) = rest \cup {new}
      /\ \A e \in T : new.offset <= e.offset /\ e.end <= new.end
      /\ \E e \in T : new.offset = e.offset
      /\ \E e \in T : new.end = e.end
  BY <1>0 DEF Bridges
<1>2. PICK d \in T : new.offset = d.offset
  BY <1>1
<1>3. PICK f \in T : new.end = f.end
  BY <1>1
<1>4. /\ \A e \in E \cup {seg, new} : e.offset \in Int /\ e.end \in Int
      /\ \A e \in E \cup {seg} : e.offset < e.end
      /\ \A e \in T : e = seg \/ (e \in E /\ e.end >= seg.offset /\ e.offset <= seg.end)
      /\ \A e \in rest : e \in E /\ (e.end < seg.offset \/ e.offset > seg.end)
      /\ seg \in T
  BY DEF Extent, Separate, Touched
<1>5. \A e \in E : e \in rest \/ e \in T
  OBVIOUS
<1>6. \A a, b \in E : a = b \/ a.end < b.offset \/ b.end < a.offset
  BY DEF Separate
<1> HIDE DEF T, rest
<1>7. new.offset <= seg.offset /\ seg.end <= new.end
  BY <1>1, <1>4
<1>8. ASSUME NEW e \in rest
      PROVE  e.end < new.offset \/ new.end < e.offset
  <2>1. e \in E /\ d \in E \cup {seg} /\ f \in E \cup {seg}
    BY <1>2, <1>3, <1>4
  <2>2. CASE e.end < seg.offset
    <3>1. CASE d = seg
      BY <1>2, <2>2, <3>1
    <3>2. CASE d # seg
      <4>1. d \in E /\ d.end >= seg.offset /\ d # e
        BY <1>2, <1>4, <2>1, <2>2, <3>2
      <4>2. e.end < d.offset \/ d.end < e.offset
        BY <1>6, <2>1, <4>1
      <4>. QED
        BY <1>2, <1>4, <2>1, <2>2, <4>1, <4>2
    <3>. QED
      BY <3>1, <3>2
  <2>3. CASE e.offset > seg.end
    <3>1. CASE f = seg
      BY <1>3, <2>3, <3>1
    <3>2. CASE f # seg
      <4>1. f \in E /\ f.offset <= seg.end /\ f # e
        BY <1>3, <1>4, <2>1, <2>3, <3>2
      <4>2. e.end < f.offset \/ f.end < e.offset
        BY <1>6, <2>1, <4>1
      <4>. QED
        BY <1>3, <1>4, <2>1, <2>3, <4>1, <4>2
    <3>. QED
      BY <3>1, <3>2
  <2>. QED
    BY <1>4, <2>2, <2>3
<1>9. Merged(E, seg) \in SUBSET Extent(N)
  BY <1>1 DEF rest
<1>10. Separate(Merged(E, seg))
  <2>1. \A e \in rest \cup {new} : e.offset < e.end
    BY <1>4, <1>7
  <2>2. \A a, b \in rest \cup {new} : a = b \/ a.end < b.offset \/ b.end < a.offset
    BY <1>4, <1>6, <1>8
  <2>. QED
    BY <1>1, <2>1, <2>2 DEF Separate
<1>11. ASSUME NEW u \in Covered(Merged(E, seg))
       PROVE  u \in Covered(E) \cup Units(seg)
  <2>1. PICK e \in rest \cup {new} : u \in Units(e)
    BY <1>1 DEF Covered
  <2>2. CASE e \in rest
    BY <1>4, <2>1, <2>2 DEF Covered
  <2>3. CASE e = new
    <3>1. u \in Int /\ new.offset <= u /\ u < new.end
      BY <1>4, <2>1, <2>3 DEF Units
    <3>2. CASE u < seg.offset
      <4>1. d \in E /\ d.offset <= u /\ u < d.end
        BY <1>2, <1>4, <3>1, <3>2
      <4>2. u \in Units(d)
        BY <1>4, <3>1, <4>1 DEF Units
      <4>. QED
        BY <4>1, <4>2 DEF Covered
    <3>3. CASE u >= seg.end
      <4>1. f \in E /\ f.offset <= u /\ u < f.end
        BY <1>3, <1>4, <3>1, <3>3
      <4>2. u \in Units(f)
        BY <1>4, <3>1, <4>1 DEF Units
      <4>. QED
        BY <4>1, <4>2 DEF Covered
    <3>4. CASE seg.offset <= u /\ u < seg.end
      BY <1>4, <3>1, <3>4 DEF Units
    <3>. QED
      BY <1>4, <3>1, <3>2, <3>3, <3>4
  <2>. QED
    BY <2>1, <2>2, <2>3
<1>12. ASSUME NEW u \in Covered(E) \cup Units(seg)
       PROVE  u \in Covered(Merged(E, seg))
  <2>1. PICK e \in E \cup {seg} : u \in Units(e)
    BY <1>12 DEF Covered
  <2>2. CASE e \in rest
    BY <1>1, <2>1, <2>2 DEF Covered
  <2>3. CASE e \in T
    <3>1. new.offset <= e.offset /\ e.end <= new.end
      BY <1>1, <2>3
    <3>2. u \in Units(new)
      BY <1>4, <2>1, <3>1 DEF Units
    <3>. QED
      BY <1>1, <3>2 DEF Covered
  <2>. QED
    BY <1>4, <1>5, <2>1, <2>2, <2>3
<1>. QED
  BY <1>9, <1>10, <1>11, <1>12

\* A function from some of the places of a file to some of its units.
File(f, N) == f = [p \in DOMAIN f |-> f[p]] /\ \A p \in DOMAIN f : {p, f[p]} \subseteq 0 .. N - 1

(* What is written are units of the segment, and stays within it.  *)
LEMMA WrittenInside ==
    ASSUME NEW N \in Nat, NEW E \in SUBSET Extent(N),
           NEW seg \in Extent(N), seg.offset < seg.end, ~Known(E, seg)
    PROVE  File(WrittenAt(E, seg), N)
<1> DEFINE begun == {e \in Touched(E, seg) : e.offset <= seg.offset}
           start == IF begun = {} THEN seg.offset ELSE Max({e.end : e \in begun})
           new == NewUnits(E, seg)
           f == WrittenAt(E, seg)
<1>1. /\ seg.offset \in 0 .. N /\ seg.end \in 0 .. N
      /\ \A e \in E : e.offset \in 0 .. N /\ e.end \in 0 .. N
  BY DEF Extent
<1>2. f = [p \in start .. start + Cardinality(new) - 1 |-> Nth(new, p - start + 1)]
  BY DEF WrittenAt
<1>3. start \in seg.offset .. seg.end - 1 /\ new \subseteq start .. seg.end - 1
  <2>1. CASE begun = {}
    BY <1>1, <2>1 DEF NewUnits, Units
  <2>2. CASE begun # {}
    <3>1. {e.end : e \in begun} \in SUBSET (0 .. N) /\ {e.end : e \in begun} # {}
      BY <1>1, <2>2 DEF Touched
    <3>2. Max({e.end : e \in begun}) \in {e.end : e \in begun}
      BY <3>1, MinMax
    <3>3. PICK e \in begun : start = e.end
      BY <2>2, <3>2
    <3>4. e \in E /\ e.offset <= seg.offset /\ seg.offset <= e.end /\ ~(seg.end <= e.end)
      BY DEF Touched, Known
    <3>5. ASSUME NEW u \in new PROVE u \in e.end .. seg.end - 1
      <4>1. u \in Units(seg) /\ u \notin Units(e)
        BY <3>4, <3>5 DEF NewUnits, Covered
      <4>. QED
        BY <1>1, <3>4, <4>1 DEF Units
    <3>6. e.end \in seg.offset .. seg.end - 1
      BY <1>1, <3>4
    <3>7. new \subseteq e.end .. seg.end - 1
      BY <3>5
    <3>. QED
      BY <3>3, <3>6, <3>7
  <2>. QED
    BY <2>1, <2>2
<1> HIDE DEF begun, start, f
<1>4. IsFiniteSet(new) /\ Cardinality(new) \in Nat /\ Cardinality(new) <= seg.end - start
  <2>1. IsFiniteSet(start .. seg.end - 1) /\ Cardinality(start .. seg.end - 1) = seg.end - start
    <3>1. start \in Int /\ seg.end - 1 \in Int /\ start <= seg.end - 1
      BY <1>1, <1>3
    <3>2. /\ IsFiniteSet(start .. seg.end - 1)
          /\ Cardinality(start .. seg.end - 1) = seg.end - 1 - start + 1
      BY <3>1, FS_Interval
    <3>. QED
      BY <1>1, <3>1, <3>2
  <2>. QED
    BY <1>3, <2>1, FS_Subset, FS_CardinalityType
<1>5. new \in SUBSET Int
  BY <1>1, <1>3
<1> HIDE DEF new
<1>6. ASSUME NEW p \in start .. start + Cardinality(new) - 1
      PROVE  {p, Nth(new, p - start + 1)} \subseteq 0 .. N - 1
  <2>1. p - start + 1 \in 1 .. Cardinality(new)
    BY <1>1, <1>3, <1>4
  <2>2. Nth(new, p - start + 1) \in new
    BY <1>4, <1>5, <2>1, NthExists
  <2>3. start .. seg.end - 1 \subseteq 0 .. N - 1 /\ p \in start .. seg.end - 1
    BY <1>1, <1>3, <1>4
  <2>. QED
    BY <1>3, <2>2, <2>3
<1>7. DOMAIN f = start .. start + Cardinality(new) - 1
  BY <1>2
<1>8. f = [p \in DOMAIN f |-> f[p]]
  BY <1>2
<1>9. \A p \in DOMAIN f : {p, f[p]} \subseteq 0 .. N - 1
  BY <1>2, <1>6, <1>7
<1>. QED
  BY <1>8, <1>9 DEF File, f

(* A segment of which nothing has come is written as it is, where it belongs. *)
LEMMA WrittenInPlace ==
    ASSUME NEW N \in Nat, NEW E \in SUBSET Extent(N), Separate(E),
           NEW seg \in Extent(N), seg.offset < seg.end, Units(seg) \cap Covered(E) = {}
    PROVE  /\ NewUnits(E, seg) = Units(seg)
           /\ WrittenAt(E, seg) = [u \in Units(seg) |-> u]
<1> DEFINE begun == {e \in Touched(E, seg) : e.offset <= seg.offset}
           start == IF begun = {} THEN seg.offset ELSE Max({e.end : e \in begun})
           new == NewUnits(E, seg)
           f == WrittenAt(E, seg)
           a == seg.offset
           b == seg.end
<1>1. /\ a \in 0 .. N /\ b \in 0 .. N /\ a < b
      /\ \A e \in E : e.offset \in 0 .. N /\ e.end \in 0 .. N /\ e.offset < e.end
  BY DEF Extent, Separate
<1>2. f = [p \in start .. start + Cardinality(new) - 1 |-> Nth(new, p - start + 1)]
  BY DEF WrittenAt
<1>3. new = a .. b - 1 /\ new = Units(seg)
  BY DEF NewUnits, Units
<1>4. start = a
  <2>1. CASE begun = {}
    BY <2>1
  <2>2. CASE begun # {}
    <3>1. {e.end : e \in begun} \in SUBSET (0 .. N) /\ {e.end : e \in begun} # {}
      BY <1>1, <2>2 DEF Touched
    <3>2. Max({e.end : e \in begun}) \in {e.end : e \in begun}
      BY <3>1, MinMax
    <3>3. PICK e \in begun : start = e.end
      BY <2>2, <3>2
    <3>4. e \in E /\ e.offset <= a /\ a <= e.end
      BY DEF Touched
    <3>5. a \in Units(seg)
      BY <1>1 DEF Units
    <3>6. a \notin Units(e)
      BY <3>4, <3>5 DEF Covered
    <3>. QED
      BY <1>1, <3>3, <3>4, <3>6 DEF Units
  <2>. QED
    BY <2>1, <2>2
<1> HIDE DEF begun, start, f, new, a, b
<1>5. Cardinality(new) = b - a
  <2>1. a \in Int /\ b - 1 \in Int /\ a <= b - 1
    BY <1>1
  <2>2. Cardinality(a .. b - 1) = b - 1 - a + 1
    BY <2>1, FS_Interval
  <2>. QED
    BY <1>1, <1>3, <2>2
<1>6. start + Cardinality(new) - 1 = b - 1
  BY <1>1, <1>4, <1>5
<1>7. \A p \in a .. b - 1 : Nth(new, p - start + 1) = p
  <2> SUFFICES ASSUME NEW p \in a .. b - 1 PROVE Nth(new, p - start + 1) = p
    OBVIOUS
  <2>1. a \in Int /\ b \in Int /\ p - start + 1 \in 1 .. b - a /\ a + (p - start + 1) - 1 = p
    BY <1>1, <1>4
  <2>2. Nth(a .. b - 1, p - start + 1) = a + (p - start + 1) - 1
    BY <2>1, NthOfInterval
  <2>. QED
    BY <1>3, <2>1, <2>2
<1>8. f = [p \in a .. b - 1 |-> p]
  BY <1>2, <1>4, <1>6, <1>7
<1>. QED
  BY <1>3, <1>8 DEF f, new, a, b

-----------------------------------------------------------------------------
(* The inbound side.                                                         *)

InFields == {"state", "metadata", "eof", "extents", "bytesReceived", "ckType", "inOrder",
             "workingFile", "watched", "checkTimeouts"}
SinkFields == {"fdu", "dest", "temp", "ended", "reply"}

\* An inbound FDU of a file of N units.
InFdu(f, N) ==
    /\ f = [x \in InFields |-> f[x]] /\ f.state = "active"
    /\ f.extents \in SUBSET Extent(N) /\ Separate(f.extents)
    /\ f.workingFile \in {"none", "dest", "temp"}

\* What the destination has of transaction t, in the middle of a step too.
Good(s, t) ==
    /\ s = [x \in SinkFields |-> s[x]]
    /\ s.fdu = NoFdu \/ InFdu(s.fdu, Size[t])
    /\ File(s.dest, Size[t]) /\ File(s.temp, Size[t])
    /\ s.reply => t \in Closure

\* Every part of it may be replaced by another of its kind.
LEMMA GoodWith ==
    ASSUME NEW t, NEW s, Good(s, t),
           NEW f, f = NoFdu \/ InFdu(f, Size[t]), NEW d, File(d, Size[t])
    PROVE  /\ Good([s EXCEPT !.fdu = f], t)
           /\ Good([s EXCEPT !.dest = d], t)
           /\ Good([s EXCEPT !.temp = d], t)
           /\ Good([s EXCEPT !.fdu = f, !["dest"] = d], t)
           /\ Good([s EXCEPT !.fdu = f, !["temp"] = d], t)
BY DEF Good, SinkFields

\* An FDU that ends leaves the files as they are.
LEMMA GoodEnds ==
    ASSUME NEW t, NEW s, Good(s, t), NEW e, NEW r, r => t \in Closure
    PROVE  LET n == [s EXCEPT !.fdu = NoFdu, !.ended = e, !.reply = r]
           IN  Good(n, t) /\ n.fdu = NoFdu /\ n.ended = e /\ n.dest = s.dest /\ n.temp = s.temp
BY DEF Good, SinkFields

\* There is no file.
LEMMA EmptyFile == ASSUME NEW N \in Nat PROVE File(Empty, N)
BY DEF File, Empty

\* completeInFdu: what becomes of the file, and how the FDU ends.
LEMMA GoodSettled ==
    ASSUME NEW t \in AnyTxn, NEW s, Good(s, t), NEW c
    PROVE  Good(Settled(s, t, c), t)
<1>1. Size[t] \in Nat
  BY CfdpAssumption
<1>2. File(Empty, Size[t]) /\ File(s.temp, Size[t]) /\ (s.fdu = NoFdu \/ InFdu(s.fdu, Size[t]))
  BY <1>1, EmptyFile DEF Good
<1> DEFINE r == [s EXCEPT !.dest = s.temp]
<1>3. Good(r, t) /\ [s EXCEPT !.dest = s.temp, !.temp = Empty] = [r EXCEPT !.temp = Empty]
  BY <1>2, GoodWith
<1> HIDE DEF r
<1>4. Good([r EXCEPT !.temp = Empty], t)
  BY <1>2, <1>3, GoodWith
<1>5. Good(Rename(s), t)
  BY <1>3, <1>4 DEF Rename
<1>6. Good(Unlink(s), t)
  BY <1>2, GoodWith DEF Unlink
<1>. QED
  BY <1>5, <1>6 DEF Settled

LEMMA GoodComplete ==
    ASSUME NEW t \in AnyTxn, NEW s, Good(s, t), NEW c
    PROVE  Good(Complete(s, t, c), t)
<1> DEFINE r == s.fdu.metadata /\ t \in Closure
           m == Settled(s, t, c)
<1>2. Complete(s, t, c) = [m EXCEPT !.fdu = NoFdu, !.ended = c, !.reply = r]
  BY DEF Complete
<1>3. r => t \in Closure
  OBVIOUS
<1>1. Good(m, t)
  BY GoodSettled
<1> HIDE DEF r, m
<1>4. Good([m EXCEPT !.fdu = NoFdu, !.ended = c, !.reply = r], t)
  BY <1>1, <1>3, GoodEnds, Zenon
<1>. QED
  BY <1>2, <1>4

\* handleFault and checkInFduComplete.
LEMMA GoodFaulty ==
    ASSUME NEW t \in AnyTxn, NEW s, Good(s, t), NEW fault
    PROVE  Good(Faulty(s, t, fault), t)
BY GoodComplete DEF Faulty

LEMMA GoodChecked ==
    ASSUME NEW t \in AnyTxn, NEW s, Good(s, t)
    PROVE  Good(Checked(s, t), t)
BY GoodComplete DEF Checked

\* The fields of an FDU that its type does not restrict, and those it does.
LEMMA FduWith ==
    ASSUME NEW N, NEW f, InFdu(f, N), NEW a, NEW b, NEW c,
           NEW w \in {"none", "dest", "temp"}, NEW E \in SUBSET Extent(N), Separate(E)
    PROVE  /\ InFdu([f EXCEPT !.metadata = a, !.watched = b, !.ckType = c, !.workingFile = w], N)
           /\ InFdu([f EXCEPT !.eof = a, !.watched = b], N)
           /\ InFdu([f EXCEPT !.watched = a], N)
           /\ InFdu([f EXCEPT !.checkTimeouts = a], N)
           /\ InFdu([f EXCEPT !.extents = E], N)
           /\ InFdu([f EXCEPT !.watched = a, !.extents = E, !.bytesReceived = b,
                             !.inOrder = c, !.workingFile = w], N)
BY DEF InFdu, InFields

\* handleMetadataPdu and handleEofPdu.
LEMMA GoodMetadata ==
    ASSUME NEW t \in AnyTxn, NEW s, Good(s, t), InFdu(s.fdu, Size[t])
    PROVE  Good(WithMetadata(s, t), t)
<1> DEFINE a == TRUE
           c == IF s.fdu.bytesReceived = 0 THEN Type[t] ELSE s.fdu.ckType
           w == IF s.fdu.workingFile = "none" /\ Size[t] > 0 THEN "dest" ELSE s.fdu.workingFile
           fdu == [s.fdu EXCEPT !.metadata = a, !.watched = a, !.ckType = c, !.workingFile = w]
           noted == [s EXCEPT !.fdu = fdu]
<1>1. w \in {"none", "dest", "temp"} /\ File(s.dest, Size[t])
  BY DEF InFdu, Good
<1>2. \/ WithMetadata(s, t) = s
      \/ WithMetadata(s, t) = Complete(noted, t, "reject")
      \/ WithMetadata(s, t) = Checked(noted, t)
  BY DEF WithMetadata
<1> HIDE DEF a, c, w
<1>3. InFdu(fdu, Size[t])
  <2>1. {} \in SUBSET Extent(Size[t]) /\ Separate({})
    BY DEF Separate
  <2>. QED
    BY <1>1, <2>1, FduWith
<1> HIDE DEF fdu
<1>4. Good(noted, t)
  BY <1>1, <1>3, GoodWith
<1> HIDE DEF noted
<1>. QED
  BY <1>2, <1>4, GoodComplete, GoodChecked

LEMMA GoodEof ==
    ASSUME NEW t \in AnyTxn, NEW s, Good(s, t), InFdu(s.fdu, Size[t])
    PROVE  Good(WithEof(s, t), t)
<1> DEFINE a == TRUE
           fdu == [s.fdu EXCEPT !.eof = a, !.watched = a]
           noted == [s EXCEPT !.fdu = fdu]
<1>1. WithEof(s, t) = s \/ WithEof(s, t) = Checked(noted, t)
  <2>1. [s EXCEPT !.fdu.eof = a, !.fdu.watched = a] = noted
    BY DEF Good, SinkFields, InFdu, InFields
  <2>. QED
    BY <2>1 DEF WithEof
<1> HIDE DEF a
<1>3. InFdu(fdu, Size[t]) /\ File(s.dest, Size[t])
  <2>1. {} \in SUBSET Extent(Size[t]) /\ Separate({})
    BY DEF Separate
  <2>2. "none" \in {"none", "dest", "temp"}
    OBVIOUS
  <2>3. InFdu(fdu, Size[t])
    BY <2>1, <2>2, FduWith
  <2>. QED
    BY <2>3 DEF Good
<1> HIDE DEF fdu
<1>4. Good(noted, t)
  BY <1>3, GoodWith
<1> HIDE DEF noted
<1>. QED
  BY <1>1, <1>4, GoodChecked

\* Data over data are data.
LEMMA FileOverwritten ==
    ASSUME NEW N, NEW f, NEW g, File(f, N), File(g, N)
    PROVE  File(Overwritten(f, g), N)
BY DEF File, Overwritten

\* handleFileDataPdu.
LEMMA GoodData ==
    ASSUME NEW t \in AnyTxn, NEW s, Good(s, t), InFdu(s.fdu, Size[t]),
           NEW seg \in Extent(Size[t]), seg.offset < seg.end, NEW opens
    PROVE  Good(HandleData(s, t, seg, opens), t)
<1>0. Size[t] \in Nat
  BY CfdpAssumption
<1>1. CASE Known(s.fdu.extents, seg)
  BY <1>1 DEF HandleData
<1>2. CASE ~Known(s.fdu.extents, seg)
  <2> DEFINE E == Merged(s.fdu.extents, seg)
             W == WrittenAt(s.fdu.extents, seg)
             a == TRUE
             new == NewUnits(s.fdu.extents, seg)
             b == s.fdu.bytesReceived + Cardinality(new)
             k == s.fdu.bytesReceived
             c == s.fdu.inOrder /\ new = k .. k + Cardinality(new) - 1
             w == IF s.fdu.workingFile = "dest" THEN "dest" ELSE "temp"
             fdu == [s.fdu EXCEPT !.watched = a, !.extents = E, !.bytesReceived = b,
                                  !.inOrder = c, !.workingFile = w]
             d == Overwritten(s[w], W)
  <2>1. E \in SUBSET Extent(Size[t]) /\ Separate(E)
    BY <1>0, MergedCovers DEF InFdu
  <2>2. File(W, Size[t])
    BY <1>0, <1>2, WrittenInside DEF InFdu
  <2>3. File(d, Size[t])
    <3>1. File(s.dest, Size[t]) /\ File(s.temp, Size[t])
      BY DEF Good
    <3> HIDE DEF W
    <3>. QED
      BY <2>2, <3>1, FileOverwritten
  <2>4. WithData(s, t, seg) = [s EXCEPT !.fdu = fdu, ![w] = Overwritten(s[w], W)]
    BY DEF WithData, Good, SinkFields
  <2>5. \/ HandleData(s, t, seg, opens) = Checked(WithData(s, t, seg), t)
        \/ HandleData(s, t, seg, opens) = Faulty([s EXCEPT !.fdu.extents = E], t, "reject")
    BY <1>2 DEF HandleData
  <2>6. w = "dest" \/ w = "temp"
    OBVIOUS
  <2> HIDE DEF a, b, c, new, E, W
  <2>7. InFdu(fdu, Size[t])
    <3>1. w \in {"none", "dest", "temp"}
      BY <2>6
    <3> HIDE DEF w
    <3>. QED
      BY <2>1, <3>1, FduWith
  <2>8. Good([s EXCEPT !.fdu.extents = E], t)
    <3> DEFINE f == [s.fdu EXCEPT !.extents = E]
    <3>1. [s EXCEPT !.fdu.extents = E] = [s EXCEPT !.fdu = f]
      BY DEF Good, SinkFields, InFdu, InFields
    <3>2. InFdu(f, Size[t])
      <4>1. "none" \in {"none", "dest", "temp"}
        OBVIOUS
      <4>. QED
        BY <2>1, <4>1, FduWith
    <3> HIDE DEF f
    <3>. QED
      BY <2>3, <3>1, <3>2, GoodWith
  <2> HIDE DEF fdu, d
  <2>9. Good([s EXCEPT !.fdu = fdu, ![w] = d], t)
    <3> HIDE DEF w
    <3>1. CASE w = "dest"
      BY <2>3, <2>7, <3>1, GoodWith
    <3>2. CASE w = "temp"
      BY <2>3, <2>7, <3>2, GoodWith
    <3>. QED
      BY <2>6, <3>1, <3>2
  <2>10. Good(WithData(s, t, seg), t)
    BY <2>4, <2>9 DEF d
  <2>. QED
    BY <2>5, <2>8, <2>10, GoodFaulty, GoodChecked
<1>. QED
  BY <1>1, <1>2

\* The segments that are sent of a file.
Parts(t) == IF t \in Txn THEN {Segments(t)[k] : k \in DOMAIN Segments(t)} ELSE ToSet(ForeignSegs[t])

Pdus(S) == {Metadata(t) : t \in S} \cup {Eof(t) : t \in S}
             \cup UNION {{FileData(t, s) : s \in Parts(t)} : t \in S}

Finished == [txn : Closure, code : {"complete", "incomplete"}]

SinkInv ==
    /\ sink = [t \in AnyTxn |-> sink[t]] /\ delivered \subseteq AnyTxn
    /\ \A t \in AnyTxn : Good(sink[t], t) /\ sink[t].ended = "none" /\ ~sink[t].reply
    /\ finishPdus \in Seq(Finished) /\ back \subseteq Finished

(* What createFDU makes of a file, and what others may: segments that are   *)
(* not empty and within the file.                                           *)
LEMMA PartsFit ==
    ASSUME NEW t \in AnyTxn, NEW s \in Parts(t)
    PROVE  s \in Extent(Size[t]) /\ s.offset < s.end
<1>1. CASE t \in Txn
  <2> DEFINE N == Size[t]
             S == SegSize
             n == (N + S - 1) \div S
  <2>1. N \in Nat /\ S \in Nat /\ S > 0
    BY CfdpAssumption
  <2>2. PICK k \in 1 .. n : s = [offset |-> (k - 1) * S, end |-> Min({k * S, N})]
    BY <1>1 DEF Parts, Segments
  <2>3. n \in Int /\ S * n <= N + S - 1
    BY <2>1
  <2> HIDE DEF N, S, n
  <2>4. k \in Nat /\ k * S \in Nat /\ (k - 1) * S \in Nat /\ k * S = (k - 1) * S + S
    BY <2>1, <2>3
  <2>5. k * S <= S * n
    BY <2>1, <2>3
  <2>6. (k - 1) * S < N
    BY <2>1, <2>3, <2>4, <2>5
  <2> DEFINE a == (k - 1) * S
             b == k * S
             m == Min({b, N})
  <2>7. m = b \/ m = N
    <3>1. {b, N} \in SUBSET (0 .. b + N) /\ b + N \in Nat
      BY <2>1, <2>4
    <3> HIDE DEF b
    <3>. QED
      BY <3>1, MinMax
  <2>8. m <= N
    <3>1. {b, N} \in SUBSET (0 .. b + N) /\ b + N \in Nat
      BY <2>1, <2>4
    <3> HIDE DEF b
    <3>. QED
      BY <3>1, MinMax
  <2>9. a \in 0 .. N /\ m \in 0 .. N /\ a < m
    BY <2>1, <2>4, <2>6, <2>7, <2>8
  <2> HIDE DEF a, b, m
  <2>10. s = [offset |-> a, end |-> m]
    BY <2>2 DEF a, b, m
  <2>. QED
    BY <2>9, <2>10 DEF Extent, N
<1>2. CASE t \notin Txn
  BY <1>2, CfdpAssumption DEF Parts, AnyTxn
<1>. QED
  BY <1>1, <1>2

\* cfdpHandleInboundPdu, whatever arrives.
LEMMA GoodHandled ==
    ASSUME NEW p \in Pdus(AnyTxn), NEW opens, Good(sink[p.txn], p.txn)
    PROVE  p.txn \in AnyTxn /\ Good(Handled(p, opens), p.txn)
<1>1. /\ p.txn \in AnyTxn /\ p.kind \in {"metadata", "data", "eof"}
      /\ p.kind = "data" => p.seg \in Parts(p.txn)
  BY DEF Pdus, Metadata, Eof, FileData
<1> DEFINE t == p.txn
           s == Found(sink[t])
<1>2. Good(s, t) /\ InFdu(s.fdu, Size[t])
  <2>1. InFdu(NewInFdu, Size[t])
    BY DEF InFdu, InFields, NewInFdu, Separate
  <2>2. CASE sink[t].fdu = NoFdu
    <3>1. s = [sink[t] EXCEPT !.fdu = NewInFdu]
      BY <2>2 DEF Found
    <3>2. File(sink[t].dest, Size[t])
      BY DEF Good
    <3>3. Good(s, t)
      <4>1. Good(sink[t], t)
        OBVIOUS
      <4> HIDE DEF s, t
      <4>2. Good([sink[t] EXCEPT !.fdu = NewInFdu], t)
        BY <2>1, <3>2, <4>1, GoodWith
      <4>. QED
        BY <3>1, <4>2
    <3>4. s.fdu = NewInFdu
      BY <3>1 DEF Good, SinkFields
    <3>. QED
      BY <2>1, <3>3, <3>4
  <2>3. CASE sink[t].fdu # NoFdu
    BY <2>3 DEF Found, Good
  <2>. QED
    BY <2>2, <2>3
<1>3. CASE p.kind = "metadata"
  BY <1>1, <1>2, <1>3, GoodMetadata DEF Handled
<1>4. CASE p.kind = "eof"
  BY <1>1, <1>2, <1>4, GoodEof DEF Handled
<1>5. CASE p.kind = "data"
  <2>1. p.seg \in Extent(Size[t]) /\ p.seg.offset < p.seg.end
    BY <1>1, <1>5, PartsFit
  <2>2. Handled(p, opens) = HandleData(s, t, p.seg, opens)
    BY <1>5 DEF Handled
  <2> HIDE DEF s
  <2>. QED
    BY <1>1, <1>2, <2>1, <2>2, GoodData
<1>. QED
  BY <1>1, <1>3, <1>4, <1>5

\* scanInFdus.
LEMMA GoodScanned ==
    ASSUME NEW t \in AnyTxn, NEW s, Good(s, t), s.fdu # NoFdu, NEW quiet, NEW late
    PROVE  Good(Scanned(s, t, quiet, late), t)
<1> DEFINE first == IF quiet /\ s.fdu.watched THEN Unwatched(s, t) ELSE s
           second == IF late THEN Counted(first) ELSE first
<1>0. File(s.dest, Size[t])
  BY DEF Good
<1>1. Good(first, t)
  <2> DEFINE b == FALSE
             f == [s.fdu EXCEPT !.watched = b]
             r == [s EXCEPT !.fdu.watched = b]
  <2>1. InFdu(s.fdu, Size[t])
    BY DEF Good
  <2>2. r = [s EXCEPT !.fdu = f]
    BY <2>1 DEF Good, SinkFields, InFdu, InFields
  <2>3. first = s \/ first = Faulty(r, t, "inactive")
    BY DEF Unwatched
  <2> HIDE DEF b, r
  <2>4. InFdu(f, Size[t])
    <3>1. {} \in SUBSET Extent(Size[t]) /\ Separate({}) /\ "none" \in {"none", "dest", "temp"}
      BY DEF Separate
    <3>. QED
      BY <2>1, <3>1, FduWith
  <2> HIDE DEF f, first
  <2>5. Good(r, t)
    BY <1>0, <2>2, <2>4, GoodWith
  <2>. QED
    BY <2>3, <2>5, GoodFaulty
<1>2. Scanned(s, t, quiet, late) = first \/ Scanned(s, t, quiet, late) = Limited(second, t)
  BY DEF Scanned
<1> HIDE DEF first
<1>3. first.fdu # NoFdu => Good(second, t)
  <2> SUFFICES ASSUME first.fdu # NoFdu PROVE Good(second, t)
    OBVIOUS
  <2> DEFINE k == first.fdu.checkTimeouts + 1
             f == [first.fdu EXCEPT !.checkTimeouts = k]
             r == [first EXCEPT !.fdu.checkTimeouts = k]
  <2>1. InFdu(first.fdu, Size[t]) /\ File(first.dest, Size[t])
    BY <1>1 DEF Good
  <2>2. r = [first EXCEPT !.fdu = f]
    BY <1>1, <2>1 DEF Good, SinkFields, InFdu, InFields
  <2>3. second = first \/ second = r
    BY <1>1, <2>1 DEF Counted, Good, SinkFields, InFdu, InFields
  <2> HIDE DEF k, r
  <2>4. InFdu(f, Size[t])
    <3>1. {} \in SUBSET Extent(Size[t]) /\ Separate({}) /\ "none" \in {"none", "dest", "temp"}
      BY DEF Separate
    <3>. QED
      BY <2>1, <3>1, FduWith
  <2> HIDE DEF f, second
  <2>5. Good(r, t)
    BY <1>1, <2>1, <2>2, <2>4, GoodWith
  <2>. QED
    BY <1>1, <2>3, <2>5
<1>4. first.fdu # NoFdu => Good(Limited(second, t), t)
  <2> HIDE DEF second
  <2>. QED
    BY <1>3, GoodFaulty DEF Limited
<1>5. first.fdu = NoFdu => Scanned(s, t, quiet, late) = first
  BY DEF Scanned, first
<1>. QED
  BY <1>1, <1>2, <1>4, <1>5

(* A list of a finite set's elements has nothing else in it.  *)
LEMMA SetToSeqIn ==
    ASSUME NEW S, NEW F \in SUBSET S, IsFiniteSet(F)
    PROVE  SetToSeq(F) \in Seq(S)
<1> DEFINE n == Cardinality(F)
<1>1. n \in Nat /\ ExistsBijection(1 .. n, F)
  BY FS_CardinalityType
<1>2. \E f \in [1 .. n -> F] : IsInjective(f)
  BY <1>1 DEF ExistsBijection, Bijection, Injection
<1>3. SetToSeq(F) \in [1 .. n -> F]
  BY <1>2 DEF SetToSeq
<1> HIDE DEF n
<1>. QED
  BY <1>1, <1>3

\* How an FDU ends and is forgotten.
LEMMA GoodRests ==
    ASSUME NEW t, NEW s, Good(s, t), NEW r, ~r
    PROVE  LET n == [s EXCEPT !.ended = "none", !.reply = r]
           IN  Good(n, t) /\ n.ended = "none" /\ ~n.reply
BY DEF Good, SinkFields

(* Whatever becomes of some of the transactions, if each is good.  *)
LEMMA SinkStep ==
    ASSUME SinkInv, NEW new, DOMAIN new \subseteq AnyTxn, \A t \in DOMAIN new : Good(new[t], t),
           SinkBecomes(new), UNCHANGED back
    PROVE  SinkInv'
<1> DEFINE T == DOMAIN new
           no == FALSE
           ends == {t \in T : new[t].ended # "none"}
           U == {u \in ends : new[u].reply}
           reply == [t \in U |->
                        [txn |-> t, code |-> IF new[t].ended = "complete"
                                             THEN "complete" ELSE "incomplete"]]
           F == {reply[t] : t \in U}
<1>1. /\ sink' = [t \in AnyTxn |-> IF t \in T
                       THEN [new[t] EXCEPT !.ended = "none", !.reply = no] ELSE sink[t]]
      /\ delivered' = delivered \cup {t \in ends : new[t].ended = "complete"}
  BY DEF SinkBecomes
<1>2. finishPdus' = finishPdus \o SetToSeq(F)
  <2>1. F = {[txn |-> t, code |-> IF new[t].ended = "complete"
                                  THEN "complete" ELSE "incomplete"] :
                t \in {u \in ends : new[u].reply}}
    OBVIOUS
  <2>. QED
    BY <2>1 DEF SinkBecomes
<1>3. F \in SUBSET Finished
  <2> SUFFICES ASSUME NEW t \in U PROVE reply[t] \in Finished
    OBVIOUS
  <2>1. t \in Closure
    BY DEF Good
  <2>. QED
    BY <2>1 DEF Finished
<1>4. IsFiniteSet(F)
  <2>1. IsFiniteSet(U)
    <3>1. IsFiniteSet(AnyTxn) /\ U \in SUBSET AnyTxn
      BY CfdpAssumption
    <3>. QED
      BY <3>1, FS_Subset
  <2>2. reply \in Surjection(U, F)
    BY DEF Surjection
  <2> HIDE DEF U, F, reply
  <2>. QED
    BY <2>1, <2>2, FS_Surjection
<1> HIDE DEF F
<1>5. finishPdus' \in Seq(Finished)
  <2>1. SetToSeq(F) \in Seq(Finished)
    BY <1>3, <1>4, SetToSeqIn
  <2>. QED
    BY <1>2, <2>1 DEF SinkInv
<1>6. delivered' \subseteq AnyTxn
  BY <1>1 DEF SinkInv
<1>7. ~no
  OBVIOUS
<1> HIDE DEF no, U, ends
<1>8. ASSUME NEW t \in AnyTxn
      PROVE  Good(sink'[t], t) /\ sink'[t].ended = "none" /\ ~sink'[t].reply
  <2>1. CASE t \in T
    <3>1. sink'[t] = [new[t] EXCEPT !.ended = "none", !.reply = no]
      BY <1>1, <2>1
    <3>2. Good(new[t], t)
      BY <2>1
    <3> DEFINE m == new[t]
    <3>3. Good(m, t) /\ sink'[t] = [m EXCEPT !.ended = "none", !.reply = no]
      BY <3>1, <3>2
    <3> HIDE DEF T, m
    <3> DEFINE n == [m EXCEPT !.ended = "none", !.reply = no]
    <3>4. Good(n, t) /\ n.ended = "none" /\ ~n.reply
      BY <1>7, <3>3, GoodRests
    <3>5. sink'[t] = n
      BY <3>3
    <3> HIDE DEF n
    <3>. QED
      BY <3>4, <3>5
  <2>2. CASE t \notin T
    BY <1>1, <2>2 DEF SinkInv
  <2>. QED
    BY <2>1, <2>2
<1>9. sink' = [t \in AnyTxn |-> sink'[t]]
  BY <1>1
<1>. QED
  BY <1>5, <1>6, <1>8, <1>9 DEF SinkInv

-----------------------------------------------------------------------------
(* Types.                                                                    *)

\* What is sent of a file, and on its way.
SourceInv ==
    /\ bp \in Seq(Pdus(Txn)) /\ net \subseteq Pdus(AnyTxn)
    /\ \A t \in Txn : Out(t) => out[t].segments \in Seq(Parts(t)) /\ out[t].xmit \in 0 .. Size[t]

\* The list names each FDU that there is, once.
ListInv ==
    /\ outbound \in Seq(Txn)
    /\ \A i, j \in DOMAIN outbound : outbound[i] = outbound[j] => i = j
    /\ \A t \in Txn : Out(t) <=> \E i \in DOMAIN outbound : outbound[i] = t

\* An FDU is reported when it is canceled, and at its end, and never again.
Notices(t, f) ==
    (IF f.state = "canceled" THEN 1 ELSE 0)
      + (IF f.finished \/ (t \notin Closure /\ f.transmitted) THEN 1 ELSE 0)

ToldInv ==
    \A t \in Txn :
        /\ told[t] \in 0 .. 2
        /\ Out(t) => told[t] <= Notices(t, out[t]) /\ (out[t].finished => t \in Closure)
        /\ ~Out(t) /\ t \notin spent.put => told[t] = 0

\* A step that leaves alone what is in the lists and what has yet to be sent.
Steady ==
    /\ UNCHANGED <<bp, outbound>> /\ net' \subseteq net
    /\ \A t \in Txn : /\ Out(t)' <=> Out(t)
                      /\ Out(t) => out'[t].segments = out[t].segments /\ out'[t].xmit = out[t].xmit

\* Such a step disturbs neither.
LEMMA SteadyStep == SourceInv /\ ListInv /\ Steady => SourceInv' /\ ListInv'
BY DEF SourceInv, ListInv, Steady

\* Some FDUs become other ones.
LEMMA Becoming ==
    ASSUME ClosureInv, NEW f, out' = f, UNCHANGED <<bp, outbound>>, net' \subseteq net,
           \A t \in Txn : Out(t) => /\ OutFdu(f[t]) /\ f[t].segments = out[t].segments
                                    /\ f[t].xmit = out[t].xmit,
           \A t \in Txn : ~Out(t) => f[t] = out[t]
    PROVE  Steady
<1>1. \A t \in Txn : Out(t)' <=> f[t].state # "none"
  BY DEF Out
<1>2. \A t \in Txn : OutFdu(f[t]) => f[t].state # "none"
  BY DEF OutFdu
<1>. QED
  BY <1>1, <1>2 DEF Steady, Out

(* cfdp_cancel, cfdp_suspend, cfdp_resume. *)
LEMMA UserSteady ==
    ASSUME ClosureInv, ToldInv, NEW t \in Txn, Cancel(t) \/ Suspend(t) \/ Resume(t)
    PROVE  Steady /\ ToldInv'
<1>1. PICK s \in {"active", "suspended", "canceled"} :
          /\ out' = [out EXCEPT ![t].state = s]
          /\ out[t].state \in {"active", "suspended"}
          /\ IF s = "canceled" THEN told' = [told EXCEPT ![t] = @ + 1] ELSE told' = told
  BY DEF Cancel, Suspend, Resume, Tell
<1> DEFINE f == [out[t] EXCEPT !.state = s]
           g == [out EXCEPT ![t] = f]
<1>2. out' = g /\ Out(t) /\ out = [u \in Txn |-> out[u]] /\ told \in [Txn -> Nat]
  BY <1>1 DEF Out, ClosureInv, OutTypes
<1>3. OutFdu(out[t])
  BY <1>2, FduKnown
<1>4. /\ OutFdu(f) /\ f.segments = out[t].segments /\ f.xmit = out[t].xmit
      /\ f.finished = out[t].finished /\ f.transmitted = out[t].transmitted /\ f.state = s
  BY <1>3 DEF OutFdu, FduFields
<1>5. \A u \in Txn : Out(u) => OutFdu(out[u])
  BY FduKnown
<1>6. spent'.put = spent.put
  <2>1. DOMAIN spent = {"put", "cancels", "suspends", "dups", "opens"}
    BY DEF ClosureInv, OutTypes
  <2>. QED
    BY <2>1 DEF Cancel, Suspend, Resume
<1> HIDE DEF f
<1>7. \A u \in Txn : g[u] = IF u = t THEN f ELSE out[u]
  BY <1>2
<1> HIDE DEF g
<1>8. Steady
  <2>1. UNCHANGED <<bp, outbound>> /\ net' \subseteq net
    BY DEF Cancel, Suspend, Resume
  <2>2. \A u \in Txn : Out(u) => /\ OutFdu(g[u]) /\ g[u].segments = out[u].segments
                                 /\ g[u].xmit = out[u].xmit
    BY <1>4, <1>5, <1>7
  <2>3. \A u \in Txn : ~Out(u) => g[u] = out[u]
    BY <1>2, <1>7
  <2>. QED
    BY <1>2, <2>1, <2>2, <2>3, Becoming
<1>9. \A u \in Txn : told'[u] = IF u = t /\ s = "canceled" THEN told[u] + 1 ELSE told[u]
  BY <1>1, <1>2
<1>10. ToldInv'
  <2> SUFFICES ASSUME NEW u \in Txn
               PROVE  /\ told'[u] \in 0 .. 2
                      /\ Out(u)' => told'[u] <= Notices(u, out'[u])
                      /\ Out(u)' /\ out'[u].finished => u \in Closure
                      /\ ~Out(u)' /\ u \notin spent.put => told'[u] = 0
    BY <1>6 DEF ToldInv, Notices
  <2>1. CASE u = t
    <3>1. out'[u] = f /\ Out(u)'
      BY <1>2, <1>7, <2>1, <1>8 DEF Steady
    <3>2. /\ told[t] \in 0 .. 2 /\ told[t] <= Notices(t, out[t]) /\ (out[t].finished => t \in Closure)
          /\ out[t].state # "canceled"
      BY <1>1, <1>2 DEF ToldInv
    <3>. QED
      BY <1>4, <1>9, <2>1, <3>1, <3>2 DEF Notices
  <2>2. CASE u # t
    <3>1. out'[u] = out[u] /\ told'[u] = told[u] /\ (Out(u)' <=> Out(u))
      BY <1>2, <1>7, <1>8, <1>9, <2>2 DEF Steady
    <3>. QED
      BY <3>1 DEF ToldInv
  <2>. QED
    BY <2>1, <2>2
<1>. QED
  BY <1>8, <1>10

\* handleFinishPdu.
LEMMA FinishSteady ==
    ASSUME ClosureInv, ToldInv, NEW p \in Finished, NEW again, HandleFinishPdu(p, again)
    PROVE  Steady /\ ToldInv'
<1> DEFINE t == p.txn
           f == [out[t] EXCEPT !.finished = TRUE, !.pending = FALSE]
           g == [out EXCEPT ![t] = f]
<1>0. t \in Txn /\ out = [u \in Txn |-> out[u]] /\ told \in [Txn -> Nat]
  BY CfdpAssumption DEF Finished, ClosureInv, OutTypes
<1>1. UNCHANGED <<bp, outbound, net>> /\ spent'.put = spent.put
  <2>1. DOMAIN spent = {"put", "cancels", "suspends", "dups", "opens"}
    BY DEF ClosureInv, OutTypes
  <2>. QED
    BY <2>1 DEF HandleFinishPdu
<1>2. CASE ~Closes(t)
  BY <1>1, <1>2 DEF HandleFinishPdu, Steady, ToldInv, Out
<1>3. CASE Closes(t)
  <2>1. /\ out' = g /\ told' = [told EXCEPT ![t] = @ + 1] /\ Out(t) /\ t \in Closure
        /\ ~out[t].finished
    BY <1>0, <1>3 DEF HandleFinishPdu, Tell, Closes
  <2>2. OutFdu(out[t])
    BY <1>0, <2>1, FduKnown
  <2>3. /\ OutFdu(f) /\ f.segments = out[t].segments /\ f.xmit = out[t].xmit
        /\ f.finished /\ f.state = out[t].state
    BY <2>2 DEF OutFdu, FduFields
  <2>4. \A u \in Txn : Out(u) => OutFdu(out[u])
    BY FduKnown
  <2> HIDE DEF f, t
  <2>5. \A u \in Txn : g[u] = IF u = t THEN f ELSE out[u]
    BY <1>0
  <2> HIDE DEF g
  <2>6. Steady
    <3>2. \A u \in Txn : Out(u) => /\ OutFdu(g[u]) /\ g[u].segments = out[u].segments
                                   /\ g[u].xmit = out[u].xmit
      BY <2>3, <2>4, <2>5
    <3>3. \A u \in Txn : ~Out(u) => g[u] = out[u]
      BY <2>1, <2>5
    <3>. QED
      BY <1>1, <2>1, <3>2, <3>3, Becoming
  <2>7. \A u \in Txn : told'[u] = IF u = t THEN told[u] + 1 ELSE told[u]
    BY <1>0, <2>1
  <2>8. ToldInv'
    <3> SUFFICES ASSUME NEW u \in Txn
                 PROVE  /\ told'[u] \in 0 .. 2
                        /\ Out(u)' => told'[u] <= Notices(u, out'[u])
                        /\ Out(u)' /\ out'[u].finished => u \in Closure
                        /\ ~Out(u)' /\ u \notin spent.put => told'[u] = 0
      BY <1>1 DEF ToldInv, Notices
    <3>1. CASE u = t
      <4>1. out'[u] = f /\ Out(u)'
        BY <2>1, <2>5, <2>6, <3>1 DEF Steady
      <4>2. /\ told[t] \in 0 .. 2 /\ told[t] <= Notices(t, out[t])
        BY <1>0, <2>1 DEF ToldInv
      <4>. QED
        BY <2>1, <2>3, <2>7, <3>1, <4>1, <4>2 DEF Notices
    <3>2. CASE u # t
      <4>1. out'[u] = out[u] /\ told'[u] = told[u] /\ (Out(u)' <=> Out(u))
        BY <2>1, <2>5, <2>6, <2>7, <3>2 DEF Steady
      <4>. QED
        BY <4>1 DEF ToldInv
    <3>. QED
      BY <3>1, <3>2
  <2>. QED
    BY <2>6, <2>8
<1>. QED
  BY <1>2, <1>3

(* The deadlines of Finished PDUs. *)
LEMMA OverdueSteady ==
    ASSUME ClosureInv, ToldInv, NEW due \in SUBSET Txn, ScanFinsPending(due)
    PROVE  Steady /\ ToldInv'
<1> DEFINE f(t) == [out[t] EXCEPT !.finished = TRUE, !.pending = FALSE]
           g == [t \in Txn |-> IF t \in due THEN f(t) ELSE out[t]]
<1>1. /\ out' = g /\ UNCHANGED <<bp, outbound, net, spent>>
      /\ \A t \in due : Out(t) /\ out[t].pending
      /\ told' = [t \in Txn |-> IF t \in due THEN told[t] + 1 ELSE told[t]]
  BY DEF ScanFinsPending
<1>2. \A t \in due : t \in Closure /\ ~out[t].finished
  BY <1>1, FduKnown DEF OutFdu
<1>3. \A t \in Txn : Out(t) => OutFdu(out[t])
  BY FduKnown
<1>4. ASSUME NEW t \in Txn, Out(t)
      PROVE  /\ OutFdu(f(t)) /\ f(t).segments = out[t].segments /\ f(t).xmit = out[t].xmit
             /\ f(t).finished /\ f(t).state = out[t].state
  BY <1>3, <1>4 DEF OutFdu, FduFields
<1> HIDE DEF f
<1>5. \A t \in Txn : g[t] = IF t \in due THEN f(t) ELSE out[t]
  OBVIOUS
<1> HIDE DEF g
<1>6. Steady
  <2>1. \A t \in Txn : Out(t) => /\ OutFdu(g[t]) /\ g[t].segments = out[t].segments
                                 /\ g[t].xmit = out[t].xmit
    BY <1>3, <1>4, <1>5
  <2>2. \A t \in Txn : ~Out(t) => g[t] = out[t]
    BY <1>1, <1>5
  <2>. QED
    BY <1>1, <2>1, <2>2, Becoming
<1>7. ToldInv'
  <2> SUFFICES ASSUME NEW t \in Txn
               PROVE  /\ told'[t] \in 0 .. 2
                      /\ Out(t)' => told'[t] <= Notices(t, out'[t])
                      /\ Out(t)' /\ out'[t].finished => t \in Closure
                      /\ ~Out(t)' /\ t \notin spent.put => told'[t] = 0
    BY <1>1 DEF ToldInv, Notices
  <2>1. CASE t \in due
    <3>1. out'[t] = f(t) /\ Out(t)' /\ told'[t] = told[t] + 1 /\ Out(t)
      BY <1>1, <1>5, <1>6, <2>1 DEF Steady
    <3>2. told[t] \in 0 .. 2 /\ told[t] <= Notices(t, out[t])
      BY <3>1 DEF ToldInv
    <3>. QED
      BY <1>2, <1>4, <2>1, <3>1, <3>2 DEF Notices
  <2>2. CASE t \notin due
    <3>1. out'[t] = out[t] /\ told'[t] = told[t] /\ (Out(t)' <=> Out(t))
      BY <1>1, <1>5, <1>6, <2>2 DEF Steady
    <3>. QED
      BY <3>1 DEF ToldInv
  <2>. QED
    BY <2>1, <2>2
<1>. QED
  BY <1>6, <1>7

\* createFDU cuts a file into its parts.
LEMMA SegmentsOf ==
    ASSUME NEW t \in Txn
    PROVE  Segments(t) \in Seq(Parts(t)) /\ Size[t] \in Nat
<1> DEFINE n == (Size[t] + SegSize - 1) \div SegSize
<1>1. Size[t] \in Nat /\ n \in Nat
  <2>1. Size[t] \in Nat /\ SegSize \in Nat /\ SegSize > 0
    BY CfdpAssumption DEF AnyTxn
  <2>. QED
    BY <2>1
<1>2. DOMAIN Segments(t) = 1 .. n /\ Segments(t) = [k \in 1 .. n |-> Segments(t)[k]]
  BY DEF Segments
<1>3. Parts(t) = {Segments(t)[k] : k \in 1 .. n}
  BY <1>2 DEF Parts
<1> HIDE DEF n
<1>4. Segments(t) \in [1 .. n -> Parts(t)]
  BY <1>2, <1>3, Zenon
<1>. QED
  BY <1>1, <1>4

\* createFDU.
LEMMA PutTypes ==
    ASSUME ClosureInv, SourceInv, ListInv, ToldInv, NEW t \in Txn, Put(t)
    PROVE  SourceInv' /\ ListInv' /\ ToldInv'
<1> DEFINE f == NewOutFdu(t)
           g == [out EXCEPT ![t] = f]
<1>1. /\ ~Out(t) /\ t \notin spent.put /\ out' = g /\ outbound' = Append(outbound, t)
      /\ UNCHANGED <<bp, net, told>> /\ spent'.put = spent.put \cup {t}
  <2>1. DOMAIN spent = {"put", "cancels", "suspends", "dups", "opens"}
    BY DEF ClosureInv, OutTypes
  <2>. QED
    BY <2>1 DEF Put, Out
<1>2. /\ f.state = "active" /\ f.segments = Segments(t) /\ f.xmit = 0
      /\ ~f.transmitted /\ ~f.finished
  BY DEF NewOutFdu
<1> HIDE DEF f
<1>3. \A u \in Txn : g[u] = IF u = t THEN f ELSE out[u]
  BY DEF ClosureInv, OutTypes
<1> HIDE DEF g
<1>4. \A u \in Txn : Out(u)' <=> (u = t \/ Out(u))
  BY <1>1, <1>2, <1>3 DEF Out
<1>5. SourceInv'
  <2> SUFFICES ASSUME NEW u \in Txn, Out(u)'
               PROVE  out'[u].segments \in Seq(Parts(u)) /\ out'[u].xmit \in 0 .. Size[u]
    BY <1>1 DEF SourceInv
  <2>1. CASE u = t
    BY <1>1, <1>2, <1>3, <2>1, SegmentsOf
  <2>2. CASE u # t
    BY <1>1, <1>3, <1>4, <2>2 DEF SourceInv
  <2>. QED
    BY <2>1, <2>2
<1>6. ListInv'
  <2>1. \A i \in DOMAIN outbound : outbound[i] # t
    BY <1>1 DEF ListInv
  <2>2. /\ outbound' \in Seq(Txn) /\ DOMAIN outbound' = 1 .. Len(outbound) + 1
        /\ DOMAIN outbound = 1 .. Len(outbound) /\ Len(outbound) \in Nat
        /\ \A i \in DOMAIN outbound' : outbound'[i] = IF i = Len(outbound) + 1 THEN t ELSE outbound[i]
    BY <1>1 DEF ListInv
  <2>3. \A i \in DOMAIN outbound' : i = Len(outbound) + 1 \/ i \in DOMAIN outbound
    BY <2>2
  <2>4. \A i, j \in DOMAIN outbound' : outbound'[i] = outbound'[j] => i = j
    BY <2>1, <2>2, <2>3 DEF ListInv
  <2>5. ASSUME NEW u \in Txn
        PROVE  Out(u)' <=> \E i \in DOMAIN outbound' : outbound'[i] = u
    <3>1. Out(u) <=> \E i \in DOMAIN outbound : outbound[i] = u
      BY DEF ListInv
    <3>2. \A i \in DOMAIN outbound : i \in DOMAIN outbound' /\ outbound'[i] = outbound[i]
      BY <2>2
    <3>3. Len(outbound) + 1 \in DOMAIN outbound' /\ outbound'[Len(outbound) + 1] = t
      BY <2>2
    <3>. QED
      BY <1>4, <2>2, <2>3, <3>1, <3>2, <3>3
  <2>. QED
    BY <2>2, <2>4, <2>5 DEF ListInv
<1>7. ToldInv'
  <2> SUFFICES ASSUME NEW u \in Txn
               PROVE  /\ told[u] \in 0 .. 2
                      /\ Out(u)' => told[u] <= Notices(u, out'[u])
                      /\ Out(u)' /\ out'[u].finished => u \in Closure
                      /\ ~Out(u)' /\ u \notin spent.put \cup {t} => told[u] = 0
    BY <1>1 DEF ToldInv, Notices
  <2>1. CASE u = t
    <3>1. told[t] = 0 /\ out'[u] = f
      BY <1>1, <1>3, <2>1 DEF ToldInv
    <3>. QED
      BY <1>1, <1>2, <1>4, <2>1, <3>1 DEF Notices
  <2>2. CASE u # t
    <3>1. out'[u] = out[u] /\ (Out(u)' <=> Out(u))
      BY <1>1, <1>3, <1>4, <2>2
    <3>. QED
      BY <2>2, <3>1 DEF ToldInv
  <2>. QED
    BY <2>1, <2>2
<1>. QED
  BY <1>5, <1>6, <1>7

(* One FDU has sent more; nothing else of it changes.  *)
LEMMA SendingTypes ==
    ASSUME ClosureInv, ListInv, ToldInv, NEW t \in Txn, NEW f, OutFdu(f), Out(t),
           out' = [out EXCEPT ![t] = f], UNCHANGED <<outbound, told, spent>>,
           f.state = out[t].state, f.transmitted = out[t].transmitted, f.finished = out[t].finished
    PROVE  /\ ListInv' /\ ToldInv'
           /\ \A u \in Txn : (Out(u)' <=> Out(u)) /\ out'[u] = IF u = t THEN f ELSE out[u]
<1>1. \A u \in Txn : out'[u] = IF u = t THEN f ELSE out[u]
  BY DEF ClosureInv, OutTypes
<1>2. \A u \in Txn : Out(u)' <=> Out(u)
  BY <1>1 DEF Out
<1>3. ListInv'
  BY <1>2 DEF ListInv
<1>4. \A u \in Txn : Notices(u, out'[u]) = Notices(u, out[u]) /\ out'[u].finished = out[u].finished
  BY <1>1 DEF Notices
<1>5. ToldInv'
  BY <1>2, <1>4 DEF ToldInv, Notices
<1>. QED
  BY <1>1, <1>2, <1>3, <1>5

\* selectOutPdu: the next PDU of an FDU that there is.
LEMMA SendTypes ==
    ASSUME ClosureInv, SourceInv, ListInv, ToldInv, SendPdu
    PROVE  SourceInv' /\ ListInv' /\ ToldInv'
<1>1. PICK i \in DOMAIN outbound :
          /\ Ready(outbound[i]) /\ bp' = Append(bp, NextPdu(outbound[i]))
          /\ out' = [out EXCEPT ![outbound[i]] = AfterPdu(@)]
          /\ UNCHANGED <<outbound, net, told, spent>>
  BY DEF SendPdu
<1> DEFINE t == outbound[i]
           f == AfterPdu(out[t])
<1>2. t \in Txn /\ Out(t) /\ out' = [out EXCEPT ![t] = f]
  <2>1. t \in Txn
    BY DEF ListInv
  <2>2. Out(t)
    BY <1>1 DEF Ready, Out
  <2>. QED
    BY <1>1, <2>1, <2>2 DEF ClosureInv, OutTypes
<1> HIDE DEF t
<1>3. OutFdu(out[t]) /\ out[t].segments \in Seq(Parts(t)) /\ out[t].xmit \in 0 .. Size[t]
  BY <1>2, FduKnown DEF SourceInv
<1>4. /\ OutFdu(f) /\ f.state = out[t].state /\ f.transmitted = out[t].transmitted
      /\ f.finished = out[t].finished /\ f.xmit = out[t].xmit /\ f.segments \in Seq(Parts(t))
  <2>1. CASE out[t].metadata
    BY <1>3, <2>1 DEF OutFdu, FduFields, AfterPdu
  <2>2. CASE ~out[t].metadata /\ out[t].segments # <<>>
    <3> DEFINE r == Tail(out[t].segments)
    <3>1. r \in Seq(Parts(t)) /\ f = [out[t] EXCEPT !.segments = r]
      BY <1>3, <2>2 DEF AfterPdu
    <3> HIDE DEF r, f
    <3>. QED
      BY <1>3, <3>1 DEF OutFdu, FduFields
  <2>3. CASE ~out[t].metadata /\ out[t].segments = <<>>
    BY <1>3, <2>3 DEF OutFdu, FduFields, AfterPdu
  <2>. QED
    BY <2>1, <2>2, <2>3
<1> HIDE DEF f
<1>5. NextPdu(t) \in Pdus(Txn)
  <2>1. CASE out[t].metadata
    BY <1>2, <2>1 DEF NextPdu, Pdus
  <2>2. CASE ~out[t].metadata /\ out[t].segments # <<>>
    <3>1. Head(out[t].segments) \in Parts(t)
      BY <1>3, <2>2
    <3>. QED
      BY <1>2, <2>2, <3>1 DEF NextPdu, Pdus
  <2>3. CASE ~out[t].metadata /\ out[t].segments = <<>>
    BY <1>2, <2>3 DEF NextPdu, Pdus
  <2>. QED
    BY <2>1, <2>2, <2>3
<1>6. /\ ListInv' /\ ToldInv'
      /\ \A u \in Txn : (Out(u)' <=> Out(u)) /\ out'[u] = IF u = t THEN f ELSE out[u]
  BY <1>1, <1>2, <1>4, SendingTypes
<1>7. bp' \in Seq(Pdus(Txn)) /\ net' \subseteq Pdus(AnyTxn)
  BY <1>1, <1>5 DEF SourceInv, t
<1>8. \A u \in Txn : Out(u)' => out'[u].segments \in Seq(Parts(u)) /\ out'[u].xmit \in 0 .. Size[u]
  BY <1>3, <1>4, <1>6 DEF SourceInv
<1>. QED
  BY <1>6, <1>7, <1>8 DEF SourceInv

\* What a PDU says.
LEMMA PdusKnown ==
    ASSUME NEW S, NEW p \in Pdus(S)
    PROVE  /\ p.txn \in S /\ p.kind \in {"metadata", "data", "eof"}
           /\ p.kind = "data" => p.seg \in Parts(p.txn)
BY DEF Pdus, Metadata, Eof, FileData

\* The link service reads no further than the end of the file.
LEMMA TransmitTypes ==
    ASSUME ClosureInv, SourceInv, ListInv, ToldInv, Transmit
    PROVE  SourceInv' /\ ListInv' /\ ToldInv'
<1> DEFINE p == Head(bp)
           t == p.txn
           x == Max({out[t].xmit, p.seg.end})
           f == [out[t] EXCEPT !.xmit = x]
<1>1. bp' \in Seq(Pdus(Txn)) /\ p \in Pdus(Txn) /\ net' = net \cup {p}
      /\ UNCHANGED <<outbound, told, spent>>
      /\ out' = IF p.kind = "data" /\ Out(t) THEN [out EXCEPT ![t] = f] ELSE out
  BY DEF Transmit, SourceInv, ClosureInv, OutTypes
<1>2. net' \subseteq Pdus(AnyTxn)
  BY <1>1 DEF SourceInv, Pdus, AnyTxn
<1>3. CASE ~(p.kind = "data" /\ Out(t))
  <2>1. out' = out
    BY <1>1, <1>3
  <2>. QED
    BY <1>1, <1>2, <2>1 DEF SourceInv, ListInv, ToldInv, Out
<1>4. CASE p.kind = "data" /\ Out(t)
  <2>1. t \in Txn /\ t \in AnyTxn /\ p.seg \in Parts(t)
    BY <1>1, <1>4, PdusKnown DEF AnyTxn
  <2>2. p.seg.end \in 0 .. Size[t] /\ Size[t] \in Nat
    <3>1. p.seg \in Extent(Size[t])
      BY <2>1, PartsFit
    <3>. QED
      BY <2>1, <3>1, CfdpAssumption DEF Extent
  <2>3. OutFdu(out[t]) /\ out[t].segments \in Seq(Parts(t)) /\ out[t].xmit \in 0 .. Size[t]
    BY <1>4, <2>1, FduKnown DEF SourceInv
  <2>4. x \in 0 .. Size[t]
    <3> DEFINE S == {out[t].xmit, p.seg.end}
    <3>1. S \in SUBSET (0 .. Size[t]) /\ S # {}
      BY <2>2, <2>3
    <3> HIDE DEF S
    <3>2. Max(S) \in S
      BY <2>2, <3>1, MinMax
    <3>. QED
      BY <3>1, <3>2 DEF S
  <2>5. out' = [out EXCEPT ![t] = f]
    BY <1>1, <1>4
  <2> HIDE DEF x
  <2>6. /\ OutFdu(f) /\ f.state = out[t].state /\ f.transmitted = out[t].transmitted
        /\ f.finished = out[t].finished /\ f.xmit = x /\ f.segments = out[t].segments
    BY <2>3 DEF OutFdu, FduFields
  <2> HIDE DEF f, t, p
  <2>7. /\ ListInv' /\ ToldInv'
        /\ \A u \in Txn : (Out(u)' <=> Out(u)) /\ out'[u] = IF u = t THEN f ELSE out[u]
    BY <1>1, <1>4, <2>1, <2>5, <2>6, SendingTypes
  <2>8. \A u \in Txn : Out(u)' => out'[u].segments \in Seq(Parts(u)) /\ out'[u].xmit \in 0 .. Size[u]
    BY <2>3, <2>4, <2>6, <2>7 DEF SourceInv
  <2>. QED
    BY <1>1, <1>2, <2>7, <2>8 DEF SourceInv
<1>. QED
  BY <1>3, <1>4

(* What is left of a list. *)
LEMMA KeptList ==
    ASSUME NEW T, NEW list \in Seq(T), NEW S,
           \A i, j \in DOMAIN list : list[i] = list[j] => i = j
    PROVE  /\ Kept(list, S) \in Seq(T)
           /\ \A m, n \in DOMAIN Kept(list, S) : Kept(list, S)[m] = Kept(list, S)[n] => m = n
           /\ \A x : (\E n \in DOMAIN Kept(list, S) : Kept(list, S)[n] = x)
                       <=> x \in S /\ \E i \in DOMAIN list : list[i] = x
<1> DEFINE K == {i \in DOMAIN list : list[i] \in S}
           c == Cardinality(K)
           k == Kept(list, S)
           nth == [n \in 1 .. c |-> Nth(K, n)]
<1>1. IsFiniteSet(K) /\ K \in SUBSET Int /\ K \subseteq DOMAIN list
  <2>1. DOMAIN list = 1 .. Len(list) /\ Len(list) \in Nat
    OBVIOUS
  <2>2. IsFiniteSet(1 .. Len(list)) /\ K \in SUBSET (1 .. Len(list))
    BY <2>1, FS_Interval
  <2>3. IsFiniteSet(K)
    BY <2>2, FS_Subset
  <2>. QED
    BY <2>2, <2>3
<1>2. c \in Nat
  BY <1>1, FS_CardinalityType
<1>3. k = [n \in 1 .. c |-> list[Nth(K, n)]]
  BY DEF Kept
<1>11. \A i \in DOMAIN list : list[i] \in T
  OBVIOUS
<1>13. \A i \in K : list[i] \in S /\ i \in DOMAIN list
  OBVIOUS
<1>12. \A i \in DOMAIN list : list[i] \in S => i \in K
  OBVIOUS
<1> HIDE DEF K, c, k
<1>4. \A n \in 1 .. c : Nth(K, n) \in K /\ Cardinality({j \in K : j <= Nth(K, n)}) = n
  BY <1>1, NthExists DEF c
<1>5. nth \in Injection(1 .. c, K)
  <2>1. nth \in [1 .. c -> K]
    BY <1>4
  <2>2. \A m, n \in 1 .. c : nth[m] = nth[n] => m = n
    <3> SUFFICES ASSUME NEW m \in 1 .. c, NEW n \in 1 .. c, Nth(K, m) = Nth(K, n)
                 PROVE  m = n
      OBVIOUS
    <3>1. Cardinality({j \in K : j <= Nth(K, m)}) = m /\ Cardinality({j \in K : j <= Nth(K, n)}) = n
      BY <1>4
    <3>. QED
      BY <3>1
  <2> HIDE DEF nth
  <2>. QED
    BY <2>1, <2>2 DEF Injection, IsInjective
<1>6. nth \in Surjection(1 .. c, K)
  <2>1. IsFiniteSet(1 .. c) /\ Cardinality(1 .. c) = c
    BY <1>2, FS_Interval
  <2>. QED
    BY <1>1, <1>5, <2>1, FS_Injection DEF c
<1>7. \A n \in 1 .. c : k[n] = list[nth[n]] /\ nth[n] \in K
  BY <1>3, <1>4
<1>8. k \in Seq(T) /\ DOMAIN k = 1 .. c
  <2>1. \A n \in 1 .. c : list[Nth(K, n)] \in T
    BY <1>1, <1>4, <1>11
  <2>2. k \in [1 .. c -> T]
    BY <1>3, <2>1
  <2>. QED
    BY <1>2, <2>2
<1> HIDE DEF nth
<1>9. ASSUME NEW m \in 1 .. c, NEW n \in 1 .. c, k[m] = k[n] PROVE m = n
  <2>1. nth[m] = nth[n]
    BY <1>7, <1>9, <1>13
  <2>. QED
    BY <1>5, <2>1 DEF Injection, IsInjective
<1>10. ASSUME NEW x
       PROVE  (\E n \in 1 .. c : k[n] = x) <=> x \in S /\ \E i \in DOMAIN list : list[i] = x
  <2>1. \A n \in 1 .. c : k[n] \in S /\ \E i \in DOMAIN list : list[i] = k[n]
    BY <1>7, <1>13
  <2>2. \A i \in DOMAIN list : list[i] \in S => \E n \in 1 .. c : k[n] = list[i]
    BY <1>6, <1>7, <1>12 DEF Surjection
  <2>. QED
    BY <2>1, <2>2
<1>. QED
  BY <1>8, <1>9, <1>10 DEF k

(* The clock of the source. *)
LEMMA DoneTypes ==
    ASSUME ClosureInv, SourceInv, ListInv, ToldInv, ScanOutFdus
    PROVE  SourceInv' /\ ListInv' /\ ToldInv'
<1> DEFINE g == [t \in Txn |-> IF Done(t) THEN NoFdu ELSE Noted(t)]
           S == {t \in Txn : ~Done(t)}
<1>1. /\ out' = g /\ outbound' = Kept(outbound, S) /\ UNCHANGED <<bp, net, spent>>
      /\ told' = [t \in Txn |-> IF Noted(t) # out[t] /\ t \notin Closure
                                THEN told[t] + 1 ELSE told[t]]
  BY DEF ScanOutFdus
<1>2. \A t \in Txn : out'[t] = IF Done(t) THEN NoFdu ELSE Noted(t)
  BY <1>1
<1> HIDE DEF g
<1>3. ASSUME NEW t \in Txn
      PROVE  /\ Out(t) => /\ OutFdu(Noted(t)) /\ Noted(t).segments = out[t].segments
                          /\ Noted(t).xmit = out[t].xmit /\ Noted(t).finished = out[t].finished
                          /\ Noted(t).state = out[t].state
                          /\ out[t].transmitted => Noted(t).transmitted
                          /\ Noted(t) # out[t] => ~out[t].transmitted /\ Noted(t).transmitted
             /\ ~Out(t) => Noted(t) = out[t] /\ ~Done(t)
  <2>1. CASE Out(t)
    <3>1. OutFdu(out[t])
      BY <2>1, FduKnown
    <3> DEFINE m == [out[t] EXCEPT !.transmitted = TRUE, !.pending = t \in Closure]
    <3>2. /\ OutFdu(m) /\ m.segments = out[t].segments /\ m.xmit = out[t].xmit
          /\ m.finished = out[t].finished /\ m.state = out[t].state /\ m.transmitted
      BY <3>1 DEF OutFdu, FduFields
    <3>3. Noted(t) = out[t] \/ (Noted(t) = m /\ ~out[t].transmitted)
      BY DEF Noted
    <3> HIDE DEF m
    <3>. QED
      BY <2>1, <3>1, <3>2, <3>3
  <2>2. CASE ~Out(t)
    BY <2>2 DEF Noted, Completed, Done
  <2>. QED
    BY <2>1, <2>2
<1>4. \A t \in Txn : Out(t)' <=> Out(t) /\ ~Done(t)
  <2> SUFFICES ASSUME NEW t \in Txn PROVE Out(t)' <=> Out(t) /\ ~Done(t)
    OBVIOUS
  <2>1. Out(t)' <=> out'[t].state # "none"
    BY DEF Out
  <2>2. NoFdu.state = "none"
    BY DEF NoFdu
  <2>3. Out(t) => Noted(t).state # "none"
    BY <1>3 DEF Out
  <2>4. ~Out(t) => Noted(t).state = "none" /\ ~Done(t)
    BY <1>3 DEF Out
  <2>. QED
    BY <1>2, <2>1, <2>2, <2>3, <2>4
<1>5. SourceInv'
  BY <1>1, <1>2, <1>3, <1>4 DEF SourceInv
<1>6. ListInv'
  <2>1. /\ outbound' \in Seq(Txn)
        /\ \A i, j \in DOMAIN outbound' : outbound'[i] = outbound'[j] => i = j
        /\ \A t : (\E i \in DOMAIN outbound' : outbound'[i] = t)
                    <=> t \in S /\ \E i \in DOMAIN outbound : outbound[i] = t
    <3> HIDE DEF S
    <3>1. outbound \in Seq(Txn) /\ \A i, j \in DOMAIN outbound : outbound[i] = outbound[j] => i = j
      BY DEF ListInv
    <3>. QED
      BY <1>1, <3>1, KeptList
  <2>2. \A t \in Txn : Out(t)' <=> \E i \in DOMAIN outbound' : outbound'[i] = t
    BY <1>4, <2>1 DEF ListInv
  <2>. QED
    BY <2>1, <2>2 DEF ListInv
<1>7. ToldInv'
  <2> SUFFICES ASSUME NEW t \in Txn
               PROVE  /\ told'[t] \in 0 .. 2
                      /\ Out(t)' => told'[t] <= Notices(t, out'[t])
                      /\ Out(t)' /\ out'[t].finished => t \in Closure
                      /\ ~Out(t)' /\ t \notin spent.put => told'[t] = 0
    BY <1>1 DEF ToldInv, Notices
  <2>1. told'[t] = IF Noted(t) # out[t] /\ t \notin Closure THEN told[t] + 1 ELSE told[t]
    BY <1>1
  <2>2. told[t] \in 0 .. 2
    BY DEF ToldInv
  <2>3. CASE ~Out(t)
    BY <1>3, <1>4, <2>1, <2>3 DEF ToldInv
  <2>4. CASE Out(t)
    <3>1. told[t] <= Notices(t, out[t]) /\ (out[t].finished => t \in Closure) /\ t \in spent.put
      BY <2>4, FduKnown DEF ToldInv
    <3>2. told'[t] \in 0 .. 2 /\ told'[t] <= Notices(t, Noted(t))
      BY <1>3, <2>1, <2>2, <2>4, <3>1 DEF Notices
    <3>. QED
      BY <1>2, <1>3, <1>4, <2>4, <3>1, <3>2
  <2>. QED
    BY <2>3, <2>4
<1>. QED
  BY <1>5, <1>6, <1>7

\* The types of everything, and that the lists say what there is.
TypeInv == ClosureInv /\ SourceInv /\ ListInv /\ ToldInv /\ SinkInv

\* A step of the destination leaves alone what the source has.
LEMMA SourceRests ==
    ASSUME SourceInv, ListInv, ToldInv, UNCHANGED <<out, outbound, told>>,
           bp' \in Seq(Pdus(Txn)), net' \subseteq Pdus(AnyTxn), spent'.put = spent.put
    PROVE  SourceInv' /\ ListInv' /\ ToldInv'
BY DEF SourceInv, ListInv, ToldInv, Out

\* A step of the source leaves alone what the destination has.
LEMMA SinkRests ==
    ASSUME SinkInv, UNCHANGED <<sink, delivered>>, finishPdus' \in Seq(Finished),
           back' \subseteq Finished
    PROVE  SinkInv'
BY DEF SinkInv

\* Every step keeps the types.
LEMMA TypeStep == TypeInv /\ [Next]_vars => TypeInv'
<1> SUFFICES ASSUME TypeInv, [Next]_vars PROVE TypeInv'
  OBVIOUS
<1>0. ClosureInv /\ ClosureInv' /\ SourceInv /\ ListInv /\ ToldInv /\ SinkInv
  BY ClosureStep DEF TypeInv
<1>1. \A t \in AnyTxn : Good(sink[t], t)
  BY <1>0 DEF SinkInv
<1>2. DOMAIN spent = {"put", "cancels", "suspends", "dups", "opens"}
  BY <1>0 DEF ClosureInv, OutTypes
<1>3. bp \in Seq(Pdus(Txn)) /\ net \subseteq Pdus(AnyTxn)
  BY <1>0 DEF SourceInv
<1>4. CASE \E t \in Txn : Put(t) \/ Cancel(t) \/ Suspend(t) \/ Resume(t)
  <2>1. PICK t \in Txn : Put(t) \/ Cancel(t) \/ Suspend(t) \/ Resume(t)
    BY <1>4
  <2>2. SinkInv'
    BY <1>0, <2>1, SinkRests DEF Put, Cancel, Suspend, Resume, SinkInv
  <2>3. CASE Put(t)
    BY <1>0, <2>2, <2>3, PutTypes DEF TypeInv
  <2>4. CASE Cancel(t) \/ Suspend(t) \/ Resume(t)
    BY <1>0, <2>2, <2>4, UserSteady, SteadyStep DEF TypeInv
  <2>. QED
    BY <2>1, <2>3, <2>4
<1>5. CASE SendPdu \/ Transmit
  <2>1. SinkInv'
    BY <1>0, <1>5, SinkRests DEF SendPdu, Transmit, SinkInv
  <2>. QED
    BY <1>0, <1>5, <2>1, SendTypes, TransmitTypes DEF TypeInv
<1>6. CASE Expire
  <2>1. SinkInv'
    BY <1>0, <1>6, SinkRests DEF Expire, SinkInv
  <2>2. bp' \in Seq(Pdus(Txn))
    BY <1>3, <1>6 DEF Expire
  <2>3. SourceInv' /\ ListInv' /\ ToldInv'
    BY <1>0, <1>3, <1>6, <2>2, SourceRests DEF Expire
  <2>. QED
    BY <1>0, <2>1, <2>3 DEF TypeInv
<1>7. CASE SendFinishPdu
  <2>1. Head(finishPdus) \in Finished /\ Tail(finishPdus) \in Seq(Finished)
    BY <1>0, <1>7 DEF SendFinishPdu, SinkInv
  <2>2. SinkInv'
    BY <1>0, <1>7, <2>1, SinkRests DEF SendFinishPdu, SinkInv
  <2>3. SourceInv' /\ ListInv' /\ ToldInv'
    BY <1>0, <1>3, <1>7, SourceRests DEF SendFinishPdu
  <2>. QED
    BY <1>0, <2>2, <2>3 DEF TypeInv
<1>8. ASSUME NEW p \in net, NEW again \in BOOLEAN, NEW opens \in BOOLEAN,
             HandlePdu(p, again, opens)
      PROVE  TypeInv'
  <2>1. /\ UNCHANGED <<out, outbound, bp, back, told>> /\ net' \subseteq net
        /\ SinkBecomes([t \in {p.txn} |-> Handled(p, opens)])
    BY <1>8 DEF HandlePdu
  <2>2. spent'.put = spent.put
    BY <1>2, <1>8 DEF HandlePdu
  <2>3. SourceInv' /\ ListInv' /\ ToldInv'
    BY <1>0, <1>3, <2>1, <2>2, SourceRests
  <2>4. p \in Pdus(AnyTxn) /\ p.txn \in AnyTxn
    BY <1>3, PdusKnown
  <2>5. Good(Handled(p, opens), p.txn)
    BY <1>1, <2>4, GoodHandled
  <2> DEFINE new == [t \in {p.txn} |-> Handled(p, opens)]
  <2>6. DOMAIN new \subseteq AnyTxn /\ \A t \in DOMAIN new : Good(new[t], t)
    BY <2>4, <2>5
  <2>7. SinkBecomes(new) /\ UNCHANGED back
    BY <2>1
  <2> HIDE DEF new
  <2>8. SinkInv'
    BY <1>0, <2>6, <2>7, SinkStep
  <2>. QED
    BY <1>0, <2>3, <2>8 DEF TypeInv
<1>9. ASSUME NEW p \in back, NEW again \in BOOLEAN, HandleFinishPdu(p, again)
      PROVE  TypeInv'
  <2>1. p \in Finished
    BY <1>0 DEF SinkInv
  <2>2. Steady /\ ToldInv'
    BY <1>0, <1>9, <2>1, FinishSteady
  <2>3. SinkInv'
    BY <1>0, <1>9, SinkRests DEF HandleFinishPdu, SinkInv
  <2>. QED
    BY <1>0, <2>2, <2>3, SteadyStep DEF TypeInv
<1>10. ASSUME NEW p \in net \cup back, Lose(p)
       PROVE  TypeInv'
  <2>1. SinkInv'
    BY <1>0, <1>10, SinkRests DEF Lose, SinkInv
  <2>2. SourceInv' /\ ListInv' /\ ToldInv'
    BY <1>0, <1>3, <1>10, SourceRests DEF Lose
  <2>. QED
    BY <1>0, <2>1, <2>2 DEF TypeInv
<1>11. ASSUME NEW t \in AnyTxn, CancelInbound(t)
       PROVE  TypeInv'
  <2>1. spent'.put = spent.put
    BY <1>2, <1>11 DEF CancelInbound
  <2>2. SourceInv' /\ ListInv' /\ ToldInv'
    BY <1>0, <1>3, <1>11, <2>1, SourceRests DEF CancelInbound
  <2> DEFINE new == [u \in {t} |-> Complete(sink[u], u, "canceled")]
  <2>3. SinkBecomes(new) /\ UNCHANGED back
    BY <1>11 DEF CancelInbound
  <2>4. DOMAIN new \subseteq AnyTxn /\ \A u \in DOMAIN new : Good(new[u], u)
    BY <1>1, GoodComplete
  <2> HIDE DEF new
  <2>5. SinkInv'
    BY <1>0, <2>3, <2>4, SinkStep
  <2>. QED
    BY <1>0, <2>2, <2>5 DEF TypeInv
<1>12. ASSUME NEW quiet, NEW late, ScanInFdus(quiet, late)
       PROVE  TypeInv'
  <2>1. SourceInv' /\ ListInv' /\ ToldInv'
    BY <1>0, <1>3, <1>12, SourceRests DEF ScanInFdus
  <2> DEFINE T == {t \in AnyTxn : sink[t].fdu # NoFdu}
             new == [t \in T |-> Scanned(sink[t], t, t \in quiet, t \in late)]
  <2>2. SinkBecomes(new) /\ UNCHANGED back
    BY <1>12 DEF ScanInFdus
  <2>3. DOMAIN new \subseteq AnyTxn /\ \A t \in DOMAIN new : Good(new[t], t)
    BY <1>1, GoodScanned
  <2> HIDE DEF new
  <2>4. SinkInv'
    BY <1>0, <2>2, <2>3, SinkStep
  <2>. QED
    BY <1>0, <2>1, <2>4 DEF TypeInv
<1>13. CASE \E due \in SUBSET Txn : ScanFinsPending(due)
  <2>1. PICK due \in SUBSET Txn : ScanFinsPending(due)
    BY <1>13
  <2>2. Steady /\ ToldInv'
    BY <1>0, <2>1, OverdueSteady
  <2>3. SinkInv'
    BY <1>0, <2>1, SinkRests DEF ScanFinsPending, SinkInv
  <2>. QED
    BY <1>0, <2>2, <2>3, SteadyStep DEF TypeInv
<1>14. CASE ScanOutFdus
  <2>1. SinkInv'
    BY <1>0, <1>14, SinkRests DEF ScanOutFdus, SinkInv
  <2>. QED
    BY <1>0, <1>14, <2>1, DoneTypes DEF TypeInv
<1>15. CASE UNCHANGED vars
  BY <1>0, <1>3, <1>15, SourceRests, SinkRests DEF vars, TypeInv, SinkInv
<1>. QED
  BY <1>4, <1>5, <1>6, <1>7, <1>8, <1>9, <1>10, <1>11, <1>12, <1>13, <1>14, <1>15 DEF Next

\* The initial state has them.
LEMMA TypeInit == Init => TypeInv
<1> SUFFICES ASSUME Init PROVE TypeInv
  OBVIOUS
<1>1. ClosureInv
  BY ClosureInit
<1>2. \A t \in Txn : ~Out(t) /\ told[t] = 0
  BY DEF Init, Out, NoFdu
<1>3. net \subseteq Pdus(AnyTxn)
  <2>1. \A t \in Foreign : t \in AnyTxn /\ Parts(t) = ToSet(ForeignSegs[t])
    BY CfdpAssumption DEF AnyTxn, Parts
  <2>2. net = UNION {{Metadata(t), Eof(t)} \cup {FileData(t, s) : s \in ToSet(ForeignSegs[t])} :
                       t \in Foreign}
    BY DEF Init
  <2>. QED
    BY <2>1, <2>2 DEF Pdus
<1>4. SourceInv
  BY <1>2, <1>3 DEF Init, SourceInv
<1>5. ListInv
  BY <1>2 DEF Init, ListInv
<1>6. ToldInv
  BY <1>2 DEF ToldInv
<1>7. SinkInv
  <2> DEFINE no == FALSE
             s == [fdu |-> NoFdu, dest |-> Empty, temp |-> Empty, ended |-> "none", reply |-> no]
  <2>1. sink = [t \in AnyTxn |-> s] /\ finishPdus = <<>> /\ back = {} /\ delivered = {}
    BY DEF Init
  <2>2. ~no /\ \A t \in AnyTxn : File(Empty, Size[t])
    BY CfdpAssumption, EmptyFile
  <2> HIDE DEF no
  <2>3. \A t \in AnyTxn : Good(s, t) /\ s.ended = "none" /\ ~s.reply
    BY <2>2 DEF Good, SinkFields
  <2> HIDE DEF s
  <2>. QED
    BY <2>1, <2>3 DEF SinkInv
<1>. QED
  BY <1>1, <1>4, <1>5, <1>6, <1>7 DEF TypeInv

(* What a file may contain. *)
LEMMA FileContents ==
    ASSUME NEW t \in AnyTxn, NEW f, File(f, Size[t])
    PROVE  f \in Contents(t)
<1> DEFINE S == DOMAIN f
<1>1. Size[t] \in Nat
  BY CfdpAssumption
<1>2. \A p \in S : p \in 0 .. Size[t] /\ f[p] \in 0 .. Size[t]
  BY <1>1 DEF File
<1>3. S \in SUBSET (0 .. Size[t]) /\ f \in [S -> 0 .. Size[t]]
  BY <1>2 DEF File
<1>. QED
  BY <1>3, Zenon DEF Contents

\* They are what is promised, and more.
LEMMA TypeInvImplies == TypeInv => TypeOK
<1> SUFFICES ASSUME TypeInv PROVE TypeOK
  OBVIOUS
<1>1. ASSUME NEW t \in Txn, Out(t)
      PROVE  /\ out[t].state \in {"active", "suspended", "canceled"}
             /\ out[t].segments \in Seq(Segment) /\ out[t].xmit \in 0 .. Size[t]
             /\ {out[t].metadata, out[t].eof, out[t].transmitted, out[t].finished,
                 out[t].pending} \subseteq BOOLEAN
  <2>1. OutFdu(out[t]) /\ out[t].segments \in Seq(Parts(t)) /\ out[t].xmit \in 0 .. Size[t]
    BY <1>1, FduKnown DEF TypeInv, SourceInv
  <2>2. Parts(t) \subseteq Segment
    BY PartsFit, CfdpAssumption DEF Extent, Segment, AnyTxn
  <2>3. out[t].segments \in Seq(Segment)
    BY <2>1, <2>2
  <2>. QED
    BY <2>1, <2>3 DEF OutFdu
<1>2. (\A i, j \in DOMAIN outbound : outbound[i] = outbound[j] => i = j)
  BY DEF TypeInv, ListInv
<1>3. ToSet(outbound) = {t \in Txn : Out(t)}
  BY DEF TypeInv, ListInv, ToSet
<1>4. \A p \in ToSet(bp) \cup net : p.txn \in AnyTxn /\ p.kind \in {"metadata", "data", "eof"}
  <2>1. ToSet(bp) \subseteq Pdus(Txn)
    BY DEF TypeInv, SourceInv, ToSet
  <2>. QED
    BY <2>1, PdusKnown DEF TypeInv, SourceInv, AnyTxn
<1>5. \A p \in ToSet(finishPdus) \cup back :
          p.txn \in Closure /\ p.code \in {"complete", "incomplete"}
  <2>1. ToSet(finishPdus) \cup back \subseteq Finished
    BY DEF TypeInv, SinkInv, ToSet
  <2>. QED
    BY <2>1 DEF Finished
<1>6. \A t \in AnyTxn : /\ {sink[t].dest, sink[t].temp} \subseteq Contents(t)
                        /\ sink[t].ended = "none" /\ ~sink[t].reply
  BY FileContents DEF TypeInv, SinkInv, Good
<1>7. told \in [Txn -> 0 .. 2]
  BY DEF TypeInv, ClosureInv, OutTypes, ToldInv
<1>8. delivered \subseteq AnyTxn
  BY DEF TypeInv, SinkInv
<1>. QED
  BY <1>1, <1>2, <1>3, <1>4, <1>5, <1>6, <1>7, <1>8 DEF TypeOK

(* Every variable holds values of its type, the list of outbound FDUs names *)
(* each of them once and no other, and no user is told more than twice.     *)
THEOREM TypeCorrect == Spec => []TypeOK
BY TypeInit, TypeStep, TypeInvImplies, PTL DEF Spec

-----------------------------------------------------------------------------
(* Files.                                                                    *)

\* Of transaction t no file can fail to open and yet be waited for.
Exact(t) == Refuses(t) \/ MaxOpenFails = 0

(* Two segments of a file are the same or have nothing in common. *)
LEMMA PartsApart ==
    ASSUME NEW t \in AnyTxn, Apart(t), NEW r \in Parts(t), NEW s \in Parts(t)
    PROVE  r = s \/ Units(r) \cap Units(s) = {}
<1>1. CASE t \in Txn
  <2> DEFINE N == Size[t]
             S == SegSize
             n == (N + S - 1) \div S
  <2>1. N \in Nat /\ S \in Nat /\ S > 0
    BY CfdpAssumption
  <2>2. PICK j \in 1 .. n : r = [offset |-> (j - 1) * S, end |-> Min({j * S, N})]
    BY <1>1 DEF Parts, Segments
  <2>3. PICK k \in 1 .. n : s = [offset |-> (k - 1) * S, end |-> Min({k * S, N})]
    BY <1>1 DEF Parts, Segments
  <2>4. n \in Int
    BY <2>1
  <2> HIDE DEF N, S, n
  <2>5. ASSUME NEW m \in 1 .. n PROVE m * S \in Nat /\ (m - 1) * S \in Nat /\ Min({m * S, N}) <= m * S
    <3>1. m \in Nat /\ m - 1 \in Nat /\ m * S \in Nat /\ (m - 1) * S \in Nat
      BY <2>1, <2>4
    <3> DEFINE b == m * S
    <3>2. {b, N} \in SUBSET (0 .. b + N) /\ b + N \in Nat /\ b \in {b, N}
      BY <2>1, <3>1
    <3> HIDE DEF b
    <3>3. Min({b, N}) <= b
      BY <3>2, MinMax
    <3>. QED
      BY <3>1, <3>3 DEF b
  <2>6. ASSUME NEW a \in 1 .. n, NEW b \in 1 .. n, a < b
        PROVE  a * S <= (b - 1) * S
    BY <2>1, <2>4, <2>6
  <2>7. ASSUME NEW a \in 1 .. n, NEW b \in 1 .. n, a < b
        PROVE  [offset |-> (a - 1) * S, end |-> Min({a * S, N})].end <= (b - 1) * S
    <3>1. Min({a * S, N}) <= a * S /\ a * S \in Nat /\ (b - 1) * S \in Nat /\ a * S <= (b - 1) * S
      BY <2>5, <2>6, <2>7
    <3>2. Min({a * S, N}) \in Int
      <4> DEFINE c == a * S
      <4>1. {c, N} \in SUBSET (0 .. c + N) /\ c + N \in Nat
        BY <2>1, <3>1
      <4> HIDE DEF c
      <4>2. Min({c, N}) \in {c, N}
        BY <4>1, MinMax
      <4>. QED
        BY <4>1, <4>2 DEF c
    <3>. QED
      BY <3>1, <3>2
  <2>8. j = k \/ r.end <= s.offset \/ s.end <= r.offset
    BY <2>2, <2>3, <2>4, <2>7
  <2>9. {r.offset, r.end, s.offset, s.end} \subseteq Int
    BY PartsFit, CfdpAssumption DEF Extent
  <2>10. j = k => r = s
    BY <2>2, <2>3
  <2>11. r.end <= s.offset \/ s.end <= r.offset => Units(r) \cap Units(s) = {}
    BY <2>9 DEF Units
  <2>. QED
    BY <2>8, <2>10, <2>11
<1>2. CASE t \notin Txn
  BY <1>2 DEF Parts, Apart, AnyTxn
<1>. QED
  BY <1>1, <1>2

FileOf(s) == IF s.fdu.workingFile = "dest" THEN s.dest ELSE s.temp

Arrived(s) == Covered(s.fdu.extents) \cap DOMAIN FileOf(s)

\* Each unit that is counted is in the file, and each segment has come or has not.
Held(s, t) ==
    /\ s.fdu.bytesReceived \in Nat /\ s.fdu.bytesReceived <= Cardinality(Arrived(s))
    /\ s.fdu.workingFile = "none" => s.fdu.bytesReceived = 0
    /\ Exact(t) => /\ s.fdu.bytesReceived = Cardinality(Covered(s.fdu.extents))
                   /\ Covered(s.fdu.extents) \subseteq DOMAIN FileOf(s)
                   /\ s.fdu.workingFile = "none" => s.fdu.extents = {}
    /\ \A p \in Parts(t) : \/ Units(p) \subseteq Covered(s.fdu.extents)
                           \/ Units(p) \cap Covered(s.fdu.extents) = {}

\* What is in a file is where it belongs.
Right(f) == \A u \in DOMAIN f : f[u] = u

(* An FDU for a file that has been delivered (known) knows of no metadata   *)
(* if these are rejected because the file exists; and a file that was whole *)
(* is whole until the FDU ends.                                             *)
Intact(s, t, known, was) ==
    /\ Right(s.dest) /\ Right(s.temp)
    /\ s.fdu # NoFdu => Held(s, t)
    /\ was => s.fdu = NoFdu \/ Whole(s.dest, t)
    /\ known \/ s.ended = "complete" =>
          /\ Whole(s.dest, t)
          /\ s.fdu # NoFdu /\ Size[t] > 0 => ~s.fdu.metadata /\ s.fdu.workingFile # "dest"

\* A file of no units is whole.
LEMMA EmptyWhole ==
    ASSUME NEW t \in AnyTxn, NEW f, File(f, Size[t]), Size[t] = 0
    PROVE  Whole(f, t) /\ f = Empty
BY DEF Whole, File, Empty

\* A file with all its units is whole.
LEMMA AllWhole ==
    ASSUME NEW t \in AnyTxn, NEW f, File(f, Size[t]), Right(f), DOMAIN f = 0 .. Size[t] - 1
    PROVE  Whole(f, t)
BY DEF File, Right, Whole

\* What has arrived are units of the file.
LEMMA ArrivedUnits ==
    ASSUME NEW t \in AnyTxn, NEW s, Good(s, t)
    PROVE  /\ Arrived(s) \in SUBSET (0 .. Size[t] - 1)
           /\ IsFiniteSet(Arrived(s)) /\ Cardinality(Arrived(s)) \in Nat
           /\ Cardinality(Arrived(s)) <= Size[t]
           /\ Cardinality(Arrived(s)) = Size[t] => Arrived(s) = 0 .. Size[t] - 1
<1> DEFINE N == Size[t]
<1>1. N \in Nat
  BY CfdpAssumption
<1>2. IsFiniteSet(0 .. N - 1) /\ Cardinality(0 .. N - 1) = N
  <2>1. 0 \in Int /\ N - 1 \in Int
    BY <1>1
  <2>2. IsFiniteSet(0 .. N - 1) /\ Cardinality(0 .. N - 1) = IF 0 > N - 1 THEN 0 ELSE N - 1 - 0 + 1
    BY <2>1, FS_Interval
  <2>. QED
    BY <1>1, <2>2
<1>3. Arrived(s) \in SUBSET (0 .. N - 1)
  BY DEF Arrived, FileOf, Good, File
<1> HIDE DEF N
<1>4. /\ IsFiniteSet(Arrived(s)) /\ Cardinality(Arrived(s)) <= N
      /\ Cardinality(Arrived(s)) = N => Arrived(s) = 0 .. N - 1
  BY <1>2, <1>3, FS_Subset
<1>5. Cardinality(Arrived(s)) \in Nat
  BY <1>4, FS_CardinalityType
<1>. QED
  BY <1>3, <1>4, <1>5 DEF N

(* When all units have come, the working file is the file. *)
LEMMA AllHeld ==
    ASSUME NEW t \in AnyTxn, NEW s, Good(s, t), s.fdu # NoFdu, Held(s, t),
           Right(s.dest), Right(s.temp), ~(s.fdu.bytesReceived < Size[t])
    PROVE  Whole(Rename(s).dest, t)
<1>0. Size[t] \in Nat
  BY CfdpAssumption
<1>1. CASE Size[t] = 0
  <2>1. s.dest = Empty /\ s.temp = Empty /\ Whole(s.dest, t)
    BY <1>1, EmptyWhole DEF Good
  <2>. QED
    BY <2>1 DEF Rename
<1>2. CASE Size[t] > 0
  <2> DEFINE N == Size[t]
  <2>1. Cardinality(Arrived(s)) = N
    BY <1>0, ArrivedUnits DEF Held
  <2>2. Arrived(s) = 0 .. N - 1
    BY <2>1, ArrivedUnits
  <2>9. File(FileOf(s), N) /\ Right(FileOf(s))
    BY DEF FileOf, Good
  <2>10. DOMAIN FileOf(s) = 0 .. N - 1
    BY <2>2, <2>9 DEF File, Arrived
  <2>11. Whole(FileOf(s), t)
    BY <2>9, <2>10, AllWhole
  <2>12. s.fdu.workingFile \in {"dest", "temp"}
    BY <1>0, <1>2 DEF Good, InFdu, Held
  <2>13. s.fdu.workingFile = "temp" => s.temp # Empty
    <3>1. 0 \in 0 .. N - 1 /\ DOMAIN Empty = {}
      BY <1>0, <1>2 DEF Empty
    <3>. QED
      BY <2>10, <3>1 DEF FileOf
  <2>14. CASE s.fdu.workingFile = "dest"
    BY <2>11, <2>14 DEF Rename, FileOf
  <2>15. CASE s.fdu.workingFile = "temp"
    <3>1. Rename(s) = [s EXCEPT !.dest = s.temp, !.temp = Empty]
      BY <2>13, <2>15 DEF Rename
    <3>2. Rename(s).dest = s.temp
      BY <3>1 DEF Good, SinkFields
    <3>. QED
      BY <2>11, <2>15, <3>2 DEF FileOf
  <2>. QED
    BY <2>12, <2>14, <2>15
<1>. QED
  BY <1>0, <1>1, <1>2

\* What becomes of the file leaves each unit where it is.
LEMMA SettledRight ==
    ASSUME NEW t, NEW s, Good(s, t), Right(s.dest), Right(s.temp), NEW c
    PROVE  Right(Settled(s, t, c).dest) /\ Right(Settled(s, t, c).temp)
<1>1. Right(Empty)
  BY DEF Right, Empty
<1>2. Right(Rename(s).dest) /\ Right(Rename(s).temp)
  BY <1>1 DEF Rename, Good, SinkFields
<1>3. Right(Unlink(s).dest) /\ Right(Unlink(s).temp)
  BY <1>1 DEF Unlink, Good, SinkFields
<1>. QED
  BY <1>2, <1>3 DEF Settled

(* How an FDU may end. *)
LEMMA CompleteIntact ==
    ASSUME NEW t \in AnyTxn, NEW s, Good(s, t), NEW known, NEW was, NEW c,
           Right(s.dest), Right(s.temp),
           c = "complete" => Whole(Rename(s).dest, t),
           known => Whole(s.dest, t) /\ (c \in {"complete", "reject"} \/ ~s.fdu.metadata \/ ~(Size[t] > 0))
    PROVE  Intact(Complete(s, t, c), t, known, was)
<1> DEFINE r == s.fdu.metadata /\ t \in Closure
           m == Settled(s, t, c)
           n == [m EXCEPT !.fdu = NoFdu, !.ended = c, !.reply = r]
<1>1. Complete(s, t, c) = n
  BY DEF Complete
<1>2. Good(m, t) /\ (r => t \in Closure)
  BY GoodSettled
<1>3. c = "complete" => m = Rename(s)
  BY DEF Settled
<1>4. c # "complete" /\ known => m = s
  BY DEF Settled
<1>5. (known \/ c = "complete") => Whole(m.dest, t)
  BY <1>3, <1>4
<1>7. Right(m.dest) /\ Right(m.temp)
  BY SettledRight
<1> HIDE DEF m, r
<1>6. n.fdu = NoFdu /\ n.ended = c /\ n.dest = m.dest /\ n.temp = m.temp
  <2>1. Good(m, t)
    BY <1>2
  <2>. QED
    BY <2>1 DEF Good, SinkFields
<1> HIDE DEF n
<1>. QED
  BY <1>1, <1>5, <1>6, <1>7 DEF Intact

\* handleFault and checkInFduComplete: an FDU ends complete only when all has come.
LEMMA FaultyIntact ==
    ASSUME NEW t \in AnyTxn, NEW s, Good(s, t), s.fdu # NoFdu, NEW known, NEW was, Intact(s, t, known, was),
           NEW fault \in Fault
    PROVE  Intact(Faulty(s, t, fault), t, known, was)
<1>1. fault # "complete"
  BY DEF Fault
<1>2. Intact(Complete(s, t, fault), t, known, was)
  BY <1>1, CompleteIntact DEF Intact
<1>. QED
  BY <1>2 DEF Faulty

LEMMA CheckedIntact ==
    ASSUME NEW t \in AnyTxn, NEW s, Good(s, t), s.fdu # NoFdu, NEW known, NEW was, Intact(s, t, known, was)
    PROVE  Intact(Checked(s, t), t, known, was)
<1>1. CASE ~s.fdu.metadata \/ ~s.fdu.eof \/ s.fdu.bytesReceived < Size[t]
  BY <1>1 DEF Checked
<1>2. CASE ~(~s.fdu.metadata \/ ~s.fdu.eof \/ s.fdu.bytesReceived < Size[t])
  <2>1. Whole(Rename(s).dest, t)
    BY <1>2, AllHeld DEF Intact
  <2>2. known => Whole(s.dest, t) /\ ~(Size[t] > 0)
    BY <1>2 DEF Intact
  <2>3. Intact(Complete(s, t, "complete"), t, known, was) /\ Intact(Complete(s, t, "checksum"), t, known, was)
    BY <2>1, <2>2, CompleteIntact DEF Intact
  <2>. QED
    BY <1>2, <2>3 DEF Checked
<1>. QED
  BY <1>1, <1>2

\* The fields that have changed, of an FDU that has.
LEMMA FieldsWith ==
    ASSUME NEW N, NEW f, InFdu(f, N), NEW a, NEW b, NEW c, NEW w, NEW E
    PROVE  /\ LET g == [f EXCEPT !.metadata = a, !.watched = b, !.ckType = c, !.workingFile = w]
              IN  /\ g.extents = f.extents /\ g.bytesReceived = f.bytesReceived
                  /\ g.workingFile = w /\ g.state = f.state
           /\ LET g == [f EXCEPT !.eof = a, !.watched = b]
              IN  /\ g.extents = f.extents /\ g.bytesReceived = f.bytesReceived
                  /\ g.workingFile = f.workingFile /\ g.metadata = f.metadata /\ g.state = f.state
           /\ LET g == [f EXCEPT !.watched = a]
              IN  /\ g.extents = f.extents /\ g.bytesReceived = f.bytesReceived
                  /\ g.workingFile = f.workingFile /\ g.metadata = f.metadata /\ g.state = f.state
           /\ LET g == [f EXCEPT !.checkTimeouts = a]
              IN  /\ g.extents = f.extents /\ g.bytesReceived = f.bytesReceived
                  /\ g.workingFile = f.workingFile /\ g.metadata = f.metadata /\ g.state = f.state
           /\ LET g == [f EXCEPT !.watched = a, !.extents = E, !.bytesReceived = b,
                                 !.inOrder = c, !.workingFile = w]
              IN  /\ g.extents = E /\ g.bytesReceived = b
                  /\ g.workingFile = w /\ g.metadata = f.metadata /\ g.state = f.state
BY DEF InFdu, InFields

\* An FDU that is active exists.
LEMMA NotNoFdu == ASSUME NEW f, f.state = "active" PROVE f # NoFdu
BY DEF NoFdu

(* Another FDU with the same extents and the same working file. *)
LEMMA SameHeld ==
    ASSUME NEW t \in AnyTxn, NEW s, Good(s, t), Held(s, t), NEW f, f = NoFdu \/ InFdu(f, Size[t]),
           f.extents = s.fdu.extents, f.bytesReceived = s.fdu.bytesReceived,
           f.workingFile = s.fdu.workingFile \/ (f.workingFile # "none" /\ s.fdu.workingFile = "none")
    PROVE  LET n == [s EXCEPT !.fdu = f]
           IN  Held(n, t) /\ n.fdu = f /\ n.dest = s.dest /\ n.temp = s.temp /\ n.ended = s.ended
<1> DEFINE n == [s EXCEPT !.fdu = f]
<1>1. n.fdu = f /\ n.dest = s.dest /\ n.temp = s.temp /\ n.ended = s.ended
  BY DEF Good, SinkFields
<1>4. Good(n, t)
  <2>1. File(s.dest, Size[t])
    BY DEF Good
  <2>. QED
    BY <2>1, GoodWith
<1> HIDE DEF n
<1>2. CASE f.workingFile = s.fdu.workingFile
  <2>1. FileOf(n) = FileOf(s)
    BY <1>1, <1>2 DEF FileOf
  <2>2. Held(n, t)
    BY <1>1, <1>2, <2>1 DEF Held, Arrived
  <2>. QED
    BY <1>1, <2>2 DEF n
<1>3. CASE f.workingFile # "none" /\ s.fdu.workingFile = "none"
  <2>1. f.bytesReceived = 0 /\ (Exact(t) => f.extents = {})
    BY <1>3 DEF Held
  <2>2. Covered({}) = {} /\ Cardinality({}) = 0
    BY FS_EmptySet DEF Covered
  <2>3. Cardinality(Arrived(n)) \in Nat
    BY <1>4, ArrivedUnits
  <2>4. 0 \in Nat /\ 0 <= Cardinality(Arrived(n))
    BY <2>3
  <2>5. n.fdu.extents = s.fdu.extents /\ n.fdu.bytesReceived = 0
    BY <1>1, <2>1
  <2>6. Exact(t) => n.fdu.extents = {} /\ Cardinality(Covered(n.fdu.extents)) = 0
    BY <2>1, <2>2, <2>5
  <2> HIDE DEF Exact
  <2>7. Held(n, t)
    BY <2>1, <2>2, <2>4, <2>5, <2>6 DEF Held
  <2>. QED
    BY <1>1, <2>7 DEF n
<1>. QED
  BY <1>2, <1>3

\* The same of all that the destination has.
LEMMA SameIntact ==
    ASSUME NEW t \in AnyTxn, NEW s, Good(s, t), s.fdu # NoFdu,
           NEW known, NEW was, Intact(s, t, known, was), NEW f, f = NoFdu \/ InFdu(f, Size[t]),
           f.extents = s.fdu.extents, f.bytesReceived = s.fdu.bytesReceived,
           f.workingFile = s.fdu.workingFile, f.metadata = s.fdu.metadata
    PROVE  Intact([s EXCEPT !.fdu = f], t, known, was)
<1> DEFINE n == [s EXCEPT !.fdu = f]
<1>1. Held(n, t) /\ n.fdu = f /\ n.dest = s.dest /\ n.temp = s.temp /\ n.ended = s.ended
  <2>1. Held(s, t)
    BY DEF Intact
  <2>. QED
    BY <2>1, SameHeld
<1> HIDE DEF n
<1>2. Intact(n, t, known, was)
  BY <1>1 DEF Intact
<1>. QED
  BY <1>2 DEF n

\* What the fault handlers make of a file that is there already.
LEMMA Rejects ==
    ASSUME NEW t \in AnyTxn, Refuses(t), NEW s
    PROVE  HandlerOf(s, t, "reject") = "cancel"
BY CfdpAssumption DEF HandlerOf, Refuses, Fault

\* Metadata for a file that was delivered are rejected.
LEMMA MetadataIntact ==
    ASSUME NEW t \in AnyTxn, NEW s, Good(s, t), InFdu(s.fdu, Size[t]), s.ended = "none",
           NEW known, NEW was, known => Refuses(t), Intact(s, t, known, was)
    PROVE  Intact(WithMetadata(s, t), t, known, was)
<1> DEFINE a == TRUE
           c == IF s.fdu.bytesReceived = 0 THEN Type[t] ELSE s.fdu.ckType
           w == IF s.fdu.workingFile = "none" /\ Size[t] > 0 THEN "dest" ELSE s.fdu.workingFile
           fdu == [s.fdu EXCEPT !.metadata = a, !.watched = a, !.ckType = c, !.workingFile = w]
           noted == [s EXCEPT !.fdu = fdu]
<1>0. Size[t] \in Nat /\ s.fdu # NoFdu /\ Held(s, t)
  BY CfdpAssumption, NotNoFdu DEF InFdu, Intact
<1>1. /\ w = s.fdu.workingFile \/ (w # "none" /\ s.fdu.workingFile = "none")
      /\ w \in {"none", "dest", "temp"} /\ File(s.dest, Size[t])
  BY DEF InFdu, Good
<1>2. \/ WithMetadata(s, t) = s
      \/ /\ s.dest # Empty /\ HandlerOf(noted, t, "reject") = "cancel"
         /\ WithMetadata(s, t) = Complete(noted, t, "reject")
      \/ /\ ~(s.dest # Empty /\ HandlerOf(noted, t, "reject") = "cancel")
         /\ WithMetadata(s, t) = Checked(noted, t)
  BY DEF WithMetadata
<1> HIDE DEF a, c, w
<1>3. InFdu(fdu, Size[t])
  <2>1. {} \in SUBSET Extent(Size[t]) /\ Separate({})
    BY DEF Separate
  <2>. QED
    BY <1>1, <2>1, FduWith
<1>4. fdu.extents = s.fdu.extents /\ fdu.bytesReceived = s.fdu.bytesReceived /\ fdu.workingFile = w
  BY FieldsWith
<1> HIDE DEF fdu
<1>5. Good(noted, t)
  BY <1>1, <1>3, GoodWith
<1>6. /\ Held(noted, t) /\ noted.fdu = fdu /\ noted.dest = s.dest /\ noted.temp = s.temp
      /\ noted.ended = "none" /\ Right(noted.dest) /\ Right(noted.temp)
      /\ was => Whole(noted.dest, t)
  <2>1. /\ Held(noted, t) /\ noted.fdu = fdu /\ noted.dest = s.dest /\ noted.temp = s.temp
        /\ noted.ended = "none"
    BY <1>0, <1>1, <1>3, <1>4, SameHeld
  <2>. QED
    BY <1>0, <2>1 DEF Intact
<1> HIDE DEF noted
<1>7. noted.fdu # NoFdu
  BY <1>3, <1>6, NotNoFdu DEF InFdu
<1>8. Intact(Complete(noted, t, "reject"), t, known, was)
  BY <1>5, <1>6, CompleteIntact DEF Intact
<1>9. ASSUME ~(s.dest # Empty /\ HandlerOf(noted, t, "reject") = "cancel")
      PROVE  Intact(Checked(noted, t), t, known, was)
  <2>1. ASSUME known, Size[t] > 0 PROVE FALSE
    <3>1. s.dest = Empty
      BY <1>9, <2>1, Rejects
    <3>2. DOMAIN s.dest = 0 .. Size[t] - 1
      BY <2>1 DEF Intact, Whole
    <3>3. 0 \in DOMAIN s.dest /\ DOMAIN Empty = {}
      BY <1>0, <2>1, <3>2 DEF Empty
    <3>. QED
      BY <3>1, <3>3
  <2>2. known => Whole(s.dest, t)
    BY DEF Intact
  <2>3. Intact(noted, t, known, was)
    BY <1>6, <2>1, <2>2 DEF Intact
  <2>. QED
    BY <1>5, <1>7, <2>3, CheckedIntact
<1>. QED
  BY <1>2, <1>8, <1>9

\* The end of the file may complete it.
LEMMA EofIntact ==
    ASSUME NEW t \in AnyTxn, NEW s, Good(s, t), InFdu(s.fdu, Size[t]),
           NEW known, NEW was, Intact(s, t, known, was)
    PROVE  Intact(WithEof(s, t), t, known, was)
<1> DEFINE a == TRUE
           fdu == [s.fdu EXCEPT !.eof = a, !.watched = a]
           noted == [s EXCEPT !.fdu = fdu]
<1>0. s.fdu # NoFdu /\ File(s.dest, Size[t])
  BY NotNoFdu DEF InFdu, Good
<1>1. WithEof(s, t) = s \/ WithEof(s, t) = Checked(noted, t)
  <2>1. [s EXCEPT !.fdu.eof = a, !.fdu.watched = a] = noted
    BY DEF Good, SinkFields, InFdu, InFields
  <2>. QED
    BY <2>1 DEF WithEof
<1> HIDE DEF a
<1>2. InFdu(fdu, Size[t])
  <2>1. {} \in SUBSET Extent(Size[t]) /\ Separate({})
    BY DEF Separate
  <2>2. "none" \in {"none", "dest", "temp"}
    OBVIOUS
  <2>. QED
    BY <2>1, <2>2, FduWith
<1>3. /\ fdu.extents = s.fdu.extents /\ fdu.bytesReceived = s.fdu.bytesReceived
      /\ fdu.workingFile = s.fdu.workingFile /\ fdu.metadata = s.fdu.metadata
  BY FieldsWith
<1> HIDE DEF fdu
<1>4. Good(noted, t)
  BY <1>0, <1>2, GoodWith
<1>5. Intact(noted, t, known, was)
  BY <1>0, <1>2, <1>3, SameIntact
<1>6. noted.fdu = fdu /\ fdu # NoFdu
  BY <1>2, NotNoFdu DEF InFdu, Good, SinkFields
<1> HIDE DEF noted
<1>7. Intact(Checked(noted, t), t, known, was)
  BY <1>4, <1>5, <1>6, CheckedIntact
<1>. QED
  BY <1>1, <1>7

(* The data of a segment of which nothing had come. *)
LEMMA NewData ==
    ASSUME NEW t \in AnyTxn, Apart(t), NEW s, Good(s, t), InFdu(s.fdu, Size[t]), Held(s, t),
           NEW seg \in Parts(t), ~Known(s.fdu.extents, seg)
    PROVE  /\ NewUnits(s.fdu.extents, seg) = Units(seg)
           /\ WrittenAt(s.fdu.extents, seg) = [u \in Units(seg) |-> u]
           /\ Covered(Merged(s.fdu.extents, seg)) = Covered(s.fdu.extents) \cup Units(seg)
           /\ Units(seg) \cap Covered(s.fdu.extents) = {}
           /\ IsFiniteSet(Units(seg)) /\ Cardinality(Units(seg)) \in Nat
           /\ Cardinality(Covered(Merged(s.fdu.extents, seg)))
                 = Cardinality(Covered(s.fdu.extents)) + Cardinality(Units(seg))
           /\ \A p \in Parts(t) : \/ Units(p) \subseteq Covered(Merged(s.fdu.extents, seg))
                                  \/ Units(p) \cap Covered(Merged(s.fdu.extents, seg)) = {}
<1> DEFINE E == s.fdu.extents
           N == Size[t]
           C == Covered(E)
           D == Covered(Merged(E, seg))
           U == Units(seg)
<1>1. seg \in Extent(N) /\ seg.offset < seg.end /\ N \in Nat /\ E \in SUBSET Extent(N) /\ Separate(E)
  BY PartsFit, CfdpAssumption DEF InFdu
<1>2. U \cap C = {}
  <2>1. U \subseteq C \/ U \cap C = {}
    BY DEF Held
  <2> HIDE DEF E, N
  <2>2. ~(U \subseteq C)
    BY <1>1, KnownIfCovered DEF E
  <2>. QED
    BY <2>1, <2>2
<1>3. NewUnits(E, seg) = U /\ WrittenAt(E, seg) = [u \in U |-> u]
  <2> HIDE DEF E, N
  <2>. QED
    BY <1>1, <1>2, WrittenInPlace
<1>4. D = C \cup U
  <2> HIDE DEF E, N
  <2>. QED
    BY <1>1, MergedCovers
<1>5. C \in SUBSET (0 .. N) /\ U \in SUBSET (0 .. N)
  <2>1. \A e \in E \cup {seg} : Units(e) \subseteq 0 .. N
    BY <1>1 DEF Extent, Units
  <2>. QED
    BY <2>1 DEF Covered
<1>6. IsFiniteSet(C) /\ IsFiniteSet(U)
  <2>1. 0 \in Int /\ N \in Int
    BY <1>1
  <2>2. IsFiniteSet(0 .. N)
    BY <2>1, FS_Interval
  <2> HIDE DEF C, U
  <2>. QED
    BY <1>5, <2>2, FS_Subset
<1>7. Cardinality(D) = Cardinality(C) + Cardinality(U)
  <2> HIDE DEF C, U, D
  <2>1. IsFiniteSet(C \cap U) /\ Cardinality(C \cap U) = 0
    BY <1>2, FS_EmptySet
  <2>2. Cardinality(C \cup U) = Cardinality(C) + Cardinality(U) - Cardinality(C \cap U)
    BY <1>6, FS_Union
  <2>3. Cardinality(C) \in Nat /\ Cardinality(U) \in Nat
    BY <1>6, FS_CardinalityType
  <2>4. Cardinality(D) = Cardinality(C \cup U)
    BY <1>4
  <2>. QED
    BY <2>1, <2>2, <2>3, <2>4
<1>8. ASSUME NEW p \in Parts(t) PROVE Units(p) \subseteq D \/ Units(p) \cap D = {}
  <2>1. Units(p) \subseteq C \/ Units(p) \cap C = {}
    BY DEF Held
  <2>2. p = seg \/ Units(p) \cap U = {}
    BY PartsApart
  <2> HIDE DEF C, D
  <2>. QED
    BY <1>4, <2>1, <2>2
<1>9. Cardinality(U) \in Nat
  BY <1>6, FS_CardinalityType
<1>. QED
  BY <1>2, <1>3, <1>4, <1>6, <1>7, <1>8, <1>9

(* A file may fail to open; then its transaction ends.  *)
LEMMA DataIntact ==
    ASSUME NEW t \in AnyTxn, Apart(t), NEW s, Good(s, t), InFdu(s.fdu, Size[t]), s.ended = "none",
           NEW known, NEW was, Intact(s, t, known, was), NEW seg \in Parts(t),
           NEW opens, opens \/ MaxOpenFails # 0
    PROVE  Intact(HandleData(s, t, seg, opens), t, known, was)
<1>0. /\ Size[t] \in Nat /\ s.fdu # NoFdu /\ Held(s, t)
      /\ seg \in Extent(Size[t]) /\ seg.offset < seg.end
  BY CfdpAssumption, PartsFit, NotNoFdu DEF InFdu, Intact
<1>1. CASE Known(s.fdu.extents, seg)
  BY <1>1 DEF HandleData
<1>2. CASE ~Known(s.fdu.extents, seg)
  <2> DEFINE E == Merged(s.fdu.extents, seg)
             W == WrittenAt(s.fdu.extents, seg)
             a == TRUE
             new == NewUnits(s.fdu.extents, seg)
             b == s.fdu.bytesReceived + Cardinality(new)
             k == s.fdu.bytesReceived
             c == s.fdu.inOrder /\ new = k .. k + Cardinality(new) - 1
             w == IF s.fdu.workingFile = "dest" THEN "dest" ELSE "temp"
             fdu == [s.fdu EXCEPT !.watched = a, !.extents = E, !.bytesReceived = b,
                                  !.inOrder = c, !.workingFile = w]
             d == Overwritten(s[w], W)
             m == [s EXCEPT !.fdu = fdu, ![w] = d]
  <2>1. E \in SUBSET Extent(Size[t]) /\ Separate(E)
    BY <1>0, MergedCovers DEF InFdu
  <2>2. /\ new = Units(seg) /\ W = [u \in Units(seg) |-> u]
        /\ Covered(E) = Covered(s.fdu.extents) \cup Units(seg)
        /\ Units(seg) \cap Covered(s.fdu.extents) = {}
        /\ IsFiniteSet(Units(seg)) /\ Cardinality(Units(seg)) \in Nat
        /\ Cardinality(Covered(E)) = Cardinality(Covered(s.fdu.extents)) + Cardinality(Units(seg))
        /\ \A p \in Parts(t) : Units(p) \subseteq Covered(E) \/ Units(p) \cap Covered(E) = {}
    BY <1>0, <1>2, NewData
  <2>3. b \in Nat /\ b = s.fdu.bytesReceived + Cardinality(Units(seg)) /\ s.fdu.bytesReceived \in Nat
    BY <1>0, <2>2 DEF Held
  <2>4. d = [u \in DOMAIN s[w] \cup Units(seg) |-> IF u \in Units(seg) THEN u ELSE s[w][u]]
    BY <2>2 DEF Overwritten
  <2>5. WithData(s, t, seg) = m
    BY DEF WithData, Good, SinkFields
  <2>6. HandleData(s, t, seg, opens) =
           IF opens THEN Checked(m, t) ELSE Faulty([s EXCEPT !.fdu.extents = E], t, "reject")
    BY <1>2, <2>5 DEF HandleData
  <2>7. /\ w = "dest" \/ w = "temp"
        /\ s[w] = FileOf(s) /\ (w = "dest" => s.fdu.workingFile = "dest")
    BY DEF FileOf
  <2>8. Good(m, t)
    <3>1. /\ File(s.dest, Size[t]) /\ File(s.temp, Size[t])
          /\ \A u \in Units(seg) : u \in 0 .. Size[t] - 1
      BY <1>0 DEF Good, Extent, Units
    <3>2. File(d, Size[t])
      BY <2>4, <3>1, <2>7 DEF File
    <3>3. w \in {"none", "dest", "temp"}
      BY <2>7
    <3> HIDE DEF w, E, b, c, a, d
    <3>4. InFdu(fdu, Size[t])
      BY <2>1, <3>3, FduWith
    <3> HIDE DEF fdu
    <3>5. CASE w = "dest"
      BY <3>2, <3>4, <3>5, GoodWith
    <3>6. CASE w = "temp"
      BY <3>2, <3>4, <3>6, GoodWith
    <3>. QED
      BY <2>7, <3>5, <3>6
  <2> HIDE DEF a, b, c, E, W, new
  <2>9. /\ fdu.extents = E /\ fdu.bytesReceived = b /\ fdu.workingFile = w
        /\ fdu.metadata = s.fdu.metadata /\ fdu.state = "active"
    <3> HIDE DEF w
    <3>. QED
      BY FieldsWith DEF InFdu
  <2> HIDE DEF fdu
  <2>10. m.fdu = fdu /\ m.ended = s.ended /\ m[w] = d /\ (w = "temp" => m.dest = s.dest)
    <3> HIDE DEF w, d
    <3>. QED
      BY <2>7 DEF Good, SinkFields
  <2>11. FileOf(m) = d
    <3>1. m.fdu.workingFile = w
      BY <2>9, <2>10
    <3> HIDE DEF m, w, d
    <3>. QED
      BY <2>7, <2>10, <3>1 DEF FileOf
  <2>17. Right(m.dest) /\ Right(m.temp)
    <3>1. Right(s.dest) /\ Right(s.temp)
      BY DEF Intact
    <3>2. Right(d)
      BY <2>4, <2>7, <3>1 DEF Right
    <3> HIDE DEF w, d
    <3>3. w = "temp" => m.temp = d /\ m.dest = s.dest
      BY DEF Good, SinkFields
    <3>4. w = "dest" => m.dest = d /\ m.temp = s.temp
      BY DEF Good, SinkFields
    <3>. QED
      BY <2>7, <3>1, <3>2, <3>3, <3>4
  <2>18. was => Whole(m.dest, t)
    <3>1. was => Whole(s.dest, t)
      BY <1>0 DEF Intact
    <3>2. w = "dest" /\ Whole(s.dest, t) => Whole(d, t)
      <4>1. SUFFICES ASSUME w = "dest", Whole(s.dest, t) PROVE Whole(d, t)
        OBVIOUS
      <4>2. DOMAIN s[w] = 0 .. Size[t] - 1
        BY <4>1 DEF Whole
      <4>3. Units(seg) \subseteq 0 .. Size[t] - 1
        BY <1>0 DEF Extent, Units
      <4>4. DOMAIN d = 0 .. Size[t] - 1
        BY <2>4, <4>2, <4>3
      <4>5. File(d, Size[t]) /\ Right(d)
        <5>1. m.dest = d
          <6> HIDE DEF w, d
          <6>. QED
            BY <2>10, <4>1
        <5> HIDE DEF d
        <5>. QED
          BY <2>8, <2>17, <5>1 DEF Good
      <4> HIDE DEF d
      <4>. QED
        BY <4>4, <4>5, AllWhole
    <3> HIDE DEF w, d
    <3>. QED
      BY <2>7, <2>10, <3>1, <3>2
  <2> HIDE DEF m
  <2>12. Held(m, t)
    <3> DEFINE A == Arrived(s)
               U == Units(seg)
    <3>1. DOMAIN d = DOMAIN FileOf(s) \cup U
      BY <2>4, <2>7
    <3>2. w # "none"
      BY <2>7
    <3> HIDE DEF w, d
    <3>3. Arrived(m) = A \cup U
      <4>1. Arrived(m) = Covered(E) \cap DOMAIN d
        BY <2>9, <2>10, <2>11 DEF Arrived
      <4>. QED
        BY <2>2, <3>1, <4>1 DEF Arrived
    <3>4. A \cap U = {} /\ IsFiniteSet(A) /\ Cardinality(A) \in Nat
      BY <2>2, ArrivedUnits DEF Arrived
    <3>5. Cardinality(Arrived(m)) = Cardinality(A) + Cardinality(U)
      <4> HIDE DEF A, U
      <4>1. Cardinality(A \cap U) = 0
        BY <3>4, FS_EmptySet
      <4>2. Cardinality(A \cup U) = Cardinality(A) + Cardinality(U) - Cardinality(A \cap U)
        BY <2>2, <3>4, FS_Union DEF U
      <4>3. Cardinality(U) \in Nat
        BY <2>2 DEF U
      <4>. QED
        BY <3>3, <3>4, <4>1, <4>2, <4>3
    <3>6. b <= Cardinality(Arrived(m))
      <4>1. s.fdu.bytesReceived <= Cardinality(A)
        BY <1>0 DEF Held
      <4> HIDE DEF A, b
      <4>. QED
        BY <2>2, <2>3, <3>4, <3>5, <4>1
    <3>7. Exact(t) => b = Cardinality(Covered(E)) /\ Covered(E) \subseteq DOMAIN d
      <4>1. Exact(t) => /\ s.fdu.bytesReceived = Cardinality(Covered(s.fdu.extents))
                        /\ Covered(s.fdu.extents) \subseteq DOMAIN FileOf(s)
        BY <1>0 DEF Held
      <4> HIDE DEF b
      <4>. QED
        BY <2>2, <2>3, <3>1, <4>1
    <3> HIDE DEF b, A, U
    <3>. QED
      BY <2>2, <2>3, <2>9, <2>10, <2>11, <3>2, <3>6, <3>7 DEF Held
  <2>13. known => /\ Whole(m.dest, t) /\ ~m.fdu.metadata /\ m.fdu.workingFile # "dest"
    <3>1. Size[t] > 0
      BY <1>0 DEF Extent
    <3>2. known => Whole(s.dest, t) /\ ~s.fdu.metadata /\ s.fdu.workingFile # "dest"
      BY <1>0, <3>1 DEF Intact
    <3> HIDE DEF d
    <3>. QED
      BY <2>7, <2>9, <2>10, <3>2
  <2>14. m.ended = "none" /\ m.fdu # NoFdu
    <3> HIDE DEF w, d
    <3>. QED
      BY <2>9, <2>10, NotNoFdu
  <2>15. Intact(Checked(m, t), t, known, was)
    <3>1. Intact(m, t, known, was)
      BY <2>12, <2>13, <2>14, <2>17, <2>18 DEF Intact
    <3>. QED
      BY <2>8, <2>14, <3>1, CheckedIntact
  <2>16. ASSUME ~opens PROVE Intact(Faulty([s EXCEPT !.fdu.extents = E], t, "reject"), t, known, was)
    <3> DEFINE f == [s.fdu EXCEPT !.extents = E]
               n == [s EXCEPT !.fdu = f]
    <3>1. [s EXCEPT !.fdu.extents = E] = n
      BY DEF Good, SinkFields, InFdu, InFields
    <3>2. n.dest = s.dest /\ n.temp = s.temp /\ n.fdu = f /\ n.ended = s.ended
      BY DEF Good, SinkFields
    <3>8. /\ f.extents = E /\ f.bytesReceived = s.fdu.bytesReceived
          /\ f.workingFile = s.fdu.workingFile /\ f.metadata = s.fdu.metadata
      BY DEF InFdu, InFields
    <3>11. /\ Right(s.dest) /\ Right(s.temp) /\ (was => Whole(s.dest, t))
      BY <1>0 DEF Intact
    <3>3. InFdu(f, Size[t])
      <4>1. "none" \in {"none", "dest", "temp"}
        OBVIOUS
      <4>. QED
        BY <2>1, <4>1, FduWith
    <3> HIDE DEF f
    <3>4. Good(n, t)
      <4>1. File(s.dest, Size[t])
        BY DEF Good
      <4>. QED
        BY <3>3, <4>1, GoodWith
    <3> HIDE DEF n
    <3>6. known => Whole(n.dest, t)
      BY <3>2 DEF Intact
    <3>7. Intact(Complete(n, t, "reject"), t, known, was)
      BY <3>2, <3>4, <3>6, <3>11, CompleteIntact
    <3>9. ASSUME HandlerOf(n, t, "reject") # "cancel" PROVE Held(n, t)
      <4>1. ~Exact(t)
        BY <2>16, <3>9, Rejects DEF Exact
      <4>2. FileOf(n) = FileOf(s)
        BY <3>2, <3>8 DEF FileOf
      <4>3. Arrived(s) \in SUBSET Arrived(n)
        BY <2>2, <3>2, <3>8, <4>2 DEF Arrived
      <4>4. IsFiniteSet(Arrived(n)) /\ Cardinality(Arrived(n)) \in Nat /\ Cardinality(Arrived(s)) \in Nat
        BY <3>4, ArrivedUnits
      <4>5. Cardinality(Arrived(s)) <= Cardinality(Arrived(n))
        BY <4>3, <4>4, FS_Subset
      <4>6. s.fdu.bytesReceived \in Nat /\ s.fdu.bytesReceived <= Cardinality(Arrived(n))
        BY <1>0, <4>4, <4>5 DEF Held
      <4>7. s.fdu.workingFile = "none" => s.fdu.bytesReceived = 0
        BY <1>0 DEF Held
      <4>. QED
        BY <2>2, <3>2, <3>8, <4>1, <4>6, <4>7 DEF Held
    <3>10. ASSUME HandlerOf(n, t, "reject") # "cancel" PROVE Intact(n, t, known, was)
      <4>1. Size[t] > 0
        BY <1>0 DEF Extent
      <4>2. known => Whole(s.dest, t) /\ ~s.fdu.metadata /\ s.fdu.workingFile # "dest"
        BY <1>0, <4>1 DEF Intact
      <4>. QED
        BY <3>2, <3>8, <3>9, <3>10, <3>11, <4>2 DEF Intact
    <3>. QED
      BY <3>1, <3>7, <3>10 DEF Faulty
  <2>. QED
    BY <2>6, <2>15, <2>16
<1>. QED
  BY <1>1, <1>2

\* cfdpHandleInboundPdu keeps what the destination has intact.
LEMMA HandledIntact ==
    ASSUME NEW p \in Pdus(AnyTxn), Apart(p.txn), NEW opens, opens \/ MaxOpenFails # 0,
           Good(sink[p.txn], p.txn), sink[p.txn].ended = "none",
           NEW known, NEW was, known => Refuses(p.txn), was => Whole(sink[p.txn].dest, p.txn),
           Intact(sink[p.txn], p.txn, known, was)
    PROVE  Intact(Handled(p, opens), p.txn, known, was)
<1> DEFINE t == p.txn
           s == Found(sink[t])
<1>1. /\ t \in AnyTxn /\ p.kind \in {"metadata", "data", "eof"}
      /\ p.kind = "data" => p.seg \in Parts(t)
  BY PdusKnown
<1>2. Good(s, t) /\ InFdu(s.fdu, Size[t]) /\ s.ended = "none" /\ Intact(s, t, known, was)
  <2>1. CASE sink[t].fdu = NoFdu
    <3>1. s = [sink[t] EXCEPT !.fdu = NewInFdu]
      BY <2>1 DEF Found
    <3>2. InFdu(NewInFdu, Size[t]) /\ File(sink[t].dest, Size[t])
      BY DEF InFdu, InFields, NewInFdu, Separate, Good
    <3> HIDE DEF t, s
    <3>3. Good([sink[t] EXCEPT !.fdu = NewInFdu], t)
      BY <3>2, GoodWith DEF t
    <3>4. s.fdu = NewInFdu /\ s.ended = "none" /\ s.dest = sink[t].dest /\ s.temp = sink[t].temp
      BY <3>1 DEF Good, SinkFields, t
    <3>5. /\ NewInFdu.extents = {} /\ NewInFdu.bytesReceived = 0 /\ NewInFdu.workingFile = "none"
          /\ ~NewInFdu.metadata
      BY DEF NewInFdu
    <3>6. Covered({}) = {} /\ Cardinality(Covered({})) = 0
      BY FS_EmptySet DEF Covered
    <3>7. Held(s, t)
      <4>1. Covered(s.fdu.extents) = {} /\ Cardinality(Covered(s.fdu.extents)) = 0
        BY <3>4, <3>5, <3>6
      <4>2. Arrived(s) = {}
        BY <4>1 DEF Arrived
      <4>3. Cardinality(Arrived(s)) = 0
        BY <4>2, FS_EmptySet
      <4>. QED
        BY <3>4, <3>5, <4>1, <4>3 DEF Held
    <3>10. Right(s.dest) /\ Right(s.temp) /\ (was => Whole(s.dest, t))
      BY <3>4 DEF Intact, t
    <3>8. known => Whole(s.dest, t)
      BY <3>4 DEF Intact, t
    <3>9. Intact(s, t, known, was)
      BY <3>4, <3>5, <3>7, <3>8, <3>10 DEF Intact
    <3>. QED
      BY <3>1, <3>2, <3>3, <3>4, <3>9
  <2>2. CASE sink[t].fdu # NoFdu
    BY <2>2 DEF Found, Good
  <2>. QED
    BY <2>1, <2>2
<1>3. /\ p.kind = "metadata" => Handled(p, opens) = WithMetadata(s, t)
      /\ p.kind = "eof" => Handled(p, opens) = WithEof(s, t)
      /\ p.kind = "data" => Handled(p, opens) = HandleData(s, t, p.seg, opens)
  BY DEF Handled
<1> HIDE DEF s, t
<1>4. CASE p.kind = "metadata"
  BY <1>1, <1>2, <1>3, <1>4, MetadataIntact DEF t
<1>5. CASE p.kind = "eof"
  BY <1>1, <1>2, <1>3, <1>5, EofIntact DEF t
<1>6. CASE p.kind = "data"
  BY <1>1, <1>2, <1>3, <1>6, DataIntact DEF t
<1>. QED
  BY <1>1, <1>4, <1>5, <1>6

\* So does scanInFdus.
LEMMA ScannedIntact ==
    ASSUME NEW t \in AnyTxn, NEW s, Good(s, t), s.fdu # NoFdu, s.ended = "none",
           NEW known, NEW was, Intact(s, t, known, was), NEW quiet, NEW late
    PROVE  Intact(Scanned(s, t, quiet, late), t, known, was)
<1> DEFINE first == IF quiet /\ s.fdu.watched THEN Unwatched(s, t) ELSE s
           second == IF late THEN Counted(first) ELSE first
<1>1. ASSUME NEW m, Good(m, t), m.fdu # NoFdu, Intact(m, t, known, was), NEW f, InFdu(f, Size[t]),
             f.extents = m.fdu.extents, f.bytesReceived = m.fdu.bytesReceived,
             f.workingFile = m.fdu.workingFile, f.metadata = m.fdu.metadata
      PROVE  LET n == [m EXCEPT !.fdu = f]
             IN  Good(n, t) /\ n.fdu # NoFdu /\ Intact(n, t, known, was)
  <2> DEFINE n == [m EXCEPT !.fdu = f]
  <2>1. File(m.dest, Size[t])
    BY <1>1 DEF Good
  <2>2. Good(n, t)
    BY <1>1, <2>1, GoodWith
  <2>3. n.fdu = f /\ f # NoFdu
    BY <1>1, NotNoFdu DEF Good, SinkFields, InFdu
  <2>4. Intact(n, t, known, was)
    BY <1>1, SameIntact
  <2>. QED
    BY <2>2, <2>3, <2>4
<1>2. {} \in SUBSET Extent(Size[t]) /\ Separate({}) /\ "none" \in {"none", "dest", "temp"}
  BY DEF Separate
<1>3. Good(first, t) /\ Intact(first, t, known, was)
  <2> DEFINE b == FALSE
             f == [s.fdu EXCEPT !.watched = b]
             r == [s EXCEPT !.fdu.watched = b]
  <2>1. InFdu(s.fdu, Size[t])
    BY DEF Good
  <2>2. r = [s EXCEPT !.fdu = f]
    BY <2>1 DEF Good, SinkFields, InFdu, InFields
  <2>3. first = s \/ first = Faulty(r, t, "inactive")
    BY DEF Unwatched
  <2> HIDE DEF b, r
  <2>4. InFdu(f, Size[t])
    BY <1>2, <2>1, FduWith
  <2>5. /\ f.extents = s.fdu.extents /\ f.bytesReceived = s.fdu.bytesReceived
        /\ f.workingFile = s.fdu.workingFile /\ f.metadata = s.fdu.metadata
    BY <2>1, FieldsWith
  <2> HIDE DEF f, first
  <2>6. Good(r, t) /\ r.fdu # NoFdu /\ Intact(r, t, known, was)
    BY <1>1, <2>2, <2>4, <2>5
  <2>7. Good(Faulty(r, t, "inactive"), t) /\ Intact(Faulty(r, t, "inactive"), t, known, was)
    BY <2>6, GoodFaulty, FaultyIntact DEF Fault
  <2>. QED
    BY <2>3, <2>7
<1>4. \/ first.fdu = NoFdu /\ Scanned(s, t, quiet, late) = first
      \/ first.fdu # NoFdu /\ Scanned(s, t, quiet, late) = Limited(second, t)
  BY DEF Scanned
<1> HIDE DEF first
<1>5. ASSUME first.fdu # NoFdu
      PROVE  Good(second, t) /\ second.fdu # NoFdu /\ Intact(second, t, known, was)
  <2> DEFINE k == first.fdu.checkTimeouts + 1
             f == [first.fdu EXCEPT !.checkTimeouts = k]
             r == [first EXCEPT !.fdu.checkTimeouts = k]
  <2>1. InFdu(first.fdu, Size[t])
    BY <1>3, <1>5 DEF Good
  <2>2. r = [first EXCEPT !.fdu = f]
    BY <1>3, <2>1 DEF Good, SinkFields, InFdu, InFields
  <2>3. second = first \/ second = r
    BY <1>3, <2>1 DEF Counted, Good, SinkFields, InFdu, InFields
  <2> HIDE DEF k, r
  <2>4. InFdu(f, Size[t])
    BY <1>2, <2>1, FduWith
  <2>5. /\ f.extents = first.fdu.extents /\ f.bytesReceived = first.fdu.bytesReceived
        /\ f.workingFile = first.fdu.workingFile /\ f.metadata = first.fdu.metadata
    BY <2>1, FieldsWith
  <2> HIDE DEF f, second
  <2>6. Good(r, t) /\ r.fdu # NoFdu /\ Intact(r, t, known, was)
    BY <1>1, <1>3, <1>5, <2>2, <2>4, <2>5
  <2>. QED
    BY <1>3, <1>5, <2>3, <2>6
<1> HIDE DEF second
<1>6. first.fdu # NoFdu => Intact(Limited(second, t), t, known, was)
  BY <1>5, FaultyIntact DEF Limited, Fault
<1>. QED
  BY <1>3, <1>4, <1>6

\* What the destination has is intact, of the transactions whose segments do not overlap.
FileInv ==
    \A t \in AnyTxn : Apart(t) => Intact(sink[t], t, Refuses(t) /\ t \in delivered, FALSE)

\* What a step may do to a file, as LostOnlyAtEnd has it.
FilesKept ==
    \A t \in AnyTxn : Apart(t) =>
       /\ t \in delivered' \ delivered => Whole(sink'[t].dest, t)
       /\ t \in delivered /\ Whole(sink[t].dest, t) /\ ~Whole(sink'[t].dest, t) =>
             ~Refuses(t) /\ sink'[t].fdu = NoFdu

\* The end of an FDU is forgotten, its delivery is not.
LEMMA RestIntact ==
    ASSUME NEW t, NEW s, Good(s, t), NEW known, NEW was, Intact(s, t, known, was), NEW r,
           NEW now, now => known \/ s.ended = "complete"
    PROVE  Intact([s EXCEPT !.ended = "none", !.reply = r], t, now, was)
<1> DEFINE n == [s EXCEPT !.ended = "none", !.reply = r]
<1>1. n.fdu = s.fdu /\ n.dest = s.dest /\ n.temp = s.temp /\ n.ended = "none"
  BY DEF Good, SinkFields
<1> HIDE DEF n
<1>2. Intact(n, t, now, was)
  BY <1>1 DEF Intact, Held, Arrived, FileOf
<1>. QED
  BY <1>2 DEF n

\* Whether a file was whole is of no account to what is kept.
LEMMA WasIntact ==
    ASSUME NEW t, NEW s, NEW known, NEW was, NEW then, then => was, Intact(s, t, known, was)
    PROVE  Intact(s, t, known, then)
BY DEF Intact

LEMMA WasWhole ==
    ASSUME NEW t, NEW s, NEW known, Intact(s, t, known, FALSE), NEW was, was => Whole(s.dest, t)
    PROVE  Intact(s, t, known, was)
BY DEF Intact

\* Whatever becomes of some of the transactions, if each is intact.
LEMMA FileStep ==
    ASSUME TypeInv, FileInv, NEW new, DOMAIN new \subseteq AnyTxn, SinkBecomes(new),
           \A t \in DOMAIN new :
              /\ Good(new[t], t)
              /\ Apart(t) => Intact(new[t], t, Refuses(t) /\ t \in delivered, Whole(sink[t].dest, t))
    PROVE  FileInv' /\ FilesKept
<1> DEFINE T == DOMAIN new
           no == FALSE
<1>1. sink' = [t \in AnyTxn |-> IF t \in T
                  THEN [new[t] EXCEPT !.ended = "none", !.reply = no] ELSE sink[t]]
  BY DEF SinkBecomes
<1>2. delivered' = delivered \cup {t \in T : new[t].ended = "complete"}
  BY DEF SinkBecomes
<1> HIDE DEF no
<1>3. ASSUME NEW t \in AnyTxn, Apart(t)
      PROVE  /\ Intact(sink'[t], t, Refuses(t) /\ t \in delivered', Whole(sink[t].dest, t))
             /\ t \in delivered' \ delivered => Whole(sink'[t].dest, t)
  <2>1. CASE t \in T
    <3> DEFINE s == new[t]
               K == Refuses(t) /\ t \in delivered
               now == Refuses(t) /\ t \in delivered'
               was == Whole(sink[t].dest, t)
               n == [s EXCEPT !.ended = "none", !.reply = no]
    <3>1. Good(s, t) /\ Intact(s, t, K, was)
      BY <1>3, <2>1
    <3>2. sink'[t] = n
      BY <1>1, <2>1
    <3>3. /\ now => K \/ s.ended = "complete"
          /\ t \in delivered' \ delivered => s.ended = "complete"
      BY <1>2, <2>1
    <3> HIDE DEF s, T, K, now, was
    <3>4. Intact(n, t, now, was)
      BY <3>1, <3>3, RestIntact
    <3>5. n.dest = s.dest
      BY <3>1 DEF Good, SinkFields
    <3>6. s.ended = "complete" => Whole(s.dest, t)
      BY <3>1 DEF Intact
    <3> HIDE DEF n
    <3>. QED
      BY <3>2, <3>3, <3>4, <3>5, <3>6 DEF now, was
  <2>2. CASE t \notin T
    <3> DEFINE K == Refuses(t) /\ t \in delivered
               was == Whole(sink[t].dest, t)
    <3>1. sink'[t] = sink[t] /\ (t \in delivered' <=> t \in delivered)
      BY <1>1, <1>2, <2>2
    <3>2. Intact(sink[t], t, K, FALSE) /\ (was => Whole(sink[t].dest, t))
      BY <1>3 DEF FileInv
    <3> HIDE DEF K, was
    <3>3. Intact(sink[t], t, K, was)
      BY <3>2, WasWhole
    <3>. QED
      BY <3>1, <3>3 DEF K, was
  <2>. QED
    BY <2>1, <2>2
<1>4. FileInv'
  <2> SUFFICES ASSUME NEW t \in AnyTxn, Apart(t)
               PROVE  Intact(sink'[t], t, Refuses(t) /\ t \in delivered', FALSE)
    BY DEF FileInv, Intact, Held, Arrived, FileOf
  <2> DEFINE now == Refuses(t) /\ t \in delivered'
             was == Whole(sink[t].dest, t)
             s == sink'[t]
  <2>1. Intact(s, t, now, was)
    BY <1>3
  <2> HIDE DEF now, was, s
  <2>2. Intact(s, t, now, FALSE)
    BY <2>1, WasIntact
  <2>. QED
    BY <2>2 DEF now, s
<1>5. FilesKept
  <2> SUFFICES ASSUME NEW t \in AnyTxn, Apart(t)
               PROVE  /\ t \in delivered' \ delivered => Whole(sink'[t].dest, t)
                      /\ t \in delivered /\ Whole(sink[t].dest, t) /\ ~Whole(sink'[t].dest, t) =>
                            ~Refuses(t) /\ sink'[t].fdu = NoFdu
    BY DEF FilesKept
  <2>1. t \in delivered => t \in delivered'
    BY <1>2
  <2>2. /\ Refuses(t) /\ t \in delivered' => Whole(sink'[t].dest, t)
        /\ Whole(sink[t].dest, t) => sink'[t].fdu = NoFdu \/ Whole(sink'[t].dest, t)
    BY <1>3 DEF Intact
  <2>. QED
    BY <1>3, <2>1, <2>2
<1>. QED
  BY <1>4, <1>5

\* Nothing else can disturb the files.
LEMMA FileRests ==
    ASSUME FileInv, UNCHANGED <<sink, delivered>>
    PROVE  FileInv' /\ FilesKept
BY DEF FileInv, FilesKept, Intact, Held, Arrived, FileOf

\* How many files failed to open is counted.
OpensInv == spent.opens \in Nat

LEMMA OpensNext ==
    ASSUME TypeInv, OpensInv, [Next]_vars
    PROVE  OpensInv'
<1>1. DOMAIN spent = {"put", "cancels", "suspends", "dups", "opens"} /\ spent.opens \in Nat
  BY DEF TypeInv, ClosureInv, OutTypes, SinkInv, SourceInv, OpensInv
<1>2. CASE UNCHANGED spent
  BY <1>1, <1>2 DEF OpensInv
<1>3. CASE \E t \in Txn : Put(t) \/ Cancel(t) \/ Suspend(t) \/ Resume(t)
  BY <1>1, <1>3 DEF Put, Cancel, Suspend, Resume, OpensInv
<1>4. CASE \E p \in net, again, opens \in BOOLEAN : HandlePdu(p, again, opens)
  BY <1>1, <1>4 DEF HandlePdu, OpensInv
<1>5. CASE \E p \in back, again \in BOOLEAN : HandleFinishPdu(p, again)
  BY <1>1, <1>5 DEF HandleFinishPdu, OpensInv
<1>6. CASE \E t \in AnyTxn : CancelInbound(t)
  BY <1>1, <1>6 DEF CancelInbound, OpensInv
<1>. QED
  BY <1>2, <1>3, <1>4, <1>5, <1>6
     DEF Next, vars, SendPdu, Transmit, Expire, SendFinishPdu, ScanOutFdus, Lose, ScanFinsPending, ScanInFdus

\* A PDU may change the files of its transaction.
LEMMA PduFile ==
    ASSUME TypeInv, FileInv, OpensInv, NEW p \in net, NEW again \in BOOLEAN, NEW opens \in BOOLEAN,
           HandlePdu(p, again, opens)
    PROVE  FileInv' /\ FilesKept
<1> DEFINE t == p.txn
           K == Refuses(t) /\ t \in delivered
           was == Whole(sink[t].dest, t)
           new == [u \in {t} |-> Handled(p, opens)]
<1>1. p \in Pdus(AnyTxn) /\ t \in AnyTxn
  BY PdusKnown DEF TypeInv, SourceInv
<1>2. SinkBecomes(new) /\ (opens \/ MaxOpenFails # 0)
  <2>1. ~opens => spent.opens < MaxOpenFails
    BY DEF HandlePdu
  <2>2. ~opens => MaxOpenFails # 0
    BY <2>1, CfdpAssumption DEF OpensInv
  <2>. QED
    BY <2>2 DEF HandlePdu
<1>3. Good(sink[t], t) /\ sink[t].ended = "none"
  BY <1>1 DEF TypeInv, SinkInv
<1>4. Good(Handled(p, opens), t)
  BY <1>1, <1>3, GoodHandled
<1>5. ASSUME Apart(t) PROVE Intact(Handled(p, opens), t, K, was)
  <2>1. Intact(sink[t], t, K, FALSE) /\ (was => Whole(sink[t].dest, t)) /\ (K => Refuses(t))
    BY <1>1, <1>5 DEF FileInv
  <2> HIDE DEF K, was
  <2>2. Intact(sink[t], t, K, was)
    BY <2>1, WasWhole
  <2>. QED
    BY <1>1, <1>2, <1>3, <1>5, <2>1, <2>2, HandledIntact
<1>6. /\ DOMAIN new \subseteq AnyTxn
      /\ \A u \in DOMAIN new :
            /\ Good(new[u], u)
            /\ Apart(u) => Intact(new[u], u, Refuses(u) /\ u \in delivered, Whole(sink[u].dest, u))
  BY <1>1, <1>4, <1>5
<1> HIDE DEF new
<1>. QED
  BY <1>2, <1>6, FileStep

\* So may a user who cancels ...
LEMMA CancelFile ==
    ASSUME TypeInv, FileInv, NEW t \in AnyTxn, CancelInbound(t)
    PROVE  FileInv' /\ FilesKept
<1> DEFINE K == Refuses(t) /\ t \in delivered
           was == Whole(sink[t].dest, t)
           new == [u \in {t} |-> Complete(sink[u], u, "canceled")]
<1>1. SinkBecomes(new) /\ sink[t].fdu # NoFdu
  BY DEF CancelInbound
<1>2. Good(sink[t], t) /\ Good(Complete(sink[t], t, "canceled"), t)
  BY GoodComplete DEF TypeInv, SinkInv
<1>3. ASSUME Apart(t) PROVE Intact(Complete(sink[t], t, "canceled"), t, K, was)
  <2>1. Intact(sink[t], t, K, FALSE)
    BY <1>3 DEF FileInv
  <2> HIDE DEF K, was
  <2>. QED
    BY <1>1, <1>2, <2>1, CompleteIntact DEF Intact
<1>4. /\ DOMAIN new \subseteq AnyTxn
      /\ \A u \in DOMAIN new :
            /\ Good(new[u], u)
            /\ Apart(u) => Intact(new[u], u, Refuses(u) /\ u \in delivered, Whole(sink[u].dest, u))
  BY <1>2, <1>3
<1> HIDE DEF new
<1>. QED
  BY <1>1, <1>4, FileStep

\* ... and the clock, those of every transaction.
LEMMA ScanFile ==
    ASSUME TypeInv, FileInv, NEW quiet, NEW late, ScanInFdus(quiet, late)
    PROVE  FileInv' /\ FilesKept
<1> DEFINE T == {t \in AnyTxn : sink[t].fdu # NoFdu}
           new == [t \in T |-> Scanned(sink[t], t, t \in quiet, t \in late)]
<1>1. SinkBecomes(new)
  BY DEF ScanInFdus
<1>2. ASSUME NEW t \in T
      PROVE  LET n == Scanned(sink[t], t, t \in quiet, t \in late)
             IN  /\ Good(n, t)
                 /\ Apart(t) => Intact(n, t, Refuses(t) /\ t \in delivered, Whole(sink[t].dest, t))
  <2> DEFINE K == Refuses(t) /\ t \in delivered
             was == Whole(sink[t].dest, t)
             q == t \in quiet
             l == t \in late
  <2>1. /\ Good(sink[t], t) /\ sink[t].fdu # NoFdu /\ sink[t].ended = "none"
        /\ Apart(t) => Intact(sink[t], t, K, FALSE)
        /\ was => Whole(sink[t].dest, t)
    BY DEF TypeInv, SinkInv, FileInv
  <2> HIDE DEF K, q, l, was
  <2>2. Good(Scanned(sink[t], t, q, l), t)
    BY <2>1, GoodScanned
  <2>3. Apart(t) => Intact(Scanned(sink[t], t, q, l), t, K, was)
    BY <2>1, WasWhole, ScannedIntact
  <2>. QED
    BY <2>2, <2>3 DEF K, q, l, was
<1>3. /\ DOMAIN new \subseteq AnyTxn
      /\ \A t \in DOMAIN new :
            /\ Good(new[t], t)
            /\ Apart(t) => Intact(new[t], t, Refuses(t) /\ t \in delivered, Whole(sink[t].dest, t))
  BY <1>2
<1> HIDE DEF new
<1>. QED
  BY <1>1, <1>3, FileStep

\* Every step keeps the files intact.
LEMMA FileNext ==
    ASSUME TypeInv, FileInv, OpensInv, [Next]_vars
    PROVE  FileInv' /\ FilesKept
<1>1. CASE \E t \in Txn : Put(t) \/ Cancel(t) \/ Suspend(t) \/ Resume(t)
  BY <1>1, FileRests DEF Put, Cancel, Suspend, Resume
<1>2. CASE SendPdu \/ Transmit \/ Expire \/ SendFinishPdu \/ ScanOutFdus
  BY <1>2, FileRests DEF SendPdu, Transmit, Expire, SendFinishPdu, ScanOutFdus
<1>3. CASE \E p \in net, again, opens \in BOOLEAN : HandlePdu(p, again, opens)
  BY <1>3, PduFile
<1>4. CASE \E p \in back, again \in BOOLEAN : HandleFinishPdu(p, again)
  BY <1>4, FileRests DEF HandleFinishPdu
<1>5. CASE \E p \in net \cup back : Lose(p)
  BY <1>5, FileRests DEF Lose
<1>6. CASE \E t \in AnyTxn : CancelInbound(t)
  BY <1>6, CancelFile
<1>7. CASE \E due \in SUBSET Txn : ScanFinsPending(due)
  BY <1>7, FileRests DEF ScanFinsPending
<1>8. CASE \E quiet, late \in SUBSET AnyTxn : ScanInFdus(quiet, late)
  BY <1>8, ScanFile
<1>9. CASE UNCHANGED vars
  BY <1>9, FileRests DEF vars
<1>. QED
  BY <1>1, <1>2, <1>3, <1>4, <1>5, <1>6, <1>7, <1>8, <1>9 DEF Next

\* At first there is nothing.
LEMMA FileInit == Init => FileInv
<1> SUFFICES ASSUME Init PROVE FileInv
  OBVIOUS
<1>1. /\ delivered = {}
      /\ \A t \in AnyTxn : /\ sink[t].fdu = NoFdu /\ sink[t].ended = "none"
                           /\ sink[t].dest = Empty /\ sink[t].temp = Empty
  BY DEF Init
<1>2. Right(Empty)
  BY DEF Right, Empty
<1>. QED
  BY <1>1, <1>2 DEF FileInv, Intact

\* Thus they are always.
LEMMA FileInvHolds == Spec => [](TypeInv /\ FileInv /\ OpensInv)
<1>0. Init => OpensInv
  BY DEF Init, OpensInv
<1>1. Init => TypeInv /\ FileInv /\ OpensInv
  BY <1>0, TypeInit, FileInit
<1>2. TypeInv /\ FileInv /\ OpensInv /\ [Next]_vars => TypeInv' /\ FileInv' /\ OpensInv'
  BY TypeStep, FileNext, OpensNext
<1>. QED
  BY <1>1, <1>2, PTL DEF Spec

(* What the destination counts as received of a file is in the file, where  *)
(* it belongs, and is counted once, however segments come and how often:    *)
(* handleFileDataPdu and writeSegmentData.  It takes that the segments of   *)
(* another implementation do not overlap, and that a file that cannot be    *)
(* opened or filled ends its transaction; the source's own never do.        *)
THEOREM ReceivedWritten ==
    ASSUME \A t \in Foreign : Apart(t), (\A t \in AnyTxn : Refuses(t)) \/ MaxOpenFails = 0
    PROVE  Spec => []ReceivedIsWritten
<1>1. TypeInv /\ FileInv => ReceivedIsWritten
  <2> SUFFICES ASSUME TypeInv, FileInv, NEW t \in AnyTxn, sink[t].fdu # NoFdu
               PROVE  LET fdu  == sink[t].fdu
                          file == IF fdu.workingFile = "dest" THEN sink[t].dest ELSE sink[t].temp
                      IN  /\ Separate(fdu.extents)
                          /\ fdu.bytesReceived = Cardinality(Covered(fdu.extents))
                          /\ \A u \in Covered(fdu.extents) : u \in DOMAIN file /\ file[u] = u
    BY DEF ReceivedIsWritten
  <2>1. Apart(t) /\ Exact(t)
    BY DEF Apart, Exact, AnyTxn
  <2>2. Intact(sink[t], t, Refuses(t) /\ t \in delivered, FALSE) /\ Separate(sink[t].fdu.extents)
    BY <2>1 DEF FileInv, TypeInv, SinkInv, Good, InFdu
  <2>3. Held(sink[t], t) /\ Right(sink[t].dest) /\ Right(sink[t].temp)
    BY <2>2 DEF Intact
  <2>4. /\ sink[t].fdu.bytesReceived = Cardinality(Covered(sink[t].fdu.extents))
        /\ \A u \in Covered(sink[t].fdu.extents) : u \in DOMAIN FileOf(sink[t])
    BY <2>1, <2>3 DEF Held
  <2>. QED
    BY <2>2, <2>3, <2>4 DEF FileOf, Right
<1>. QED
  BY <1>1, FileInvHolds, PTL

(* A file that was reported complete is whole and stays so, whatever arrives *)
(* of its transaction afterwards, whatever the clock and users do, and       *)
(* whatever other transactions ask for, unless its metadata or the           *)
(* destination ask that a file be replaced: findInFdu makes an FDU again,    *)
(* handleMetadataPdu rejects it.                                             *)
THEOREM DeliveredStays ==
    Spec => [](\A t \in delivered : Apart(t) /\ Refuses(t) => Whole(sink[t].dest, t))
<1>1. TypeInv /\ FileInv => \A t \in delivered : Apart(t) /\ Refuses(t) => Whole(sink[t].dest, t)
  BY DEF TypeInv, SinkInv, FileInv, Intact
<1>. QED
  BY <1>1, FileInvHolds, PTL

(* If a file may be replaced too, it is whole when it is reported complete, *)
(* and is lost only when an FDU that was started again for it ends:         *)
(* handleFileDataPdu writes the same units over it, completeInFdu unlinks   *)
(* it or moves another over it.                                             *)
THEOREM LostAtEnd == Spec => LostOnlyAtEnd
<1>1. TypeInv /\ FileInv /\ OpensInv /\ [Next]_vars => [FilesKept]_vars
  BY FileNext
<1>2. Spec => [][FilesKept]_vars
  BY <1>1, FileInvHolds, PTL DEF Spec
<1>. QED
  BY <1>2 DEF LostOnlyAtEnd, FilesKept
=============================================================================
