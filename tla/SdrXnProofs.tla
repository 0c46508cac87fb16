---------------------------- MODULE SdrXnProofs ----------------------------
(***************************************************************************)
(* Proofs about SdrXn for every set of tasks, cells and values, every      *)
(* nesting, and a log in a file or of any size in memory.                  *)
(*                                                                         *)
(* Whatever is killed or lost, one task at a time is in a transaction. As  *)
(* long as power does not fail, a cancellation restores the heap, that of  *)
(* ionunlock for a killed task too; if no task is killed either, SdrXn     *)
(* implements the store of SdrStore: the updates of a transaction survive  *)
(* together or not at all. A first power failure, and those during the     *)
(* recovery from it, lose nothing either when the heap and the log are in  *)
(* files.                                                                  *)
(***************************************************************************)
EXTENDS SdrXn, FiniteSetTheorems, SequenceTheorems, WellFoundedInduction, TLAPS

Inside == {"old", "file", "dram", "mod", "rev", "trunc", "clear"}

Labels == Inside \cup {"idle", "run", "give", "dead"}

(* The inductive invariant behind mutual exclusion.  A task past its        *)
(* unlocking (pc "give") still holds the semaphore that it no longer owns,  *)
(* which is why owner = NoTask does not mean that the mutex is free.        *)
ControlInv ==
    /\ owner \in Task \cup {NoTask}
    /\ pc \in [Task -> Labels]
    /\ \A t \in Task : pc[t] \in Inside => owner = t
    /\ \A t \in Task : pc[t] = "idle" => owner # t
    /\ owner # NoTask => sem = "taken"
    /\ \A t \in Task : pc[t] = "give" => sem = "taken" /\ owner = NoTask
    /\ \A t, u \in Task : pc[t] = "give" /\ pc[u] = "give" => t = u
    /\ boot # "up" => owner = NoTask /\ \A t \in Task : pc[t] = "idle"

(* Initially nobody is inside. *)
LEMMA ControlInit == Init => ControlInv
  BY SdrXnAssumption DEF Init, ControlInv, Inside, Labels

(* Every step of the library, of its users and of the faults keeps it. *)
LEMMA ControlStep == ControlInv /\ [Next]_vars => ControlInv'
<1> SUFFICES ASSUME ControlInv, [Next]_vars
             PROVE  ControlInv'
  OBVIOUS
<1> USE SdrXnAssumption DEF ControlInv, Inside, Labels, Goto
<1>1. ASSUME NEW t \in Task, Begin(t)
      PROVE  ControlInv'
  BY <1>1 DEF Begin, lockVars, envVars, Available
<1>2. ASSUME NEW t \in Task, NEW c \in Cell, NEW v \in Val, PutStart(t, c, v)
      PROVE  ControlInv'
  BY <1>2 DEF PutStart, CrashXn, Terminate, ClosePc, FilePc, lockVars, envVars
<1>3. ASSUME NEW t \in Task, EndNotOwner(t) \/ EndInner(t)
      PROVE  ControlInv'
  BY <1>3 DEF EndNotOwner, EndInner, Ending, Leave, lockVars, envVars
<1>4. ASSUME NEW t \in Task, EndOuter(t) \/ CancelOuter(t) \/ ExitOuter(t) \/ Crash(t)
      PROVE  ControlInv'
  BY <1>4 DEF EndOuter, CancelOuter, ExitOuter, Crash, CrashXn, Terminate, ClosePc,
              Ending, Leave, lockVars, envVars
<1>5. ASSUME NEW t \in Task, PutOld(t) \/ PutFile(t) \/ PutDram(t) \/ PutModified(t)
      PROVE  ControlInv'
  BY <1>5 DEF PutOld, PutFile, PutDram, PutModified, CrashXn, Terminate, ClosePc,
              FilePc, lockVars, envVars
<1>6. ASSUME NEW t \in Task, PutFileShort(t)
      PROVE  ControlInv'
  BY <1>6 DEF PutFileShort, CrashXn, Terminate, ClosePc, lockVars
<1>7. ASSUME NEW t \in Task, ReverseEntry(t) \/ Truncate(t) \/ Clear(t)
      PROVE  ControlInv'
  BY <1>7 DEF ReverseEntry, Truncate, Clear, Closing, lockVars, envVars
<1>8. ASSUME NEW t \in Task, Give(t)
      PROVE  ControlInv'
  BY <1>8 DEF Give, envVars
<1>9. ASSUME NEW t \in Task, Kill(t) \/ Respawn(t)
      PROVE  ControlInv'
  BY <1>9 DEF Kill, Respawn, lockVars, envVars
<1>10. ASSUME NEW t \in Task, IonUnlock(t)
       PROVE  ControlInv'
  BY <1>10 DEF IonUnlock, Terminate, ClosePc, envVars
<1>11. ASSUME PowerFail \/ Load \/ LoadReverse \/ LoadRestage
       PROVE  ControlInv'
  BY <1>11 DEF PowerFail, Load, LoadReverse, LoadRestage, lockVars, taskVars, envVars
<1>12. ASSUME UNCHANGED vars
       PROVE  ControlInv'
  BY <1>12 DEF vars, lockVars, taskVars, envVars
<1>. QED
  BY <1>1, <1>2, <1>3, <1>4, <1>5, <1>6, <1>7, <1>8, <1>9, <1>10, <1>11, <1>12
  DEF Next, UserStep, LibraryStep

(* Mutual exclusion: the heap, the log and the end of a transaction are     *)
(* touched by one task at a time, whatever is killed, restarted or lost.    *)
THEOREM OneOwner == Spec => []OnlyOwnerInside
<1>1. ControlInv => OnlyOwnerInside
  BY SdrXnAssumption DEF ControlInv, OnlyOwnerInside, Inside
<1>. QED
  BY <1>1, ControlInit, ControlStep, PTL DEF Spec
-----------------------------------------------------------------------------
(* Types.                                                                   *)

(* The profile is that of the load. *)
LEMMA ProfileKept == [Next]_vars => profile' = profile
<1> SUFFICES ASSUME [Next]_vars PROVE profile' = profile
  OBVIOUS
<1>1. ASSUME NEW t \in Task, UserStep(t)
      PROVE  profile' = profile
  BY <1>1 DEF UserStep, Begin, PutStart, EndNotOwner, EndInner, EndOuter, CancelOuter, ExitOuter,
              Crash, envVars
<1>2. ASSUME NEW t \in Task, LibraryStep(t)
      PROVE  profile' = profile
  BY <1>2 DEF LibraryStep, PutOld, PutFile, PutFileShort, PutDram, PutModified, ReverseEntry,
              Truncate, Clear, Give, envVars
<1>3. ASSUME NEW t \in Task, Kill(t) \/ IonUnlock(t) \/ Respawn(t)
      PROVE  profile' = profile
  BY <1>3 DEF Kill, IonUnlock, Respawn, envVars
<1>4. ASSUME PowerFail \/ Load \/ LoadReverse \/ LoadRestage \/ UNCHANGED vars
      PROVE  profile' = profile
  BY <1>4 DEF PowerFail, Load, LoadReverse, LoadRestage, vars, envVars
<1>. QED
  BY <1>1, <1>2, <1>3, <1>4 DEF Next

(* The size of the log and the configured flags, as constants of a step. *)
LEMMA ProfileType ==
    ASSUME ControlOK, [Next]_vars
    PROVE  /\ logSize \in Nat /\ logSize' = logSize
           /\ Reversible' <=> Reversible
           /\ InFile' <=> InFile
<1>1. profile' = profile
  BY ProfileKept
<1>2. logSize \in Nat
  BY SdrXnAssumption DEF ControlOK, profile
<1>. QED
  BY <1>1, <1>2 DEF profile, Reversible, InFile

(* What TypeOK needs: an append happens at an offset that exists, and a     *)
(* reversal walks entries that are in the list.                             *)
DataInv ==
    /\ logSize > 0 => logLength <= Len(log)
    /\ \A t \in Task : pc[t] \in {"old", "file", "dram", "mod"}
                          \/ (pc[t] = "run" /\ owner = t) => logLength >= 0
    /\ \A t \in Task : pc[t] = "old" => logLength >= 1
    /\ boot = "up" /\ owner = NoTask => logLength >= 0
    /\ \A t \in Task : pc[t] = "rev" => rev <= Len(logEntries)
    /\ boot = "rev" =>
        /\ logLength = 2 * rev
        /\ rev <= Len(logEntries)
        /\ \A i \in 1..rev : logEntries[i] + 2 <= Len(log)

TypeInv == TypeOK /\ ControlInv /\ DataInv

(* The offsets found by the reload are those of entries in the file.        *)
LEMMA ReloadedEntries ==
    ASSUME log \in Seq(Word)
    PROVE  /\ WholeEntries \in Seq(Nat)
           /\ \A i \in 1..Len(WholeEntries) : WholeEntries[i] + 2 <= Len(log)
<1> DEFINE half == Len(log) \div 2
           good == {n \in 1..half : \A i \in 1..n : log[2 * i - 1] \in Cell}
           n == Cardinality(good)
<1>1. half \in Nat /\ 2 * half <= Len(log)
  OBVIOUS
<1>2. IsFiniteSet(1..half) /\ Cardinality(1..half) = half
  BY <1>1, FS_Interval
<1>3. n \in Nat /\ n <= half
  BY <1>2, FS_Subset, FS_CardinalityType
<1>4. WholeEntries = [i \in 1..n |-> 2 * (i - 1)]
  BY DEF WholeEntries
<1>5. WholeEntries \in Seq(Nat) /\ Len(WholeEntries) = n
  <2> HIDE DEF n
  <2>. QED
    BY <1>3, <1>4
<1>6. ASSUME NEW i \in 1..n
      PROVE  WholeEntries[i] + 2 <= Len(log)
  <2> HIDE DEF n, half
  <2>. QED
    BY <1>1, <1>3, <1>4, <1>6
<1>. QED
  BY <1>5, <1>6

(* One more word at the end of the log is a log again. *)
LEMMA LoggedType ==
    ASSUME logSize \in Nat, LogOK, logSize > 0 => logLength <= Len(log), NEW w \in Word
    PROVE  /\ Logged(w) \in Seq(Word)
           /\ logSize > 0 /\ logLength >= 0 => Len(Logged(w)) = logLength + 1
<1>1. CASE logSize = 0
  BY <1>1 DEF Logged, LogOK
<1>2. CASE logSize # 0
  <2>1. logSize > 0
    BY <1>2
  <2>2. \A i \in 1..logLength : log[i] \in Word
    BY <2>1 DEF LogOK
  <2>3. /\ SubSeq(log, 1, logLength) \in Seq(Word)
        /\ logLength >= 0 => Len(SubSeq(log, 1, logLength)) = logLength
    BY <2>2, SubSeqProperties DEF LogOK
  <2>. QED
    BY <1>2, <2>3 DEF Logged, LogOK
<1>. QED
  BY <1>1, <1>2

(* A datum written back is a word of the log. *)
LEMMA RestoreType ==
    ASSUME LogOK, NEW o \in Nat, o + 2 <= Len(log), NEW image \in [Cell -> Word]
    PROVE  Restore(image, o) \in [Cell -> Word]
<1>1. log[o + 2] \in Word
  BY DEF LogOK
<1>. QED
  BY <1>1 DEF Restore

LEMMA TypeInit == Init => TypeInv
<1> SUFFICES ASSUME Init PROVE TypeInv
  OBVIOUS
<1>0. profile \in Profiles
  <2>1. PICK p \in Profiles : configFlags = p[1] /\ logSize = p[2]
    BY DEF Init
  <2>2. p = <<p[1], p[2]>>
    BY SdrXnAssumption
  <2>. QED
    BY <2>1, <2>2 DEF profile
<1>1. ControlOK
  BY <1>0, SdrXnAssumption DEF Init, ControlOK
<1>1a. FlagsOK
  BY DEF Init, FlagsOK
<1>2. LogOK
  BY DEF Init, LogOK
<1>3. HeapOK
  BY SdrXnAssumption DEF Init, HeapOK, Fresh, Word
<1>4. DataInv
  BY DEF Init, DataInv
<1>. QED
  BY <1>1, <1>1a, <1>2, <1>3, <1>4, ControlInit DEF TypeInv, TypeOK

(* The control variables, by the actions that change them. *)
LEMMA ControlTypeStep == ControlOK /\ [Next]_vars => ControlOK'
<1> SUFFICES ASSUME ControlOK, [Next]_vars
             PROVE  ControlOK'
  OBVIOUS
<1> USE SdrXnAssumption DEF ControlOK, Goto
<1>1. ASSUME NEW t \in Task, Begin(t)
      PROVE  ControlOK'
  BY <1>1 DEF Begin, lockVars, envVars
<1>2. ASSUME NEW t \in Task, NEW c \in Cell, NEW v \in Val, PutStart(t, c, v)
      PROVE  ControlOK'
  BY <1>2 DEF PutStart, CrashXn, Terminate, MustReverse, ClosePc, FilePc,
              lockVars, xnVars, envVars
<1>3. ASSUME NEW t \in Task, EndNotOwner(t) \/ EndInner(t)
      PROVE  ControlOK'
  BY <1>3 DEF EndNotOwner, EndInner, Ending, Leave, lockVars, xnVars, envVars
<1>4. ASSUME NEW t \in Task, EndOuter(t) \/ CancelOuter(t) \/ ExitOuter(t) \/ Crash(t)
      PROVE  ControlOK'
  BY <1>4 DEF EndOuter, CancelOuter, ExitOuter, Crash, CrashXn, Terminate, MustReverse, ResetCanceled,
              ClosePc, Ending, Leave, lockVars, envVars
<1>5. ASSUME NEW t \in Task, PutOld(t) \/ PutFile(t) \/ PutFileShort(t) \/ PutDram(t) \/ PutModified(t)
      PROVE  ControlOK'
  BY <1>5 DEF PutOld, PutFile, PutFileShort, PutDram, PutModified, CrashXn, Terminate, MustReverse,
              ClosePc, FilePc, lockVars, xnVars, envVars
<1>6. ASSUME NEW t \in Task, ReverseEntry(t) \/ Truncate(t) \/ Clear(t) \/ Give(t)
      PROVE  ControlOK'
  BY <1>6 DEF ReverseEntry, Truncate, Clear, Give, lockVars, xnVars, envVars
<1>7. ASSUME NEW t \in Task, Kill(t) \/ IonUnlock(t) \/ Respawn(t)
      PROVE  ControlOK'
  BY <1>7 DEF Kill, IonUnlock, Respawn, Terminate, MustReverse, ClosePc, lockVars, xnVars, envVars
<1>8. ASSUME PowerFail \/ Load \/ LoadReverse \/ LoadRestage
      PROVE  ControlOK'
  BY <1>8 DEF PowerFail, Load, LoadReverse, LoadRestage, lockVars, xnVars, taskVars, envVars
<1>9. ASSUME UNCHANGED vars
      PROVE  ControlOK'
  BY <1>9 DEF vars, lockVars, xnVars, taskVars, envVars
<1>. QED
  BY <1>1, <1>2, <1>3, <1>4, <1>5, <1>6, <1>7, <1>8, <1>9 DEF Next, UserStep, LibraryStep

LEMMA FlagsTypeStep == FlagsOK /\ [Next]_vars => FlagsOK'
<1> SUFFICES ASSUME FlagsOK, [Next]_vars
             PROVE  FlagsOK'
  OBVIOUS
<1> USE DEF FlagsOK
<1>1. ASSUME NEW t \in Task, UserStep(t)
      PROVE  FlagsOK'
  BY <1>1, ZenonT(30) DEF UserStep, Begin, PutStart, EndNotOwner, EndInner, EndOuter, CancelOuter,
     ExitOuter, Crash, CrashXn, Terminate, ResetCanceled, xnVars
<1>2. ASSUME NEW t \in Task, LibraryStep(t)
      PROVE  FlagsOK'
  BY <1>2, ZenonT(30) DEF LibraryStep, PutOld, PutFile, PutFileShort, PutDram, PutModified,
     ReverseEntry, Truncate, Clear, Give, CrashXn, Terminate, ResetCanceled, xnVars
<1>3. ASSUME NEW t \in Task, Kill(t) \/ IonUnlock(t) \/ Respawn(t)
      PROVE  FlagsOK'
  BY <1>3, Zenon DEF Kill, IonUnlock, Respawn, Terminate, ResetCanceled, xnVars
<1>4. ASSUME PowerFail \/ Load \/ LoadReverse \/ LoadRestage \/ UNCHANGED vars
      PROVE  FlagsOK'
  BY <1>4, Zenon DEF PowerFail, Load, LoadReverse, LoadRestage, vars, xnVars
<1>. QED
  BY <1>1, <1>2, <1>3, <1>4 DEF Next

(* The log, its list of entries and the progress of a reversal. *)
LEMMA LogTypeStep == TypeInv /\ [Next]_vars => LogOK' /\ DataInv'
<1> SUFFICES ASSUME ControlInv, LogOK, HeapOK, DataInv, [Next]_vars,
                    logSize \in Nat, logSize' = logSize
             PROVE  LogOK' /\ DataInv'
  BY ProfileType DEF TypeInv, TypeOK
<1> USE SdrXnAssumption DEF LogOK, DataInv, ControlInv, Inside, Labels, Goto
<1>1. ASSUME NEW t \in Task, Begin(t)
      PROVE  LogOK' /\ DataInv'
  BY <1>1 DEF Begin, Available, logVars, envVars
<1>2. ASSUME NEW t \in Task, NEW c \in Cell, NEW v \in Val, PutStart(t, c, v)
      PROVE  LogOK' /\ DataInv'
  <2>1. c \in Word
    BY DEF Word
  <2>2. /\ Logged(c) \in Seq(Word)
        /\ logSize > 0 => Len(Logged(c)) = logLength + 1
    BY <1>2, <2>1, LoggedType DEF PutStart
  <2>. QED
    BY <1>2, <2>2 DEF PutStart, CrashXn, Terminate, MustReverse, ClosePc, FilePc, lockVars, envVars
<1>3. ASSUME NEW t \in Task, EndNotOwner(t) \/ EndInner(t)
      PROVE  LogOK' /\ DataInv'
  BY <1>3 DEF EndNotOwner, EndInner, Ending, lockVars, logVars, envVars
<1>4. ASSUME NEW t \in Task, EndOuter(t) \/ CancelOuter(t) \/ ExitOuter(t) \/ Crash(t)
      PROVE  LogOK' /\ DataInv'
  BY <1>4 DEF EndOuter, CancelOuter, ExitOuter, Crash, CrashXn, Terminate, MustReverse, ClosePc,
              Ending, lockVars, logVars, envVars
<1>5. ASSUME NEW t \in Task, PutOld(t)
      PROVE  LogOK' /\ DataInv'
  <2>1. ds[put[1]] \in Word
    BY DEF HeapOK
  <2>2. /\ Logged(ds[put[1]]) \in Seq(Word)
        /\ logSize > 0 => Len(Logged(ds[put[1]])) = logLength + 1
    BY <1>5, <2>1, LoggedType DEF PutOld
  <2>3. CASE LogFits
    <3>1. logEntries' \in Seq(Nat) /\ Len(logEntries') = Len(logEntries) + 1
      <4>1. logEntries' = Append(logEntries, logLength - 1)
        BY <1>5, <2>3 DEF PutOld, LogOffset
      <4>2. logLength - 1 \in Nat
        BY <1>5 DEF PutOld
      <4>. QED
        BY <4>1, <4>2
    <3>. QED
      BY <1>5, <2>2, <2>3, <3>1 DEF PutOld, FilePc, lockVars, envVars
  <2>4. CASE ~LogFits
    BY <1>5, <2>4 DEF PutOld, CrashXn, Terminate, MustReverse, ClosePc, lockVars, logVars, envVars
  <2>. QED
    BY <2>3, <2>4
<1>6. ASSUME NEW t \in Task, PutFile(t) \/ PutDram(t) \/ PutModified(t) \/ PutFileShort(t)
      PROVE  LogOK' /\ DataInv'
  BY <1>6 DEF PutFile, PutDram, PutModified, PutFileShort, CrashXn, Terminate, MustReverse, ClosePc,
              lockVars, logVars, envVars
<1>7. ASSUME NEW t \in Task, ReverseEntry(t)
      PROVE  LogOK' /\ DataInv'
  BY <1>7 DEF ReverseEntry, lockVars, envVars
<1>8. ASSUME NEW t \in Task, Truncate(t) \/ Clear(t) \/ Give(t)
      PROVE  LogOK' /\ DataInv'
  <2>1. CASE Truncate(t)
    <3>1. logSize = 0 /\ pc[t] \in {"trunc", "rev"}
      BY <2>1 DEF Truncate, Closing, ClosePc
    <3>2. LogOK'
      BY <2>1 DEF Truncate
    <3>. QED
      BY <2>1, <3>1, <3>2 DEF Truncate, lockVars, envVars
  <2>2. CASE Clear(t)
    BY <2>2 DEF Clear, Closing, envVars
  <2>3. CASE Give(t)
    BY <2>3 DEF Give, logVars, envVars
  <2>. QED
    BY <1>8, <2>1, <2>2, <2>3
<1>9. ASSUME NEW t \in Task, Kill(t) \/ IonUnlock(t) \/ Respawn(t)
      PROVE  LogOK' /\ DataInv'
  BY <1>9 DEF Kill, IonUnlock, Respawn, Terminate, MustReverse, ClosePc, lockVars, logVars, envVars
<1>10. ASSUME PowerFail \/ LoadReverse \/ LoadRestage
       PROVE  LogOK' /\ DataInv'
  <2>1. CASE PowerFail
    BY <2>1 DEF PowerFail
  <2>2. CASE LoadReverse
    BY <2>2 DEF LoadReverse, lockVars, taskVars, envVars
  <2>3. CASE LoadRestage
    BY <2>3 DEF LoadRestage, lockVars, logVars, taskVars
  <2>. QED
    BY <1>10, <2>1, <2>2, <2>3
<1>11. ASSUME Load
       PROVE  LogOK' /\ DataInv'
  BY <1>11, ReloadedEntries DEF Load, lockVars, taskVars
<1>12. ASSUME UNCHANGED vars
       PROVE  LogOK' /\ DataInv'
  BY <1>12 DEF vars, lockVars, logVars, taskVars, envVars
<1>. QED
  BY <1>1, <1>2, <1>3, <1>4, <1>5, <1>6, <1>7, <1>8, <1>9, <1>10, <1>11, <1>12
  DEF Next, UserStep, LibraryStep

(* The two images of the heap hold words: new data, or data of the log.    *)
LEMMA HeapTypeStep == TypeInv /\ [Next]_vars => HeapOK'
<1> SUFFICES ASSUME TypeInv, [Next]_vars
             PROVE  HeapOK'
  OBVIOUS
<1> USE SdrXnAssumption DEF HeapOK
<1>0. HeapOK /\ LogOK /\ put[1] \in Cell /\ put[2] \in Word
  BY DEF TypeInv, TypeOK, Word
<1>1. ASSUME NEW t \in Task, NEW c \in Cell, NEW v \in Val, PutStart(t, c, v)
      PROVE  HeapOK'
  BY <1>0, <1>1 DEF PutStart, heapVars
<1>2. ASSUME NEW t \in Task, PutFile(t) \/ PutDram(t) \/ PutFileShort(t)
      PROVE  HeapOK'
  BY <1>0, <1>2 DEF PutFile, PutDram, PutFileShort
<1>3. ASSUME NEW t \in Task, ReverseEntry(t)
      PROVE  HeapOK'
  <2>1. NextReversed \in Nat
    BY <1>3 DEF TypeInv, DataInv, TypeOK, LogOK, ReverseEntry, NextReversed
  <2>2. Readable(NextReversed) => /\ Restore(ds, NextReversed) \in [Cell -> Word]
                                  /\ RestoreFile(NextReversed) \in [Cell -> Word]
    BY <1>0, <2>1, RestoreType DEF Readable, RestoreFile
  <2>. QED
    BY <1>0, <1>3, <2>2 DEF ReverseEntry, heapVars
<1>4. ASSUME LoadReverse
      PROVE  HeapOK'
  <2>1. NextReversed \in Nat /\ NextReversed + 2 <= Len(log)
    BY <1>4 DEF TypeInv, DataInv, TypeOK, LogOK, LoadReverse, NextReversed
  <2>. QED
    BY <1>0, <1>4, <2>1, RestoreType DEF LoadReverse, taskVars
<1>5. ASSUME PowerFail
      PROVE  HeapOK'
  BY <1>0, <1>5 DEF PowerFail, Fresh, Word
<1>6. ASSUME \/ UNCHANGED vars \/ Load \/ LoadRestage
             \/ \E t \in Task :
                  \/ Begin(t) \/ EndNotOwner(t) \/ EndInner(t) \/ EndOuter(t) \/ CancelOuter(t)
                  \/ ExitOuter(t) \/ Crash(t) \/ PutOld(t) \/ PutModified(t) \/ Truncate(t)
                  \/ Clear(t) \/ Give(t) \/ Kill(t) \/ IonUnlock(t) \/ Respawn(t)
      PROVE  HeapOK'
  BY <1>0, <1>6 DEF vars, Load, LoadRestage, Begin, EndNotOwner, EndInner, EndOuter,
     CancelOuter, ExitOuter, Crash, PutOld, PutModified, Truncate, Clear, Give, Kill, IonUnlock,
     Respawn, heapVars, taskVars
<1>. QED
  BY <1>1, <1>2, <1>3, <1>4, <1>5, <1>6 DEF Next, UserStep, LibraryStep

LEMMA TypeStep == TypeInv /\ [Next]_vars => TypeInv'
  BY ControlStep, ControlTypeStep, FlagsTypeStep, LogTypeStep, HeapTypeStep DEF TypeInv, TypeOK

(* Every variable keeps its type, the lengths and offsets of the log among  *)
(* them: no append and no reversal addresses the log before its beginning.  *)
THEOREM TypeCorrect == Spec => []TypeOK
<1>1. TypeInv => TypeOK
  BY DEF TypeInv
<1>. QED
  BY <1>1, TypeInit, TypeStep, PTL DEF Spec
-----------------------------------------------------------------------------
(* A cancellation is over when the mutex is free.                           *)

\* A pending cancellation is that of a transaction that is still open, or whose
\* owner has died.
CancelInv == canceled => \E t \in Task :
    owner = t /\ pc[t] \in {"run", "old", "file", "dram", "mod", "dead"}

LEMMA CancelStep ==
    ASSUME "exit" \notin Ends, ControlInv, CancelInv, [Next]_vars
    PROVE  CancelInv'
<1> USE SdrXnAssumption DEF CancelInv, ControlInv, Inside, Labels, Goto
<1>1. ASSUME NEW t \in Task, Begin(t)
      PROVE  CancelInv'
  BY <1>1 DEF Begin, lockVars, envVars, Available
<1>2. ASSUME NEW t \in Task, NEW c \in Cell, NEW v \in Val, PutStart(t, c, v)
      PROVE  CancelInv'
  BY <1>2 DEF PutStart, CrashXn, Terminate, ResetCanceled, FilePc, lockVars, xnVars
<1>3. ASSUME NEW t \in Task, EndNotOwner(t) \/ EndInner(t)
      PROVE  CancelInv'
  BY <1>3 DEF EndNotOwner, EndInner, Ending, lockVars, xnVars
<1>4. ASSUME NEW t \in Task, EndOuter(t) \/ CancelOuter(t) \/ ExitOuter(t) \/ Crash(t)
      PROVE  CancelInv'
  BY <1>4 DEF EndOuter, CancelOuter, ExitOuter, Crash, CrashXn, Terminate, ResetCanceled, Ending
<1>5. ASSUME NEW t \in Task,
             PutOld(t) \/ PutFile(t) \/ PutFileShort(t) \/ PutDram(t) \/ PutModified(t)
      PROVE  CancelInv'
  BY <1>5 DEF PutOld, PutFile, PutFileShort, PutDram, PutModified, CrashXn, Terminate,
              ResetCanceled, FilePc, lockVars, xnVars
<1>6. ASSUME NEW t \in Task, ReverseEntry(t) \/ Truncate(t) \/ Clear(t) \/ Give(t)
      PROVE  CancelInv'
  BY <1>6 DEF ReverseEntry, Truncate, Clear, Give, Closing, lockVars, xnVars
<1>7. ASSUME NEW t \in Task, Kill(t) \/ IonUnlock(t) \/ Respawn(t)
      PROVE  CancelInv'
  BY <1>7 DEF Kill, IonUnlock, Respawn, Terminate, ResetCanceled, lockVars, xnVars
<1>8. ASSUME PowerFail \/ Load \/ LoadReverse \/ LoadRestage \/ UNCHANGED vars
      PROVE  CancelInv'
  BY <1>8 DEF PowerFail, Load, LoadReverse, LoadRestage, vars, lockVars, xnVars, taskVars
<1>. QED
  BY <1>1, <1>2, <1>3, <1>4, <1>5, <1>6, <1>7, <1>8 DEF Next, UserStep, LibraryStep

(* sdr_begin_xn does not reset xnCanceled, and need not, whatever is killed *)
(* or lost, if every level ends by sdr_end_xn or sdr_cancel_xn: the mutex   *)
(* is never free with a cancellation pending.  With sdr_exit_xn it may be.  *)
THEOREM CancelIsOver ==
    ASSUME "exit" \notin Ends
    PROVE  Spec => []NoStaleCancel
<1>1. Init => CancelInv
  BY DEF Init, CancelInv
<1>2. ControlInv /\ CancelInv => NoStaleCancel
  BY SdrXnAssumption DEF ControlInv, CancelInv, NoStaleCancel
<1>3. ControlInv /\ CancelInv /\ [Next]_vars => CancelInv'
  BY CancelStep
<1>. QED
  BY <1>1, <1>2, <1>3, ControlInit, ControlStep, PTL DEF Spec
-----------------------------------------------------------------------------
(* The two images of the heap.                                              *)

\* They differ while a task is between its two writes.
AgreeInv == InFile /\ boot = "up" =>
    /\ (\A t \in Task : pc[t] # "dram") => ds = file
    /\ \A t \in Task : pc[t] = "dram" => file = [ds EXCEPT ![put[1]] = put[2]]

LEMMA AgreeStep ==
    ASSUME Faults \cap {"kill", "short"} = {}, TypeInv, AgreeInv, [Next]_vars
    PROVE  AgreeInv'
<1>0. /\ ControlInv /\ ds \in [Cell -> Word] /\ file \in [Cell -> Word] /\ put[1] \in Cell
      /\ InFile' <=> InFile
  BY ProfileType DEF TypeInv, TypeOK, HeapOK
<1> USE <1>0, SdrXnAssumption DEF AgreeInv, ControlInv, Inside, Labels, Goto
<1>1. ASSUME NEW t \in Task, Begin(t)
      PROVE  AgreeInv'
  BY <1>1 DEF Begin, lockVars, envVars, heapVars
<1>2. ASSUME NEW t \in Task, NEW c \in Cell, NEW v \in Val, PutStart(t, c, v)
      PROVE  AgreeInv'
  BY <1>2 DEF PutStart, CrashXn, Terminate, ClosePc, FilePc, lockVars, envVars, heapVars
<1>3. ASSUME NEW t \in Task, EndNotOwner(t) \/ EndInner(t)
      PROVE  AgreeInv'
  BY <1>3 DEF EndNotOwner, EndInner, Ending, lockVars, envVars, heapVars
<1>4. ASSUME NEW t \in Task, EndOuter(t) \/ CancelOuter(t) \/ ExitOuter(t) \/ Crash(t)
      PROVE  AgreeInv'
  BY <1>4 DEF EndOuter, CancelOuter, ExitOuter, Crash, CrashXn, Terminate, ClosePc,
              Ending, lockVars, envVars, heapVars
<1>5. ASSUME NEW t \in Task, PutOld(t) \/ PutFile(t) \/ PutFileShort(t)
      PROVE  AgreeInv'
  BY <1>5 DEF PutOld, PutFile, PutFileShort, CrashXn, Terminate, ClosePc, FilePc, lockVars, envVars,
              heapVars
<1>6. ASSUME NEW t \in Task, PutDram(t) \/ PutModified(t)
      PROVE  AgreeInv'
  BY <1>6 DEF PutDram, PutModified, lockVars, envVars, heapVars
<1>7. ASSUME NEW t \in Task, ReverseEntry(t)
      PROVE  AgreeInv'
  BY <1>7 DEF ReverseEntry, RestoreFile, heapVars, lockVars, envVars
<1>8. ASSUME NEW t \in Task, Truncate(t) \/ Clear(t) \/ Give(t)
      PROVE  AgreeInv'
  BY <1>8 DEF Truncate, Clear, Give, Closing, lockVars, envVars, heapVars
<1>9. ASSUME NEW t \in Task, Kill(t) \/ IonUnlock(t) \/ Respawn(t)
      PROVE  AgreeInv'
  BY <1>9 DEF Kill, IonUnlock, Respawn, Terminate, ClosePc, lockVars, envVars, heapVars
<1>10. ASSUME PowerFail \/ Load \/ LoadReverse \/ LoadRestage \/ UNCHANGED vars
       PROVE  AgreeInv'
  BY <1>10 DEF PowerFail, Load, LoadReverse, LoadRestage, vars, lockVars, taskVars, envVars, heapVars
<1>. QED
  BY <1>1, <1>2, <1>3, <1>4, <1>5, <1>6, <1>7, <1>8, <1>9, <1>10 DEF Next, UserStep, LibraryStep

(* _sdrput writes the heap file and then the heap in memory, and a reversal *)
(* writes both: outside transactions they are the same heap, after a power  *)
(* failure and the restaging too, if no task dies between the two writes    *)
(* and no write() of the file is cut short.                                 *)
THEOREM SameImages ==
    ASSUME Faults \cap {"kill", "short"} = {}
    PROVE  Spec => []ImagesAgree
<1>1. Init => AgreeInv
  BY DEF Init, AgreeInv
<1>2. ControlInv /\ AgreeInv => ImagesAgree
  BY SdrXnAssumption DEF ControlInv, AgreeInv, ImagesAgree, Inside
<1>3. TypeInv /\ AgreeInv /\ [Next]_vars => AgreeInv'
  BY AgreeStep
<1>4. TypeInv => ControlInv
  BY DEF TypeInv
<1>. QED
  BY <1>1, <1>2, <1>3, <1>4, TypeInit, TypeStep, PTL DEF Spec

-----------------------------------------------------------------------------
(* The log, and what a reversal makes of it.                                 *)

NoCrash == Faults \cap {"kill", "power"} = {}

\* Where the owner is while the log describes what it has written.
Logging == {"run", "file", "dram", "mod"}

(* The log holds every entry of the list; in a file, at most the control   *)
(* word of one more follows.                                               *)
Whole ==
    /\ 2 * Len(logEntries) <= Len(log)
    /\ logSize = 0 => Len(log) <= 2 * Len(logEntries) + 1
    /\ \A i \in 1..Len(logEntries) : log[2 * i - 1] \in Cell

(* The log file was emptied and its list was not: the owner of the         *)
(* transaction was killed between the two.                                 *)
Emptied == logSize = 0 /\ log = <<>>

(* The i-th entry of the list is at offset 2(i - 1), and the log ends with  *)
(* the last entry, or with the control word of the entry being written,     *)
(* until it is emptied or the transaction left to ionunlock.                *)
LogInv ==
    /\ boot = "up"
    /\ ~Reversible /\ logSize = 0 => log = <<>>
    /\ \A i \in 1..Len(logEntries) : logEntries[i] = 2 * (i - 1)
    /\ owner = NoTask => /\ logEntries = <<>> /\ logLength = 0
                         /\ logSize = 0 => log = <<>>
    /\ \A t \in Task : owner = t =>
        /\ pc[t] \in Logging => logLength = 2 * Len(logEntries)
        /\ pc[t] = "old" => /\ logLength = 2 * Len(logEntries) + 1
                            /\ log[logLength] = put[1]
                            /\ Reversible
        /\ pc[t] \in Logging \cup {"old"} => /\ logLength <= Len(log)
                                             /\ logSize = 0 => Len(log) = logLength
        /\ pc[t] # "clear" => Whole \/ (Emptied /\ "kill" \in Faults)
        /\ pc[t] \in Logging \cup {"old"} => Whole
        /\ pc[t] = "clear" => IF logSize = 0 THEN Emptied ELSE Whole

\* The i-th entry is the oldest of its cell.
First(i, c) ==
    /\ log[2 * i - 1] = c
    /\ \A j \in 1..Len(logEntries) : log[2 * j - 1] = c => i <= j

(* A cell whose oldest entry was processed has its old datum back, and the  *)
(* entries still to process cannot change it again.                         *)
RevInv ==
    \A t \in Task : pc[t] = "rev" =>
        \A c \in Cell, i \in 1..Len(logEntries) :
            First(i, c) /\ rev < i => /\ ds[c] = log[2 * i]
                                      /\ InFile => file[c] = log[2 * i]

ReversalInv == TypeInv /\ LogInv /\ RevInv

LEMMA ReversalInit == Init => ReversalInv
<1>1. Init => LogInv /\ RevInv
  BY SdrXnAssumption DEF Init, LogInv, RevInv
<1>. QED
  BY <1>1, TypeInit DEF ReversalInv

(* Appending a word keeps the words that the list of entries refers to.    *)
LEMMA LoggedKeeps ==
    ASSUME LogOK, 0 <= logLength, logLength <= Len(log), logSize = 0 => Len(log) = logLength,
           NEW w \in Word
    PROVE  /\ Len(Logged(w)) = logLength + 1
           /\ Logged(w)[logLength + 1] = w
           /\ \A k \in 1..logLength : Logged(w)[k] = log[k]
<1>1. CASE logSize = 0
  BY <1>1 DEF Logged, LogOK
<1>2. CASE logSize # 0
  <2>1. \A i \in 1..logLength : log[i] \in Word
    BY DEF LogOK
  <2>2. /\ SubSeq(log, 1, logLength) \in Seq(Word)
        /\ Len(SubSeq(log, 1, logLength)) = logLength
        /\ \A i \in 1..logLength : SubSeq(log, 1, logLength)[i] = log[i]
    BY <2>1, SubSeqProperties DEF LogOK
  <2>. QED
    BY <1>2, <2>2 DEF Logged, LogOK
<1>. QED
  BY <1>1, <1>2

\* Its offset completes the list of entries.
LEMMA OffsetsGrow ==
    ASSUME logEntries \in Seq(Nat), \A i \in 1..Len(logEntries) : logEntries[i] = 2 * (i - 1),
           logEntries' = Append(logEntries, 2 * Len(logEntries))
    PROVE  /\ Len(logEntries') = Len(logEntries) + 1
           /\ \A i \in 1..Len(logEntries') : logEntries'[i] = 2 * (i - 1)
  OBVIOUS

\* The control words of entries that are not overwritten stay.
LEMMA EntriesKept ==
    ASSUME NEW n \in Nat, logLength \in Int, 2 * n - 1 <= logLength,
           \A i \in 1..n : log[2 * i - 1] \in Cell,
           \A k \in 1..logLength : log'[k] = log[k]
    PROVE  \A i \in 1..n : log'[2 * i - 1] \in Cell
<1> TAKE i \in 1..n
<1>1. 2 * i - 1 \in 1..logLength
  OBVIOUS
<1>. QED
  BY <1>1

(* A reversal finds its next entry where the list says. *)
LEMMA NextEntry ==
    ASSUME ControlInv, DataInv, LogOK, LogInv, Whole, NEW t \in Task, pc[t] = "rev", rev > 0
    PROVE  /\ owner = t /\ rev \in 1..Len(logEntries) /\ NextReversed = 2 * (rev - 1)
           /\ log[2 * rev - 1] \in Cell /\ Readable(NextReversed)
<1>1. /\ owner = t /\ rev \in 1..Len(logEntries)
      /\ logEntries \in Seq(Nat) /\ Len(log) \in Nat
  BY DEF DataInv, LogOK, ControlInv, Inside
<1>2. /\ logEntries[rev] = 2 * (rev - 1) /\ 2 * Len(logEntries) <= Len(log)
      /\ log[2 * rev - 1] \in Cell
  BY <1>1 DEF LogInv, Whole
<1>. QED
  BY <1>1, <1>2 DEF Readable, NextReversed

(* Every step keeps it, until power fails. *)
LEMMA LogStep ==
    boot' = "up" /\ TypeInv /\ LogInv /\ [Next]_vars => LogInv'
<1> SUFFICES ASSUME boot' = "up", ControlInv, DataInv, LogOK, HeapOK,
                    ControlOK, LogInv, [Next]_vars,
                    logSize \in Nat, logSize' = logSize, Reversible' <=> Reversible
             PROVE  LogInv'
  BY ProfileType DEF TypeInv, TypeOK
<1> USE SdrXnAssumption DEF ControlInv, Inside, Labels, Goto, LogInv, Logging
<1>a. ASSUME UNCHANGED <<log, logEntries>>
      PROVE  (Whole' <=> Whole) /\ (Emptied' <=> Emptied)
  BY <1>a DEF Whole, Emptied
<1>b. logEntries = <<>> => Whole
  BY DEF Whole, LogOK, Emptied
<1>1. ASSUME NEW t \in Task, Begin(t)
      PROVE  LogInv'
  <2>1. Whole' <=> Whole
    BY <1>1, <1>a DEF Begin, logVars
  <2>2. CASE owner = t
    BY <1>1, <2>1, <2>2 DEF Begin, Available, LogOK, logVars, lockVars, envVars
  <2>3. CASE owner # t
    <3>1. owner = NoTask /\ owner' = t /\ pc' = [pc EXCEPT ![t] = "run"] /\ logLength = 0
          /\ logEntries = <<>> /\ UNCHANGED <<boot, log, logEntries, logLength>>
      BY <1>1, <2>3 DEF Begin, Available, logVars, envVars
    <3>2. Whole' /\ Len(logEntries) = 0 /\ Len(log) \in Nat /\ (log = <<>> => Len(log) = 0)
      BY <1>b, <2>1, <3>1 DEF LogOK
    <3>. QED
      BY <3>1, <3>2
  <2>. QED
    BY <2>2, <2>3
<1>2. ASSUME NEW t \in Task, NEW c \in Cell, NEW v \in Val, PutStart(t, c, v)
      PROVE  LogInv'
  <2>1. owner = t /\ logLength >= 0 /\ logLength = 2 * Len(logEntries)
    BY <1>2 DEF PutStart, LogOK
  <2>2. CASE Reversible /\ LogFits
    <3>1. /\ log' = Logged(c) /\ logLength' = logLength + 1 /\ pc' = [pc EXCEPT ![t] = "old"]
          /\ put' = <<c, v>> /\ UNCHANGED <<owner, logEntries, boot>>
      BY <1>2, <2>2 DEF PutStart, lockVars, envVars
    <3>2. /\ Len(log') = logLength + 1 /\ log'[logLength'] = c
          /\ \A k \in 1..logLength : log'[k] = log[k]
      BY <1>2, <2>1, <3>1, LoggedKeeps DEF PutStart, LogOK, Word
    <3>3. \A i \in 1..Len(logEntries) : log'[2 * i - 1] \in Cell
      <4>1. \A i \in 1..Len(logEntries) : log[2 * i - 1] \in Cell
        BY <1>2, <2>1 DEF PutStart, Whole
      <4>2. Len(logEntries) \in Nat /\ logLength \in Int /\ 2 * Len(logEntries) - 1 <= logLength
        BY <2>1 DEF LogOK
      <4>. QED
        BY <3>2, <4>1, <4>2, EntriesKept
    <3>4. \A u \in Task : owner' = u => u = t
      BY <2>1, <3>1
    <3>5. logLength <= Len(log) /\ Len(logEntries) \in Nat /\ (logSize = 0 => Len(log) = logLength)
      BY <1>2, <2>1 DEF PutStart, LogOK
    <3>6. Whole'
      BY <2>1, <3>1, <3>2, <3>3, <3>5 DEF Whole
    <3>. QED
      BY <2>1, <2>2, <3>1, <3>2, <3>4, <3>5, <3>6 DEF LogOK
  <2>3. CASE Reversible /\ ~LogFits
    BY <1>2, <1>a, <2>1, <2>3
    DEF PutStart, CrashXn, Terminate, MustReverse, ClosePc, lockVars, envVars
  <2>4. CASE ~Reversible
    BY <1>2, <1>a, <2>1, <2>4 DEF PutStart, FilePc, lockVars, envVars
  <2>. QED
    BY <2>2, <2>3, <2>4
<1>3. ASSUME NEW t \in Task, EndNotOwner(t) \/ EndInner(t)
      PROVE  LogInv'
  BY <1>3, <1>a DEF EndNotOwner, EndInner, Ending, lockVars, logVars, envVars
<1>4. ASSUME NEW t \in Task, EndOuter(t) \/ CancelOuter(t) \/ ExitOuter(t) \/ Crash(t)
      PROVE  LogInv'
  BY <1>4, <1>a
  DEF EndOuter, CancelOuter, ExitOuter, Crash, CrashXn, Terminate, MustReverse, ClosePc, Ending,
      lockVars, logVars, envVars, Emptied
<1>5. ASSUME NEW t \in Task, PutOld(t)
      PROVE  LogInv'
  <2>1. /\ owner = t /\ logLength = 2 * Len(logEntries) + 1 /\ log[logLength] \in Cell
        /\ Reversible
    BY <1>5 DEF PutOld, HeapOK
  <2>2. CASE LogFits
    <3>1. /\ log' = Logged(ds[put[1]]) /\ logLength' = logLength + 1
          /\ logEntries' = Append(logEntries, 2 * Len(logEntries))
          /\ pc' = [pc EXCEPT ![t] = FilePc] /\ UNCHANGED <<owner, boot>>
      BY <1>5, <2>1, <2>2 DEF PutOld, LogOffset, lockVars, envVars, LogOK
    <3>2. /\ Len(log') = logLength + 1
          /\ \A k \in 1..logLength : log'[k] = log[k]
      BY <1>5, <2>1, <3>1, LoggedKeeps DEF PutOld, LogOK, HeapOK
    <3>3. /\ Len(logEntries') = Len(logEntries) + 1
          /\ \A i \in 1..Len(logEntries') : logEntries'[i] = 2 * (i - 1)
      BY <3>1, OffsetsGrow DEF LogOK
    <3>4. \A i \in 1..Len(logEntries') : log'[2 * i - 1] \in Cell
      <4>1. \A i \in 1..Len(logEntries) : log[2 * i - 1] \in Cell
        BY <1>5, <2>1 DEF PutOld, Whole
      <4>2. \A i \in 1..Len(logEntries') : log[2 * i - 1] \in Cell
        <5> TAKE i \in 1..Len(logEntries')
        <5>0. Len(logEntries) \in Nat /\ i \in 1..(Len(logEntries) + 1)
          BY <3>3 DEF LogOK
        <5>1. i \in 1..Len(logEntries) \/ i = Len(logEntries) + 1
          BY <5>0
        <5>2. CASE i = Len(logEntries) + 1
          BY <2>1, <5>0, <5>2
        <5>. QED
          BY <4>1, <5>1, <5>2
      <4>3. /\ Len(logEntries') \in Nat /\ logLength \in Int
            /\ 2 * Len(logEntries') - 1 <= logLength
        BY <2>1, <3>3 DEF LogOK
      <4>. QED
        BY <3>2, <4>2, <4>3, EntriesKept
    <3>5. pc'[t] \in {"file", "dram"} /\ \A u \in Task : owner' = u => u = t
      BY <2>1, <3>1 DEF FilePc
    <3>6. logLength <= Len(log) /\ Len(logEntries) \in Nat /\ (logSize = 0 => Len(log) = logLength)
      BY <1>5, <2>1 DEF PutOld, LogOK
    <3>7. Whole'
      BY <2>1, <3>1, <3>2, <3>3, <3>4, <3>6 DEF Whole
    <3>8. /\ logLength' = 2 * Len(logEntries') /\ logLength' <= Len(log')
          /\ logSize = 0 => Len(log') = logLength'
      BY <2>1, <3>1, <3>2, <3>3, <3>6
    <3>9. owner' \in Task /\ owner' # NoTask /\ boot' = "up"
      BY <2>1, <3>1
    <3>. QED
      BY <2>1, <3>3, <3>5, <3>7, <3>8, <3>9
  <2>3. CASE ~LogFits
    BY <1>5, <1>a, <2>1, <2>3 DEF PutOld, CrashXn, Terminate, MustReverse, ClosePc, LogFits, LogOK,
                             lockVars, logVars, envVars
  <2>. QED
    BY <2>2, <2>3
<1>6. ASSUME NEW t \in Task, PutFile(t) \/ PutDram(t) \/ PutModified(t) \/ PutFileShort(t)
      PROVE  LogInv'
  BY <1>6, <1>a
  DEF PutFile, PutDram, PutModified, PutFileShort, CrashXn, Terminate, MustReverse, ClosePc,
      lockVars, logVars, envVars, Emptied
<1>7. ASSUME NEW t \in Task, ReverseEntry(t)
      PROVE  LogInv'
  <2>1. UNCHANGED <<log, logEntries, owner, boot>> /\ owner = t /\ t # NoTask
    BY <1>7 DEF ReverseEntry, lockVars, envVars
  <2>2. pc' = pc \/ pc' = [pc EXCEPT ![t] = "dead"]
    BY <1>7 DEF ReverseEntry
  <2>. QED
    BY <1>7, <1>a, <2>1, <2>2 DEF ReverseEntry
<1>8. ASSUME NEW t \in Task, Truncate(t) \/ Clear(t) \/ Give(t)
      PROVE  LogInv'
  <2>1. CASE Truncate(t)
    <3>1. /\ owner = t /\ t # NoTask /\ log' = <<>> /\ pc' = [pc EXCEPT ![t] = "clear"]
          /\ logSize = 0 /\ UNCHANGED <<owner, boot, logEntries>>
      BY <2>1 DEF Truncate, Closing, ClosePc, lockVars, envVars
    <3>2. Emptied'
      BY <3>1 DEF Emptied
    <3>. QED
      BY <3>1, <3>2
  <2>2. CASE Clear(t)
    <3>1. /\ owner = t /\ owner' = NoTask /\ logEntries' = <<>> /\ logLength' = 0
          /\ pc' = [pc EXCEPT ![t] = "give"] /\ UNCHANGED <<log, boot>>
      BY <2>2 DEF Clear, Closing, envVars
    <3>2. logSize = 0 => log = <<>>
      BY <2>2 DEF Clear, Closing, ClosePc, Emptied
    <3>. QED
      BY <3>1, <3>2
  <2>3. CASE Give(t)
    BY <2>3, <1>a DEF Give, logVars, envVars
  <2>. QED
    BY <1>8, <2>1, <2>2, <2>3
<1>9. ASSUME NEW t \in Task, IonUnlock(t) \/ Respawn(t)
      PROVE  LogInv'
  <2>1. CASE IonUnlock(t)
    <3>1. /\ owner \in Task /\ pc[owner] = "dead" /\ pc[t] = "idle" /\ owner' = t
          /\ pc'[t] \in {"rev", "dead", ClosePc} /\ UNCHANGED <<log, logEntries, boot>>
          /\ t # NoTask
      BY <2>1 DEF IonUnlock, Terminate, logVars, envVars
    <3>2. Whole \/ (Emptied /\ "kill" \in Faults)
      BY <3>1
    <3>3. ClosePc = "clear" => IF logSize = 0 THEN Emptied ELSE Whole
      BY <3>2 DEF ClosePc, Emptied
    <3>4. (Whole' <=> Whole) /\ (Emptied' <=> Emptied)
      BY <3>1, <1>a
    <3>5. ClosePc \in {"trunc", "clear"}
      BY DEF ClosePc
    <3>. QED
      BY <3>1, <3>2, <3>3, <3>4, <3>5
  <2>2. CASE Respawn(t)
    BY <2>2, <1>a DEF Respawn, lockVars, logVars, envVars
  <2>. QED
    BY <1>9, <2>1, <2>2
<1>10. ASSUME NEW t \in Task, Kill(t)
       PROVE  LogInv'
  <2>1. /\ "kill" \in Faults /\ pc' = [pc EXCEPT ![t] = "dead"] /\ (owner = t \/ pc[t] = "give")
        /\ UNCHANGED <<owner, log, logEntries, logLength, boot>>
    BY <1>10 DEF Kill, lockVars, logVars
  <2>2. (Whole' <=> Whole) /\ (Emptied' <=> Emptied)
    BY <2>1, <1>a
  <2>3. CASE owner # NoTask
    <3>1. owner = t /\ (Whole \/ Emptied)
      BY <2>1, <2>3
    <3>. QED
      BY <2>1, <2>2, <3>1
  <2>4. CASE owner = NoTask
    BY <2>1, <2>2, <2>4
  <2>. QED
    BY <2>3, <2>4
<1>11. ASSUME PowerFail \/ Load \/ LoadReverse \/ LoadRestage
       PROVE  LogInv'
  BY <1>11 DEF PowerFail, Load, LoadReverse, LoadRestage
<1>12. ASSUME UNCHANGED vars
       PROVE  LogInv'
  BY <1>12, <1>a DEF vars, lockVars, logVars, taskVars, envVars
<1>. QED
  BY <1>1, <1>2, <1>3, <1>4, <1>5, <1>6, <1>7, <1>8, <1>9, <1>10, <1>11, <1>12
  DEF Next, UserStep, LibraryStep

(* The entries walked so far have restored the cells whose oldest entry is  *)
(* among them: an entry written back later is older, and wins.              *)
LEMMA RevStep ==
    boot' = "up" /\ TypeInv /\ LogInv /\ RevInv /\ [Next]_vars => RevInv'
<1> SUFFICES ASSUME boot' = "up", ControlInv, DataInv, LogOK, HeapOK,
                    ControlOK, LogInv, RevInv, [Next]_vars,
                    logSize \in Nat, logSize' = logSize, InFile' <=> InFile
             PROVE  RevInv'
  BY ProfileType DEF TypeInv, TypeOK
<1> DEFINE Same == /\ \A u \in Task : pc'[u] = "rev" => pc[u] = "rev"
                   /\ UNCHANGED <<log, logEntries, ds, file, rev>>
           Starts == /\ \A u \in Task : pc'[u] = "rev" => rev' = Len(logEntries)
                     /\ UNCHANGED logEntries
           None == \A u \in Task : pc'[u] # "rev"
<1>a. ASSUME Same PROVE RevInv'
  BY <1>a DEF RevInv, First
<1>b. ASSUME Starts PROVE RevInv'
  BY <1>b DEF RevInv, LogOK
<1>c. ASSUME None PROVE RevInv'
  BY <1>c DEF RevInv
<1> HIDE DEF Same, Starts, None
<1> USE SdrXnAssumption DEF ControlInv, Inside, Labels, Goto
<1>1. ASSUME NEW t \in Task, Begin(t) \/ EndNotOwner(t) \/ EndInner(t) \/ Give(t) \/ Respawn(t)
      PROVE  RevInv'
  <2>1. Same
    BY <1>1 DEF Same, Begin, EndNotOwner, EndInner, Give, Respawn, logVars, heapVars
  <2>. QED
    BY <2>1, <1>a
<1>2. ASSUME NEW t \in Task, NEW c \in Cell, NEW v \in Val, PutStart(t, c, v)
      PROVE  RevInv'
  <2>1. Starts
    BY <1>2 DEF Starts, PutStart, CrashXn, Terminate, MustReverse, ClosePc, FilePc
  <2>. QED
    BY <2>1, <1>b
<1>3. ASSUME NEW t \in Task, EndOuter(t) \/ CancelOuter(t) \/ ExitOuter(t) \/ Crash(t)
      PROVE  RevInv'
  <2>1. Starts
    BY <1>3 DEF Starts, EndOuter, CancelOuter, ExitOuter, Crash, CrashXn, Terminate, MustReverse,
                ClosePc, Ending, logVars
  <2>. QED
    BY <2>1, <1>b
<1>4. ASSUME NEW t \in Task, PutOld(t) /\ LogFits
      PROVE  RevInv'
  <2>1. None
    BY <1>4 DEF None, PutOld, FilePc
  <2>. QED
    BY <2>1, <1>c
<1>5. ASSUME NEW t \in Task, PutOld(t) /\ ~LogFits
      PROVE  RevInv'
  <2>1. Starts
    BY <1>5 DEF Starts, PutOld, CrashXn, Terminate, MustReverse, ClosePc, logVars
  <2>. QED
    BY <2>1, <1>b
<1>6. ASSUME NEW t \in Task, PutFile(t) \/ PutDram(t) \/ PutModified(t) \/ Truncate(t) \/ Clear(t)
      PROVE  RevInv'
  <2>1. None
    BY <1>6 DEF None, PutFile, PutDram, PutModified, Truncate, Clear, Closing
  <2>. QED
    BY <2>1, <1>c
<1>7. ASSUME NEW t \in Task, PutFileShort(t)
      PROVE  RevInv'
  <2>1. Starts
    BY <1>7 DEF Starts, PutFileShort, CrashXn, Terminate, MustReverse, ClosePc, logVars
  <2>. QED
    BY <2>1, <1>b
<1>8. ASSUME NEW t \in Task, IonUnlock(t)
      PROVE  RevInv'
  <2>1. Starts
    BY <1>8 DEF Starts, IonUnlock, Terminate, MustReverse, ClosePc, logVars
  <2>. QED
    BY <2>1, <1>b
<1>9. ASSUME NEW t \in Task, ReverseEntry(t), Whole
      PROVE  RevInv'
  <2>1. /\ owner = t /\ rev \in 1..Len(logEntries) /\ NextReversed = 2 * (rev - 1)
        /\ Readable(NextReversed)
    BY <1>9, NextEntry DEF ReverseEntry
  <2>2. /\ ds' = Restore(ds, 2 * (rev - 1)) /\ file' = RestoreFile(2 * (rev - 1))
        /\ rev' = rev - 1 /\ UNCHANGED <<pc, log, logEntries>>
    BY <1>9, <2>1 DEF ReverseEntry
  <2> DEFINE b == log[2 * rev - 1]
             old == log[2 * rev]
  <2>3. b \in Cell /\ ds' = [ds EXCEPT ![b] = old] /\ (InFile => file' = [file EXCEPT ![b] = old])
    <3>1. 2 * (rev - 1) + 1 = 2 * rev - 1 /\ 2 * (rev - 1) + 2 = 2 * rev
      BY <2>1
    <3>2. b \in Cell
      BY <1>9, <2>1 DEF Whole
    <3>. QED
      BY <2>2, <3>1, <3>2 DEF Restore, RestoreFile
  <2> SUFFICES ASSUME NEW u \in Task, pc[u] = "rev", NEW c \in Cell,
                      NEW i \in 1..Len(logEntries), First(i, c), rev - 1 < i
               PROVE  ds'[c] = log[2 * i] /\ (InFile => file'[c] = log[2 * i])
    BY <2>2, SMTT(30) DEF RevInv, First
  <2>4. CASE c = b
    <3>1. i = rev
      <4>1. i <= rev
        BY <2>1, <2>4 DEF First
      <4>. QED
        BY <2>1, <4>1 DEF LogOK
    <3>. QED
      BY <2>3, <2>4, <3>1 DEF HeapOK
  <2>5. CASE c # b
    <3>1. rev < i
      <4>1. i # rev
        BY <2>5 DEF First
      <4>. QED
        BY <2>1, <4>1 DEF LogOK
    <3>. QED
      BY <2>3, <2>5, <3>1 DEF RevInv, HeapOK
  <2>. QED
    BY <2>4, <2>5
<1>10. ASSUME NEW t \in Task, ReverseEntry(t), Emptied
       PROVE  RevInv'
  <2>1. Len(log) = 0 /\ owner = t /\ NextReversed \in Nat
    BY <1>10 DEF ReverseEntry, NextReversed, Emptied, DataInv, LogOK
  <2>2. ~Readable(NextReversed)
    BY <2>1 DEF Readable
  <2>3. None
    BY <1>10, <2>2 DEF None, ReverseEntry
  <2>. QED
    BY <2>3, <1>c
<1>11. ASSUME NEW t \in Task, Kill(t)
       PROVE  RevInv'
  <2>1. Same
    BY <1>11 DEF Same, Kill, logVars, heapVars
  <2>. QED
    BY <2>1, <1>a
<1>12. ASSUME PowerFail \/ Load \/ LoadReverse \/ LoadRestage
       PROVE  RevInv'
  BY <1>12 DEF PowerFail, Load, LoadReverse, LoadRestage, LogInv
<1>13. ASSUME UNCHANGED vars
       PROVE  RevInv'
  <2>1. Same
    BY <1>13 DEF Same, vars, taskVars, logVars, heapVars
  <2>. QED
    BY <2>1, <1>a
<1>14. \A t \in Task : ReverseEntry(t) => Whole \/ Emptied
  BY DEF ReverseEntry, LogInv
<1>. QED
  BY <1>1, <1>2, <1>3, <1>4, <1>5, <1>6, <1>7, <1>8, <1>9, <1>10, <1>11, <1>12, <1>13, <1>14
  DEF Next, UserStep, LibraryStep

(* A set of offsets that is not empty has an oldest one. *)
LEMMA OldestExists ==
    ASSUME NEW S, S \subseteq Nat, S # {}
    PROVE  Oldest(S) \in S /\ \A p \in S : Oldest(S) <= p
<1> DEFINE R == OpToRel(<, Nat)
<1>1. IsWellFoundedOn(R, Nat)
  BY NatLessThanWellFounded
<1>2. \A p, o \in Nat : p < o => <<p, o>> \in R
  BY DEF OpToRel
<1> HIDE DEF R
<1>3. \E o \in S : \A p \in S : ~(<<p, o>> \in R)
  BY <1>1, WFMin
<1>4. PICK o \in S : \A p \in S : ~(<<p, o>> \in R)
  BY <1>3
<1>5. \A p \in S : ~(p < o)
  BY <1>2, <1>4
<1>6. \A p \in S : o <= p
  BY <1>5
<1>. QED
  BY <1>6 DEF Oldest

\* OffsetsOf, of the words l of a log and the list e.
OffsetsIn(l, e, size, c) ==
    {o \in IF size = 0 THEN {2 * i : i \in 0..(Len(l) \div 2) - 1}
                       ELSE {e[i] : i \in DOMAIN e} : o + 2 <= Len(l) /\ l[o + 1] = c}

(* The offsets of a cell are those of its entries. *)
LEMMA EntryOffsets ==
    ASSUME NEW l, Len(l) \in Nat, NEW e \in Seq(Nat), \A i \in 1..Len(e) : e[i] = 2 * (i - 1),
           2 * Len(e) <= Len(l), NEW size, size = 0 => Len(l) <= 2 * Len(e) + 1, NEW c
    PROVE  OffsetsIn(l, e, size, c)
           = {2 * (i - 1) : i \in {j \in 1..Len(e) : l[2 * j - 1] = c}}
<1> DEFINE n == Len(e)
           all == IF size = 0 THEN {2 * i : i \in 0..(Len(l) \div 2) - 1}
                              ELSE {e[i] : i \in DOMAIN e}
<1>1. n \in Nat /\ Len(l) \in Nat /\ 2 * n <= Len(l)
  OBVIOUS
<1>2. all = {2 * (i - 1) : i \in 1..n}
  <2>1. CASE size = 0
    <3>1. Len(l) \div 2 = n
      BY <1>1, <2>1
    <3>2. all = {2 * i : i \in 0..(n - 1)}
      BY <2>1, <3>1
    <3>3. /\ \A i \in 0..(n - 1) : i + 1 \in 1..n /\ 2 * i = 2 * ((i + 1) - 1)
          /\ \A i \in 1..n : i - 1 \in 0..(n - 1) /\ 2 * (i - 1) = 2 * (i - 1)
      BY <1>1
    <3> HIDE DEF all, n
    <3>. QED
      BY <1>1, <3>2, <3>3
  <2>2. CASE size # 0
    <3>1. DOMAIN e = 1..n
      OBVIOUS
    <3>2. all = {e[i] : i \in 1..n}
      BY <2>2, <3>1
    <3>3. \A i \in 1..n : e[i] = 2 * (i - 1)
      OBVIOUS
    <3> HIDE DEF all, n
    <3>. QED
      BY <3>2, <3>3
  <2>. QED
    BY <2>1, <2>2
<1>3. \A i \in 1..n : 2 * (i - 1) + 2 <= Len(l) /\ 2 * (i - 1) + 1 = 2 * i - 1
  BY <1>1
<1> HIDE DEF all, n
<1>4. {o \in all : o + 2 <= Len(l) /\ l[o + 1] = c}
      = {2 * (i - 1) : i \in {j \in 1..n : l[2 * j - 1] = c}}
  BY <1>2, <1>3
<1>. QED
  BY <1>4 DEF all, n, OffsetsIn

Entries(c) == {j \in 1..Len(logEntries) : log[2 * j - 1] = c}

LEMMA OffsetsOfEntries ==
    ASSUME TypeInv, LogInv, NEW t \in Task, owner = t,
           pc[t] \in {"run", "old", "file", "dram", "mod", "rev"}, pc[t] = "rev" => Whole,
           NEW c
    PROVE  OffsetsOf(c) = {2 * (i - 1) : i \in Entries(c)} /\ OffsetsOf(c) \subseteq Nat
<1>1. /\ logEntries \in Seq(Nat) /\ Len(log) \in Nat /\ 2 * Len(logEntries) <= Len(log)
      /\ logSize = 0 => Len(log) <= 2 * Len(logEntries) + 1
      /\ \A i \in 1..Len(logEntries) : logEntries[i] = 2 * (i - 1)
  BY DEF TypeInv, TypeOK, LogOK, LogInv, Logging, Whole
<1>2. OffsetsOf(c) = {2 * (i - 1) : i \in Entries(c)}
  <2>1. OffsetsOf(c) = OffsetsIn(log, logEntries, logSize, c)
    BY DEF OffsetsOf, Offsets, OffsetsIn
  <2>2. OffsetsIn(log, logEntries, logSize, c)
        = {2 * (i - 1) : i \in {j \in 1..Len(logEntries) : log[2 * j - 1] = c}}
    BY <1>1, EntryOffsets, SMTT(60)
  <2>. QED
    BY <2>1, <2>2 DEF Entries
<1>. QED
  BY <1>1, <1>2 DEF Entries

(* The first entry of a cell has the datum that the cell goes back to. *)
LEMMA UndoneFirst ==
    ASSUME TypeInv, LogInv, NEW t \in Task, owner = t,
           pc[t] \in {"run", "old", "file", "dram", "mod", "rev"}, pc[t] = "rev" => Whole,
           NEW c \in Cell
    PROVE  \/ Entries(c) = {} /\ OffsetsOf(c) = {} /\ Undone[c] = ds[c]
           \/ /\ OffsetsOf(c) # {}
              /\ \E i \in 1..Len(logEntries) : First(i, c) /\ Undone[c] = log[2 * i]
<1>1. OffsetsOf(c) = {2 * (i - 1) : i \in Entries(c)} /\ OffsetsOf(c) \subseteq Nat
  BY OffsetsOfEntries
<1>2. Heap = ds /\ Len(logEntries) \in Nat
  BY DEF LogInv, Heap, TypeInv, TypeOK, LogOK
<1>3. CASE OffsetsOf(c) = {}
  <2>1. Entries(c) = {}
    BY <1>1, <1>3
  <2>. QED
    BY <1>2, <1>3, <2>1 DEF Undone
<1>4. CASE OffsetsOf(c) # {}
  <2>1. /\ Oldest(OffsetsOf(c)) \in OffsetsOf(c)
        /\ \A p \in OffsetsOf(c) : Oldest(OffsetsOf(c)) <= p
    BY <1>1, <1>4, OldestExists
  <2>2. PICK i \in Entries(c) : Oldest(OffsetsOf(c)) = 2 * (i - 1)
    BY <1>1, <2>1
  <2>3. \A j \in Entries(c) : 2 * (i - 1) <= 2 * (j - 1)
    BY <1>1, <2>1, <2>2
  <2>4. First(i, c) /\ 2 * (i - 1) + 2 = 2 * i /\ i \in 1..Len(logEntries)
    BY <1>2, <2>2, <2>3 DEF First, Entries
  <2>5. Undone[c] = log[2 * i]
    BY <1>4, <2>2, <2>4 DEF Undone
  <2>. QED
    BY <1>4, <2>4, <2>5
<1>. QED
  BY <1>3, <1>4

LEMMA Restored == ReversalInv => ReversalRestores
<1> SUFFICES ASSUME ReversalInv, NEW t \in Task, pc[t] = "rev", rev = 0
             PROVE  /\ ds = Undone
                    /\ InFile => \A c \in Cell : OffsetsOf(c) # {} => file[c] = Undone[c]
  BY DEF ReversalRestores
<1>1. /\ ds \in [Cell -> Word] /\ Undone = [c \in Cell |-> Undone[c]] /\ owner = t
      /\ Len(logEntries) \in Nat /\ boot = "up" /\ (Whole \/ Emptied)
  BY DEF ReversalInv, TypeInv, TypeOK, HeapOK, LogOK, LogInv, ControlInv, Inside, Undone
<1>2. ASSUME NEW c \in Cell
      PROVE  /\ ds[c] = Undone[c]
             /\ InFile => (OffsetsOf(c) # {} => file[c] = Undone[c])
  <2>1. CASE OffsetsOf(c) = {} /\ Undone[c] = ds[c]
    BY <2>1
  <2>2. ASSUME NEW i \in 1..Len(logEntries), First(i, c), Undone[c] = log[2 * i]
        PROVE  ds[c] = Undone[c] /\ (InFile => file[c] = Undone[c])
    BY <1>1, <2>2 DEF ReversalInv, RevInv
  <2>3. CASE Emptied
    <3>1. OffsetsOf(c) = {}
      <4>1. Len(log) = 0
        BY <2>3 DEF Emptied
      <4>2. Offsets \subseteq Nat \/ Offsets = {}
        BY <2>3 DEF Emptied, Offsets
      <4>. QED
        BY <4>1, <4>2 DEF OffsetsOf
    <3>. QED
      BY <1>1, <2>1, <3>1 DEF Undone, Heap
  <2>. QED
    BY <1>1, <2>1, <2>2, <2>3, UndoneFirst DEF ReversalInv
<1>. QED
  BY <1>1, <1>2

LEMMA StaysUp == "power" \notin Faults /\ LogInv /\ [Next]_vars => boot' = "up"
<1> SUFFICES ASSUME "power" \notin Faults, boot = "up", [Next]_vars PROVE boot' = "up"
  BY DEF LogInv
<1>1. ASSUME NEW t \in Task, UserStep(t) PROVE boot' = "up"
  BY <1>1 DEF UserStep, Begin, PutStart, EndNotOwner, EndInner, EndOuter, CancelOuter, ExitOuter,
              Crash, envVars
<1>2. ASSUME NEW t \in Task, LibraryStep(t) PROVE boot' = "up"
  BY <1>2 DEF LibraryStep, PutOld, PutFile, PutFileShort, PutDram, PutModified, ReverseEntry,
              Truncate, Clear, Give, envVars
<1>3. ASSUME NEW t \in Task, Kill(t) \/ IonUnlock(t) \/ Respawn(t) PROVE boot' = "up"
  BY <1>3 DEF Kill, IonUnlock, Respawn, envVars
<1>4. ASSUME PowerFail \/ Load \/ LoadReverse \/ LoadRestage \/ UNCHANGED vars PROVE boot' = "up"
  BY <1>4 DEF PowerFail, Load, LoadReverse, LoadRestage, vars, envVars
<1>. QED
  BY <1>1, <1>2, <1>3, <1>4 DEF Next

LEMMA ReversalStep == "power" \notin Faults /\ ReversalInv /\ [Next]_vars => ReversalInv'
  BY TypeStep, LogStep, RevStep, StaysUp DEF ReversalInv

(* When a reversal is over, after a cancellation, a full log or a violated  *)
(* boundary, or for ionunlock after a task was killed, whatever it was      *)
(* doing, the heap is as it was before the transaction.                     *)
THEOREM CancelRestores ==
    ASSUME "power" \notin Faults
    PROVE  Spec => []ReversalRestores
<1>. QED
  BY Restored, ReversalInit, ReversalStep, PTL DEF Spec

(* It gets there: it never meets an entry that cannot be read. *)
THEOREM ReversalGoesOn ==
    ASSUME NoCrash
    PROVE  Spec => []ReversalNeverStuck
<1>1. ReversalInv => ReversalNeverStuck
  <2> SUFFICES ASSUME ReversalInv, NEW t \in Task, pc[t] = "rev", rev > 0
               PROVE  Readable(NextReversed)
    BY DEF ReversalNeverStuck
  <2>1. Whole
    BY DEF ReversalInv, TypeInv, ControlInv, Inside, LogInv, NoCrash
  <2>. QED
    BY <2>1, NextEntry DEF ReversalInv, TypeInv, TypeOK
<1>2. "power" \notin Faults
  BY DEF NoCrash
<1>. QED
  BY <1>1, <1>2, ReversalInit, ReversalStep, PTL DEF Spec
-----------------------------------------------------------------------------
(* The store of SdrStore is implemented.                                    *)

\* What is being written has an entry.
PutLogged == Reversible => \A t \in Task : owner = t /\ pc[t] \in {"file", "dram"} =>
    \E i \in 1..Len(logEntries) : log[2 * i - 1] = put[1]

\* Until the heap is modified the log has at most the entry of the first write,
\* and nobody dies with the transaction.
Unmodified == Reversible => \A t \in Task : owner = t =>
    /\ pc[t] # "dead"
    /\ ~modified /\ pc[t] \in {"run", "old"} => logEntries = <<>>
    /\ ~modified /\ pc[t] = "file" => /\ Len(logEntries) = 1 /\ log[1] = put[1]
                                      /\ log[2] = ds[put[1]]

(* The old data complete the entry of what is being written. *)
LEMMA EntryWritten ==
    ASSUME TypeInv, LogInv, Reversible, NEW t \in Task, PutOld(t), LogFits
    PROVE  LET n == Len(logEntries)
           IN  /\ n \in Nat /\ owner = t /\ logLength = 2 * n + 1 /\ logLength <= Len(log)
               /\ logEntries' = Append(logEntries, 2 * n) /\ Len(logEntries') = n + 1
               /\ Len(log') = 2 * n + 2
               /\ \A k \in 1..(2 * n + 1) : log'[k] = log[k]
               /\ log'[2 * n + 1] = put[1] /\ log'[2 * n + 2] = ds[put[1]]
<1> DEFINE n == Len(logEntries)
<1>1. /\ n \in Nat /\ owner = t /\ logLength = 2 * n + 1 /\ log[logLength] = put[1]
      /\ logLength <= Len(log) /\ (logSize = 0 => Len(log) = logLength)
      /\ LogOK /\ logEntries \in Seq(Nat)
  BY DEF PutOld, TypeInv, TypeOK, LogOK, LogInv, ControlInv, Inside
<1>2. /\ log' = Logged(ds[put[1]]) /\ logEntries' = Append(logEntries, 2 * n)
  BY <1>1 DEF PutOld, LogOffset
<1>3. ds[put[1]] \in Word /\ 0 <= logLength
  BY <1>1 DEF TypeInv, TypeOK, HeapOK
<1>4. /\ Len(log') = logLength + 1 /\ log'[logLength + 1] = ds[put[1]]
      /\ \A k \in 1..logLength : log'[k] = log[k]
  BY <1>1, <1>2, <1>3, LoggedKeeps
<1>5. log'[2 * n + 1] = put[1]
  BY <1>1, <1>4
<1>. QED
  BY <1>1, <1>2, <1>4, <1>5

LEMMA PutLoggedStep ==
    ASSUME boot' = "up", "kill" \notin Faults, TypeInv, LogInv, PutLogged, [Next]_vars
    PROVE  PutLogged'
<1>0. ControlInv /\ (Reversible' <=> Reversible)
  BY ProfileType DEF TypeInv, TypeOK
<1> SUFFICES ASSUME Reversible PROVE PutLogged'
  BY <1>0 DEF PutLogged
<1> DEFINE None == \A u \in Task : owner' = u => pc'[u] \notin {"file", "dram"}
<1>a. ASSUME None PROVE PutLogged'
  BY <1>a DEF PutLogged
<1> HIDE DEF None
<1> USE <1>0, SdrXnAssumption DEF ControlInv, Inside, Labels, Goto
<1>1. ASSUME NEW t \in Task, Begin(t) \/ EndNotOwner(t) \/ EndInner(t)
      PROVE  PutLogged'
  BY <1>1 DEF PutLogged, Begin, EndNotOwner, EndInner, Ending, logVars, lockVars
<1>2. ASSUME NEW t \in Task, NEW c \in Cell, NEW v \in Val, PutStart(t, c, v)
      PROVE  PutLogged'
  <2>1. None
    BY <1>2 DEF None, PutStart, CrashXn, Terminate, MustReverse, ClosePc, FilePc, lockVars
  <2>. QED
    BY <2>1, <1>a
<1>3. ASSUME NEW t \in Task, EndOuter(t) \/ CancelOuter(t) \/ ExitOuter(t) \/ Crash(t)
      PROVE  PutLogged'
  <2>1. None
    BY <1>3 DEF None, EndOuter, CancelOuter, ExitOuter, Crash, CrashXn, Terminate, MustReverse,
                ClosePc, Ending, lockVars
  <2>. QED
    BY <2>1, <1>a
<1>4. ASSUME NEW t \in Task, PutOld(t), LogFits
      PROVE  PutLogged'
  <2> DEFINE n == Len(logEntries)
  <2>1. /\ n \in Nat /\ Len(logEntries') = n + 1 /\ log'[2 * n + 1] = put[1] /\ put' = put
    BY <1>4, EntryWritten DEF PutOld
  <2>2. n + 1 \in 1..Len(logEntries') /\ 2 * (n + 1) - 1 = 2 * n + 1
    BY <2>1
  <2> HIDE DEF n
  <2>. QED
    BY <2>1, <2>2 DEF PutLogged
<1>5. ASSUME NEW t \in Task, PutOld(t), ~LogFits
      PROVE  PutLogged'
  <2>1. None
    BY <1>5 DEF None, PutOld, CrashXn, Terminate, MustReverse, ClosePc, lockVars
  <2>. QED
    BY <2>1, <1>a
<1>6. ASSUME NEW t \in Task, PutFile(t)
      PROVE  PutLogged'
  BY <1>6 DEF PutLogged, PutFile, logVars, lockVars
<1>7. ASSUME NEW t \in Task, PutFileShort(t) \/ PutDram(t) \/ PutModified(t) \/ ReverseEntry(t)
                \/ Truncate(t) \/ Clear(t)
      PROVE  PutLogged'
  <2>1. None
    BY <1>7 DEF None, PutFileShort, PutDram, PutModified, ReverseEntry, Truncate, Clear, Closing,
                CrashXn, Terminate, MustReverse, ClosePc, lockVars
  <2>. QED
    BY <2>1, <1>a
<1>8. ASSUME NEW t \in Task, Give(t) \/ Respawn(t)
      PROVE  PutLogged'
  BY <1>8 DEF PutLogged, Give, Respawn, logVars, lockVars
<1>9. ASSUME NEW t \in Task, IonUnlock(t)
      PROVE  PutLogged'
  <2>1. None
    BY <1>9 DEF None, IonUnlock, Terminate, MustReverse, ClosePc
  <2>. QED
    BY <2>1, <1>a
<1>10. ASSUME PowerFail \/ Load \/ LoadReverse \/ LoadRestage \/ (\E t \in Task : Kill(t))
       PROVE  PutLogged'
  BY <1>10 DEF PowerFail, Load, LoadReverse, LoadRestage, Kill, LogInv
<1>11. ASSUME UNCHANGED vars
       PROVE  PutLogged'
  BY <1>11 DEF PutLogged, vars, logVars, lockVars, taskVars
<1>. QED
  BY <1>1, <1>2, <1>3, <1>4, <1>5, <1>6, <1>7, <1>8, <1>9, <1>10, <1>11
  DEF Next, UserStep, LibraryStep

LEMMA UnmodifiedStep ==
    ASSUME NoCrash, "exit" \notin Ends, ReversalInv, Unmodified, [Next]_vars
    PROVE  Unmodified'
<1>0. /\ ControlInv /\ LogInv /\ (Reversible' <=> Reversible) /\ LogOK
  BY ProfileType DEF ReversalInv, TypeInv, TypeOK
<1> SUFFICES ASSUME Reversible PROVE Unmodified'
  BY <1>0 DEF Unmodified
<1> DEFINE None == \A u \in Task : owner' = u =>
                      pc'[u] \notin {"dead", "run", "old", "file"}
<1>a. ASSUME None PROVE Unmodified'
  BY <1>a DEF Unmodified
<1> HIDE DEF None
<1> USE <1>0, SdrXnAssumption DEF ControlInv, Inside, Labels, Goto
<1>1. ASSUME NEW t \in Task, Begin(t)
      PROVE  Unmodified'
  BY <1>1 DEF Unmodified, Begin, Available, logVars, lockVars, heapVars, LogInv
<1>2. ASSUME NEW t \in Task, NEW c \in Cell, NEW v \in Val, PutStart(t, c, v)
      PROVE  Unmodified'
  <2>1. CASE LogFits
    BY <1>2, <2>1 DEF Unmodified, PutStart, lockVars, xnVars
  <2>2. CASE ~LogFits
    <3>1. None
      BY <1>2, <2>2 DEF None, PutStart, CrashXn, Terminate, MustReverse, ClosePc, lockVars
    <3>. QED
      BY <3>1, <1>a
  <2>. QED
    BY <2>1, <2>2
<1>3. ASSUME NEW t \in Task, EndNotOwner(t) \/ EndInner(t)
      PROVE  Unmodified'
  BY <1>3 DEF Unmodified, EndNotOwner, EndInner, Ending, logVars, lockVars, xnVars, heapVars
<1>4. ASSUME NEW t \in Task, EndOuter(t) \/ CancelOuter(t) \/ ExitOuter(t) \/ Crash(t)
      PROVE  Unmodified'
  <2>1. None
    BY <1>4 DEF None, EndOuter, CancelOuter, ExitOuter, Crash, CrashXn, Terminate, MustReverse,
                ClosePc, Ending, lockVars
  <2>. QED
    BY <2>1, <1>a
<1>5. ASSUME NEW t \in Task, PutOld(t), LogFits
      PROVE  Unmodified'
  <2> DEFINE n == Len(logEntries)
  <2>1. /\ n \in Nat /\ owner = t /\ Len(logEntries') = n + 1
        /\ log'[2 * n + 1] = put[1] /\ log'[2 * n + 2] = ds[put[1]]
    BY <1>5, EntryWritten DEF ReversalInv
  <2>2. /\ pc' = [pc EXCEPT ![t] = FilePc] /\ pc[t] = "old"
        /\ UNCHANGED <<owner, modified, put, ds>>
    BY <1>5 DEF PutOld, lockVars, xnVars, heapVars
  <2>3. ~modified => n = 0
    BY <2>1, <2>2 DEF Unmodified
  <2>4. n = 0 => 2 * n + 1 = 1 /\ 2 * n + 2 = 2 /\ n + 1 = 1
    OBVIOUS
  <2> HIDE DEF n
  <2>. QED
    BY <2>1, <2>2, <2>3, <2>4 DEF Unmodified, FilePc
<1>6. ASSUME NEW t \in Task, PutOld(t), ~LogFits
      PROVE  Unmodified'
  <2>1. None
    BY <1>6 DEF None, PutOld, CrashXn, Terminate, MustReverse, ClosePc, lockVars
  <2>. QED
    BY <2>1, <1>a
<1>7. ASSUME NEW t \in Task, PutModified(t)
      PROVE  Unmodified'
  BY <1>7 DEF Unmodified, PutModified, lockVars
<1>8. ASSUME NEW t \in Task, PutFile(t) \/ PutFileShort(t) \/ PutDram(t) \/ Truncate(t) \/ Clear(t)
      PROVE  Unmodified'
  <2>1. None
    BY <1>8 DEF None, PutFile, PutFileShort, PutDram, Truncate, Clear, Closing,
                CrashXn, Terminate, MustReverse, ClosePc, lockVars
  <2>. QED
    BY <2>1, <1>a
<1>9. ASSUME NEW t \in Task, ReverseEntry(t)
      PROVE  Unmodified'
  <2>1. Readable(NextReversed)
    <3>1. Whole
      BY <1>9 DEF ReverseEntry, LogInv, NoCrash
    <3>. QED
      BY <1>9, <3>1, NextEntry DEF ReverseEntry, ReversalInv, TypeInv
  <2>2. None
    BY <1>9, <2>1 DEF None, ReverseEntry, lockVars
  <2>. QED
    BY <2>2, <1>a
<1>10. ASSUME NEW t \in Task, Give(t) \/ Respawn(t)
      PROVE  Unmodified'
  BY <1>10 DEF Unmodified, Give, Respawn, logVars, lockVars, xnVars, heapVars
<1>11. ASSUME NEW t \in Task, IonUnlock(t) \/ Kill(t)
      PROVE  Unmodified'
  BY <1>11 DEF Unmodified, IonUnlock, Kill, NoCrash
<1>12. ASSUME PowerFail \/ Load \/ LoadReverse \/ LoadRestage
       PROVE  Unmodified'
  BY <1>12 DEF PowerFail, Load, LoadReverse, LoadRestage, LogInv, NoCrash
<1>13. ASSUME UNCHANGED vars
       PROVE  Unmodified'
  BY <1>13 DEF Unmodified, vars, logVars, lockVars, taskVars, xnVars, heapVars
<1>. QED
  BY <1>1, <1>2, <1>3, <1>4, <1>5, <1>6, <1>7, <1>8, <1>9, <1>10, <1>11, <1>12, <1>13
  DEF Next, UserStep, LibraryStep
\* What a cancellation would restore depends only on the log, the list of its
\* entries and the heap.
LEMMA UndoneSame ==
    ASSUME LogInv, boot' = "up", logSize' = logSize, UNCHANGED <<log, logEntries, ds>>
    PROVE  Undone' = Undone
BY DEF Undone, Heap, OffsetsOf, Offsets, LogInv

(* Without a transaction, or without an entry, there is nothing to undo. *)
LEMMA NothingToUndo ==
    ASSUME ds \in [Cell -> Word], boot = "up", logEntries = <<>>,
           logSize = 0 => Len(log) \in {0, 1}
    PROVE  Undone = ds
<1>1. Offsets = {}
  <2>1. CASE logSize = 0
    <3>0. 0 \div 2 = 0 /\ 1 \div 2 = 0
      OBVIOUS
    <3>1. Len(log) \div 2 = 0
      BY <2>1, <3>0, Zenon
    <3>. QED
      BY <2>1, <3>1 DEF Offsets
  <2>2. CASE logSize # 0
    BY <2>2 DEF Offsets
  <2>. QED
    BY <2>1, <2>2
<1>. QED
  BY <1>1 DEF Undone, OffsetsOf, Heap

LEMMA UnmodifiedSame ==
    ASSUME ReversalInv, Unmodified, Reversible, NEW t \in Task, owner = t, ~modified,
           pc[t] \in {"run", "old", "file"}
    PROVE  Undone = ds
<1>1. /\ ds \in [Cell -> Word] /\ boot = "up" /\ TypeInv /\ LogInv
      /\ Undone = [c \in Cell |-> Undone[c]]
  BY DEF ReversalInv, TypeInv, TypeOK, HeapOK, LogInv, Undone
<1>2. CASE pc[t] \in {"run", "old"}
  <2>1. logEntries = <<>>
    BY <1>2 DEF Unmodified
  <2>2. logSize = 0 => Len(log) \in {0, 1}
    <3>1. Len(logEntries) = 0
      BY <2>1
    <3>2. logLength = 0 \/ logLength = 1
      BY <1>1, <1>2, <3>1 DEF LogInv, Logging
    <3>. QED
      BY <1>1, <1>2, <3>2 DEF LogInv, Logging
  <2>. QED
    BY <1>1, <2>1, <2>2, NothingToUndo
<1>3. CASE pc[t] = "file"
  <2>1. Len(logEntries) = 1 /\ log[1] = put[1] /\ log[2] = ds[put[1]]
    BY <1>3 DEF Unmodified
  <2>2. ASSUME NEW c \in Cell PROVE Undone[c] = ds[c]
    <3>1. CASE Undone[c] = ds[c]
      BY <3>1
    <3>2. ASSUME NEW i \in 1..Len(logEntries), First(i, c), Undone[c] = log[2 * i]
          PROVE  Undone[c] = ds[c]
      <4>1. i = 1
        BY <2>1
      <4>2. log[1] = c /\ Undone[c] = log[2]
        BY <3>2, <4>1 DEF First
      <4>. QED
        BY <2>1, <4>2
    <3>. QED
      BY <1>1, <1>3, <3>1, <3>2, UndoneFirst
  <2>. QED
    BY <1>1, <2>2
<1>. QED
  BY <1>2, <1>3

(* Writing a control word adds no entry, *)
LEMMA ControlWordSame ==
    ASSUME TypeInv, LogInv, logSize' = logSize, NEW t \in Task, NEW c \in Cell, NEW v \in Val,
           PutStart(t, c, v), Reversible, LogFits
    PROVE  Undone' = Undone
<1> DEFINE n == Len(logEntries)
<1>1. /\ n \in Nat /\ owner = t /\ pc[t] = "run" /\ logLength = 2 * n /\ logLength <= Len(log)
      /\ (logSize = 0 => Len(log) = logLength) /\ logEntries \in Seq(Nat) /\ LogOK
      /\ boot = "up" /\ \A i \in 1..n : logEntries[i] = 2 * (i - 1)
  BY DEF PutStart, TypeInv, TypeOK, LogOK, LogInv, Logging
<1>2. log' = Logged(c) /\ UNCHANGED <<logEntries, ds, boot>>
  BY DEF PutStart, LogFits, heapVars, envVars
<1>3. Len(log') = 2 * n + 1 /\ \A k \in 1..(2 * n) : log'[k] = log[k]
  BY <1>1, <1>2, LoggedKeeps DEF Word
<1>4. ASSUME NEW d \in Cell
      PROVE  /\ OffsetsOf(d)' = OffsetsOf(d)
             /\ \A o \in OffsetsOf(d) : log'[o + 2] = log[o + 2]
  <2>1. OffsetsOf(d) = {2 * (i - 1) : i \in Entries(d)} /\ OffsetsOf(d) \subseteq Nat
    BY <1>1, OffsetsOfEntries
  <2>2. OffsetsOf(d)' = OffsetsIn(log', logEntries, logSize, d)
    BY <1>2 DEF OffsetsOf, Offsets, OffsetsIn
  <2>3. OffsetsIn(log', logEntries, logSize, d)
        = {2 * (i - 1) : i \in {j \in 1..n : log'[2 * j - 1] = d}}
    <3>1. Len(log') \in Nat /\ 2 * n <= Len(log') /\ Len(log') <= 2 * n + 1
      BY <1>1, <1>3
    <3>. QED
      BY <1>1, <3>1, EntryOffsets
  <2>4. \A j \in 1..n : log'[2 * j - 1] = log[2 * j - 1] /\ log'[2 * (j - 1) + 2] = log[2 * (j - 1) + 2]
    <3> TAKE j \in 1..n
    <3>1. 2 * j - 1 \in 1..(2 * n) /\ 2 * (j - 1) + 2 \in 1..(2 * n)
      BY <1>1
    <3>. QED
      BY <1>3, <3>1
  <2>5. {j \in 1..n : log'[2 * j - 1] = d} = Entries(d)
    BY <2>4 DEF Entries
  <2> HIDE DEF n
  <2>6. \A o \in OffsetsOf(d) : log'[o + 2] = log[o + 2]
    BY <2>1, <2>4, <2>5
  <2>. QED
    BY <2>1, <2>2, <2>3, <2>5, <2>6 DEF n
<1>5. ASSUME NEW d \in Cell PROVE Undone'[d] = Undone[d]
  <2>1. CASE OffsetsOf(d) = {}
    BY <1>1, <1>2, <1>4, <2>1 DEF Undone, Heap
  <2>2. CASE OffsetsOf(d) # {}
    <3>1. Oldest(OffsetsOf(d)) \in OffsetsOf(d)
      BY <1>1, <2>2, OffsetsOfEntries, OldestExists
    <3>. QED
      BY <1>4, <2>2, <3>1 DEF Undone
  <2>. QED
    BY <2>1, <2>2
<1>. QED
  BY <1>5 DEF Undone

(* and the entry of the old data is that of a cell that has an older one, or *)
(* holds its present datum.                                                  *)
LEMMA EntrySame ==
    ASSUME TypeInv, LogInv, boot' = "up", logSize' = logSize, NEW t \in Task, PutOld(t),
           Reversible, LogFits
    PROVE  Undone' = Undone
<1> DEFINE n == Len(logEntries)
<1>1. /\ n \in Nat /\ owner = t /\ logLength = 2 * n + 1 /\ logLength <= Len(log)
      /\ logEntries' = Append(logEntries, 2 * n) /\ Len(logEntries') = n + 1
      /\ Len(log') = 2 * n + 2 /\ \A k \in 1..(2 * n + 1) : log'[k] = log[k]
      /\ log'[2 * n + 1] = put[1] /\ log'[2 * n + 2] = ds[put[1]]
  BY EntryWritten
<1>2. /\ pc[t] = "old" /\ boot = "up" /\ UNCHANGED ds /\ logEntries \in Seq(Nat)
      /\ \A i \in 1..n : logEntries[i] = 2 * (i - 1)
  BY DEF PutOld, LogInv, TypeInv, TypeOK, LogOK, heapVars
<1>3. logEntries' \in Seq(Nat) /\ \A i \in 1..(n + 1) : logEntries'[i] = 2 * (i - 1)
  BY <1>1, <1>2, OffsetsGrow
<1> HIDE DEF n
<1>4. \A j \in 1..n : /\ log'[2 * j - 1] = log[2 * j - 1]
                      /\ log'[2 * (j - 1) + 2] = log[2 * (j - 1) + 2]
  <2> TAKE j \in 1..n
  <2>1. 2 * j - 1 \in 1..(2 * n + 1) /\ 2 * (j - 1) + 2 \in 1..(2 * n + 1)
    BY <1>1
  <2>. QED
    BY <1>1, <2>1
<1>5. ASSUME NEW d \in Cell PROVE Undone'[d] = Undone[d]
  <2> DEFINE old == {2 * (i - 1) : i \in Entries(d)}
             new == {2 * (i - 1) : i \in {j \in 1..(n + 1) : log'[2 * j - 1] = d}}
  <2>1. OffsetsOf(d) = old /\ old \subseteq Nat
    BY <1>1, <1>2, OffsetsOfEntries
  <2>2. OffsetsOf(d)' = new
    <3>1. OffsetsOf(d)' = OffsetsIn(log', logEntries', logSize, d)
      BY DEF OffsetsOf, Offsets, OffsetsIn
    <3>2. OffsetsIn(log', logEntries', logSize, d) = new
      <4>1. Len(log') \in Nat /\ 2 * (n + 1) <= Len(log') /\ Len(log') <= 2 * (n + 1) + 1
        BY <1>1
      <4>2. OffsetsIn(log', logEntries', logSize, d)
            = {2 * (i - 1) : i \in {j \in 1..Len(logEntries') : log'[2 * j - 1] = d}}
        <5> DEFINE e == logEntries'
                   l == log'
        <5>1. e \in Seq(Nat) /\ Len(e) = n + 1 /\ \A i \in 1..Len(e) : e[i] = 2 * (i - 1)
          BY <1>1, <1>3
        <5>2. Len(l) \in Nat /\ 2 * Len(e) <= Len(l) /\ Len(l) <= 2 * Len(e) + 1
          BY <4>1, <5>1
        <5> HIDE DEF e, l
        <5>3. OffsetsIn(l, e, logSize, d)
              = {2 * (i - 1) : i \in {j \in 1..Len(e) : l[2 * j - 1] = d}}
          BY <5>1, <5>2, EntryOffsets, SMTT(40)
        <5>. QED
          BY <5>3 DEF e, l
      <4>. QED
        BY <1>1, <4>2
    <3>. QED
      BY <3>1, <3>2
  <2>3. new = IF put[1] = d THEN old \cup {2 * n} ELSE old
    <3>1. \A j \in 1..(n + 1) : j \in 1..n \/ j = n + 1
      BY <1>1
    <3>2. 1..n \subseteq 1..(n + 1) /\ n + 1 \in 1..(n + 1)
      BY <1>1
    <3>3. 2 * (n + 1) - 1 = 2 * n + 1 /\ 2 * ((n + 1) - 1) = 2 * n
      BY <1>1
    <3>4. {j \in 1..(n + 1) : log'[2 * j - 1] = d}
          = IF put[1] = d THEN Entries(d) \cup {n + 1} ELSE Entries(d)
      BY <1>1, <1>4, <3>1, <3>2, <3>3 DEF Entries, n
    <3>. QED
      BY <3>3, <3>4
  <2>4. \A o \in old : log'[o + 2] = log[o + 2] /\ o < 2 * n
    BY <1>1, <1>4 DEF Entries, n
  <2> HIDE DEF old, new
  <2>5. CASE old = {} /\ put[1] # d
    BY <1>2, <2>1, <2>2, <2>3, <2>5 DEF Undone, Heap
  <2>6. CASE old = {} /\ put[1] = d
    <3>0. new = {2 * n} /\ new \subseteq Nat /\ new # {}
      BY <1>1, <2>3, <2>6
    <3>1. new = {2 * n} /\ Oldest(new) \in new
      BY <3>0, OldestExists
    <3>2. Undone'[d] = log'[2 * n + 2]
      BY <2>2, <3>1 DEF Undone
    <3>. QED
      BY <1>1, <1>2, <2>1, <2>6, <3>2 DEF Undone, Heap
  <2>7. CASE old # {}
    <3>1. Oldest(old) \in old /\ \A p \in old : Oldest(old) <= p
      BY <2>1, <2>7, OldestExists
    <3>2. new # {} /\ new \subseteq Nat
      <4>1. 2 * n \in Nat /\ old \subseteq new /\ new \subseteq old \cup {2 * n}
        BY <1>1, <2>3
      <4>. QED
        BY <2>1, <2>7, <4>1
    <3>3. Oldest(new) \in new /\ \A p \in new : Oldest(new) <= p
      BY <3>2, OldestExists
    <3>4. Oldest(new) = Oldest(old)
      <4>1. Oldest(old) \in new
        BY <2>3, <3>1
      <4>2. Oldest(new) <= Oldest(old) /\ Oldest(old) < 2 * n
        BY <2>4, <3>1, <3>3, <4>1
      <4>3. Oldest(new) \in Nat /\ Oldest(old) \in Nat
        BY <2>1, <3>1, <3>2, <3>3
      <4>4. Oldest(new) \in old
        BY <1>1, <2>3, <3>3, <4>2, <4>3
      <4>5. Oldest(old) <= Oldest(new)
        BY <3>1, <4>4
      <4>. QED
        BY <4>2, <4>3, <4>5
    <3>5. Undone'[d] = log'[Oldest(old) + 2] /\ Undone[d] = log[Oldest(old) + 2]
      BY <2>1, <2>2, <2>7, <3>2, <3>4 DEF Undone
    <3>. QED
      BY <2>4, <3>1, <3>5
  <2>. QED
    BY <2>5, <2>6, <2>7
<1>. QED
  BY <1>5 DEF Undone

(* What a cell with an entry holds does not matter to what is undone. *)
LEMMA WrittenSame ==
    ASSUME TypeInv, LogInv, boot' = "up", logSize' = logSize, UNCHANGED <<log, logEntries>>,
           NEW t \in Task, owner = t, pc[t] \in {"dram", "rev"}, pc[t] = "rev" => Whole,
           NEW c \in Cell, NEW w,
           \E i \in 1..Len(logEntries) : log[2 * i - 1] = c, ds' = [ds EXCEPT ![c] = w]
    PROVE  Undone' = Undone
<1>1. OffsetsOf(c) # {}
  <2>1. OffsetsOf(c) = {2 * (i - 1) : i \in Entries(c)}
    BY OffsetsOfEntries
  <2>2. Entries(c) # {}
    BY DEF Entries
  <2>. QED
    BY <2>1, <2>2
<1>2. \A d \in Cell : OffsetsOf(d)' = OffsetsOf(d)
  BY DEF OffsetsOf, Offsets
<1>3. \A d \in Cell : d # c => Heap'[d] = Heap[d]
  BY DEF Heap, LogInv, TypeInv, TypeOK, HeapOK
<1>. QED
  BY <1>1, <1>2, <1>3 DEF Undone
LEMMA StoreStutters ==
    ASSUME Reversible, Reversible' <=> Reversible, Undone' = Undone, Open' <=> Open,
           Open => ds' = ds /\ (canceled' <=> canceled)
    PROVE  UNCHANGED Store!vars
BY DEF Store!vars, Kept

(* An outermost level that ends, or a transaction that is given up: with    *)
(* updates to undo, or with none, the transaction of the store is aborted;  *)
(* or its end only begins.                                                  *)
LEMMA TerminateImplements ==
    ASSUME ReversalInv, Unmodified, Reversible, Reversible' <=> Reversible, NEW t \in Task,
           NEW cancel, Terminate(t, cancel), cancel \/ ~canceled,
           owner = t, pc[t] \in {"run", "old", "file"},
           boot' = "up", logSize' = logSize, UNCHANGED <<owner, log, logEntries, ds>>
    PROVE  [Store!Next]_(Store!vars)
<1>1. /\ LogInv /\ pc \in [Task -> Labels] /\ t # NoTask
  BY SdrXnAssumption DEF ReversalInv, TypeInv, ControlInv
<1>2. Undone' = Undone
  BY <1>1, UndoneSame
<1>3. Open /\ ~canceled' /\ UNCHANGED modified
  BY <1>1 DEF Open, Terminate, ResetCanceled
<1>4. CASE MustReverse(cancel)
  <2>1. pc'[t] = "rev"
    BY <1>1, <1>4 DEF Terminate, Goto
  <2>2. ~Open'
    BY <2>1 DEF Open
  <2>3. Store!Abort
    <3>1. Kept' = Undone /\ Kept = Undone
      BY <1>2 DEF Kept
    <3>2. (IF Open THEN ds ELSE Kept)' = Undone
      BY <2>2, <3>1
    <3>3. Open' \in BOOLEAN /\ ~(Open /\ canceled)'
      BY <2>2 DEF Open
    <3>. QED
      BY <1>3, <3>1, <3>2, <3>3 DEF Store!Abort
  <2>. QED
    BY <2>3 DEF Store!Next
<1>5. CASE ~MustReverse(cancel)
  <2>1. pc'[t] = ClosePc
    BY <1>1, <1>5 DEF Terminate, Goto
  <2>2. Open'
    BY <1>1, <2>1 DEF Open, ClosePc
  <2>3. CASE ~canceled
    BY <1>2, <1>3, <2>2, <2>3, StoreStutters
  <2>4. CASE canceled
    <3>1. ~modified
      BY <1>5, <2>4 DEF MustReverse
    <3>2. Undone = ds
      BY <3>1, UnmodifiedSame
    <3>. QED
      BY <1>2, <1>3, <2>2, <3>2 DEF Store!Next, Store!Abort, Kept
  <2>. QED
    BY <2>3, <2>4
<1>. QED
  BY <1>4, <1>5

StoreInv == ReversalInv /\ PutLogged /\ Unmodified /\ CancelInv

LEMMA StepImplements ==
    ASSUME NoCrash, "exit" \notin Ends, StoreInv, Reversible, [Next]_vars
    PROVE  [Store!Next]_(Store!vars)
<1>0. /\ ControlInv /\ LogInv /\ ReversalInv /\ TypeInv /\ (Reversible' <=> Reversible)
      /\ logSize' = logSize /\ boot = "up" /\ boot' = "up" /\ "kill" \notin Faults
      /\ ds \in [Cell -> Word] /\ LogInv' /\ HeapOK
      /\ \A t \in Task : pc[t] = "rev" => Whole
  BY ProfileType, StaysUp, LogStep DEF NoCrash, ControlInv, Inside, StoreInv, ReversalInv, TypeInv, TypeOK, LogInv, HeapOK
<1> DEFINE Same == UNCHANGED <<log, logEntries, ds>>
<1>a. ASSUME Same, Open' <=> Open, Open => (canceled' <=> canceled)
      PROVE  [Store!Next]_(Store!vars)
  <2>1. Undone' = Undone
    BY <1>0, <1>a, UndoneSame
  <2>. QED
    BY <1>0, <1>a, <2>1, StoreStutters
<1> USE SdrXnAssumption DEF Inside, Labels, Goto
<1>1. ASSUME NEW t \in Task, Begin(t)
      PROVE  [Store!Next]_(Store!vars)
  <2>1. Same
    BY <1>1 DEF Begin, logVars, heapVars
  <2>2. CASE owner = t
    <3>1. (Open' <=> Open) /\ UNCHANGED canceled
      BY <1>0, <1>1, <2>2 DEF Begin, Open, ControlInv, lockVars, envVars
    <3>. QED
      BY <1>a, <2>1, <3>1
  <2>3. CASE owner # t
    <3>1. owner = NoTask /\ owner' = t /\ pc'[t] = "run" /\ ~canceled'
      BY <1>0, <1>1, <2>3 DEF Begin, Available, ControlInv, StoreInv, CancelInv
    <3>2. ~Open /\ Open'
      BY <1>0, <3>1 DEF Open
    <3>3. Undone' = Undone
      BY <1>0, <2>1, UndoneSame
    <3>4. Undone = ds
      <4>1. logEntries = <<>> /\ (logSize = 0 => Len(log) \in {0, 1})
        BY <1>0, <3>1 DEF LogInv
      <4>. QED
        BY <1>0, <4>1, NothingToUndo
    <3>. QED
      BY <1>0, <2>1, <3>1, <3>2, <3>3, <3>4 DEF Store!Next, Store!Begin, Kept
  <2>. QED
    BY <2>2, <2>3
<1>2. ASSUME NEW t \in Task, NEW c \in Cell, NEW v \in Val, PutStart(t, c, v)
      PROVE  [Store!Next]_(Store!vars)
  <2>1. owner = t /\ pc[t] = "run" /\ UNCHANGED <<owner, logEntries, ds>>
    BY <1>2 DEF PutStart, lockVars, heapVars
  <2>2. CASE LogFits
    <3>1. Undone' = Undone
      BY <1>0, <1>2, <2>2, ControlWordSame
    <3>2. (Open' <=> Open) /\ UNCHANGED canceled
      BY <1>0, <1>2, <2>1, <2>2 DEF PutStart, Open, ControlInv, xnVars
    <3>. QED
      BY <1>0, <2>1, <3>1, <3>2, StoreStutters
  <2>3. CASE ~LogFits
    <3>1. Terminate(t, TRUE) /\ UNCHANGED log
      BY <1>0, <1>2, <2>3 DEF PutStart, CrashXn
    <3>. QED
      BY <1>0, <2>1, <3>1, TerminateImplements DEF StoreInv
  <2>. QED
    BY <2>2, <2>3
<1>3. ASSUME NEW t \in Task, EndNotOwner(t)
      PROVE  [Store!Next]_(Store!vars)
  <2>1. Same /\ (Open' <=> Open) /\ UNCHANGED canceled
    BY <1>0, <1>3 DEF EndNotOwner, Ending, Open, ControlInv, lockVars, xnVars, logVars, heapVars
  <2>. QED
    BY <1>a, <2>1
<1>4. ASSUME NEW t \in Task, EndInner(t)
      PROVE  [Store!Next]_(Store!vars)
  <2>1. Same /\ Open /\ Open' /\ (canceled => canceled')
    BY <1>0, <1>4 DEF EndInner, Ending, Open, ControlInv, lockVars, logVars, heapVars
  <2>2. CASE canceled' <=> canceled
    BY <1>a, <2>1, <2>2
  <2>3. CASE ~canceled /\ canceled'
    <3>1. Undone' = Undone
      BY <1>0, <2>1, UndoneSame
    <3>. QED
      BY <1>0, <2>1, <2>3, <3>1 DEF Store!Next, Store!Doom, Kept
  <2>. QED
    BY <2>1, <2>2, <2>3
<1>5. ASSUME NEW t \in Task, EndOuter(t) \/ CancelOuter(t) \/ Crash(t)
      PROVE  [Store!Next]_(Store!vars)
  <2>1. /\ owner = t /\ pc[t] = "run" /\ UNCHANGED owner /\ Same
        /\ (Terminate(t, canceled) \/ Terminate(t, TRUE))
    BY <1>5 DEF EndOuter, CancelOuter, Crash, CrashXn, Ending, lockVars, logVars, heapVars
  <2>. QED
    BY <1>0, <2>1, TerminateImplements DEF StoreInv
<1>6. ASSUME NEW t \in Task, ExitOuter(t)
      PROVE  [Store!Next]_(Store!vars)
  BY <1>6 DEF ExitOuter, Ending
<1>7. ASSUME NEW t \in Task, PutOld(t)
      PROVE  [Store!Next]_(Store!vars)
  <2>1. owner = t /\ pc[t] = "old" /\ UNCHANGED <<owner, ds>>
    BY <1>0, <1>7 DEF PutOld, ControlInv, lockVars, heapVars
  <2>2. CASE LogFits
    <3>1. Undone' = Undone
      BY <1>0, <1>7, <2>2, EntrySame
    <3>2. (Open' <=> Open) /\ UNCHANGED canceled
      BY <1>0, <1>7, <2>1, <2>2 DEF PutOld, FilePc, Open, ControlInv, xnVars
    <3>. QED
      BY <1>0, <2>1, <3>1, <3>2, StoreStutters
  <2>3. CASE ~LogFits
    <3>1. Terminate(t, TRUE) /\ UNCHANGED <<log, logEntries>>
      BY <1>7, <2>3 DEF PutOld, CrashXn, logVars
    <3>. QED
      BY <1>0, <2>1, <3>1, TerminateImplements DEF StoreInv
  <2>. QED
    BY <2>2, <2>3
<1>8. ASSUME NEW t \in Task, PutFile(t) \/ PutModified(t)
      PROVE  [Store!Next]_(Store!vars)
  <2>1. Same /\ (Open' <=> Open) /\ UNCHANGED canceled
    BY <1>0, <1>8 DEF PutFile, PutModified, Open, ControlInv, lockVars, xnVars, logVars, heapVars
  <2>. QED
    BY <1>a, <2>1
<1>9. ASSUME NEW t \in Task, PutFileShort(t)
      PROVE  [Store!Next]_(Store!vars)
  <2>1. owner = t /\ pc[t] = "file" /\ UNCHANGED owner /\ Same /\ Terminate(t, TRUE)
    BY <1>0, <1>9 DEF PutFileShort, CrashXn, ControlInv, lockVars, logVars
  <2>. QED
    BY <1>0, <2>1, TerminateImplements DEF StoreInv
<1>10. ASSUME NEW t \in Task, PutDram(t)
       PROVE  [Store!Next]_(Store!vars)
  <2>1. /\ owner = t /\ pc[t] = "dram" /\ ds' = [ds EXCEPT ![put[1]] = put[2]]
        /\ put[1] \in Cell /\ put[2] \in Val /\ UNCHANGED <<owner, log, logEntries, canceled>>
    BY <1>0, <1>10 DEF PutDram, ControlInv, HeapOK, lockVars, logVars, xnVars
  <2>2. \E i \in 1..Len(logEntries) : log[2 * i - 1] = put[1]
    BY <2>1 DEF StoreInv, PutLogged
  <2>3. Undone' = Undone
    BY <1>0, <2>1, <2>2, WrittenSame
  <2>4. Open /\ Open'
    BY <1>0, <1>10, <2>1 DEF PutDram, Open, ControlInv
  <2>5. Store!Write(put[1], put[2])
    BY <1>0, <2>1, <2>3, <2>4 DEF Store!Write, Kept
  <2>. QED
    BY <2>1, <2>5 DEF Store!Next
<1>11. ASSUME NEW t \in Task, ReverseEntry(t)
       PROVE  [Store!Next]_(Store!vars)
  <2>1. /\ owner = t /\ pc[t] = "rev" /\ rev \in 1..Len(logEntries) /\ NextReversed = 2 * (rev - 1)
        /\ Readable(NextReversed)
    BY <1>0, <1>11, NextEntry DEF ReverseEntry, TypeInv, TypeOK
  <2>2. /\ ds' = Restore(ds, 2 * (rev - 1)) /\ UNCHANGED <<owner, log, logEntries, pc, configFlags, logSize>>
    BY <1>11, <2>1 DEF ReverseEntry, lockVars, envVars, profile
  <2>3. 2 * (rev - 1) + 1 = 2 * rev - 1 /\ log[2 * rev - 1] \in Cell
    BY <1>0, <2>1 DEF Whole
  <2>4. ds' = [ds EXCEPT ![log[2 * rev - 1]] = log[2 * (rev - 1) + 2]]
    BY <2>2, <2>3 DEF Restore
  <2>5. Undone' = Undone
    BY <1>0, <2>1, <2>2, <2>3, <2>4, WrittenSame
  <2>6. ~Open /\ ~Open'
    BY <2>1, <2>2 DEF Open
  <2>. QED
    BY <1>0, <2>5, <2>6, StoreStutters
<1>12. ASSUME NEW t \in Task, Truncate(t)
       PROVE  [Store!Next]_(Store!vars)
  <2>1. /\ owner = t /\ logSize = 0 /\ log' = <<>> /\ pc'[t] = "clear" /\ UNCHANGED <<owner, ds, canceled>>
        /\ (pc[t] = "trunc" \/ (pc[t] = "rev" /\ rev = 0))
    BY <1>0, <1>12 DEF Truncate, Closing, ClosePc, ControlInv, lockVars, xnVars, heapVars
  <2>2. Undone' = ds
    <3>1. Offsets' = {}
      <4>1. Len(<<>>) \div 2 = 0 /\ logSize' = 0
        BY <1>0, <2>1
      <4>. QED
        BY <2>1, <4>1 DEF Offsets
    <3>. QED
      BY <1>0, <2>1, <3>1 DEF Undone, OffsetsOf, Heap
  <2>3. ~Open'
    BY <1>0, <2>1 DEF Open
  <2>4. CASE pc[t] = "rev" /\ rev = 0
    <3>1. Undone = ds
      BY <1>0, <2>4, Restored DEF ReversalRestores
    <3>2. ~Open
      BY <2>1, <2>4 DEF Open
    <3>. QED
      BY <1>0, <2>2, <2>3, <3>1, <3>2, StoreStutters
  <2>5. CASE pc[t] = "trunc"
    <3>1. Open /\ ~canceled
      BY <1>0, <2>1, <2>5 DEF Open, StoreInv, CancelInv
    <3>2. Store!Commit
      BY <1>0, <2>1, <2>2, <2>3, <3>1 DEF Store!Commit, Kept
    <3>. QED
      BY <3>2 DEF Store!Next
  <2>. QED
    BY <2>1, <2>4, <2>5
<1>13. ASSUME NEW t \in Task, Clear(t)
       PROVE  [Store!Next]_(Store!vars)
  <2>1. /\ owner = t /\ owner' = NoTask /\ logEntries' = <<>> /\ UNCHANGED <<log, ds, canceled>>
        /\ (pc[t] = "clear" \/ (pc[t] = "rev" /\ rev = 0 /\ logSize # 0))
    BY <1>0, <1>13 DEF Clear, Closing, ClosePc, ControlInv, xnVars, heapVars
  <2>2. Undone' = ds
    <3>1. logSize = 0 => log' = <<>>
      BY <1>0, <2>1 DEF LogInv
    <3>2. Offsets' = {}
      <4>1. Len(<<>>) \div 2 = 0 /\ logSize' = logSize
        BY <1>0
      <4>. QED
        BY <2>1, <3>1, <4>1 DEF Offsets
    <3>. QED
      BY <1>0, <2>1, <3>2 DEF Undone, OffsetsOf, Heap
  <2>3. ~Open'
    BY <2>1 DEF Open
  <2>4. CASE pc[t] = "rev" /\ rev = 0
    <3>1. Undone = ds
      BY <1>0, <2>4, Restored DEF ReversalRestores
    <3>2. ~Open
      BY <2>1, <2>4 DEF Open
    <3>. QED
      BY <1>0, <2>2, <2>3, <3>1, <3>2, StoreStutters
  <2>5. CASE pc[t] = "clear" /\ logSize = 0
    <3>1. Undone = ds
      <4>1. log = <<>> /\ Offsets = {}
        <5>1. log = <<>> /\ Len(<<>>) \div 2 = 0
          BY <1>0, <2>1, <2>5 DEF LogInv
        <5>. QED
          BY <2>5, <5>1 DEF Offsets
      <4>. QED
        BY <1>0, <4>1 DEF Undone, OffsetsOf, Heap
    <3>2. ~Open
      BY <2>1, <2>5 DEF Open
    <3>. QED
      BY <1>0, <2>2, <2>3, <3>1, <3>2, StoreStutters
  <2>6. CASE pc[t] = "clear" /\ logSize # 0
    <3>1. Open /\ ~canceled
      BY <1>0, <2>1, <2>6 DEF Open, StoreInv, CancelInv
    <3>2. Store!Commit
      BY <1>0, <2>1, <2>2, <2>3, <3>1 DEF Store!Commit, Kept
    <3>. QED
      BY <3>2 DEF Store!Next
  <2>. QED
    BY <2>1, <2>4, <2>5, <2>6
<1>14. ASSUME NEW t \in Task, Give(t) \/ Respawn(t)
       PROVE  [Store!Next]_(Store!vars)
  <2>1. Same /\ (Open' <=> Open) /\ UNCHANGED canceled
    BY <1>0, <1>14 DEF Give, Respawn, Open, ControlInv, lockVars, xnVars, logVars, heapVars
  <2>. QED
    BY <1>a, <2>1
<1>15. ASSUME \/ \E t \in Task : IonUnlock(t) \/ Kill(t)
              \/ PowerFail \/ Load \/ LoadReverse \/ LoadRestage
       PROVE  [Store!Next]_(Store!vars)
  BY <1>0, <1>15 DEF IonUnlock, Kill, PowerFail, Load, LoadReverse, LoadRestage, StoreInv, Unmodified
<1>16. ASSUME UNCHANGED vars
       PROVE  [Store!Next]_(Store!vars)
  <2>1. Same /\ (Open' <=> Open) /\ UNCHANGED canceled
    BY <1>0, <1>16 DEF vars, Open, lockVars, xnVars, logVars, heapVars, taskVars
  <2>. QED
    BY <1>a, <2>1
<1>. QED
  BY <1>1, <1>2, <1>3, <1>4, <1>5, <1>6, <1>7, <1>8, <1>9, <1>10, <1>11, <1>12, <1>13, <1>14, <1>15,
     <1>16
  DEF Next, UserStep, LibraryStep

(* Whatever tasks, nesting, cancellations, full logs and short writes of    *)
(* the file do, the updates of a transaction survive all together or not at *)
(* all (sdr.pod:129-132), as long as no task dies inside and power stays.   *)
THEOREM Atomicity ==
    ASSUME NoCrash, "exit" \notin Ends
    PROVE  Spec => AllOrNothing
<1>1. Init => Store!Init
  <2> SUFFICES ASSUME Init PROVE Store!Init
    OBVIOUS
  <2>1. Undone = Fresh
    BY NothingToUndo, TypeInit DEF Init, TypeInv, TypeOK, HeapOK
  <2>2. ~Open /\ Kept = Fresh
    BY <2>1 DEF Init, Open, Kept
  <2>. QED
    BY <2>2 DEF Store!Init, Fresh
<1>2. Init => StoreInv
  BY ReversalInit DEF Init, StoreInv, PutLogged, Unmodified, CancelInv
<1>3. StoreInv /\ [Next]_vars => StoreInv'
  <2> SUFFICES ASSUME StoreInv, [Next]_vars PROVE StoreInv'
    OBVIOUS
  <2>1. ReversalInv /\ TypeInv /\ LogInv /\ ControlInv
    BY DEF StoreInv, ReversalInv, TypeInv
  <2>2. ReversalInv' /\ boot' = "up" /\ "kill" \notin Faults
    BY <2>1, ReversalStep, StaysUp DEF NoCrash
  <2>. QED
    BY <2>1, <2>2, PutLoggedStep, UnmodifiedStep, CancelStep DEF StoreInv
<1>4. StoreInv /\ [Next]_vars => [Store!Next]_Store!vars
  <2> SUFFICES ASSUME StoreInv, [Next]_vars PROVE [Store!Next]_Store!vars
    OBVIOUS
  <2>1. CASE Reversible
    BY <2>1, StepImplements
  <2>2. CASE ~Reversible
    <3>1. ~Reversible'
      BY <2>2, ProfileType DEF StoreInv, ReversalInv, TypeInv, TypeOK
    <3>. QED
      BY <2>2, <3>1 DEF Store!vars, Kept, Open
  <2>. QED
    BY <2>1, <2>2
<1>. QED
  BY <1>1, <1>2, <1>3, <1>4, PTL DEF Spec, AllOrNothing, Store!Spec
-----------------------------------------------------------------------------
(* The first power failure.                                                 *)

\* Both images and the log are kept where they survive it, and power fails once
\* while the SDR is up, however often during the recovery.
PowerOnce ==
    /\ \A p \in Profiles : {"SDR_REVERSIBLE", "SDR_IN_FILE"} \subseteq p[1] /\ p[2] = 0
    /\ Faults \cap {"kill", "short"} = {}
    /\ MaxFaults <= 1

WholeWords == Len(log) \div 2

(* Every control word of the log file is one when power has failed; and the *)
(* reload reverses all the entries.                                         *)
RecoveryInv ==
    /\ boot # "up" => faults >= 1 /\ \A i \in 1..WholeWords : log[2 * i - 1] \in Cell
    /\ boot = "rev" =>
        /\ Len(logEntries) = WholeWords
        /\ \A i \in 1..WholeWords : logEntries[i] = 2 * (i - 1)
        /\ \A c \in Cell, i \in 1..WholeWords :
              First(i, c) /\ rev < i => file[c] = log[2 * i]

PowerInv ==
    /\ TypeInv /\ AgreeInv /\ RecoveryInv
    /\ boot = "up" /\ faults = 0 => LogInv /\ PutLogged

LEMMA FileProfile ==
    ASSUME PowerOnce, ControlOK
    PROVE  Reversible /\ InFile /\ logSize = 0
BY DEF PowerOnce, ControlOK, profile, Reversible, InFile

LEMMA Halves ==
    ASSUME NEW n \in Nat
    PROVE  (2 * n) \div 2 = n /\ (2 * n + 1) \div 2 = n
OBVIOUS

(* When power fails every control word is one. *)
LEMMA ControlWords ==
    ASSUME TypeInv, LogInv, Reversible, logSize = 0
    PROVE  \A i \in 1..WholeWords : log[2 * i - 1] \in Cell
<1>1. /\ logEntries \in Seq(Nat) /\ Len(logEntries) \in Nat /\ Len(log) \in Nat
      /\ ControlInv
  BY DEF TypeInv, TypeOK, LogOK
<1> DEFINE n == Len(logEntries)
<1>2. CASE log = <<>>
  <2>1. WholeWords = 0
    BY <1>2 DEF WholeWords
  <2>. QED
    BY <2>1
<1>3. CASE Whole
  <2>1. WholeWords = n
    BY <1>1, <1>3, Halves DEF WholeWords, Whole
  <2>. QED
    BY <1>3, <2>1 DEF Whole
<1>4. log = <<>> \/ Whole
  <2>1. CASE owner = NoTask
    BY <2>1 DEF LogInv
  <2>2. ASSUME NEW t \in Task, owner = t
        PROVE  log = <<>> \/ Whole
    BY <2>2 DEF LogInv, Emptied
  <2>. QED
    BY <1>1, <2>1, <2>2 DEF ControlInv
<1>. QED
  BY <1>2, <1>3, <1>4

LEMMA RecoveredWords ==
    ASSUME log \in Seq(Word)
    PROVE  WholeWords \in Nat
BY DEF WholeWords

(* The reload then finds all of the entries. *)
LEMMA ReloadedAll ==
    ASSUME log \in Seq(Word), \A i \in 1..WholeWords : log[2 * i - 1] \in Cell
    PROVE  Len(WholeEntries) = WholeWords /\ \A i \in 1..WholeWords : WholeEntries[i] = 2 * (i - 1)
<1> DEFINE good == {n \in 1..WholeWords : \A i \in 1..n : log[2 * i - 1] \in Cell}
<1>1. WholeWords \in Nat
  BY DEF WholeWords
<1>2. good = 1..WholeWords
  BY <1>1
<1>3. Cardinality(1..WholeWords) = WholeWords
  BY <1>1, FS_Interval
<1>4. WholeEntries = [i \in 1..WholeWords |-> 2 * (i - 1)]
  <2>1. WholeEntries = [i \in 1..Cardinality(good) |-> 2 * (i - 1)]
    BY DEF WholeEntries, WholeWords
  <2> HIDE DEF good
  <2>. QED
    BY <1>2, <1>3, <2>1
<1>. QED
  BY <1>1, <1>4

(* The offsets of a cell in a log file whose control words are sound. *)
LEMMA OffsetsInFile ==
    ASSUME log \in Seq(Word), logSize = 0, NEW c
    PROVE  OffsetsOf(c) = {2 * (i - 1) : i \in {j \in 1..WholeWords : log[2 * j - 1] = c}}
<1> DEFINE n == WholeWords
           e == [i \in 1..n |-> 2 * (i - 1)]
<1>1. n \in Nat /\ 2 * n <= Len(log) /\ Len(log) <= 2 * n + 1 /\ Len(log) \in Nat
  BY DEF WholeWords
<1>2. e \in Seq(Nat) /\ Len(e) = n /\ \A i \in 1..n : e[i] = 2 * (i - 1)
  <2> HIDE DEF n
  <2>. QED
    BY <1>1
<1>3. OffsetsOf(c) = OffsetsIn(log, e, logSize, c)
  BY DEF OffsetsOf, Offsets, OffsetsIn
<1> HIDE DEF e
<1>4. OffsetsIn(log, e, logSize, c) = {2 * (i - 1) : i \in {j \in 1..Len(e) : log[2 * j - 1] = c}}
  BY <1>1, <1>2, EntryOffsets, SMTT(40)
<1>. QED
  BY <1>2, <1>3, <1>4

LEMMA PowerInit ==
    ASSUME PowerOnce, Init
    PROVE  PowerInv
<1>1. TypeInv /\ LogInv
  BY ReversalInit DEF ReversalInv
<1>2. /\ boot = "up" /\ faults = 0 /\ ds = file
      /\ owner = NoTask /\ \A t \in Task : pc[t] = "idle"
  BY DEF Init
<1>3. AgreeInv /\ PutLogged
  BY <1>2, SdrXnAssumption DEF AgreeInv, PutLogged
<1>. QED
  BY <1>1, <1>2, <1>3 DEF PowerInv, RecoveryInv

(* Only a power failure, and what recovers from it, is not a step of the    *)
(* SDR while it is up.                                                      *)
LEMMA FaultsKept ==
    ASSUME Faults \cap {"kill", "short"} = {}, ControlInv, [Next]_vars
    PROVE  \/ PowerFail \/ Load \/ LoadReverse \/ LoadRestage
           \/ UNCHANGED vars
           \/ boot = "up" /\ UNCHANGED <<boot, faults>>
<1> DEFINE Up == boot = "up" /\ UNCHANGED <<boot, faults>>
<1> USE SdrXnAssumption DEF ControlInv, Inside, Labels
<1>1. ASSUME NEW t \in Task, UserStep(t) PROVE Up
  BY <1>1 DEF UserStep, Begin, PutStart, EndNotOwner, EndInner, EndOuter, CancelOuter, ExitOuter,
              Crash, Ending, envVars
<1>2. ASSUME NEW t \in Task, LibraryStep(t) PROVE Up
  BY <1>2 DEF LibraryStep, PutOld, PutFile, PutFileShort, PutDram, PutModified, ReverseEntry,
              Truncate, Clear, Closing, Give, envVars
<1>3. ASSUME NEW t \in Task, Kill(t) \/ IonUnlock(t) \/ Respawn(t) PROVE Up
  BY <1>3 DEF Kill, IonUnlock, Respawn, envVars
<1>. QED
  BY <1>1, <1>2, <1>3 DEF Next

(* The recovery writes back the old datum of one entry, the newest that is  *)
(* left, to the file.                                                       *)
LEMMA EntryRestored ==
    ASSUME PowerOnce, PowerInv, LoadReverse
    PROVE  /\ rev \in 1..WholeWords /\ NextReversed = 2 * (rev - 1)
           /\ log[2 * rev - 1] \in Cell
           /\ file' = [file EXCEPT ![log[2 * rev - 1]] = log[2 * rev]]
<1>1. /\ boot = "rev" /\ rev > 0 /\ rev \in Nat /\ rev <= Len(logEntries)
      /\ file' = Restore(file, NextReversed)
  BY DEF LoadReverse, PowerInv, TypeInv, TypeOK, LogOK, DataInv
<1>2. /\ Len(logEntries) = WholeWords
      /\ \A i \in 1..WholeWords : logEntries[i] = 2 * (i - 1) /\ log[2 * i - 1] \in Cell
  BY <1>1 DEF PowerInv, RecoveryInv
<1>3. rev \in 1..WholeWords
  BY <1>1, <1>2, RecoveredWords DEF PowerInv, TypeInv, TypeOK, LogOK
<1>4. /\ NextReversed = 2 * (rev - 1)
      /\ NextReversed + 1 = 2 * rev - 1 /\ NextReversed + 2 = 2 * rev
  BY <1>1, <1>2, <1>3 DEF NextReversed
<1>. QED
  BY <1>1, <1>2, <1>3, <1>4 DEF Restore

LEMMA PowerStep ==
    ASSUME PowerOnce, PowerInv, [Next]_vars
    PROVE  PowerInv'
<1>1. /\ TypeInv /\ AgreeInv /\ TypeInv' /\ AgreeInv' /\ ControlInv
      /\ Faults \cap {"kill", "short"} = {} /\ "kill" \notin Faults
      /\ log \in Seq(Word) /\ logSize = 0 /\ Reversible /\ InFile
  BY TypeStep, AgreeStep, FileProfile DEF PowerInv, PowerOnce, TypeInv, TypeOK, LogOK
<1>2. CASE PowerFail
  <2>1. /\ boot' = "off" /\ log' = log /\ WholeWords' = WholeWords
        /\ faults' = IF boot = "up" THEN faults + 1 ELSE faults
        /\ boot = "up" => faults < MaxFaults
    BY <1>1, <1>2 DEF PowerFail, WholeWords
  <2>2. CASE boot = "up"
    <3>1. faults \in Nat /\ faults = 0
      BY <1>1, <2>1, <2>2, SdrXnAssumption DEF PowerOnce, TypeInv, TypeOK, ControlOK
    <3>2. \A i \in 1..WholeWords : log[2 * i - 1] \in Cell
      BY <1>1, <2>2, <3>1, ControlWords DEF PowerInv
    <3>3. RecoveryInv'
      BY <2>1, <2>2, <3>1, <3>2 DEF RecoveryInv
    <3>. QED
      BY <1>1, <2>1, <3>3 DEF PowerInv
  <2>3. CASE boot # "up"
    <3>1. RecoveryInv'
      BY <2>1, <2>3 DEF PowerInv, RecoveryInv
    <3>. QED
      BY <1>1, <2>1, <3>1 DEF PowerInv
  <2>. QED
    BY <2>2, <2>3
<1>3. CASE Load
  <2>1. /\ boot = "off" /\ boot' = "rev" /\ log' = log /\ WholeWords' = WholeWords
        /\ faults' = faults /\ logEntries' = WholeEntries /\ rev' = Len(logEntries')
    BY <1>1, <1>3 DEF Load, WholeWords
  <2>2. \A i \in 1..WholeWords : log[2 * i - 1] \in Cell
    BY <2>1 DEF PowerInv, RecoveryInv
  <2>3. /\ Len(logEntries') = WholeWords
        /\ \A i \in 1..WholeWords : logEntries'[i] = 2 * (i - 1)
    BY <1>1, <2>1, <2>2, ReloadedAll
  <2>4. RecoveryInv'
    <3>1. WholeWords \in Nat
      BY <1>1, RecoveredWords
    <3>2. \A i \in 1..WholeWords : ~(rev' < i)
      BY <2>1, <2>3, <3>1
    <3>. QED
      BY <2>1, <2>2, <2>3, <3>2 DEF RecoveryInv, PowerInv
  <2>. QED
    BY <1>1, <2>1, <2>4 DEF PowerInv
<1>4. CASE LoadReverse
  <2>1. /\ boot = "rev" /\ boot' = "rev" /\ UNCHANGED <<log, logEntries, faults>>
        /\ rev' = rev - 1 /\ WholeWords' = WholeWords
    BY <1>4 DEF LoadReverse, envVars, WholeWords
  <2>2. /\ rev \in 1..WholeWords /\ log[2 * rev - 1] \in Cell
        /\ file' = [file EXCEPT ![log[2 * rev - 1]] = log[2 * rev]]
    BY <1>4, EntryRestored
  <2>3. ASSUME NEW c \in Cell, NEW i \in 1..WholeWords, First(i, c), rev - 1 < i
        PROVE  file'[c] = log[2 * i]
    <3>0. WholeWords \in Nat /\ file \in [Cell -> Word] /\ Len(logEntries) = WholeWords
      BY <1>1, <2>1, RecoveredWords DEF PowerInv, RecoveryInv, TypeInv, TypeOK, HeapOK
    <3>1. CASE i = rev
      BY <2>2, <2>3, <3>0, <3>1 DEF First
    <3>2. CASE i # rev
      <4>1. rev < i /\ file[c] = log[2 * i]
        BY <2>1, <2>2, <2>3, <3>0, <3>2 DEF PowerInv, RecoveryInv
      <4>2. log[2 * rev - 1] # c
        BY <2>2, <2>3, <3>0, <4>1 DEF First
      <4>. QED
        BY <2>2, <3>0, <4>1, <4>2
    <3>. QED
      BY <3>1, <3>2
  <2>4. RecoveryInv'
    <3>1. \A c \in Cell, i \in 1..WholeWords : First(i, c)' <=> First(i, c)
      BY <2>1 DEF First
    <3>. QED
      BY <2>1, <2>3, <3>1 DEF RecoveryInv, PowerInv
  <2>. QED
    BY <1>1, <2>1, <2>4 DEF PowerInv
<1>5. CASE LoadRestage
  <2>1. boot = "rev" /\ boot' = "up" /\ faults' = faults /\ faults >= 1
    BY <1>5 DEF LoadRestage, PowerInv, RecoveryInv
  <2>2. faults' # 0
    BY <1>1, <2>1 DEF TypeInv, TypeOK, ControlOK
  <2>. QED
    BY <1>1, <2>1, <2>2 DEF PowerInv, RecoveryInv
<1>6. CASE UNCHANGED vars
  <2>1. LogInv' <=> LogInv
    BY <1>6 DEF vars, taskVars, logVars, lockVars, envVars, profile, LogInv, Reversible, Whole,
                Emptied
  <2>2. PutLogged' <=> PutLogged
    BY <1>6 DEF vars, taskVars, logVars, lockVars, envVars, profile, PutLogged, Reversible
  <2>3. RecoveryInv' <=> RecoveryInv
    BY <1>6 DEF vars, logVars, heapVars, envVars, RecoveryInv, WholeWords, First
  <2>. QED
    BY <1>1, <1>6, <2>1, <2>2, <2>3 DEF PowerInv, vars, envVars
<1>7. CASE boot = "up" /\ UNCHANGED <<boot, faults>>
  <2>1. faults = 0 => LogInv' /\ PutLogged'
    BY <1>1, <1>7, LogStep, PutLoggedStep DEF PowerInv
  <2>. QED
    BY <1>1, <1>7, <2>1 DEF PowerInv, RecoveryInv
<1>. QED
  BY <1>1, <1>2, <1>3, <1>4, <1>5, <1>6, <1>7, FaultsKept

(* What the reversal would give depends only on the log and, for a cell     *)
(* without an entry, on the heap.                                           *)
LEMMA UndoneKept ==
    ASSUME logSize = 0, logSize' = 0, log' = log,
           \A c \in Cell : OffsetsOf(c) = {} => Heap'[c] = Heap[c]
    PROVE  Undone' = Undone
<1>1. \A c \in Cell : OffsetsOf(c)' = OffsetsOf(c)
  BY DEF OffsetsOf, Offsets
<1>. QED
  BY <1>1 DEF Undone

(* A power failure while the SDR is up: what the file has and memory has    *)
(* not is in the log.                                                       *)
LEMMA FailureKeeps ==
    ASSUME PowerOnce, PowerInv, boot = "up", PowerFail
    PROVE  Undone' = Undone
<1>1. /\ TypeInv /\ AgreeInv /\ LogInv /\ PutLogged /\ ControlInv
      /\ logSize = 0 /\ Reversible /\ InFile /\ log' = log /\ logSize' = 0
      /\ boot' = "off" /\ file' = file
  <2>1. faults = 0
    BY SdrXnAssumption DEF PowerOnce, PowerFail, PowerInv, TypeInv, TypeOK, ControlOK
  <2>. QED
    BY <2>1, FileProfile DEF PowerInv, PowerFail, TypeInv, TypeOK, profile
<1>2. ASSUME NEW c \in Cell, OffsetsOf(c) = {}
      PROVE  file[c] = ds[c]
  <2>1. CASE \A t \in Task : pc[t] # "dram"
    BY <1>1, <2>1 DEF AgreeInv
  <2>2. ASSUME NEW t \in Task, pc[t] = "dram"
        PROVE  file[c] = ds[c]
    <3>1. owner = t /\ file = [ds EXCEPT ![put[1]] = put[2]] /\ ds \in [Cell -> Word]
      BY <1>1, <2>2 DEF ControlInv, Inside, AgreeInv, TypeInv, TypeOK, HeapOK
    <3>2. PICK i \in 1..Len(logEntries) : log[2 * i - 1] = put[1]
      BY <1>1, <2>2, <3>1 DEF PutLogged
    <3>3. 2 * (i - 1) \in OffsetsOf(put[1])
      BY <1>1, <2>2, <3>1, <3>2, OffsetsOfEntries DEF Entries
    <3>4. c # put[1]
      BY <1>2, <3>3
    <3>. QED
      BY <3>1, <3>4
  <2>. QED
    BY <2>1, <2>2
<1>. QED
  BY <1>1, <1>2, UndoneKept DEF Heap

(* At the end of the reversal every cell of the file is back.               *)
LEMMA FileRestored ==
    ASSUME PowerOnce, PowerInv, boot = "rev", rev = 0
    PROVE  file = Undone
<1>1. /\ log \in Seq(Word) /\ logSize = 0 /\ file \in [Cell -> Word] /\ Heap = file
      /\ Len(logEntries) = WholeWords /\ WholeWords \in Nat
  BY FileProfile, RecoveredWords
  DEF PowerInv, RecoveryInv, TypeInv, TypeOK, LogOK, HeapOK, Heap
<1>2. ASSUME NEW c \in Cell
      PROVE  file[c] = Undone[c]
  <2> DEFINE own == {j \in 1..WholeWords : log[2 * j - 1] = c}
  <2>1. OffsetsOf(c) = {2 * (i - 1) : i \in own}
    BY <1>1, OffsetsInFile
  <2>2. CASE OffsetsOf(c) = {}
    BY <1>1, <2>2 DEF Undone
  <2>3. CASE OffsetsOf(c) # {}
    <3>1. OffsetsOf(c) \subseteq Nat
      BY <1>1, <2>1
    <3>2. /\ Oldest(OffsetsOf(c)) \in OffsetsOf(c)
          /\ \A p \in OffsetsOf(c) : Oldest(OffsetsOf(c)) <= p
      BY <2>3, <3>1, OldestExists
    <3>3. PICK i \in own : Oldest(OffsetsOf(c)) = 2 * (i - 1)
      BY <2>1, <3>2
    <3>4. \A j \in own : 2 * (i - 1) <= 2 * (j - 1)
      BY <2>1, <3>2, <3>3
    <3>5. First(i, c) /\ 2 * (i - 1) + 2 = 2 * i /\ i \in 1..WholeWords /\ 0 < i
      BY <1>1, <3>3, <3>4 DEF First
    <3>6. Undone[c] = log[2 * i]
      BY <2>3, <3>3, <3>5 DEF Undone
    <3>7. file[c] = log[2 * i]
      BY <3>5 DEF PowerInv, RecoveryInv
    <3>. QED
      BY <3>6, <3>7
  <2>. QED
    BY <2>2, <2>3
<1>. QED
  BY <1>1, <1>2 DEF Undone

LEMMA PowerStepKeeps ==
    ASSUME PowerOnce, PowerInv, [Next]_vars, boot # "up" \/ boot' # "up"
    PROVE  Undone' = Undone /\ (boot' = "up" => ds' = Undone)
<1>1. /\ ControlInv /\ Faults \cap {"kill", "short"} = {}
      /\ log \in Seq(Word) /\ logSize = 0 /\ logSize' = 0 /\ Reversible /\ InFile
  BY FileProfile, ProfileType DEF PowerInv, PowerOnce, TypeInv, TypeOK, LogOK
<1>2. CASE PowerFail
  <2>1. CASE boot # "up"
    <3>1. log' = log /\ Heap' = Heap /\ boot' = "off"
      BY <1>1, <1>2, <2>1 DEF PowerFail, Heap
    <3>. QED
      BY <1>1, <3>1, UndoneKept
  <2>. QED
    BY <1>2, <2>1, FailureKeeps DEF PowerFail
<1>3. CASE Load
  <2>1. log' = log /\ Heap' = Heap /\ boot' = "rev"
    BY <1>1, <1>3 DEF Load, Heap, heapVars
  <2>. QED
    BY <1>1, <2>1, UndoneKept
<1>4. CASE LoadReverse
  <2>1. /\ log' = log /\ boot' = "rev" /\ boot = "rev" /\ Heap = file /\ Heap' = file'
    BY <1>4 DEF LoadReverse, Heap, envVars
  <2>2. /\ rev \in 1..WholeWords /\ log[2 * rev - 1] \in Cell
        /\ file' = [file EXCEPT ![log[2 * rev - 1]] = log[2 * rev]]
    BY <1>4, EntryRestored
  <2>3. ASSUME NEW c \in Cell, OffsetsOf(c) = {}
        PROVE  file'[c] = file[c]
    <3> DEFINE own == {j \in 1..WholeWords : log[2 * j - 1] = c}
    <3>0. {2 * (i - 1) : i \in own} = {}
      BY <1>1, <2>3, OffsetsInFile
    <3>1. rev \notin own
      BY <3>0
    <3>2. log[2 * rev - 1] # c
      BY <2>2, <3>1
    <3>. QED
      BY <2>2, <3>2 DEF PowerInv, TypeInv, TypeOK, HeapOK
  <2>. QED
    BY <1>1, <2>1, <2>3, UndoneKept
<1>5. CASE LoadRestage
  <2>1. /\ log' = log /\ boot' = "up" /\ boot = "rev" /\ rev = 0 /\ Heap = file /\ Heap' = file
        /\ ds' = file
    BY <1>5 DEF LoadRestage, Heap, logVars
  <2>. QED
    BY <1>1, <2>1, UndoneKept, FileRestored
<1>6. CASE UNCHANGED vars
  <2>1. log' = log /\ Heap' = Heap /\ boot' = boot
    BY <1>6 DEF vars, logVars, heapVars, envVars, Heap
  <2>. QED
    BY <1>1, <2>1, UndoneKept
<1>. QED
  BY <1>1, <1>2, <1>3, <1>4, <1>5, <1>6, FaultsKept

(* The heap that the log would restore is the same just before power fails, *)
(* all along the recovery, whether or not power fails again, and in memory  *)
(* when the profile is loaded.                                              *)
THEOREM PowerRecovers ==
    ASSUME PowerOnce
    PROVE  Spec => PowerKeepsStore
<1>1. PowerInv /\ [Next]_vars => PowerInv'
  BY PowerStep
<1>2. Init => PowerInv
  BY PowerInit
<1>3. PowerInv /\ [Next]_vars =>
          [boot # "up" \/ boot' # "up" =>
               Undone' = Undone /\ (boot' = "up" => ds' = Undone)]_vars
  BY PowerStepKeeps
<1>. QED
  BY <1>1, <1>2, <1>3, PTL DEF Spec, PowerKeepsStore
-----------------------------------------------------------------------------
(* What a recovery may restore.                                             *)

(* Without a cancellation nothing is reversed while the SDR is up; the heap *)
(* has data of its users, and so have the entries of the log that a         *)
(* recovery would write back.                                               *)
SoundData == boot # "up" \/ faults = 0 => \A i \in 1..WholeWords : log[2 * i] \in Val

WreckInv ==
    /\ ~canceled /\ \A t \in Task : pc[t] \notin {"rev", "dead"}
    /\ \A c \in Cell : ds[c] \in Val /\ file[c] \in Val
    /\ SoundData

(* The entry that is being written has the datum it will overwrite.         *)
LEMMA SoundDataGrows ==
    ASSUME TypeInv, LogInv, WreckInv, Reversible, logSize = 0, faults = 0,
           NEW t \in Task, PutOld(t) \/ \E c \in Cell, v \in Val : PutStart(t, c, v)
    PROVE  \A i \in 1..WholeWords' : log'[2 * i] \in Val
<1> DEFINE n == Len(logEntries)
<1>1. /\ n \in Nat /\ LogFits /\ LogOK /\ put[1] \in Cell /\ boot = "up"
      /\ owner = t /\ logLength \in Int /\ Len(log) = logLength
  BY DEF TypeInv, TypeOK, LogOK, HeapOK, LogFits, LogInv, Logging, PutOld, PutStart, ControlInv,
         Inside
<1>2. CASE PutOld(t)
  <2>1. /\ Len(log) = 2 * n + 1 /\ Len(log') = 2 * n + 2 /\ log'[2 * n + 2] = ds[put[1]]
        /\ \A k \in 1..(2 * n + 1) : log'[k] = log[k]
    BY <1>1, <1>2, EntryWritten
  <2>2. WholeWords = n /\ WholeWords' = n + 1
    BY <1>1, <2>1 DEF WholeWords
  <2>3. ASSUME NEW i \in 1..(n + 1)
        PROVE  log'[2 * i] \in Val
    <3>1. CASE i = n + 1
      BY <1>1, <2>1, <3>1 DEF WreckInv
    <3>2. CASE i # n + 1
      <4>1. i \in 1..n /\ 2 * i \in 1..(2 * n + 1)
        BY <1>1, <3>2
      <4>. QED
        BY <1>1, <2>1, <2>2, <4>1 DEF WreckInv, SoundData
    <3>. QED
      BY <3>1, <3>2
  <2>. QED
    BY <2>2, <2>3
<1>3. ASSUME NEW c \in Cell, NEW v \in Val, PutStart(t, c, v)
      PROVE  \A i \in 1..WholeWords' : log'[2 * i] \in Val
  <2>1. logLength = 2 * n /\ log' = Logged(c)
    BY <1>1, <1>3 DEF PutStart, LogInv, Logging
  <2>2. Len(log') = 2 * n + 1 /\ \A k \in 1..(2 * n) : log'[k] = log[k]
    BY <1>1, <2>1, LoggedKeeps DEF Word
  <2>3. WholeWords = n /\ WholeWords' = n
    BY <1>1, <2>1, <2>2 DEF WholeWords
  <2>4. \A i \in 1..n : 2 * i \in 1..(2 * n)
    BY <1>1
  <2>. QED
    BY <1>1, <2>2, <2>3, <2>4 DEF WreckInv, SoundData
<1>. QED
  BY <1>2, <1>3

LEMMA WreckStep ==
    ASSUME PowerOnce, Ends \subseteq {"end"}, PowerInv, WreckInv, [Next]_vars
    PROVE  WreckInv'
<1>1. /\ TypeInv /\ ControlInv /\ put \in Cell \X Val /\ log \in Seq(Word)
      /\ ds \in [Cell -> Word] /\ file \in [Cell -> Word] /\ faults \in Nat
      /\ logSize = 0 /\ Reversible /\ InFile /\ ClosePc = "trunc" /\ LogFits
      /\ Faults \cap {"kill", "short"} = {}
      /\ "cancel" \notin Ends /\ "crash" \notin Ends /\ "exit" \notin Ends
      /\ ~canceled /\ \A t \in Task : pc[t] \notin {"rev", "dead"}
  BY FileProfile
  DEF PowerOnce, PowerInv, TypeInv, TypeOK, ControlOK, LogOK, HeapOK, WreckInv, ClosePc, LogFits
<1> DEFINE Heaps == \A c \in Cell : ds[c] \in Val /\ file[c] \in Val
<1>2. Heaps /\ SoundData /\ SdrXnAssumption
  BY SdrXnAssumption DEF WreckInv
<1> USE DEF ControlInv, Inside, Labels, Goto
<1>3. ASSUME NEW t \in Task, UserStep(t)
      PROVE  WreckInv'
  <2>1. CASE \E c \in Cell, v \in Val : PutStart(t, c, v)
    <3>1. ~canceled' /\ (\A u \in Task : pc'[u] \notin {"rev", "dead"})
      BY <1>1, <2>1 DEF PutStart, xnVars
    <3>2. Heaps' /\ UNCHANGED <<boot, faults>> /\ boot = "up"
      BY <1>1, <1>2, <2>1 DEF PutStart, heapVars, envVars
    <3>3. SoundData'
      BY <1>1, <2>1, <3>2, SoundDataGrows DEF SoundData, PowerInv
    <3>. QED
      BY <3>1, <3>2, <3>3 DEF WreckInv
  <2>2. CASE \/ Begin(t) \/ EndNotOwner(t) \/ EndInner(t)
             \/ EndOuter(t) \/ CancelOuter(t) \/ ExitOuter(t) \/ Crash(t)
    <3>1. ~canceled' /\ (\A u \in Task : pc'[u] \notin {"rev", "dead"})
      <4>1. CASE Begin(t) \/ EndNotOwner(t)
        BY <1>1, <4>1 DEF Begin, EndNotOwner, Ending, xnVars
      <4>2. CASE EndInner(t)
        BY <1>1, <4>2 DEF EndInner, Ending
      <4>3. CASE EndOuter(t)
        BY <1>1, <4>3 DEF EndOuter, Terminate, MustReverse, ResetCanceled
      <4>4. CASE CancelOuter(t) \/ ExitOuter(t) \/ Crash(t)
        BY <1>1, <4>4 DEF CancelOuter, ExitOuter, Crash, Ending
      <4>. QED
        BY <2>2, <4>1, <4>2, <4>3, <4>4
    <3>2. UNCHANGED <<heapVars, log, boot, faults>>
      BY <2>2 DEF Begin, EndNotOwner, EndInner, EndOuter, CancelOuter, ExitOuter, Crash,
                  logVars, envVars
    <3>3. Heaps' /\ SoundData'
      BY <1>2, <3>2 DEF SoundData, WholeWords, heapVars
    <3>. QED
      BY <3>1, <3>3 DEF WreckInv
  <2>. QED
    BY <1>3, <2>1, <2>2 DEF UserStep
<1>4. ASSUME NEW t \in Task, LibraryStep(t)
      PROVE  WreckInv'
  <2>1. ~canceled' /\ (\A u \in Task : pc'[u] \notin {"rev", "dead"})
    BY <1>1, <1>4 DEF LibraryStep, PutOld, PutFile, PutFileShort, PutDram, PutModified,
                      ReverseEntry, Truncate, Clear, Give, FilePc, xnVars
  <2>2. UNCHANGED <<boot, faults>>
    BY <1>1, <1>4 DEF LibraryStep, PutOld, PutFile, PutFileShort, PutDram, PutModified,
                      ReverseEntry, Truncate, Clear, Give, envVars
  <2>3. Heaps'
    BY <1>1, <1>2, <1>4 DEF LibraryStep, PutOld, PutFile, PutFileShort, PutDram, PutModified,
                            ReverseEntry, Truncate, Clear, Give, heapVars
  <2>4. SoundData'
    <3>1. CASE PutOld(t)
      <4>1. boot = "up"
        BY <1>1, <3>1 DEF PutOld
      <4>. QED
        BY <1>1, <2>2, <3>1, <4>1, SoundDataGrows DEF SoundData, PowerInv
    <3>2. CASE Truncate(t)
      <4>1. 0 \div 2 = 0
        OBVIOUS
      <4>2. log' = <<>> /\ Len(<<>>) = 0
        BY <3>2 DEF Truncate
      <4>3. WholeWords' = 0
        BY <4>1, <4>2 DEF WholeWords
      <4>. QED
        BY <4>3 DEF SoundData
    <3>3. CASE ~PutOld(t) /\ ~Truncate(t)
      <4>1. log' = log
        BY <1>1, <1>4, <3>3 DEF LibraryStep, PutFile, PutFileShort, PutDram, PutModified,
                                ReverseEntry, Clear, Give, logVars
      <4>. QED
        BY <1>2, <2>2, <4>1 DEF SoundData, WholeWords
    <3>. QED
      BY <3>1, <3>2, <3>3
  <2>. QED
    BY <2>1, <2>3, <2>4 DEF WreckInv
<1>5. ASSUME NEW t \in Task, Kill(t) \/ IonUnlock(t) \/ Respawn(t)
      PROVE  WreckInv'
  BY <1>1, <1>5 DEF Kill, IonUnlock, Respawn
<1>6. CASE PowerFail
  <2>1. ~canceled' /\ \A u \in Task : pc'[u] \notin {"rev", "dead"}
    BY <1>6 DEF PowerFail
  <2>2. Heaps'
    BY <1>1, <1>2, <1>6 DEF PowerFail, Fresh
  <2>3. log' = log /\ (boot # "up" \/ faults = 0)
    BY <1>1, <1>6, SdrXnAssumption DEF PowerFail, PowerOnce
  <2>4. SoundData'
    BY <1>2, <2>3 DEF SoundData, WholeWords
  <2>. QED
    BY <2>1, <2>2, <2>4 DEF WreckInv
<1>7. CASE Load \/ LoadRestage
  <2>1. ~canceled' /\ \A u \in Task : pc'[u] \notin {"rev", "dead"}
    BY <1>1, <1>7 DEF Load, LoadRestage, taskVars, xnVars
  <2>2. Heaps'
    BY <1>2, <1>7 DEF Load, LoadRestage, heapVars
  <2>3. log' = log /\ faults' = faults /\ boot # "up"
    BY <1>7 DEF Load, LoadRestage, logVars
  <2>4. SoundData'
    BY <1>2, <2>3 DEF SoundData, WholeWords
  <2>. QED
    BY <2>1, <2>2, <2>4 DEF WreckInv
<1>8. CASE LoadReverse
  <2>1. ~canceled' /\ \A u \in Task : pc'[u] \notin {"rev", "dead"}
    BY <1>1, <1>8 DEF LoadReverse, taskVars, xnVars
  <2>2. /\ rev \in 1..WholeWords /\ log[2 * rev - 1] \in Cell
        /\ file' = [file EXCEPT ![log[2 * rev - 1]] = log[2 * rev]]
    BY <1>8, EntryRestored
  <2>3. UNCHANGED <<ds, log, faults, boot>> /\ boot # "up"
    BY <1>8 DEF LoadReverse, envVars
  <2>4. log[2 * rev] \in Val
    BY <1>2, <2>2, <2>3 DEF SoundData
  <2>5. Heaps'
    BY <1>1, <1>2, <2>2, <2>3, <2>4
  <2>6. SoundData'
    BY <1>2, <2>3 DEF SoundData, WholeWords
  <2>. QED
    BY <2>1, <2>5, <2>6 DEF WreckInv
<1>9. CASE UNCHANGED vars
  BY <1>9 DEF vars, taskVars, xnVars, logVars, heapVars, envVars, WreckInv, SoundData, WholeWords
<1>. QED
  BY <1>3, <1>4, <1>5, <1>6, <1>7, <1>8, <1>9 DEF Next

(* When no user cancels, the one recovery after a power failure leaves data *)
(* of the users in the heap and nothing else.                               *)
THEOREM NothingWrecked ==
    ASSUME PowerOnce, Ends \subseteq {"end"}
    PROVE  Spec => []NeverWrecked
<1>1. Init => PowerInv
  BY PowerInit
<1>2. Init => WreckInv
  <2> SUFFICES ASSUME Init PROVE WreckInv
    OBVIOUS
  <2>1. 0 \div 2 = 0 /\ Len(<<>>) = 0
    OBVIOUS
  <2>2. WholeWords = 0
    BY <2>1 DEF Init, WholeWords
  <2>. QED
    BY <2>2, SdrXnAssumption DEF Init, WreckInv, SoundData, Fresh
<1>3. PowerInv /\ [Next]_vars => PowerInv'
  BY PowerStep
<1>4. PowerInv /\ WreckInv /\ [Next]_vars => WreckInv'
  BY WreckStep
<1>5. WreckInv => NeverWrecked
  BY DEF WreckInv, NeverWrecked
<1>. QED
  BY <1>1, <1>2, <1>3, <1>4, <1>5, PTL DEF Spec
=============================================================================
