------------------------------- MODULE SdrXn -------------------------------
(***************************************************************************)
(* Transactions of the Simple Data Recorder (ici/sdr/sdrxn.c): nesting,    *)
(* the write-ahead log, cancellation, recovery of the heap when a profile  *)
(* is loaded after a power failure, and the ionunlock utility.             *)
(*                                                                         *)
(* The heap is resident in memory (SDR_IN_DRAM) and, when InFile, mirrored *)
(* in a file.  One Cell stands for the extent of one _sdrput, and a log    *)
(* entry is two words: its control word (address and length, here the     *)
(* cell) and the old data.  Words are kept one by one because a crash can  *)
(* fall between them.  The mutex is taken in one step here; SdrLock        *)
(* models it read by read.  No restart command is configured.              *)
(***************************************************************************)
EXTENDS Integers, Sequences, FiniteSets

CONSTANTS
    Task,        \* threads that use the SDR
    NoTask,      \* sdrOwnerTask = -1
    Cell,
    Val,
    InitVal,
    Profiles,    \* the configFlags and logSize an SDR may be loaded with
    Ends,        \* how users end a level: subset of {"end","cancel","exit","crash"}
    Faults,      \* what may go wrong: subset of {"kill", "power", "short"}
    MaxDepth,    \* bound on nesting
    MaxLog,      \* bound on the words of the log
    MaxFaults    \* bound on the faults of a behaviour

ASSUME SdrXnAssumption ==
    /\ NoTask \notin Task
    /\ InitVal \in Val
    /\ Cell \cap Val = {}
    /\ Profiles \subseteq (SUBSET {"SDR_REVERSIBLE", "SDR_IN_FILE"}) \X Nat
    /\ MaxDepth \in Nat /\ MaxLog \in Nat /\ MaxFaults \in Nat

VARIABLES
    configFlags, \* flags of the profile, kept in the SdrState
    logSize,     \* 0: the log is a file; n: it is n words of shared memory
    sem,         \* sdrSemaphore: "free" or "taken"
    owner,       \* sdrOwnerTask and sdrOwnerThread
    depth,       \* xnDepth
    modified,    \* SdrState.modified
    canceled,    \* xnCanceled
    logLength,   \* SdrState.logLength, in words
    logEntries,  \* offsets in the log of the entries of the transaction
    log,         \* the words of the log file or log memory
    ds,          \* the heap in memory (dssm)
    file,        \* the heap in the file (dsfile)
    pc,          \* where each task is in the code
    level,       \* levels of transaction each task has begun and not ended
    put,         \* address and value of the _sdrput in progress
    rev,         \* log entries that reverseTransaction has still to process
    boot,        \* "up", or where sdr_load_profile is: "off", "rev"
    faults       \* faults so far

lockVars == <<sem, owner>>
profile  == <<configFlags, logSize>>
xnVars   == <<depth, modified, canceled>>
logVars  == <<logLength, logEntries, log>>
heapVars == <<ds, file>>
taskVars == <<pc, level, put>>
envVars  == <<boot, faults, profile>>
vars == <<lockVars, xnVars, logVars, heapVars, taskVars, rev, envVars>>

Reversible == "SDR_REVERSIBLE" \in configFlags
InFile == "SDR_IN_FILE" \in configFlags

Word == Cell \cup Val    \* bytes read out of place make a word of either kind

Fresh == [c \in Cell |-> InitVal]

ControlOK ==
    /\ profile \in Profiles
    /\ sem \in {"free", "taken"}
    /\ owner \in Task \cup {NoTask}
    /\ depth \in Nat
    /\ pc \in [Task -> {"idle", "run", "old", "file", "dram", "mod",
                        "rev", "trunc", "clear", "give", "dead"}]
    /\ level \in [Task -> Nat]
    /\ boot \in {"up", "off", "rev"}
    /\ faults \in Nat

FlagsOK == modified \in BOOLEAN /\ canceled \in BOOLEAN

LogOK == logLength \in Int /\ logEntries \in Seq(Nat) /\ log \in Seq(Word) /\ rev \in Nat

HeapOK == ds \in [Cell -> Word] /\ file \in [Cell -> Word] /\ put \in Cell \X Val

TypeOK == ControlOK /\ FlagsOK /\ LogOK /\ HeapOK

Init ==
    /\ \E p \in Profiles : configFlags = p[1] /\ logSize = p[2]
    /\ sem = "free" /\ owner = NoTask
    /\ depth = 0 /\ modified = FALSE /\ canceled = FALSE
    /\ logLength = 0 /\ logEntries = <<>> /\ log = <<>>
    /\ ds = Fresh /\ file = Fresh
    /\ pc = [t \in Task |-> "idle"]
    /\ level = [t \in Task |-> 0]
    /\ put \in Cell \X {InitVal}
    /\ rev = 0
    /\ boot = "up" /\ faults = 0

Goto(t, where) == pc' = [pc EXCEPT ![t] = where]

-----------------------------------------------------------------------------
(* Ending a transaction: terminateXn, reverseTransaction, clearTransaction  *)
(* and unlockSdr.                                                           *)

\* clearTransaction begins with the log file, when the log is one.
ClosePc == IF Reversible /\ logSize = 0 THEN "trunc" ELSE "clear"

\* The transaction closes at once, or when the last entry is reversed.
Closing(t, where) == ClosePc = where /\ (pc[t] = where \/ (pc[t] = "rev" /\ rev = 0))

MustReverseIfOwn(cancel) == cancel /\ modified /\ ~canceled   \* mutant: ignores inner levels
\* Only updates need reversing.
MustReverse(cancel) == cancel /\ modified

KeepCanceled == UNCHANGED canceled   \* mutant
ResetCanceled == canceled' = FALSE

\* terminateXn: an outermost level ends; cancel says whether by cancellation.
\* Without a log a modified heap is beyond recovery and the task aborts.
Terminate(t, cancel) ==
    /\ depth' = 0
    /\ ResetCanceled
    /\ \/ /\ MustReverse(cancel) /\ Reversible
          /\ Goto(t, "rev") /\ rev' = Len(logEntries)
       \/ /\ MustReverse(cancel) /\ ~Reversible
          /\ Goto(t, "dead") /\ UNCHANGED rev
       \/ /\ ~MustReverse(cancel)
          /\ Goto(t, ClosePc) /\ UNCHANGED rev
    /\ UNCHANGED modified

CrashXn(t) == Terminate(t, TRUE)

\* readFromLog finds a whole entry at this offset.
Readable(o) == o + 2 <= Len(log) /\ log[o + 1] \in Cell

RestoreControl(image, o) == [image EXCEPT ![log[o + 1]] = log[o + 1]]   \* mutant: no skip

Restore(image, o) == [image EXCEPT ![log[o + 1]] = log[o + 2]]

RestoreDramOnly(o) == file   \* mutant

RestoreFile(o) == IF InFile THEN Restore(file, o) ELSE file

FirstReversed == logEntries[Len(logEntries) + 1 - rev]   \* mutant: oldest first

\* The list is walked from its last entry.
NextReversed == logEntries[rev]

\* One round of the loop of reverseTransaction, newest entry first; an entry
\* that cannot be read aborts the task, which keeps the mutex.
ReverseEntry(t) ==
    /\ pc[t] = "rev" /\ rev > 0
    /\ \/ /\ Readable(NextReversed)
          /\ ds' = Restore(ds, NextReversed) /\ file' = RestoreFile(NextReversed)
          /\ logLength' = logLength - 2
          /\ rev' = rev - 1
          /\ UNCHANGED pc
       \/ /\ ~Readable(NextReversed)
          /\ Goto(t, "dead")
          /\ UNCHANGED <<heapVars, logLength, rev>>
    /\ UNCHANGED <<lockVars, xnVars, logEntries, log, level, put, envVars>>

\* clearTransaction reopens a log file with O_TRUNC ...
Truncate(t) ==
    /\ Closing(t, "trunc")
    /\ log' = <<>>
    /\ Goto(t, "clear")
    /\ UNCHANGED <<lockVars, xnVars, logLength, logEntries, heapVars, level, put, rev, envVars>>

\* ... then empties the list of entries; unlockSdr disowns the transaction ...
Clear(t) ==
    /\ pc[t] = "clear" \/ Closing(t, "clear")
    /\ logLength' = 0 /\ logEntries' = <<>>
    /\ owner' = NoTask
    /\ Goto(t, "give")
    /\ UNCHANGED <<sem, xnVars, log, heapVars, level, put, rev, envVars>>

GiveIfOuter(t) ==   \* mutant: a level still open keeps the semaphore
    /\ pc[t] = "give"
    /\ sem' = IF level[t] = 0 THEN "free" ELSE sem
    /\ Goto(t, IF level[t] = 0 THEN "idle" ELSE "run")
    /\ UNCHANGED <<owner, xnVars, logVars, heapVars, level, put, rev, envVars>>

\* ... and gives the semaphore; the call returns to the user.
Give(t) ==
    /\ pc[t] = "give"
    /\ sem' = "free"
    /\ Goto(t, IF level[t] = 0 THEN "idle" ELSE "run")
    /\ UNCHANGED <<owner, xnVars, logVars, heapVars, level, put, rev, envVars>>

-----------------------------------------------------------------------------
(* The calls of a user.                                                     *)

AvailableIfUnowned == owner = NoTask   \* mutant: looks at the owner only

\* sm_SemTake returns at once only if nobody holds the semaphore.
Available == sem = "free"

\* sdr_begin_xn: nest when already the owner, else take the mutex (takeSdr,
\* lockSdr).  xnCanceled is not reset here.
Begin(t) ==
    /\ boot = "up" /\ pc[t] \in {"idle", "run"} /\ level[t] < MaxDepth
    /\ \/ /\ owner = t
          /\ depth' = depth + 1
          /\ UNCHANGED <<lockVars, modified>>
       \/ /\ owner # t /\ Available
          /\ sem' = "taken" /\ owner' = t
          /\ depth' = 1 /\ modified' = FALSE
    /\ level' = [level EXCEPT ![t] = @ + 1]
    /\ Goto(t, "run")
    /\ UNCHANGED <<canceled, logVars, heapVars, put, rev, envVars>>

LogFits == logSize = 0 \/ logLength < logSize

\* writeToLog, one word at the end of the log.
Logged(w) == Append(IF logSize = 0 THEN log ELSE SubSeq(log, 1, logLength), w)

DramOnlyPc == "dram"   \* mutant: no write to the file

FilePc == IF InFile THEN "file" ELSE "dram"

\* Sdr_write is refused outside a transaction.  _sdrput starts by logging the
\* control word; a full log cancels the transaction.
PutStart(t, c, v) ==
    /\ pc[t] = "run" /\ owner = t
    /\ Len(log) + 2 <= MaxLog
    /\ put' = <<c, v>>
    /\ \/ /\ Reversible /\ LogFits
          /\ log' = Logged(c) /\ logLength' = logLength + 1
          /\ Goto(t, "old")
          /\ UNCHANGED <<xnVars, rev>>
       \/ /\ Reversible /\ ~LogFits
          /\ CrashXn(t)
          /\ UNCHANGED <<log, logLength>>
       \/ /\ ~Reversible
          /\ Goto(t, FilePc)
          /\ UNCHANGED <<xnVars, log, logLength, rev>>
    /\ UNCHANGED <<lockVars, logEntries, heapVars, level, envVars>>

LogOffsetAfter == logLength + 1   \* mutant: taken after writing
LogOffsetBefore == logLength - 2  \* mutant: off by one

\* logOffset in _sdrput: where the entry begins, its control word written.
LogOffset == logLength - 1

\* The old data follow, and the entry joins the list by its offset.
PutOld(t) ==
    /\ pc[t] = "old"
    /\ \/ /\ LogFits
          /\ log' = Logged(ds[put[1]]) /\ logLength' = logLength + 1
          /\ logEntries' = Append(logEntries, LogOffset)
          /\ Goto(t, FilePc)
          /\ UNCHANGED <<xnVars, rev>>
       \/ /\ ~LogFits
          /\ CrashXn(t)
          /\ UNCHANGED logVars
    /\ UNCHANGED <<lockVars, heapVars, level, put, envVars>>

PutFile(t) ==
    /\ pc[t] = "file"
    /\ file' = [file EXCEPT ![put[1]] = put[2]]
    /\ Goto(t, "dram")
    /\ UNCHANGED <<lockVars, xnVars, logVars, ds, level, put, rev, envVars>>

\* write() wrote fewer bytes than asked, this cell among them.
PutFileShort(t) ==
    /\ "short" \in Faults /\ faults < MaxFaults
    /\ pc[t] = "file"
    /\ file' = [file EXCEPT ![put[1]] = put[2]]
    /\ faults' = faults + 1
    /\ CrashXn(t)
    /\ UNCHANGED <<lockVars, logVars, ds, level, put, boot, profile>>

PutDram(t) ==
    /\ pc[t] = "dram"
    /\ ds' = [ds EXCEPT ![put[1]] = put[2]]
    /\ Goto(t, "mod")
    /\ UNCHANGED <<lockVars, xnVars, logVars, file, level, put, rev, envVars>>

PutModified(t) ==
    /\ pc[t] = "mod"
    /\ modified' = TRUE
    /\ Goto(t, "run")
    /\ UNCHANGED <<lockVars, depth, canceled, logVars, heapVars, level, put, rev, envVars>>

\* The user leaves a level it began; its view of the nesting, not the SDR's.
Leave(t) == level' = [level EXCEPT ![t] = @ - 1]

Ending(t, call) == call \in Ends /\ pc[t] = "run" /\ level[t] > 0 /\ Leave(t)

\* sdr_end_xn, sdr_cancel_xn and sdr_exit_xn by a task that no longer owns the
\* transaction (it crashed) do nothing.
EndNotOwner(t) ==
    /\ \E call \in {"end", "cancel", "exit"} : Ending(t, call)
    /\ owner # t
    /\ Goto(t, IF level[t] = 1 THEN "idle" ELSE "run")
    /\ UNCHANGED <<lockVars, xnVars, logVars, heapVars, put, rev, envVars>>

\* An inner level ends: only a cancellation leaves a trace.
EndInner(t) ==
    /\ owner = t /\ depth > 1
    /\ \E call \in {"end", "cancel", "exit"} :
           /\ Ending(t, call)
           /\ canceled' = (canceled \/ call = "cancel")
    /\ depth' = depth - 1
    /\ UNCHANGED <<lockVars, modified, logVars, heapVars, pc, put, rev, envVars>>

\* sdr_end_xn at the outermost level; its result is 0 in every case.
EndOuter(t) ==
    /\ Ending(t, "end")
    /\ owner = t /\ depth = 1
    /\ Terminate(t, canceled)
    /\ UNCHANGED <<lockVars, logVars, heapVars, put, envVars>>

CancelOuter(t) ==
    /\ Ending(t, "cancel")
    /\ owner = t /\ depth = 1
    /\ Terminate(t, TRUE)
    /\ UNCHANGED <<lockVars, logVars, heapVars, put, envVars>>

\* sdr_exit_xn at the outermost level: an error if the heap was modified; it
\* does not look at xnCanceled.
ExitOuter(t) ==
    /\ Ending(t, "exit")
    /\ owner = t /\ depth = 1
    /\ depth' = 0
    /\ Goto(t, IF modified THEN "dead" ELSE ClosePc)
    /\ UNCHANGED <<lockVars, modified, canceled, logVars, heapVars, put, rev, envVars>>

\* crashXn from within a level: a boundary violation or a failed assertion.
Crash(t) ==
    /\ "crash" \in Ends
    /\ pc[t] = "run" /\ owner = t
    /\ CrashXn(t)
    /\ UNCHANGED <<lockVars, logVars, heapVars, level, put, envVars>>

-----------------------------------------------------------------------------
(* Faults, and what recovers from them.                                     *)

\* A task dies where it stands, the mutex still taken.
Kill(t) ==
    /\ "kill" \in Faults /\ faults < MaxFaults
    /\ boot = "up" /\ pc[t] \notin {"idle", "dead"}
    /\ owner = t \/ pc[t] = "give"
    /\ Goto(t, "dead")
    /\ faults' = faults + 1
    /\ UNCHANGED <<lockVars, xnVars, logVars, heapVars, level, put, rev, boot, profile>>

\* ionunlock, a process of its own, is run when the owner is dead: it assumes
\* the transaction at depth 1 and cancels it.
IonUnlock(u) ==
    /\ boot = "up" /\ pc[u] = "idle"
    /\ owner \in Task /\ pc[owner] = "dead" 
    /\ owner' = u
    /\ Terminate(u, TRUE)
    /\ UNCHANGED <<sem, logVars, heapVars, level, put, envVars>>

\* The program of a dead task is started again.
Respawn(t) ==
    /\ boot = "up" /\ pc[t] = "dead" /\ owner # t
    /\ Goto(t, "idle")
    /\ level' = [level EXCEPT ![t] = 0]
    /\ UNCHANGED <<lockVars, xnVars, logVars, heapVars, put, rev, envVars>>

\* All shared memory is lost: the SdrState, the heap in memory and a log in
\* memory.  Files stay.  Failures during a recovery are not bounded.
PowerFail ==
    /\ "power" \in Faults /\ (boot = "up" => faults < MaxFaults)
    /\ boot' = "off" /\ faults' = IF boot = "up" THEN faults + 1 ELSE faults
    /\ sem' = "free" /\ owner' = NoTask
    /\ depth' = 0 /\ modified' = FALSE /\ canceled' = FALSE
    /\ logLength' = 0 /\ logEntries' = <<>>
    /\ log' = IF logSize = 0 THEN log ELSE <<>>
    /\ ds' = Fresh
    /\ pc' = [t \in Task |-> "idle"] /\ level' = [t \in Task |-> 0]
    /\ rev' = 0
    /\ UNCHANGED <<file, put, profile>>

\* reloadLogEntries: the offsets of the whole entries of the log file, up to
\* the first that is cut short or whose control word makes no sense.
WholeEntries ==
    LET good == {n \in 1..(Len(log) \div 2) : \A i \in 1..n : log[2 * i - 1] \in Cell}
    IN  [i \in 1..Cardinality(good) |-> 2 * (i - 1)]

\* sdr_load_profile, up to the reversal; a heap only in memory starts afresh.
Load ==
    /\ boot = "off"
    /\ logEntries' = IF Reversible /\ logSize = 0 THEN WholeEntries ELSE <<>>
    /\ logLength' = 2 * Len(logEntries')
    /\ rev' = Len(logEntries')
    /\ boot' = IF InFile THEN "rev" ELSE "up"
    /\ UNCHANGED <<lockVars, xnVars, log, heapVars, taskVars, faults, profile>>

\* reverseTransaction over the heap file.
LoadReverse ==
    /\ boot = "rev" /\ rev > 0
    /\ file' = Restore(file, NextReversed)
    /\ logLength' = logLength - 2
    /\ rev' = rev - 1
    /\ UNCHANGED <<lockVars, xnVars, logEntries, log, ds, taskVars, envVars>>

\* restageDsFromFile.  Neither the log file nor the list is emptied.
LoadRestage ==
    /\ boot = "rev" /\ rev = 0
    /\ ds' = file
    /\ boot' = "up"
    /\ UNCHANGED <<lockVars, xnVars, logVars, file, taskVars, rev, faults, profile>>

UserStep(t) ==
    \/ Begin(t)
    \/ \E c \in Cell, v \in Val : PutStart(t, c, v)
    \/ EndNotOwner(t) \/ EndInner(t)
    \/ EndOuter(t) \/ CancelOuter(t) \/ ExitOuter(t) \/ Crash(t)

LibraryStep(t) ==
    \/ PutOld(t) \/ PutFile(t) \/ PutFileShort(t) \/ PutDram(t) \/ PutModified(t)
    \/ ReverseEntry(t) \/ Truncate(t) \/ Clear(t) \/ Give(t)

Next ==
    \/ \E t \in Task : UserStep(t) \/ LibraryStep(t)
    \/ \E t \in Task : Kill(t) \/ IonUnlock(t) \/ Respawn(t)
    \/ PowerFail \/ Load \/ LoadReverse \/ LoadRestage

Spec == Init /\ [][Next]_vars
-----------------------------------------------------------------------------
(* The heap a cancellation would restore: the oldest logged datum of each   *)
(* cell that has one.                                                       *)

Offsets == IF logSize = 0 THEN {2 * i : i \in 0..(Len(log) \div 2) - 1}
                          ELSE {logEntries[i] : i \in DOMAIN logEntries}

Heap == IF boot = "up" THEN ds ELSE file

OffsetsOf(c) == {o \in Offsets : o + 2 <= Len(log) /\ log[o + 1] = c}

Oldest(S) == CHOOSE o \in S : \A p \in S : o <= p

Undone == [c \in Cell |-> IF OffsetsOf(c) = {} THEN Heap[c]
                                               ELSE log[Oldest(OffsetsOf(c)) + 2]]

\* The transaction of the store: open until it is committed (the log is gone)
\* or given up (it is being reversed, or its owner is dead).
Open ==
    /\ Reversible
    /\ owner # NoTask
    /\ pc[owner] \notin {"rev", "dead"}
    /\ ~(logSize = 0 /\ pc[owner] = "clear")

\* Without a log nothing is promised.
Kept == IF Reversible THEN Undone ELSE Fresh

Store == INSTANCE SdrStore WITH
             store <- Kept,
             work  <- IF Open THEN ds ELSE Kept,
             open  <- Open,
             doomed <- Open /\ canceled

-----------------------------------------------------------------------------
(* Properties.                                                              *)

(* Refinement: whatever tasks, nesting, cancellations and power failures   *)
(* do, the updates of a transaction survive all together or not at all     *)
(* (sdr.pod:129-132).                                                       *)
AllOrNothing == Store!Spec

(* When no transaction is in progress the heap in memory, which every      *)
(* reader uses, and the heap file, from which sdr_load_profile would       *)
(* restage it, are the same heap.                                          *)
ImagesAgree == InFile /\ boot = "up" /\ owner = NoTask => ds = file

(* Once reverseTransaction has processed every entry, both images are what *)
(* they were before the transaction: each cell has its oldest logged datum *)
(* although later entries for the cell were written back too.              *)
ReversalRestores ==
    \A t \in Task : pc[t] = "rev" /\ rev = 0 =>
        /\ ds = Undone
        /\ InFile => \A c \in Cell : OffsetsOf(c) # {} => file[c] = Undone[c]

(* reverseTransaction never meets an entry it cannot read, which would     *)
(* abort the task with the heap half reversed.                             *)
ReversalNeverStuck ==
    \A t \in Task : pc[t] = "rev" /\ rev > 0 => Readable(NextReversed)

(* A cancellation requested by sdr_cancel_xn is over when the mutex is     *)
(* free: it never spills into the transaction of another task.             *)
NoStaleCancel == sem = "free" => ~canceled

(* Only the owner of the transaction is between sdr_begin_xn and the       *)
(* unlocking, and it holds the semaphore.                                  *)
OnlyOwnerInside ==
    \A t \in Task : pc[t] \in {"old", "file", "dram", "mod", "rev", "trunc", "clear"} =>
        owner = t /\ sem = "taken"

(* The write-ahead discipline: at no moment does a power failure, nor the   *)
(* reload of the profile after it, change the heap a reversal of the log   *)
(* gives, and the reload ends with that heap (sdr.pod:129-132).            *)
PowerKeepsStore ==
    [][boot # "up" \/ boot' # "up" =>
           Undone' = Undone /\ (boot' = "up" => ds' = Undone)]_vars

(* After a recovery the heap holds data of its users, never words of the   *)
(* log taken for data (sdr.pod:130 "will never wreck the SDR's data         *)
(* integrity").                                                            *)
NeverWrecked == boot = "up" => \A c \in Cell : ds[c] \in Val

-----------------------------------------------------------------------------
(* Fairness: every task is scheduled, and a user neither writes for ever    *)
(* in a level nor nests for ever: it ends the levels it began.             *)
FairSpec ==
    /\ Spec
    /\ \A t \in Task :
        /\ WF_vars(LibraryStep(t))
        /\ SF_vars(EndInner(t))
        /\ SF_vars(EndOuter(t) \/ CancelOuter(t))

(* Every transaction of a reversible SDR, whatever became of it, ends and  *)
(* leaves the mutex free for the others.                                   *)
MutexReleased == (sem = "taken" /\ Reversible) ~> (sem = "free")
=============================================================================
