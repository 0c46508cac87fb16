------------------------------ MODULE SdrLock ------------------------------
(***************************************************************************)
(* The mutex of the SDR, read by read: takeSdr and unlockSdr of            *)
(* ici/sdr/sdrxn.c over the binary SVR4 semaphores of platform_sm.c, with  *)
(* the two utilities that interfere with it: ionrestart, launched by a     *)
(* canceled transaction, and the sm_SemUnwedge of sdr_load_profile.        *)
(*                                                                         *)
(* The owner is two words, sdrOwnerTask and sdrOwnerThread, written by     *)
(* lockSdr and compared by takeSdr in separate steps and without the       *)
(* semaphore.  SdrXn takes the mutex in one step; this module says when    *)
(* that is right.                                                          *)
(***************************************************************************)
EXTENDS Integers, FiniteSets

CONSTANTS
    Thread,       \* <<task, pthread id>> of the threads that use the SDR
    Restarter,    \* <<task, pthread id>> of ionrestart
    NoTask,       \* sdrOwnerTask = -1
    Interference, \* subset of {"restart", "unwedge"}
    MaxDepth      \* bound on nesting

ASSUME SdrLockAssumption ==
    /\ Restarter \notin Thread
    /\ \A t \in Thread \cup {Restarter} : t = <<t[1], t[2]>> /\ t[1] # NoTask
    /\ \A t \in Thread : t[1] # Restarter[1]
    /\ MaxDepth \in Nat

VARIABLES
    semVal,       \* value of the SVR4 semaphore: 0 when it can be taken
    ended,        \* sm_SemEnd has been called
    sdrSemaphore, \* "id", or "none" while it is set to -1
    ownerTask, ownerThread,
    depth,        \* xnDepth
    canceled,     \* xnCanceled
    pc,           \* where each thread is in takeSdr, sdr_end_xn and unlockSdr
    level,        \* levels of transaction each thread has begun and not ended
    rst,          \* where ionrestart is, "none" when it does not run
    unwedge,      \* where sm_SemUnwedge is
    forced        \* the semaphore was given by one who had not taken it

semVars   == <<semVal, ended, sdrSemaphore>>
ownerVars == <<ownerTask, ownerThread>>
xnVars    == <<depth, canceled>>
taskVars  == <<pc, level>>
envVars   == <<rst, unwedge, forced>>
vars == <<semVars, ownerVars, xnVars, taskVars, envVars>>

Entering == {"sem", "ended", "giveEnded", "task", "thread", "arg", "wait"}
Holding  == {"setThread", "setTask", "setDepth", "clear", "give", "halted"}

TypeOK ==
    /\ semVal \in {0, 1} /\ ended \in BOOLEAN /\ sdrSemaphore \in {"id", "none"}
    /\ ownerTask \in {t[1] : t \in Thread \cup {Restarter}} \cup {NoTask}
    /\ ownerThread \in {t[2] : t \in Thread \cup {Restarter}}
    /\ depth \in Int /\ canceled \in BOOLEAN
    /\ pc \in [Thread -> {"idle", "run"} \cup Entering \cup Holding]
    /\ level \in [Thread -> Nat]
    /\ rst \in {"none", "task", "thread", "disable", "enable", "end", "unend", "exit", "give"}
    /\ unwedge \in {"none", "wait", "give"}
    /\ forced \in BOOLEAN

Init ==
    /\ semVal = 0 /\ ended = FALSE /\ sdrSemaphore = "id"
    /\ ownerTask = NoTask /\ ownerThread \in {t[2] : t \in Thread}
    /\ depth = 0 /\ canceled = FALSE
    /\ pc = [t \in Thread |-> "idle"] /\ level = [t \in Thread |-> 0]
    /\ rst = "none" /\ unwedge = "none" /\ forced = FALSE

Goto(t, where) == pc' = [pc EXCEPT ![t] = where]

ReturnLate(t, levels) == Goto(t, IF levels >= 0 THEN "run" ELSE "idle")   \* mutant

\* A thread goes back to its own code, in a transaction or not.
Return(t, levels) == Goto(t, IF levels > 0 THEN "run" ELSE "idle")

InXn(t) == ownerTask = t[1] /\ ownerThread = t[2]

-----------------------------------------------------------------------------
(* sdr_begin_xn: takeSdr and lockSdr.                                       *)

BeginXn(t) ==
    /\ pc[t] \in {"idle", "run"}
    /\ level[t] < MaxDepth
    /\ Goto(t, "sem")
    /\ UNCHANGED <<semVars, ownerVars, xnVars, level, envVars>>

\* sdrSemaphore == -1: the transaction does not begin.
CheckSem(t) ==
    /\ pc[t] = "sem"
    /\ IF sdrSemaphore = "none" THEN Return(t, level[t]) ELSE Goto(t, "ended")
    /\ UNCHANGED <<semVars, ownerVars, xnVars, level, envVars>>

CheckEnded(t) ==
    /\ pc[t] = "ended"
    /\ Goto(t, IF ended THEN "giveEnded" ELSE "task")
    /\ UNCHANGED <<semVars, ownerVars, xnVars, level, envVars>>

\* sm_SemEnded gives an ended semaphore again, for the next to test it.
GiveEnded(t) ==
    /\ pc[t] = "giveEnded"
    /\ semVal' = 0 /\ forced' = TRUE
    /\ Return(t, level[t])
    /\ UNCHANGED <<ended, sdrSemaphore, ownerVars, xnVars, level, rst, unwedge>>

ReadTask(t) ==
    /\ pc[t] = "task"
    /\ Goto(t, IF ownerTask = t[1] THEN "thread" ELSE "arg")
    /\ UNCHANGED <<semVars, ownerVars, xnVars, level, envVars>>

\* mutant: the level is begun but not counted
ReadThreadNoDepth(t) ==
    /\ pc[t] = "thread"
    /\ IF ownerThread = t[2]
       THEN level' = [level EXCEPT ![t] = @ + 1] /\ Goto(t, "run")
       ELSE Goto(t, "arg") /\ UNCHANGED level
    /\ UNCHANGED <<semVars, ownerVars, xnVars, envVars>>

\* Both words are this thread's: it is in a transaction already.
ReadThread(t) ==
    /\ pc[t] = "thread"
    /\ IF ownerThread = t[2]
       THEN /\ depth' = depth + 1
            /\ level' = [level EXCEPT ![t] = @ + 1]
            /\ Goto(t, "run")
       ELSE Goto(t, "arg") /\ UNCHANGED <<depth, level>>
    /\ UNCHANGED <<semVars, ownerVars, canceled, envVars>>

\* lockSdr reads sdrSemaphore again; sm_SemTake rejects -1.
ReadArg(t) ==
    /\ pc[t] = "arg"
    /\ IF sdrSemaphore = "none" THEN Return(t, level[t]) ELSE Goto(t, "wait")
    /\ UNCHANGED <<semVars, ownerVars, xnVars, level, envVars>>

Free == semVal = 0

Take(t) ==
    /\ pc[t] = "wait"
    /\ Free
    /\ semVal' = 1
    /\ Goto(t, "setThread")
    /\ UNCHANGED <<ended, sdrSemaphore, ownerVars, xnVars, level, envVars>>

\* mutant: the task before the thread
WriteTaskFirst(t, first) ==
    IF first THEN ownerTask' = t[1] /\ UNCHANGED ownerThread
             ELSE ownerThread' = t[2] /\ UNCHANGED ownerTask

\* The thread, then the task.
WriteOwner(t, first) ==
    IF first THEN ownerThread' = t[2] /\ UNCHANGED ownerTask
             ELSE ownerTask' = t[1] /\ UNCHANGED ownerThread

SetThread(t) ==
    /\ pc[t] = "setThread"
    /\ WriteOwner(t, TRUE)
    /\ Goto(t, "setTask")
    /\ UNCHANGED <<semVars, xnVars, level, envVars>>

SetTask(t) ==
    /\ pc[t] = "setTask"
    /\ WriteOwner(t, FALSE)
    /\ Goto(t, "setDepth")
    /\ UNCHANGED <<semVars, xnVars, level, envVars>>

SetDepth(t) ==
    /\ pc[t] = "setDepth"
    /\ depth' = 1
    /\ level' = [level EXCEPT ![t] = @ + 1]
    /\ Goto(t, "run")
    /\ UNCHANGED <<semVars, ownerVars, canceled, envVars>>
-----------------------------------------------------------------------------
(* Ending a level, terminateXn and unlockSdr.                               *)

\* The level of a thread that no longer owns the mutex ends without effect.
EndStranger(t) ==
    /\ pc[t] = "run" /\ ~InXn(t)
    /\ level' = [level EXCEPT ![t] = @ - 1]
    /\ Return(t, level[t] - 1)
    /\ UNCHANGED <<semVars, ownerVars, xnVars, envVars>>

EndInner(t, cancel) ==
    /\ pc[t] = "run" /\ InXn(t)
    /\ depth # 1
    /\ depth' = depth - 1
    /\ canceled' = (canceled \/ cancel)
    /\ level' = [level EXCEPT ![t] = @ - 1]
    /\ Return(t, level[t] - 1)
    /\ UNCHANGED <<semVars, ownerVars, envVars>>

\* A canceled transaction launches ionrestart and leaves the mutex to it, unless
\* there is no restart command or it cannot be executed.
EndOuter(t, cancel) ==
    /\ pc[t] = "run" /\ InXn(t)
    /\ depth = 1
    /\ depth' = 0 /\ canceled' = FALSE
    /\ level' = [level EXCEPT ![t] = @ - 1]
    /\ \/ Goto(t, "clear") /\ UNCHANGED rst
       \/ /\ canceled \/ cancel
          /\ "restart" \in Interference
          /\ rst = "none"    \* bound: one restart at a time
          /\ Goto(t, "halted") /\ rst' = "task"
    /\ UNCHANGED <<semVars, ownerVars, unwedge, forced>>

\* It sleeps two seconds and goes on, whether ionrestart has come or not.
Halted(t) ==
    /\ pc[t] = "halted"
    /\ Return(t, level[t])
    /\ UNCHANGED <<semVars, ownerVars, xnVars, level, envVars>>

ClearOwner(t) ==
    /\ pc[t] = "clear"
    /\ ownerTask' = NoTask
    /\ Goto(t, "give")
    /\ UNCHANGED <<semVars, ownerThread, xnVars, level, envVars>>

NotGiven == semVal   \* mutant: the give is forgotten

SemGiven == IF sdrSemaphore = "none" THEN semVal ELSE 0

Give(t) ==
    /\ pc[t] = "give"
    /\ semVal' = SemGiven
    /\ Return(t, level[t])
    /\ UNCHANGED <<ended, sdrSemaphore, ownerVars, xnVars, level, envVars>>

-----------------------------------------------------------------------------
(* ionrestart (restart/utils/ionrestart.c): it becomes the owner of the     *)
(* canceled transaction, sets the semaphore to -1 for a while, ends it so   *)
(* that all tasks stop, un-ends it, rebuilds the volatile state and exits.  *)

Rst(from, to) == rst = from /\ rst' = to

HijackTask ==
    /\ Rst("task", "thread")
    /\ ownerTask' = Restarter[1]
    /\ UNCHANGED <<semVars, ownerThread, xnVars, taskVars, unwedge, forced>>

HijackThread ==
    /\ Rst("thread", "disable")
    /\ ownerThread' = Restarter[2]
    /\ UNCHANGED <<semVars, ownerTask, xnVars, taskVars, unwedge, forced>>

Disable ==
    /\ Rst("disable", "enable")
    /\ sdrSemaphore' = "none"
    /\ UNCHANGED <<semVal, ended, ownerVars, xnVars, taskVars, unwedge, forced>>

\* After RESTART_GRACE_PERIOD.
Enable ==
    /\ Rst("enable", "end")
    /\ sdrSemaphore' = "id"
    /\ UNCHANGED <<semVal, ended, ownerVars, xnVars, taskVars, unwedge, forced>>

EndSem ==
    /\ Rst("end", "unend")
    /\ ended' = TRUE /\ semVal' = 0 /\ forced' = TRUE
    /\ UNCHANGED <<sdrSemaphore, ownerVars, xnVars, taskVars, unwedge>>

UnendSem ==
    /\ Rst("unend", "exit")
    /\ ended' = FALSE /\ semVal' = 0
    /\ UNCHANGED <<sdrSemaphore, ownerVars, xnVars, taskVars, unwedge, forced>>

\* xnDepth = 1, then sdr_exit_xn if it is still the owner.
RestartExit ==
    /\ rst = "exit"
    /\ IF InXn(Restarter)
       THEN depth' = 0 /\ ownerTask' = NoTask /\ rst' = "give"
       ELSE depth' = 1 /\ UNCHANGED ownerTask /\ rst' = "none"
    /\ UNCHANGED <<semVars, ownerThread, canceled, taskVars, unwedge, forced>>

RestartGive ==
    /\ Rst("give", "none")
    /\ semVal' = SemGiven
    /\ UNCHANGED <<ended, sdrSemaphore, ownerVars, xnVars, taskVars, unwedge, forced>>

(* sm_SemUnwedge, when an SDR that is loaded is loaded again: the semaphore *)
(* is taken, or three seconds pass, and then it is given.                   *)

UnwedgeStart ==
    /\ "unwedge" \in Interference
    /\ unwedge = "none" /\ unwedge' = "wait"
    /\ UNCHANGED <<semVars, ownerVars, xnVars, taskVars, rst, forced>>

UnwedgeTake ==
    /\ unwedge = "wait" /\ unwedge' = "give"
    /\ Free /\ semVal' = 1
    /\ UNCHANGED <<ended, sdrSemaphore, ownerVars, xnVars, taskVars, rst, forced>>

UnwedgeTimeout ==
    /\ unwedge = "wait" /\ unwedge' = "give"
    /\ forced' = TRUE
    /\ UNCHANGED <<semVars, ownerVars, xnVars, taskVars, rst>>

UnwedgeGive ==
    /\ unwedge = "give" /\ unwedge' = "none"
    /\ semVal' = 0
    /\ UNCHANGED <<ended, sdrSemaphore, ownerVars, xnVars, taskVars, rst, forced>>

-----------------------------------------------------------------------------
Locking(t) ==
    \/ CheckSem(t) \/ CheckEnded(t) \/ GiveEnded(t) \/ ReadTask(t) \/ ReadThread(t)
    \/ ReadArg(t) \/ Take(t) \/ SetThread(t) \/ SetTask(t) \/ SetDepth(t)
    \/ Halted(t) \/ ClearOwner(t) \/ Give(t)

EndXn(t) ==
    \/ EndStranger(t)
    \/ \E cancel \in BOOLEAN : EndInner(t, cancel) \/ EndOuter(t, cancel)

Restart ==
    \/ HijackTask \/ HijackThread \/ Disable \/ Enable
    \/ EndSem \/ UnendSem \/ RestartExit \/ RestartGive

Unwedge == UnwedgeStart \/ UnwedgeTake \/ UnwedgeTimeout \/ UnwedgeGive

Next ==
    \/ \E t \in Thread : BeginXn(t) \/ Locking(t) \/ EndXn(t)
    \/ Restart
    \/ Unwedge

Spec == Init /\ [][Next]_vars

\* Users end what they begin and do not nest for ever; library code, ionrestart
\* and the alarm of sm_SemUnwedge run on.
FairSpec ==
    /\ Spec
    /\ \A t \in Thread :
         /\ WF_vars(Locking(t))
         /\ SF_vars(\E cancel \in BOOLEAN : EndOuter(t, cancel))
         /\ WF_vars(EndXn(t))
    /\ WF_vars(Restart) /\ WF_vars(UnwedgeGive) /\ WF_vars(UnwedgeTimeout)

-----------------------------------------------------------------------------
(* Properties.                                                              *)

Inside(t) == level[t] > 0

\* Transactions are single-threaded: two threads are never in one at once.
Exclusive == \A t, u \in Thread : Inside(t) /\ Inside(u) => t = u

\* takeSdr excludes threads although it compares the two words of the owner
\* outside the semaphore, as long as nobody gives a semaphore it did not take.
ExclusiveUntilForced == ~forced => Exclusive

\* The owner's levels are exactly xnDepth: nesting never loses or adds one, so
\* the outermost end is the one that unlocks (takeSdr, sdr_end_xn).  Until
\* ionrestart writes the owner: a thread that went on meanwhile loses its levels.
DepthIsLevel ==
    ~forced /\ rst \in {"none", "task"}
        => \A t \in Thread : Inside(t) => depth = level[t] /\ InXn(t)

\* ionrestart owns the transaction it took over until it exits, and no thread,
\* the one that canceled included, is in a transaction meanwhile
\* (ionrestart.c: new transactions "must be prevented").  The code does not keep
\* it: the two seconds of Halted may pass before ionrestart writes the owner.
HijackHolds ==
    rst \in {"disable", "enable", "end"} /\ ~forced
        => InXn(Restarter) /\ \A t \in Thread : ~Inside(t)

\* A taken mutex is given back, by the transaction, by the ionrestart that took
\* it over or by the unwedge, or somebody forces it.  Nothing holds afterwards:
\* two threads share the words of the owner and the last give can be lost.
MutexReleased == (semVal = 1) ~> (semVal = 0 \/ forced)
=============================================================================
