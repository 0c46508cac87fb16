--------------------------- MODULE SdrLockProofs ---------------------------
(***************************************************************************)
(* takeSdr excludes threads, for any number of them and any nesting, when  *)
(* no two threads have the same pthread id and nobody has given the        *)
(* semaphore without having taken it.  ionrestart may write the two words  *)
(* of the owner at any moment, before or after the thread that launched it *)
(* has gone on.                                                            *)
(*                                                                         *)
(* The argument: a thread that the two words name, or that has read its    *)
(* task in the first and would read itself in the second (Named), is the   *)
(* one that took the semaphore.  lockSdr writes the thread before the      *)
(* task, so a sibling's task there comes with the sibling's thread or with *)
(* ionrestart's (WritesOwn).                                               *)
(***************************************************************************)
EXTENDS SdrLock, TLAPS

UniqueIds == \A t, u \in Thread \cup {Restarter} : t[2] = u[2] => t = u

\* takeSdr finds, or will find, this thread in the words of the owner.
Named(t) == ownerThread = t[2] /\ (ownerTask = t[1] \/ pc[t] = "thread")

\* Where takeSdr and unlockSdr write the words of the owner or the depth.
Writing == {"setThread", "setTask", "setDepth", "clear", "give"}

\* Those who may give the semaphore: a thread or sm_SemUnwedge.
Holder(t) ==
    \/ pc[t] \in Writing
    \/ level[t] > 0
    \/ Named(t)

UnwedgeHolds == unwedge = "give"

OneHolder ==
    /\ \A t, u \in Thread : Holder(t) /\ Holder(u) => t = u
    /\ \A t \in Thread : Holder(t) => ~UnwedgeHolds /\ semVal = 1
    /\ UnwedgeHolds => semVal = 1

\* Before ionrestart forces the semaphore.
RestartInv == rst \notin {"unend", "exit", "give"}

Types ==
    /\ pc \in [Thread -> {"idle", "run"} \cup Entering \cup Holding]
    /\ level \in [Thread -> Nat]
    /\ depth \in Int
    /\ \A t \in Thread : pc[t] = "run" => level[t] > 0

Outside ==
    \A t \in Thread : pc[t] \in {"idle"} \cup Holding => level[t] = 0

\* Only ionrestart writes between the two writes of lockSdr, and only it
\* between those of unlockSdr.
WritesOwn ==
    \A t \in Thread :
        /\ pc[t] = "setTask" => ownerThread \in {t[2], Restarter[2]}
        /\ pc[t] = "give" => ownerTask \in {NoTask, Restarter[1]}

\* What the owner finds in the words, and until ionrestart writes, a thread that
\* holds the mutex is the owner.
Written(t) ==
    /\ pc[t] \notin Writing /\ InXn(t) => depth = level[t]
    /\ rst \in {"none", "task"} =>
         /\ level[t] > 0 \/ Named(t) => InXn(t)
         /\ pc[t] = "setTask" => ownerThread = t[2]
         /\ pc[t] = "setDepth" => InXn(t)

LockInv == ~forced => OneHolder /\ RestartInv /\ Outside /\ WritesOwn /\ (\A t \in Thread : Written(t))

IInv == Types /\ LockInv

(* Initially nobody holds the mutex. *)
LEMMA LockInit == Init => IInv
BY SdrLockAssumption DEF Init, IInv, Types, LockInv, OneHolder, RestartInv, Outside,
   WritesOwn, Written, Writing, Named, InXn, Holder, UnwedgeHolds, Holding, Entering

(* Every step keeps the types, and a level that runs exists. *)
LEMMA TypeStep == Types /\ [Next]_vars => Types'
<1> SUFFICES ASSUME Types, [Next]_vars PROVE Types'
  OBVIOUS
<1> USE SdrLockAssumption DEF Types, Entering, Holding, Goto, Return, semVars, ownerVars,
        xnVars, taskVars, envVars
<1>1. ASSUME NEW t \in Thread, BeginXn(t) \/ CheckSem(t) \/ CheckEnded(t) \/ GiveEnded(t) PROVE Types'
  BY <1>1 DEF BeginXn, CheckSem, CheckEnded, GiveEnded
<1>2. ASSUME NEW t \in Thread, ReadTask(t) \/ ReadArg(t) \/ Take(t) PROVE Types'
  BY <1>2 DEF ReadTask, ReadArg, Take
<1>3. ASSUME NEW t \in Thread, ReadThread(t) PROVE Types'
  BY <1>3 DEF ReadThread
<1>4. ASSUME NEW t \in Thread, SetThread(t) \/ SetTask(t) \/ SetDepth(t) PROVE Types'
  BY <1>4 DEF SetThread, SetTask, SetDepth, WriteOwner
<1>5. ASSUME NEW t \in Thread, Halted(t) \/ ClearOwner(t) \/ Give(t) PROVE Types'
  BY <1>5 DEF Halted, ClearOwner, Give
<1>6. ASSUME NEW t \in Thread, EndStranger(t) PROVE Types'
  BY <1>6 DEF EndStranger
<1>7. ASSUME NEW t \in Thread, NEW cancel \in BOOLEAN, EndInner(t, cancel) PROVE Types'
  BY <1>7 DEF EndInner
<1>8. ASSUME NEW t \in Thread, NEW cancel \in BOOLEAN, EndOuter(t, cancel) PROVE Types'
  BY <1>8 DEF EndOuter
<1>9. ASSUME Restart PROVE Types'
  BY <1>9 DEF Restart, HijackTask, HijackThread, Disable, Enable, EndSem, UnendSem,
     RestartExit, RestartGive
<1>10. ASSUME Unwedge PROVE Types'
  BY <1>10 DEF Unwedge, UnwedgeStart, UnwedgeTake, UnwedgeTimeout, UnwedgeGive
<1>11. CASE UNCHANGED vars
  BY <1>11 DEF vars
<1> QED BY <1>1, <1>2, <1>3, <1>4, <1>5, <1>6, <1>7, <1>8, <1>9, <1>10, <1>11 DEF Next, Locking, EndXn

(* While nobody forces the semaphore every step keeps the argument. *)
LEMMA LockStep ==
    ASSUME UniqueIds
    PROVE  IInv /\ [Next]_vars => LockInv'
<1> DEFINE Quiet == OneHolder /\ RestartInv /\ Outside /\ WritesOwn /\ \A t \in Thread : Written(t)
<1> SUFFICES ASSUME Types, LockInv, [Next]_vars, ~forced' PROVE Quiet'
  BY DEF IInv, LockInv
<1> USE SdrLockAssumption, UniqueIds
    DEF UniqueIds, Types, LockInv, OneHolder, RestartInv, Outside, WritesOwn, Written, Writing, Named,
        Holder, UnwedgeHolds, InXn, Entering, Holding, Goto, Return,
        semVars, ownerVars, xnVars, taskVars, envVars
<1>1. ASSUME NEW t \in Thread, BeginXn(t) PROVE Quiet'
  BY <1>1 DEF BeginXn
<1>2. ASSUME NEW t \in Thread, CheckSem(t) PROVE Quiet'
  BY <1>2 DEF CheckSem
<1>3. ASSUME NEW t \in Thread, CheckEnded(t) PROVE Quiet'
  BY <1>3 DEF CheckEnded
<1>4. ASSUME NEW t \in Thread, GiveEnded(t) PROVE Quiet'
  BY <1>4 DEF GiveEnded
<1>5. ASSUME NEW t \in Thread, ReadTask(t) PROVE Quiet'
  BY <1>5 DEF ReadTask
<1>6. ASSUME NEW t \in Thread, ReadThread(t) PROVE Quiet'
  <2>1. CASE ownerThread = t[2]
    <3>1. /\ pc[t] = "thread" /\ ~forced
          /\ pc' = [pc EXCEPT ![t] = "run"]
          /\ level' = [level EXCEPT ![t] = @ + 1] /\ depth' = depth + 1
          /\ UNCHANGED <<semVal, ownerTask, ownerThread, rst, unwedge, forced>>
      BY <1>6, <2>1 DEF ReadThread
    <3>2. Holder(t) /\ Named(t)
      BY <2>1, <3>1
    <3>3. \A u \in Thread : Holder(u)' => Holder(u)
      BY <3>1, <3>2
    <3>4. OneHolder'
      BY <3>1, <3>3
    <3>5. RestartInv' /\ Outside' /\ WritesOwn'
      BY <3>1
    <3>6. ASSUME NEW u \in Thread PROVE Written(u)'
      <4>1. CASE u = t
        BY <2>1, <3>1, <3>2, <4>1
      <4>2. CASE u # t
        <5>1. ~Holder(u)
          BY <3>1, <3>2, <4>2
        <5>2. pc'[u] = pc[u] /\ level'[u] = level[u]
          BY <3>1, <4>2
        <5> QED BY <3>1, <5>1, <5>2
      <4> QED BY <4>1, <4>2
    <3> QED BY <3>4, <3>5, <3>6
  <2>2. CASE ownerThread # t[2]
    BY <1>6, <2>2 DEF ReadThread
  <2> QED BY <2>1, <2>2
<1>7. ASSUME NEW t \in Thread, ReadArg(t) PROVE Quiet'
  BY <1>7 DEF ReadArg
<1>8. ASSUME NEW t \in Thread, Take(t) PROVE Quiet'
  BY <1>8 DEF Take, Free
<1>9. ASSUME NEW t \in Thread, SetThread(t) PROVE Quiet'
  BY <1>9 DEF SetThread, WriteOwner
<1>10. ASSUME NEW t \in Thread, SetTask(t) PROVE Quiet'
  BY <1>10 DEF SetTask, WriteOwner
<1>11. ASSUME NEW t \in Thread, SetDepth(t) PROVE Quiet'
  BY <1>11 DEF SetDepth
<1>12. ASSUME NEW t \in Thread, Halted(t) PROVE Quiet'
  BY <1>12 DEF Halted
<1>13. ASSUME NEW t \in Thread, ClearOwner(t) PROVE Quiet'
  BY <1>13 DEF ClearOwner
<1>14. ASSUME NEW t \in Thread, Give(t) PROVE Quiet'
  BY <1>14 DEF Give, SemGiven
<1>15. ASSUME NEW t \in Thread, EndStranger(t) PROVE Quiet'
  BY <1>15 DEF EndStranger
<1>16. ASSUME NEW t \in Thread, NEW cancel \in BOOLEAN, EndInner(t, cancel) PROVE Quiet'
  BY <1>16 DEF EndInner
<1>17. ASSUME NEW t \in Thread, NEW cancel \in BOOLEAN, EndOuter(t, cancel) PROVE Quiet'
  <2>1. /\ pc[t] = "run" /\ InXn(t) /\ depth = 1 /\ ~forced
        /\ depth' = 0 /\ level' = [level EXCEPT ![t] = @ - 1]
        /\ \/ pc' = [pc EXCEPT ![t] = "clear"] /\ rst' = rst
           \/ pc' = [pc EXCEPT ![t] = "halted"] /\ rst = "none" /\ rst' = "task"
        /\ UNCHANGED <<semVal, ownerTask, ownerThread, unwedge, forced>>
    BY <1>17 DEF EndOuter
  <2>2. Holder(t) /\ level[t] = 1 /\ level'[t] = 0
    BY <2>1
  <2>3. \A u \in Thread : Holder(u)' => Holder(u)
    BY <2>1, <2>2
  <2>4. OneHolder'
    BY <2>1, <2>3
  <2>5. RestartInv' /\ Outside' /\ WritesOwn'
    BY <2>1, <2>2
  <2>6. ASSUME NEW u \in Thread PROVE Written(u)'
    <3>1. CASE u = t
      BY <2>1, <2>2, <3>1
    <3>2. CASE u # t
      <4>1. ~Holder(u)
        BY <2>1, <2>2, <3>2
      <4>2. pc'[u] = pc[u] /\ level'[u] = level[u]
        BY <2>1, <3>2
      <4> QED BY <2>1, <4>1, <4>2
    <3> QED BY <3>1, <3>2
  <2> QED BY <2>4, <2>5, <2>6
<1>18. ASSUME HijackTask PROVE Quiet'
  BY <1>18 DEF HijackTask, Rst
<1>19. ASSUME HijackThread PROVE Quiet'
  BY <1>19 DEF HijackThread, Rst
<1>20. ASSUME Disable \/ Enable PROVE Quiet'
  BY <1>20 DEF Disable, Enable, Rst
<1>21. ASSUME EndSem \/ UnendSem \/ RestartExit \/ RestartGive PROVE Quiet'
  BY <1>21 DEF EndSem, UnendSem, RestartExit, RestartGive, Rst
<1>22. ASSUME UnwedgeStart PROVE Quiet'
  BY <1>22 DEF UnwedgeStart, Rst
<1>23. ASSUME UnwedgeTake PROVE Quiet'
  BY <1>23 DEF UnwedgeTake, Rst, Free
<1>24. ASSUME UnwedgeTimeout PROVE Quiet'
  BY <1>24 DEF UnwedgeTimeout, Rst
<1>25. ASSUME UnwedgeGive PROVE Quiet'
  BY <1>25 DEF UnwedgeGive, Rst
<1>26. CASE UNCHANGED vars
  BY <1>26 DEF vars
<1> QED BY <1>1, <1>2, <1>3, <1>4, <1>5, <1>6, <1>7, <1>8, <1>9, <1>10, <1>11, <1>12, <1>13, <1>14, <1>15, <1>16, <1>17, <1>18, <1>19, <1>20, <1>21, <1>22, <1>23, <1>24, <1>25, <1>26 DEF Next, Locking, EndXn, Restart, Unwedge

LEMMA InvAlways == UniqueIds => (Spec => []IInv)
<1>1. ASSUME UniqueIds PROVE IInv /\ [Next]_vars => IInv'
  <2>1. IInv /\ [Next]_vars => Types'
    BY TypeStep DEF IInv
  <2>2. IInv /\ [Next]_vars => LockInv'
    BY <1>1, LockStep
  <2> QED BY <2>1, <2>2 DEF IInv
<1>2. ASSUME UniqueIds PROVE Spec => []IInv
  BY LockInit, <1>1, <1>2, PTL DEF Spec
<1> QED BY <1>2

(* The words of the mutex hold values of their types.                      *)
THEOREM TypeCorrect == Spec => []TypeOK
<1> DEFINE T == TypeOK /\ Types
<1>1. Init => T
  <2>1. Init => ownerThread \in {t[2] : t \in Thread \cup {Restarter}}
    BY DEF Init
  <2>2. Init => level \in [Thread -> Nat] /\ depth \in Int /\ semVal \in {0, 1}
    BY DEF Init
  <2>3. Init => TypeOK
    BY <2>1, <2>2 DEF Init, TypeOK
  <2>4. Init => Types
    BY LockInit DEF IInv
  <2>. QED
    BY <2>3, <2>4
<1>2. T /\ [Next]_vars => T'
  <2> SUFFICES ASSUME TypeOK, Types, Types', [Next]_vars PROVE TypeOK'
    BY TypeStep
  <2> USE SdrLockAssumption DEF TypeOK, Types, semVars, ownerVars, xnVars, taskVars, envVars
  <2>1. ASSUME NEW t \in Thread, BeginXn(t) \/ Locking(t)
        PROVE  TypeOK'
    <3>1. CASE BeginXn(t) \/ CheckSem(t) \/ CheckEnded(t) \/ GiveEnded(t) \/ ReadTask(t)
      BY <3>1 DEF BeginXn, CheckSem, CheckEnded, GiveEnded, ReadTask
    <3>2. CASE ReadThread(t) \/ ReadArg(t) \/ Take(t) \/ SetThread(t) \/ SetTask(t) \/ SetDepth(t)
      BY <3>2 DEF ReadThread, ReadArg, Take, SetThread, SetTask, SetDepth, WriteOwner
    <3>3. CASE Halted(t) \/ ClearOwner(t) \/ Give(t)
      BY <3>3 DEF Halted, ClearOwner, Give, SemGiven
    <3>. QED
      BY <2>1, <3>1, <3>2, <3>3 DEF Locking
  <2>2. ASSUME NEW t \in Thread, EndStranger(t)
        PROVE  TypeOK'
    BY <2>2 DEF EndStranger
  <2>3. ASSUME NEW t \in Thread, NEW cancel \in BOOLEAN, EndInner(t, cancel) \/ EndOuter(t, cancel)
        PROVE  TypeOK'
    BY <2>3 DEF EndInner, EndOuter
  <2>4. CASE Restart
    BY <2>4 DEF Restart, HijackTask, HijackThread, Disable, Enable, EndSem, UnendSem,
                RestartExit, RestartGive, Rst, SemGiven
  <2>5. CASE Unwedge
    BY <2>5 DEF Unwedge, UnwedgeStart, UnwedgeTake, UnwedgeTimeout, UnwedgeGive
  <2>6. CASE UNCHANGED vars
    BY <2>6 DEF vars
  <2>. QED
    BY <2>1, <2>2, <2>3, <2>4, <2>5, <2>6 DEF Next, EndXn
<1>. QED
  BY <1>1, <1>2, PTL DEF Spec

(***************************************************************************)
(* Two threads are never in a transaction at once, whatever the            *)
(* interleaving of their reads and writes of the owner, until somebody     *)
(* gives a semaphore it did not take (takeSdr, lockSdr, unlockSdr).        *)
(***************************************************************************)
THEOREM OneTransaction == UniqueIds => (Spec => []ExclusiveUntilForced)
<1>1. IInv => ExclusiveUntilForced
  BY DEF IInv, LockInv, OneHolder, Holder, ExclusiveUntilForced, Exclusive, Inside
<1> QED BY <1>1, InvAlways, PTL

(***************************************************************************)
(* xnDepth is the nesting of the thread inside, which is the owner: its    *)
(* outermost end is the one that unlocks (takeSdr, sdr_end_xn).            *)
(***************************************************************************)
THEOREM DepthCounts == UniqueIds => (Spec => []DepthIsLevel)
<1>1. IInv => DepthIsLevel
  BY DEF IInv, LockInv, Outside, Written, Writing, Holding, DepthIsLevel, Inside
<1> QED BY <1>1, InvAlways, PTL
=============================================================================
