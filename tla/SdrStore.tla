------------------------------ MODULE SdrStore ------------------------------
(***************************************************************************)
(* What a reversible SDR promises its users, with no log, no semaphore and *)
(* no nesting: a heap whose updates become permanent all together or not   *)
(* at all, and never once a level of the transaction was canceled.  SdrXn  *)
(* implements it; ici/doc/pod3/sdr.pod:105-131 states the promise.         *)
(***************************************************************************)
CONSTANTS
    Cell,       \* addresses of the heap
    Val,        \* what an address may hold
    InitVal     \* what a fresh heap holds everywhere

VARIABLES
    store,      \* the committed heap: what survives a cancellation
    work,       \* the heap as the transaction in progress sees it
    open,       \* a transaction is in progress
    doomed      \* one of its levels was canceled

vars == <<store, work, open, doomed>>

Init ==
    /\ store = [c \in Cell |-> InitVal]
    /\ work = store
    /\ open = FALSE /\ doomed = FALSE

Begin ==
    /\ ~open /\ open'
    /\ UNCHANGED <<store, work, doomed>>

Write(c, v) ==
    /\ open
    /\ work' = [work EXCEPT ![c] = v]
    /\ UNCHANGED <<store, open, doomed>>

Doom ==
    /\ open /\ doomed'
    /\ UNCHANGED <<store, work, open>>

Commit ==
    /\ open /\ ~doomed
    /\ ~open'
    /\ store' = work
    /\ UNCHANGED <<work, doomed>>

\* The transaction may stay open a while, with nothing left to commit.
Abort ==
    /\ open
    /\ open' \in BOOLEAN /\ ~doomed'
    /\ work' = store
    /\ UNCHANGED store

Next ==
    \/ Begin
    \/ \E c \in Cell, v \in Val : Write(c, v)
    \/ Doom
    \/ Commit
    \/ Abort

Spec == Init /\ [][Next]_vars
=============================================================================
