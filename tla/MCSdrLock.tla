----------------------------- MODULE MCSdrLock -----------------------------
(* Instances of SdrLock.                                                    *)
EXTENDS SdrLock

\* Two threads of one task: each reads the task number it writes itself.
Siblings == {<<"p", 1>>, <<"p", 2>>}

\* Two threads of one task and a thread of another, pthread ids distinct.
DistinctThreads == {<<"p", 1>>, <<"p", 2>>, <<"q", 3>>}

\* pthread_self() is an address: threads of two tasks may have the same.
SameIds == {<<"p", 1>>, <<"p", 2>>, <<"q", 1>>}

RestarterThread == <<"r", 9>>
=============================================================================
