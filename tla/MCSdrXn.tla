------------------------------ MODULE MCSdrXn ------------------------------
(* Instances of SdrXn: the tasks, addresses and data are model values.      *)
EXTENDS SdrXn

CONSTANTS t1, t2, c1, c2, v0, v1

Both == {"SDR_REVERSIBLE", "SDR_IN_FILE"}

FileLog == {<<Both, 0>>}

\* A log in a file, a log in memory that is full in the middle of the second
\* entry, and no log.
AnyProfile == FileLog \cup {<<Both, 3>>, <<{"SDR_IN_FILE"}, 0>>}
=============================================================================
