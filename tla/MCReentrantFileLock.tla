------------------------ MODULE MCReentrantFileLock ------------------------
(* Threads t1 and t2 share one controller; t3 has one of its own. *)
EXTENDS ReentrantFileLock

CONSTANTS t1, t2, t3, lockA, lockB

MCThreads == {t1, t2, t3}
MCLocks == {lockA, lockB}
MCLockOf == [t \in MCThreads |-> IF t = t3 THEN lockB ELSE lockA]
=============================================================================
