---------------------------- MODULE MCLockService ----------------------------
EXTENDS LockInvariant, TLC
CONSTANTS c1, c2, c3, t1, t2, t3, t4, t5

\* Two of the three clients have two threads each.
FiveThreads == t1 :> c1 @@ t2 :> c1 @@ t3 :> c2 @@ t4 :> c2 @@ t5 :> c3
=============================================================================
