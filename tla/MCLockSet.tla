----------------------------- MODULE MCLockSet -----------------------------
(* Three threads whose requests overlap: one vector is unsorted, one has    *)
(* the empty key and a key twice.  The first thread may call locksFor a     *)
(* second time before its scope ends.                                       *)
EXTENDS LockSet, TLC

CONSTANTS t1, t2, t3, l1, l2

MCThreads == {t1, t2, t3}
MCLocks == {l1, l2}
MCKeyVectors == {<<0, 1, 1>>, <<2>>, <<1, 2>>, <<2, 1>>}
MCMaxCalls == (t1 :> 2) @@ (t2 :> 1) @@ (t3 :> 1)
=============================================================================
