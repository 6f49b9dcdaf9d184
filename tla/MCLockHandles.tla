--------------------------- MODULE MCLockHandles ---------------------------
(* Two threads: t1 has two unique_locks and a shared_lock, t2 has two      *)
(* shared_locks, on two mutexes.                                           *)
EXTENDS LockHandles, TLC

CONSTANTS t1, t2, u1, u2, s1, s2, s3

MCThreadOf == u1 :> t1 @@ u2 :> t1 @@ s1 :> t1 @@ s2 :> t2 @@ s3 :> t2
=============================================================================
