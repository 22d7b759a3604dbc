------------------------------- MODULE MCLock -------------------------------
(* TLC instance of Lock.                                                      *)
EXTENDS Lock, TLC

CONSTANTS t1, t2, t3

\* Threads that lock, and one or two that try as well, with and without a timeout.
AnyLock   == {"lock", "tryLock", "tryLockWithTimeout"}
MCClients == { t1 :> {"lock"} @@ t2 :> clients @@ t3 :> AnyLock : clients \in {{"lock"}, AnyLock \ {"lock"}} }

\* A parked thread is unparked: t1, which takes the same actions as every thread that locks.
ParkedThreadWakes == Wakes(t1)
=============================================================================
