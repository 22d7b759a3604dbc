----------------------------- MODULE MCWordLock -----------------------------
(* TLC instance of WordLock.                                                  *)
EXTENDS WordLock

\* A sleeping thread is woken.  Every thread takes the same actions, so one of them
\* stands for all of them.
SleeperWakes == Wakes(CHOOSE t \in Threads : TRUE)
=============================================================================
