-------------------------- MODULE MCReadWriteLock --------------------------
(* TLC instance of ReadWriteLock, and of Condition.                          *)
EXTENDS ReadWriteLock, TLC

CONSTANTS t1, t2, t3, t4

\* Readers and writers; or three threads that use the condition in any way beside one.
MCClients == { t1 :> "writer" @@ t2 :> "writer" @@ t3 :> "reader" @@ t4 :> "reader",
               t1 :> "any" @@ t2 :> "any" @@ t3 :> "any" @@ t4 :> "writer" }
=============================================================================
