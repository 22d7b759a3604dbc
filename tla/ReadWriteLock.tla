--------------------------- MODULE ReadWriteLock ---------------------------
(***************************************************************************)
(* WTF/ReadWriteLock: a lock and a condition on which readers wait for     *)
(* writers that hold the lock or wait for it, and writers for readers and  *)
(* writers that hold it.  Beside its readers and writers there may be      *)
(* threads that use a Condition in any other way its interface allows.     *)
(***************************************************************************)
EXTENDS Condition

CONSTANTS
  Clients,   \* bound: what each thread is, one of several assignments
  Rounds     \* bound: how often a reader or writer takes the lock

ASSUME ReadWriteLockConstants ==
  /\ IsFiniteSet(Threads) /\ Rounds \in Nat
  /\ Clients \subseteq [Threads -> {"reader", "writer", "any"}]

VARIABLES
  m_isWriteLocked, m_numReaders, m_numWaitingWriters,
  pc,       \* where a reader or writer is, outside of the condition's functions
  client,   \* what each thread is
  rounds    \* how often it has taken the lock

state == <<m_isWriteLocked, m_numReaders, m_numWaitingWriters>>
vars  == <<condition, state, pc, client, rounds>>

Init ==
  /\ ConditionInit
  /\ m_isWriteLocked = FALSE /\ m_numReaders = 0 /\ m_numWaitingWriters = 0
  /\ pc = [t \in Threads |-> "outside"]
  /\ client \in Clients /\ rounds = [t \in Threads |-> 0]

Goto(t, label) == pc' = [pc EXCEPT ![t] = label] /\ UNCHANGED client

-----------------------------------------------------------------------------
(* Any use of the condition *)

AnyClient(t) ==
  /\ client[t] = "any"
  /\ \/ lock(t) \/ unlock(t)
     \/ \E c \in Conditions : \/ waitUntil(t, c)
                              \/ waitUntilPast(t, c) \/ notifyOne(t, c) \/ notifyAll(t, c)
  /\ UNCHANGED <<state, pc, client, rounds>>

-----------------------------------------------------------------------------
(* Readers and writers; c is m_cond, the client's lock m_lock *)

\* readLock(), readUnlock(), writeLock() and writeUnlock() lock m_lock.
Call(t) ==
  /\ pc[t] = "outside" /\ client[t] # "any" /\ rounds[t] < Rounds
  /\ lock(t)
  /\ rounds' = [rounds EXCEPT ![t] = @ + 1]
  /\ Goto(t, IF client[t] = "reader" THEN "readLock" ELSE "writeLock")
  /\ UNCHANGED state

CallUnlock(t) ==
  /\ pc[t] \in {"reading", "writing"}
  /\ lock(t)
  /\ Goto(t, IF pc[t] = "reading" THEN "readUnlock" ELSE "writeUnlock")
  /\ UNCHANGED <<state, rounds>>

ReadBlocked  == m_isWriteLocked \/ m_numWaitingWriters # 0
WriteBlocked == m_isWriteLocked \/ m_numReaders # 0

ReadWaits(t, c) ==
  /\ pc[t] = "readLock" /\ ReadBlocked
  /\ waitUntil(t, c)
  /\ UNCHANGED <<state, pc, client, rounds>>

readLock(t) ==
  /\ pc[t] = "readLock" /\ ~ReadBlocked
  /\ m_numReaders' = m_numReaders + 1
  /\ unlock(t)
  /\ Goto(t, "reading")
  /\ UNCHANGED <<m_isWriteLocked, m_numWaitingWriters, rounds>>

readUnlock(t, c) ==
  /\ pc[t] = "readUnlock"
  /\ m_numReaders' = m_numReaders - 1
  /\ IF m_numReaders' = 0 THEN notifyAll(t, c) ELSE Running(t) /\ UNCHANGED condition
  /\ Goto(t, "unlock")
  /\ UNCHANGED <<m_isWriteLocked, m_numWaitingWriters, rounds>>

\* Mutant: a writer does not say that it waits.
WriteWaits_Silently(t, c) ==
  /\ pc[t] = "writeLock" /\ WriteBlocked
  /\ waitUntil(t, c)
  /\ Goto(t, "writeLock")
  /\ UNCHANGED <<state, rounds>>

WriteWaits(t, c) ==
  /\ pc[t] = "writeLock" /\ WriteBlocked
  /\ m_numWaitingWriters' = m_numWaitingWriters + 1
  /\ waitUntil(t, c)
  /\ Goto(t, "writeWaited")
  /\ UNCHANGED <<m_isWriteLocked, m_numReaders, rounds>>

WriteWaited(t) ==
  /\ pc[t] = "writeWaited" /\ Running(t)
  /\ m_numWaitingWriters' = m_numWaitingWriters - 1
  /\ Goto(t, "writeLock")
  /\ UNCHANGED <<condition, m_isWriteLocked, m_numReaders, rounds>>

\* Mutant: a thread that has waited finds the lock free.
writeLock_NoLoop(t) ==
  /\ pc[t] = "writeLock" /\ ~m_isWriteLocked
  /\ m_isWriteLocked' = TRUE
  /\ unlock(t)
  /\ Goto(t, "writing")
  /\ UNCHANGED <<m_numReaders, m_numWaitingWriters, rounds>>

writeLock(t) ==
  /\ pc[t] = "writeLock" /\ ~WriteBlocked
  /\ m_isWriteLocked' = TRUE
  /\ unlock(t)
  /\ Goto(t, "writing")
  /\ UNCHANGED <<m_numReaders, m_numWaitingWriters, rounds>>

\* Mutant: the writer notifies one thread, which may be a reader that waits for writers.
writeUnlock_NotifyOne(t, c) ==
  /\ pc[t] = "writeUnlock"
  /\ m_isWriteLocked' = FALSE
  /\ notifyOne(t, c)
  /\ Goto(t, "unlock")
  /\ UNCHANGED <<m_numReaders, m_numWaitingWriters, rounds>>

writeUnlock(t, c) ==
  /\ pc[t] = "writeUnlock"
  /\ m_isWriteLocked' = FALSE
  /\ notifyAll(t, c)
  /\ Goto(t, "unlock")
  /\ UNCHANGED <<m_numReaders, m_numWaitingWriters, rounds>>

Unlock(t) ==
  /\ pc[t] = "unlock"
  /\ unlock(t)
  /\ Goto(t, "outside")
  /\ UNCHANGED <<state, rounds>>

-----------------------------------------------------------------------------
InCondition(t) == ConditionStep(t) /\ UNCHANGED <<state, pc, client, rounds>>
Expires(t)     == client[t] = "any" /\ TimesOut(t) /\ UNCHANGED <<state, pc, client, rounds>>

\* What each thread does next once it has called or has entered.
ThreadStep(t) ==
  \/ readLock(t) \/ writeLock(t) \/ WriteWaited(t) \/ CallUnlock(t) \/ Unlock(t)
  \/ \E c \in Conditions : ReadWaits(t, c) \/ WriteWaits(t, c) \/ readUnlock(t, c) \/ writeUnlock(t, c)
  \/ InCondition(t)

Next == \E t \in Threads : AnyClient(t) \/ Call(t) \/ Expires(t) \/ ThreadStep(t)

\* Threads run, readers and writers give the lock back, and a Lock is handed in the
\* end to a thread that has been parked on it for long (eventual fairness).
Spec == Init /\ [][Next]_vars /\ \A t \in Threads : SF_vars(ThreadStep(t))

-----------------------------------------------------------------------------
Reading(t) == pc[t] \in {"reading", "readUnlock"}
Writing(t) == pc[t] \in {"writing", "writeUnlock"}

\* A writer is alone, and the counts that decide who waits are the numbers of
\* those they count (ReadWriteLock.cpp:34-72).
WriterIsAlone ==
  /\ \A t, u \in Threads : Writing(t) /\ (Reading(u) \/ Writing(u)) => t = u
  /\ m_isWriteLocked <=> \E t \in Threads : Writing(t)
  /\ m_numReaders = Cardinality({t \in Threads : Reading(t)})

\* No reader enters past a writer that has begun to wait, not even between the
\* writer's wakeups (the second operand in ReadWriteLock.cpp:37).
WritersGoFirst ==
  [][\A r, w \in Threads : ~Reading(r) /\ Reading(r)' /\ client[w] = "writer"
       => at[w] = "outside" \/ at[w] = "store" \/ at[w] = "unparkAll"]_vars

\* Every readLock() and writeLock() returns, as each holder unlocks and the others
\* call a bounded number of times: nobody is left asleep on m_cond.
EveryLockerEnters ==
  \A t \in Threads : pc[t] \in {"readLock", "writeLock", "writeWaited"} ~> Reading(t) \/ Writing(t)

\* A thread that waits when another one notifies all wakes up (Condition.h:176-184).
NotifyAllWakes ==
  \A t \in Threads :
    Queued(t) /\ (\E u \in Threads : at[u] = "store" /\ on[u] = on[t]) ~> ~Queued(t)
=============================================================================
