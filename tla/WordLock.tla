------------------------------ MODULE WordLock ------------------------------
(***************************************************************************)
(* WTF/WordLock.cpp: a lock in one word, which also points to the queue of *)
(* the threads that wait for it.  A waiting thread's queue node lives on   *)
(* its own stack, and the head of the queue holds the queue's tail.  One   *)
(* bit of the word locks the lock, another one the queue.                  *)
(*                                                                         *)
(* An action is one atomic access of the word, or what a thread does to    *)
(* memory that no other thread can touch at the time, if the properties    *)
(* hold.  compareExchangeWeak may fail for no reason.                      *)
(***************************************************************************)
EXTENDS Integers, FiniteSets

CONSTANTS
  Threads,
  NoThread     \* the null ThreadData*

ASSUME WordLockConstants == NoThread \notin Threads

VARIABLES
  word,          \* m_word: its two bits and the head of the queue
  next, tail, shouldPark, parkingLock,   \* the ThreadData of each thread
  alive,         \* the threads whose ThreadData exists
  pc,
  read,          \* currentWordValue
  oldHead        \* unlockSlow's queueHead

memory == <<next, tail, shouldPark, parkingLock, alive>>
locals == <<read, oldHead>>
vars   == <<word, memory, pc, locals>>

ThreadOrNone == Threads \cup {NoThread}
Words == [held : BOOLEAN, queueLocked : BOOLEAN, head : ThreadOrNone]
Zero  == [held |-> FALSE, queueLocked |-> FALSE, head |-> NoThread]
JustHeld == [held |-> TRUE, queueLocked |-> FALSE, head |-> NoThread]

Init ==
  /\ word = Zero
  /\ next = [t \in Threads |-> NoThread] /\ tail = [t \in Threads |-> NoThread]
  /\ shouldPark = [t \in Threads |-> FALSE]
  /\ parkingLock = [t \in Threads |-> NoThread]
  /\ alive = {}
  /\ pc = [t \in Threads |-> "outside"]
  /\ read = [t \in Threads |-> Zero]
  /\ oldHead = [t \in Threads |-> NoThread]

Goto(t, label) == pc' = [pc EXCEPT ![t] = label]
Load(t) == read' = [read EXCEPT ![t] = word]
\* A successful compareExchangeWeak; a failure is always possible.
Exchange(expected, new) == word = expected /\ word' = new

-----------------------------------------------------------------------------
(* lock() *)

Call(t) ==
  /\ pc[t] = "outside"
  /\ Goto(t, "fast")
  /\ UNCHANGED <<word, memory, locals>>

LockFast(t) ==
  /\ pc[t] = "fast"
  /\ \/ Exchange(Zero, JustHeld) /\ Goto(t, "critical")
     \/ UNCHANGED word /\ Goto(t, "slow")
  /\ UNCHANGED <<memory, locals>>

\* lockSlow's loop: load the word.
LockLoad(t) ==
  /\ pc[t] = "slow"
  /\ Load(t)
  /\ Goto(t, IF word.held THEN "spin" ELSE "tryLock")
  /\ UNCHANGED <<word, memory, oldHead>>

\* Mutant: a store, without a comparison.
LockExchange_Store(t) ==
  /\ pc[t] = "tryLock"
  /\ word' = [read[t] EXCEPT !.held = TRUE]
  /\ Goto(t, "critical")
  /\ UNCHANGED <<memory, locals>>

LockExchange(t) ==
  /\ pc[t] = "tryLock"
  /\ Exchange(read[t], [read[t] EXCEPT !.held = TRUE])
  /\ Goto(t, "critical")
  /\ UNCHANGED <<memory, locals>>

LockExchangeFails(t) ==
  /\ pc[t] = "tryLock"
  /\ Goto(t, "spin")
  /\ UNCHANGED <<word, memory, locals>>

\* Without a queue the thread may spin for a while (40 rounds, here any number); else
\* it constructs a ThreadData and loads again.
Spin(t) ==
  /\ pc[t] = "spin"
  /\ \/ read[t].head = NoThread /\ Goto(t, "slow") /\ UNCHANGED <<alive, read>>
     \/ alive' = alive \cup {t} /\ Load(t) /\ Goto(t, "lockQueue")
  /\ UNCHANGED <<word, next, tail, shouldPark, parkingLock, oldHead>>

LockQueue(t) ==
  /\ pc[t] = "lockQueue"
  /\ read[t].held /\ ~read[t].queueLocked
  /\ Exchange(read[t], [read[t] EXCEPT !.queueLocked = TRUE])
  /\ Goto(t, "enqueue")
  /\ UNCHANGED <<memory, locals>>

LockQueueFails(t) ==
  /\ pc[t] = "lockQueue"
  /\ alive' = alive \ {t}
  /\ Goto(t, "slow")
  /\ UNCHANGED <<word, next, tail, shouldPark, parkingLock, locals>>

\* The queue lock is held: link the node, then load and store the word.
Enqueue(t) ==
  /\ pc[t] = "enqueue"
  /\ shouldPark' = [shouldPark EXCEPT ![t] = TRUE]
  /\ LET queueHead == read[t].head
     IN  IF queueHead # NoThread
         THEN /\ next' = [next EXCEPT ![tail[queueHead]] = t]
              /\ tail' = [tail EXCEPT ![queueHead] = t]
         ELSE tail' = [tail EXCEPT ![t] = t] /\ UNCHANGED next
  /\ Load(t)
  /\ Goto(t, "publish")
  /\ UNCHANGED <<word, parkingLock, alive, oldHead>>

\* Mutant: the store that unlocks the queue unlocks the lock.
Publish_Unlocks(t) ==
  /\ pc[t] = "publish"
  /\ word' = [held |-> FALSE, queueLocked |-> FALSE,
              head |-> IF read[t].head = NoThread THEN t ELSE read[t].head]
  /\ Goto(t, "park")
  /\ UNCHANGED <<memory, locals>>

Publish(t) ==
  /\ pc[t] = "publish"
  /\ word' = [read[t] EXCEPT !.queueLocked = FALSE,
                             !.head = IF @ = NoThread THEN t ELSE @]
  /\ Goto(t, "park")
  /\ UNCHANGED <<memory, locals>>

\* std::unique_lock on one's own parkingLock; wait() gives it up, a notification or
\* nothing at all ends it.
Park(t) ==
  /\ pc[t] = "park" /\ parkingLock[t] = NoThread
  /\ parkingLock' = [parkingLock EXCEPT ![t] = t]
  /\ Goto(t, "parked")
  /\ UNCHANGED <<word, next, tail, shouldPark, alive, locals>>

Wait(t) ==
  /\ pc[t] = "parked" /\ shouldPark[t]
  /\ parkingLock' = [parkingLock EXCEPT ![t] = NoThread]
  /\ Goto(t, "waiting")
  /\ UNCHANGED <<word, next, tail, shouldPark, alive, locals>>

SpuriousWakeup(t) ==
  /\ pc[t] = "waiting"
  /\ Goto(t, "park")
  /\ UNCHANGED <<word, memory, locals>>

\* Mutant: shouldPark is not tested again after a wakeup.
Unpark_OnAnyWakeup(t) ==
  /\ pc[t] = "parked"
  /\ parkingLock' = [parkingLock EXCEPT ![t] = NoThread]
  /\ alive' = alive \ {t}
  /\ Goto(t, "slow")
  /\ UNCHANGED <<word, next, tail, shouldPark, locals>>

\* The ThreadData is destroyed when the loop goes around.
Unpark(t) ==
  /\ pc[t] = "parked" /\ ~shouldPark[t]
  /\ parkingLock' = [parkingLock EXCEPT ![t] = NoThread]
  /\ alive' = alive \ {t}
  /\ Goto(t, "slow")
  /\ UNCHANGED <<word, next, tail, shouldPark, locals>>

-----------------------------------------------------------------------------
(* unlock() *)

UnlockFast(t) ==
  /\ pc[t] = "critical"
  /\ \/ Exchange(JustHeld, Zero) /\ Goto(t, "outside")
     \/ UNCHANGED word /\ Goto(t, "unlock")
  /\ UNCHANGED <<memory, locals>>

UnlockLoad(t) ==
  /\ pc[t] = "unlock"
  /\ Load(t)
  /\ Goto(t, "tryUnlock")
  /\ UNCHANGED <<word, memory, oldHead>>

UnlockExchange(t) ==
  /\ pc[t] = "tryUnlock" /\ read[t] = JustHeld
  /\ Exchange(JustHeld, Zero)
  /\ Goto(t, "outside")
  /\ UNCHANGED <<memory, locals>>

UnlockQueue(t) ==
  /\ pc[t] = "tryUnlock" /\ read[t] # JustHeld /\ ~read[t].queueLocked
  /\ Exchange(read[t], [read[t] EXCEPT !.queueLocked = TRUE])
  /\ Goto(t, "dequeue")
  /\ UNCHANGED <<memory, locals>>

UnlockFails(t) ==
  /\ pc[t] = "tryUnlock"
  /\ Goto(t, "unlock")
  /\ UNCHANGED <<word, memory, locals>>

\* Mutant: the new head does not learn the queue's tail.
Dequeue_LosesTail(t) ==
  /\ pc[t] = "dequeue"
  /\ Load(t)
  /\ oldHead' = [oldHead EXCEPT ![t] = word.head]
  /\ Goto(t, "release")
  /\ UNCHANGED <<word, next, tail, shouldPark, parkingLock, alive>>

\* The next thread takes over as head of the queue.
Dequeue(t) ==
  /\ pc[t] = "dequeue"
  /\ Load(t)
  /\ oldHead' = [oldHead EXCEPT ![t] = word.head]
  /\ LET newHead == next[word.head]
     IN  tail' = IF newHead = NoThread THEN tail
                 ELSE [tail EXCEPT ![newHead] = tail[word.head]]
  /\ Goto(t, "release")
  /\ UNCHANGED <<word, next, shouldPark, parkingLock, alive>>

\* One store releases the lock and the queue lock and installs the new head.
Release(t) ==
  /\ pc[t] = "release"
  /\ word' = [held |-> FALSE, queueLocked |-> FALSE, head |-> next[oldHead[t]]]
  /\ Goto(t, "clear")
  /\ UNCHANGED <<memory, locals>>

Clear(t) ==
  /\ pc[t] = "clear"
  /\ next' = [next EXCEPT ![oldHead[t]] = NoThread]
  /\ tail' = [tail EXCEPT ![oldHead[t]] = NoThread]
  /\ Goto(t, "wakeLock")
  /\ UNCHANGED <<word, shouldPark, parkingLock, alive, locals>>

WakeLock(t) ==
  /\ pc[t] = "wakeLock" /\ parkingLock[oldHead[t]] = NoThread
  /\ parkingLock' = [parkingLock EXCEPT ![oldHead[t]] = t]
  /\ Goto(t, "wake")
  /\ UNCHANGED <<word, next, tail, shouldPark, alive, locals>>

\* Mutant: the thread is not notified.
Wake_Silent(t) ==
  /\ pc[t] = "wake"
  /\ shouldPark' = [shouldPark EXCEPT ![oldHead[t]] = FALSE]
  /\ Goto(t, "wakeUnlock")
  /\ UNCHANGED <<word, next, tail, parkingLock, alive, locals>>

\* shouldPark is cleared and the thread notified under its parkingLock.
Wake(t) ==
  /\ pc[t] = "wake"
  /\ shouldPark' = [shouldPark EXCEPT ![oldHead[t]] = FALSE]
  /\ pc' = [u \in Threads |->
              IF u = t THEN "wakeUnlock"
              ELSE IF u = oldHead[t] /\ pc[u] = "waiting" THEN "park" ELSE pc[u]]
  /\ UNCHANGED <<word, next, tail, parkingLock, alive, locals>>

WakeUnlock(t) ==
  /\ pc[t] = "wakeUnlock"
  /\ parkingLock' = [parkingLock EXCEPT ![oldHead[t]] = NoThread]
  /\ oldHead' = [oldHead EXCEPT ![t] = NoThread]
  /\ Goto(t, "outside")
  /\ UNCHANGED <<word, next, tail, shouldPark, alive, read>>

LockStep(t) == \/ LockFast(t) \/ LockLoad(t) \/ Spin(t) \/ Enqueue(t) \/ Publish(t)
               \/ Park(t) \/ Wait(t) \/ Unpark(t)
UnlockStep(t) == \/ UnlockFast(t) \/ UnlockLoad(t) \/ Dequeue(t) \/ Release(t)
                 \/ Clear(t) \/ WakeLock(t) \/ Wake(t) \/ WakeUnlock(t)
Exchanges(t) == LockExchange(t) \/ LockQueue(t) \/ UnlockExchange(t) \/ UnlockQueue(t)
Failures(t) == LockExchangeFails(t) \/ LockQueueFails(t) \/ UnlockFails(t)

Next == \E t \in Threads : \/ Call(t) \/ LockStep(t) \/ UnlockStep(t)
                           \/ Exchanges(t) \/ Failures(t) \/ SpuriousWakeup(t)

Spec == Init /\ [][Next]_vars

\* Threads run, inside lockSlow and unlockSlow and in the critical section, and a
\* compareExchangeWeak that could succeed again and again does in the end, like
\* the lock() of a std::mutex that is free again and again.
FairSpec == Spec /\ \A t \in Threads :
  /\ WF_vars(LockStep(t) \/ UnlockStep(t) \/ Failures(t))
  /\ SF_vars(Exchanges(t)) /\ SF_vars(WakeLock(t))

-----------------------------------------------------------------------------
Labels == {"outside", "fast", "slow", "tryLock", "spin", "lockQueue", "enqueue", "publish",
           "park", "parked", "waiting", "critical", "unlock", "tryUnlock", "dequeue",
           "release", "clear", "wakeLock", "wake", "wakeUnlock"}

\* Type invariant.
TypeOK ==
  /\ word \in Words
  /\ next \in [Threads -> ThreadOrNone] /\ tail \in [Threads -> ThreadOrNone]
  /\ shouldPark \in [Threads -> BOOLEAN] /\ parkingLock \in [Threads -> ThreadOrNone]
  /\ alive \subseteq Threads
  /\ pc \in [Threads -> Labels]
  /\ read \in [Threads -> Words]
  /\ oldHead \in [Threads -> ThreadOrNone]

\* The threads that own the lock, and those that own the queue lock.
Holder(t)     == pc[t] \in {"critical", "unlock", "tryUnlock", "dequeue", "release"}
QueueOwner(t) == pc[t] \in {"enqueue", "publish", "dequeue", "release"}

\* One thread at a time owns the lock, from the exchange that locks it to the one
\* or the store that unlocks it.
MutualExclusion == \A t, u \in Threads : Holder(t) /\ Holder(u) => t = u

\* The threads in the queue: the least set with its head and the next of each of them.
Queue ==
  { t \in Threads : \A S \in SUBSET Threads :
      /\ word.head # NoThread => word.head \in S
      /\ \A u \in S : next[u] # NoThread => next[u] \in S
      => t \in S }

\* The threads that have queued themselves and have not been dequeued.
Sleepers == { t \in Threads : /\ pc[t] \in {"park", "parked", "waiting"}
                              /\ shouldPark[t]
                              /\ \A u \in Threads : ~(/\ oldHead[u] = t
                                                      /\ pc[u] \in {"clear", "wakeLock", "wake"}) }

\* While nobody edits it, the queue is the list of the sleeping threads, every one
\* of them, and the head knows its tail: none is lost when the head changes hands.
QueueIsTheSleepers ==
  (\A t \in Threads : ~QueueOwner(t)) =>
    /\ Queue = Sleepers
    /\ word.head # NoThread => tail[word.head] \in Queue /\ next[tail[word.head]] = NoThread

\* Nobody touches the ThreadData of a thread that has destroyed it: not the queue,
\* nor the unlocker that wakes its old head ("a spurious wakeup could cause the
\* thread at the head of the queue to exit and delete queueHead", WordLock.cpp:236).
NoUseAfterDestruction ==
  /\ Queue \subseteq alive
  /\ \A t \in Threads :
       pc[t] \in {"release", "clear", "wakeLock", "wake", "wakeUnlock"} => oldHead[t] \in alive

\* A sleeping thread is woken: no wakeup is lost.
Wakes(t) == pc[t] \in {"park", "parked", "waiting"} ~> pc[t] = "slow"

\* The state of AbstractLock that the threads are in.
State == [ t \in Threads |->
             IF Holder(t) THEN "owner"
             ELSE IF pc[t] \in {"outside", "clear", "wakeLock", "wake", "wakeUnlock"}
             THEN "outside" ELSE "waiting" ]
Abstract == INSTANCE AbstractLock WITH state <- State
\* What the lock promises: every step, seen through State, is one of AbstractLock.
ImplementsLock == Abstract!Spec
=============================================================================
