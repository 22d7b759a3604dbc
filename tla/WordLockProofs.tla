--------------------------- MODULE WordLockProofs ---------------------------
(***************************************************************************)
(* Mutual exclusion of WordLock for any number of threads, that it         *)
(* implements AbstractLock, and that its queue is whole.                   *)
(*                                                                         *)
(* MutualExclusion is not inductive: Publish stores a word the thread has  *)
(* read earlier, so that the lock is free after it unless the thread saw   *)
(* it held and nobody could unlock it in between.  The strengthening says  *)
(* what owning either bit means for the word, and what a thread between    *)
(* two of its accesses still knows.                                        *)
(*                                                                         *)
(* For the queue, Queueing says that there is a sequence of threads whose  *)
(* nodes make up the list: it is the members that the steps append to and  *)
(* take from, whatever the editing of the links looks like half way.       *)
(***************************************************************************)
EXTENDS WordLock, Sequences, WellFoundedInduction, TLAPS

Ownership ==
  /\ \A t \in Threads : Holder(t) => word.held
  /\ \A t \in Threads : QueueOwner(t) => word.queueLocked /\ word.held
  /\ MutualExclusion
  /\ \A t, u \in Threads : QueueOwner(t) /\ QueueOwner(u) => t = u

Knowledge ==
  \A t \in Threads :
    /\ pc[t] = "tryLock" => ~read[t].held
    /\ pc[t] = "publish" => read[t].held
    /\ pc[t] = "dequeue" => word.head # NoThread
    /\ pc[t] \in {"release", "clear", "wakeLock", "wake", "wakeUnlock"} => oldHead[t] # NoThread

IInv == TypeOK /\ Ownership /\ Knowledge

USE DEF memory, locals, vars, ThreadOrNone, Words, Zero, JustHeld, Goto, Load, Exchange,
        Holder, QueueOwner

-----------------------------------------------------------------------------
\* The two words the fast paths exchange are words.
LEMMA ConstantWords == Zero \in Words /\ JustHeld \in Words
OBVIOUS

\* Nobody owns anything at the start.
LEMMA InitIInv == Init => IInv
BY WordLockConstants DEF Init, IInv, TypeOK, Labels, Ownership, MutualExclusion, Knowledge

\* The steps of lock() keep the types: none of them writes through a null pointer.
LEMMA LockKeepsTypes ==
  ASSUME NEW t \in Threads, IInv,
         Call(t) \/ LockStep(t) \/ LockExchange(t) \/ LockExchangeFails(t)
           \/ LockQueue(t) \/ LockQueueFails(t) \/ SpuriousWakeup(t)
  PROVE  TypeOK'
<1> USE DEF IInv, TypeOK, Labels
<1>1. CASE Call(t) BY <1>1 DEF Call
<1>2. CASE LockFast(t)
  <2>2. word' = JustHeld \/ word' = word BY <1>2 DEF LockFast
  <2>3. word' \in Words BY <2>2, ConstantWords
  <2>4. pc' \in [Threads -> Labels] BY <1>2 DEF LockFast
  <2> QED BY <1>2, <2>3, <2>4 DEF LockFast
<1>3. CASE LockLoad(t) BY <1>3 DEF LockLoad
<1>4. CASE Spin(t)
  <2>1. pc' \in [Threads -> Labels] BY <1>4 DEF Spin
  <2>2. read' \in [Threads -> Words] /\ alive' \subseteq Threads BY <1>4 DEF Spin
  <2> QED BY <1>4, <2>1, <2>2 DEF Spin
<1>5. CASE Enqueue(t) BY <1>5 DEF Enqueue
<1>6. CASE Publish(t) BY <1>6 DEF Publish
<1>7. CASE Park(t) BY <1>7 DEF Park
<1>8. CASE Wait(t) BY <1>8 DEF Wait
<1>9. CASE Unpark(t) BY <1>9 DEF Unpark
<1>10. CASE LockExchange(t) BY <1>10 DEF LockExchange
<1>11. CASE LockExchangeFails(t) BY <1>11 DEF LockExchangeFails
<1>12. CASE LockQueue(t) BY <1>12 DEF LockQueue
<1>13. CASE LockQueueFails(t) BY <1>13 DEF LockQueueFails
<1>14. CASE SpuriousWakeup(t) BY <1>14 DEF SpuriousWakeup
<1> QED BY <1>1, <1>2, <1>3, <1>4, <1>5, <1>6, <1>7, <1>8, <1>9, <1>10, <1>11, <1>12,
           <1>13, <1>14 DEF LockStep

\* The steps of unlock() keep the types: the queue has a head where they need one.
LEMMA UnlockKeepsTypes ==
  ASSUME NEW t \in Threads, IInv,
         UnlockStep(t) \/ UnlockExchange(t) \/ UnlockQueue(t) \/ UnlockFails(t)
  PROVE  TypeOK'
<1> USE DEF IInv, TypeOK, Labels
<1>1. CASE UnlockFast(t)
  <2>1. word' = Zero \/ word' = word BY <1>1 DEF UnlockFast
  <2>2. word' \in Words BY <2>1, ConstantWords
  <2>3. pc' \in [Threads -> Labels] BY <1>1 DEF UnlockFast
  <2> QED BY <1>1, <2>2, <2>3 DEF UnlockFast
<1>2. CASE UnlockLoad(t) BY <1>2 DEF UnlockLoad
<1>3. CASE Dequeue(t)
  <2>1. word.head \in Threads BY <1>3 DEF Dequeue, Knowledge
  <2>2. tail' \in [Threads -> ThreadOrNone] BY <1>3, <2>1 DEF Dequeue
  <2>3. oldHead' \in [Threads -> ThreadOrNone] BY <1>3, <2>1 DEF Dequeue
  <2> QED BY <1>3, <2>2, <2>3 DEF Dequeue
<1>4. CASE Release(t)
  <2>1. oldHead[t] \in Threads BY <1>4 DEF Release, Knowledge
  <2> QED BY <1>4, <2>1 DEF Release
<1>5. CASE Clear(t) BY <1>5 DEF Clear
<1>6. CASE WakeLock(t) BY <1>6 DEF WakeLock
<1>7. CASE Wake(t) BY <1>7 DEF Wake
<1>8. CASE WakeUnlock(t) BY <1>8 DEF WakeUnlock
<1>9. CASE UnlockExchange(t) BY <1>9 DEF UnlockExchange
<1>10. CASE UnlockQueue(t) BY <1>10 DEF UnlockQueue
<1>11. CASE UnlockFails(t) BY <1>11 DEF UnlockFails
<1> QED BY <1>1, <1>2, <1>3, <1>4, <1>5, <1>6, <1>7, <1>8, <1>9, <1>10, <1>11
        DEF UnlockStep

-----------------------------------------------------------------------------
\* Who owns the lock and its queue after a step of lock(): only an exchange that
\* found the bit clear makes an owner, and Publish gives the queue back.
LEMMA LockKeepsOwnership ==
  ASSUME NEW t \in Threads, IInv, TypeOK',
         Call(t) \/ LockStep(t) \/ LockExchange(t) \/ LockExchangeFails(t)
           \/ LockQueue(t) \/ LockQueueFails(t) \/ SpuriousWakeup(t)
  PROVE  Ownership' /\ Knowledge'
<1> USE DEF IInv, TypeOK, Ownership, MutualExclusion, Knowledge
<1>1. CASE Call(t) BY <1>1 DEF Call
<1>2. CASE LockFast(t)
  <2>1. CASE Exchange(Zero, JustHeld) /\ Goto(t, "critical")
    BY <1>2, <2>1 DEF LockFast
  <2>2. CASE UNCHANGED word /\ Goto(t, "slow") BY <1>2, <2>2 DEF LockFast
  <2> QED BY <1>2, <2>1, <2>2 DEF LockFast
<1>3. CASE LockLoad(t) BY <1>3 DEF LockLoad
<1>4. CASE Spin(t) BY <1>4 DEF Spin
<1>5. CASE Enqueue(t) BY <1>5 DEF Enqueue
<1>6. CASE Publish(t) BY <1>6 DEF Publish
<1>7. CASE Park(t) BY <1>7 DEF Park
<1>8. CASE Wait(t) BY <1>8 DEF Wait
<1>9. CASE Unpark(t) BY <1>9 DEF Unpark
<1>10. CASE LockExchange(t) BY <1>10 DEF LockExchange
<1>11. CASE LockExchangeFails(t) BY <1>11 DEF LockExchangeFails
<1>12. CASE LockQueue(t) BY <1>12 DEF LockQueue
<1>13. CASE LockQueueFails(t) BY <1>13 DEF LockQueueFails
<1>14. CASE SpuriousWakeup(t) BY <1>14 DEF SpuriousWakeup
<1> QED BY <1>1, <1>2, <1>3, <1>4, <1>5, <1>6, <1>7, <1>8, <1>9, <1>10, <1>11, <1>12,
           <1>13, <1>14 DEF LockStep

\* The same for unlock(): an exchange can unlock the word only while nobody owns the
\* queue, and Release gives back both at once.
LEMMA UnlockKeepsOwnership ==
  ASSUME NEW t \in Threads, IInv, TypeOK',
         UnlockStep(t) \/ UnlockExchange(t) \/ UnlockQueue(t) \/ UnlockFails(t)
  PROVE  Ownership' /\ Knowledge'
<1> USE DEF IInv, TypeOK, Ownership, MutualExclusion, Knowledge
<1>1. CASE UnlockFast(t)
  <2>1. CASE Exchange(JustHeld, Zero) /\ Goto(t, "outside")
    BY <1>1, <2>1 DEF UnlockFast
  <2>2. CASE UNCHANGED word /\ Goto(t, "unlock") BY <1>1, <2>2 DEF UnlockFast
  <2> QED BY <1>1, <2>1, <2>2 DEF UnlockFast
<1>2. CASE UnlockLoad(t) BY <1>2 DEF UnlockLoad
<1>3. CASE Dequeue(t) BY <1>3 DEF Dequeue
<1>4. CASE Release(t) BY <1>4 DEF Release
<1>5. CASE Clear(t) BY <1>5 DEF Clear
<1>6. CASE WakeLock(t) BY <1>6 DEF WakeLock
<1>7. CASE Wake(t) BY <1>7 DEF Wake
<1>8. CASE WakeUnlock(t) BY <1>8 DEF WakeUnlock
<1>9. CASE UnlockExchange(t) BY <1>9 DEF UnlockExchange
<1>10. CASE UnlockQueue(t) BY <1>10 DEF UnlockQueue
<1>11. CASE UnlockFails(t) BY <1>11 DEF UnlockFails
<1> QED BY <1>1, <1>2, <1>3, <1>4, <1>5, <1>6, <1>7, <1>8, <1>9, <1>10, <1>11
        DEF UnlockStep

-----------------------------------------------------------------------------
\* The types, ownership and what the threads know, together, for a step of any thread.
LEMMA NextIInv == IInv /\ [Next]_vars => IInv'
<1> SUFFICES ASSUME IInv, [Next]_vars PROVE IInv' OBVIOUS
<1>1. CASE UNCHANGED vars
  BY <1>1 DEF IInv, TypeOK, Ownership, MutualExclusion, Knowledge
<1>2. ASSUME NEW t \in Threads,
             Call(t) \/ LockStep(t) \/ LockExchange(t) \/ LockExchangeFails(t)
               \/ LockQueue(t) \/ LockQueueFails(t) \/ SpuriousWakeup(t)
      PROVE  IInv'
  BY <1>2, LockKeepsTypes, LockKeepsOwnership DEF IInv
<1>3. ASSUME NEW t \in Threads,
             UnlockStep(t) \/ UnlockExchange(t) \/ UnlockQueue(t) \/ UnlockFails(t)
      PROVE  IInv'
  BY <1>3, UnlockKeepsTypes, UnlockKeepsOwnership DEF IInv
<1> QED BY <1>1, <1>2, <1>3 DEF Next, Exchanges, Failures

\* The types of WordLock's state: no step of lockSlow or unlockSlow follows a null
\* pointer.
THEOREM TypeCorrect == Spec => []TypeOK
<1>1. IInv => TypeOK BY DEF IInv
<1> QED BY <1>1, InitIInv, NextIInv, PTL DEF Spec

\* At most one thread owns a WordLock, however many contend for it.
THEOREM LockExcludes == Spec => []MutualExclusion
<1>1. IInv => MutualExclusion BY DEF IInv, Ownership
<1> QED BY <1>1, InitIInv, NextIInv, PTL DEF Spec

-----------------------------------------------------------------------------
\* A step that moves one thread changes what one thread is to the lock.
LEMMA OneThreadMoves ==
  ASSUME TypeOK, NEW t \in Threads, NEW label \in Labels, Goto(t, label)
  PROVE  /\ State' = [State EXCEPT ![t] = State'[t]]
         /\ State \in [Threads -> {"outside", "waiting", "owner"}]
         /\ State'[t] = State[t] => State' = State
         /\ pc'[t] = label
BY DEF TypeOK, State

\* Every step of lock() is a step of the abstract lock: the first announces the
\* call, the exchange that sets the bit acquires, the others change nothing.
LEMMA LockImplements ==
  ASSUME NEW t \in Threads, IInv,
         Call(t) \/ LockStep(t) \/ LockExchange(t) \/ LockExchangeFails(t)
           \/ LockQueue(t) \/ LockQueueFails(t) \/ SpuriousWakeup(t)
  PROVE  Abstract!Call(t) \/ Abstract!Acquire(t) \/ State' = State
<1>1. CASE Call(t)
  <2>1. State[t] = "outside" /\ State'[t] = "waiting"
    BY <1>1 DEF Call, State, IInv, TypeOK
  <2>2. TypeOK /\ "fast" \in Labels /\ Goto(t, "fast") BY <1>1 DEF Call, Labels, IInv
  <2>3. State' = [State EXCEPT ![t] = State'[t]] BY <2>2, OneThreadMoves
  <2> QED BY <2>1, <2>3 DEF Abstract!Call
<1>2. ASSUME ~word.held, pc[t] \in {"fast", "tryLock"}, Goto(t, "critical")
      PROVE  Abstract!Acquire(t)
  <2>1. State[t] = "waiting" /\ State'[t] = "owner" BY <1>2 DEF State, IInv, TypeOK
  <2>2. Abstract!Free BY <1>2 DEF Abstract!Free, State, IInv, Ownership
  <2> QED BY <1>2, <2>1, <2>2, OneThreadMoves DEF Labels, IInv, Abstract!Acquire
<1>3. ASSUME NEW label \in {"slow", "tryLock", "spin", "lockQueue", "enqueue", "publish",
                            "park", "parked", "waiting"},
             Goto(t, label),
             pc[t] \in {"fast", "slow", "tryLock", "spin", "lockQueue", "enqueue", "publish",
                        "park", "parked", "waiting"}
      PROVE  State' = State
  <2>1. State'[t] = State[t] BY <1>3 DEF State, IInv, TypeOK
  <2> QED BY <1>3, <2>1, OneThreadMoves DEF Labels, IInv
<1>4. CASE LockFast(t) BY <1>4, <1>2, <1>3 DEF LockFast
<1>5. CASE LockExchange(t) BY <1>5, <1>2 DEF LockExchange, IInv, Knowledge
<1>6. CASE LockLoad(t) BY <1>6, <1>3 DEF LockLoad
<1>7. CASE Spin(t) BY <1>7, <1>3 DEF Spin
<1>8. CASE Enqueue(t) \/ Publish(t) \/ LockQueue(t) \/ LockQueueFails(t) \/ LockExchangeFails(t)
  BY <1>8, <1>3 DEF Enqueue, Publish, LockQueue, LockQueueFails, LockExchangeFails
<1>9. CASE Park(t) \/ Wait(t) \/ SpuriousWakeup(t) \/ Unpark(t)
  BY <1>9, <1>3 DEF Park, Wait, SpuriousWakeup, Unpark
<1> QED BY <1>1, <1>4, <1>5, <1>6, <1>7, <1>8, <1>9 DEF LockStep

\* Every step of unlock() is one too: the exchange or the store that clears the bit
\* releases; waking the old head is no longer the lock's business.
LEMMA UnlockImplements ==
  ASSUME NEW t \in Threads, IInv,
         UnlockStep(t) \/ UnlockExchange(t) \/ UnlockQueue(t) \/ UnlockFails(t)
  PROVE  Abstract!Release(t) \/ State' = State
<1>1. ASSUME NEW label \in {"outside", "clear"}, Holder(t), Goto(t, label)
      PROVE  Abstract!Release(t)
  <2>1. State[t] = "owner" /\ State'[t] = "outside" BY <1>1 DEF State, IInv, TypeOK
  <2> QED BY <1>1, <2>1, OneThreadMoves DEF Labels, IInv, Abstract!Release
<1>2. ASSUME NEW label \in {"unlock", "tryUnlock", "dequeue", "release"}, Holder(t),
             Goto(t, label)
      PROVE  State' = State
  <2>1. State'[t] = State[t] BY <1>2 DEF State, IInv, TypeOK
  <2> QED BY <1>2, <2>1, OneThreadMoves DEF Labels, IInv
<1>3. ASSUME NEW label \in {"wakeLock", "wake", "outside"},
             pc[t] \in {"clear", "wakeLock", "wakeUnlock"}, Goto(t, label)
      PROVE  State' = State
  <2>1. State'[t] = State[t] BY <1>3 DEF State, IInv, TypeOK
  <2> QED BY <1>3, <2>1, OneThreadMoves DEF Labels, IInv
<1>4. CASE UnlockFast(t) BY <1>4, <1>1, <1>2 DEF UnlockFast
<1>5. CASE UnlockExchange(t) \/ Release(t) BY <1>5, <1>1 DEF UnlockExchange, Release
<1>6. CASE UnlockLoad(t) \/ UnlockQueue(t) \/ UnlockFails(t) \/ Dequeue(t)
  BY <1>6, <1>2 DEF UnlockLoad, UnlockQueue, UnlockFails, Dequeue
<1>7. CASE Clear(t) \/ WakeLock(t) \/ WakeUnlock(t)
  BY <1>7, <1>3 DEF Clear, WakeLock, WakeUnlock
<1>8. CASE Wake(t) BY <1>8 DEF Wake, State, IInv, TypeOK
<1> QED BY <1>4, <1>5, <1>6, <1>7, <1>8 DEF UnlockStep

\* WordLock is a lock: every behaviour of it is one of AbstractLock.
THEOREM Implements == Spec => ImplementsLock
<1>1. Init => Abstract!Init BY DEF Init, Abstract!Init, State
<1>2. IInv /\ [Next]_vars => [Abstract!Next]_State
  <2> SUFFICES ASSUME IInv, [Next]_vars PROVE Abstract!Next \/ State' = State OBVIOUS
  <2>1. CASE UNCHANGED vars BY <2>1 DEF State
  <2>2. ASSUME NEW t \in Threads,
               Call(t) \/ LockStep(t) \/ LockExchange(t) \/ LockExchangeFails(t)
                 \/ LockQueue(t) \/ LockQueueFails(t) \/ SpuriousWakeup(t)
        PROVE  Abstract!Next \/ State' = State
    BY <2>2, LockImplements DEF Abstract!Next
  <2>3. ASSUME NEW t \in Threads,
               UnlockStep(t) \/ UnlockExchange(t) \/ UnlockQueue(t) \/ UnlockFails(t)
        PROVE  Abstract!Next \/ State' = State
    BY <2>3, UnlockImplements DEF Abstract!Next
  <2> QED BY <2>1, <2>2, <2>3 DEF Next, Exchanges, Failures
<1> QED BY <1>1, <1>2, InitIInv, NextIInv, PTL DEF Spec, ImplementsLock, Abstract!Spec

-----------------------------------------------------------------------------
(* The queue.  It is a chain of sleeping threads, and the one thread that edits *)
(* it knows its head.                                                           *)

Asleep(t) == pc[t] \in {"park", "parked", "waiting"} /\ shouldPark[t]
Waking(t) == pc[t] \in {"clear", "wakeLock", "wake"}

\* Thread t is in the queue: it has linked its node, and nobody has dequeued it.
In(t) == \/ pc[t] = "publish"
         \/ Asleep(t) /\ \A u \in Threads : ~(oldHead[u] = t /\ Waking(u))

\* A thread's ThreadData exists while it queues itself and sleeps.
Living == \A t \in Threads :
  pc[t] \in {"lockQueue", "enqueue", "publish", "park", "parked", "waiting"} => t \in alive

\* Who has locked a parkingLock.
Parking == \A t \in Threads :
  /\ pc[t] = "parked" => parkingLock[t] = t
  /\ pc[t] \in {"wake", "wakeUnlock"} => parkingLock[oldHead[t]] = t

\* A thread that has been dequeued stays until its waker is done with it.
Dequeued ==
  /\ \A t \in Threads : pc[t] = "publish" => shouldPark[t]
  /\ \A t \in Threads : Waking(t) => Asleep(oldHead[t])
  /\ \A t \in Threads :
       pc[t] = "wakeUnlock" => pc[oldHead[t]] = "park" /\ ~shouldPark[oldHead[t]]
  /\ \A t, u \in Threads : Waking(t) /\ Waking(u) /\ oldHead[t] = oldHead[u] => t = u

\* A thread that is not in the queue points to nobody, as soon as it has been cleared.
Clean == \A t \in Threads :
  next[t] # NoThread => In(t) \/ \E u \in Threads : pc[u] = "clear" /\ oldHead[u] = t

\* The thread that edits the queue knows its head.
Reading == \A t \in Threads :
  /\ pc[t] \in {"enqueue", "publish"} => read[t].head = word.head
  /\ pc[t] = "release" => oldHead[t] = word.head

Chain(q) ==
  /\ \A i, j \in 1 .. Len(q) : q[i] = q[j] => i = j
  /\ \A t \in Threads : In(t) <=> \E i \in 1 .. Len(q) : q[i] = t
  /\ \A i \in 1 .. Len(q) : next[q[i]] = IF i < Len(q) THEN q[i + 1] ELSE NoThread
  /\ q # <<>> => tail[q[1]] = q[Len(q)]

\* The word points to the chain's first thread, unless that has not published itself.
Headed(q) ==
  /\ q = <<>> => word.head = NoThread
  /\ q # <<>> => \/ word.head = q[1]
                 \/ word.head = NoThread /\ Len(q) = 1 /\ pc[q[1]] = "publish"
  /\ \A t \in Threads : pc[t] = "release" /\ Len(q) > 1 => tail[q[2]] = q[Len(q)]

Queueing == /\ Living /\ Parking /\ Dequeued /\ Clean /\ Reading
            /\ \E q \in Seq(Threads) : Chain(q) /\ Headed(q)

\* The thread that a waker wakes sleeps.
LEMMA OldHeads ==
  ASSUME IInv, Dequeued, NEW u \in Threads, Waking(u) \/ pc[u] = "wakeUnlock"
  PROVE  oldHead[u] \in Threads /\ pc[oldHead[u]] \in {"park", "parked", "waiting"}
<1>1. oldHead[u] \in Threads BY DEF Waking, IInv, Knowledge, TypeOK
<1>2. pc[oldHead[u]] \in {"park", "parked", "waiting"} BY DEF Dequeued, Asleep
<1> QED BY <1>1, <1>2

\* A step that keeps the members of the queue and the links keeps the chain.
LEMMA ChainKept ==
  ASSUME NEW q \in Seq(Threads), Chain(q), Headed(q), UNCHANGED <<next, tail>>,
         word'.head = word.head,
         \A v \in Threads : /\ In(v)' <=> In(v)
                            /\ pc'[v] = "publish" <=> pc[v] = "publish"
                            /\ pc'[v] = "release" => pc[v] = "release"
  PROVE  Chain(q)' /\ Headed(q)'
<1>1. Chain(q)' BY DEF Chain
<1>2. Headed(q)' BY DEF Headed
<1> QED BY <1>1, <1>2

\* Labels at which a thread neither is in the queue nor holds on to an old head, and
\* has not read the head.
Away == {"outside", "fast", "slow", "tryLock", "spin", "lockQueue", "enqueue", "critical",
         "unlock", "tryUnlock", "dequeue"}

\* A thread that stays away from the queue.
LEMMA AwayKeeps ==
  ASSUME NEW t \in Threads, Queueing, IInv, TypeOK',
         UNCHANGED <<next, tail, shouldPark, parkingLock, oldHead>>, word'.head = word.head,
         \A u \in Threads \ {t} : /\ pc'[u] = pc[u] /\ read'[u] = read[u]
                                  /\ u \in alive => u \in alive',
         pc[t] \in Away, pc'[t] \in Away,
         pc'[t] = "enqueue" => read'[t].head = word.head,
         pc'[t] \in {"lockQueue", "enqueue"} => t \in alive'
  PROVE  Queueing'
<1> USE DEF Queueing, Away
<1>1. \A v \in Threads : /\ In(v)' <=> In(v)
                         /\ pc'[v] = "publish" <=> pc[v] = "publish"
                         /\ pc'[v] = "release" => pc[v] = "release"
  BY DEF In, Asleep, Waking
<1>2. Living' BY DEF Living
<1>3. Parking' BY DEF Parking
<1>4. Dequeued'
  <2>1. \A u \in Threads : Waking(u)' <=> Waking(u) BY DEF Waking
  <2>2. \A u \in Threads :
          Waking(u) \/ pc[u] = "wakeUnlock" => oldHead[u] \in Threads /\ oldHead[u] # t
    BY OldHeads
  <2>3. \A u \in Threads : Waking(u) => Asleep(oldHead[u])'
    BY <2>2 DEF Dequeued, Asleep
  <2>4. \A u \in Threads :
          pc'[u] = "wakeUnlock" => pc'[oldHead[u]] = "park" /\ ~shouldPark[oldHead[u]]
    BY <2>2 DEF Dequeued
  <2>5. \A u \in Threads : pc'[u] = "publish" => shouldPark[u] BY DEF Dequeued
  <2> QED BY <2>1, <2>3, <2>4, <2>5 DEF Dequeued
<1>5. Clean' BY <1>1 DEF Clean
<1>6. Reading' BY DEF Reading
<1>7. \E q \in Seq(Threads) : Chain(q)' /\ Headed(q)'
  <2> PICK q \in Seq(Threads) : Chain(q) /\ Headed(q) OBVIOUS
  <2> QED BY <1>1, ChainKept
<1> QED BY <1>2, <1>3, <1>4, <1>5, <1>6, <1>7

\* The steps that stay away from it: they change the word's bits at most.
LEMMA AwaySteps ==
  ASSUME NEW t \in Threads, IInv, TypeOK', Queueing,
         \/ Call(t) \/ LockFast(t) \/ LockLoad(t) \/ LockExchange(t) \/ LockExchangeFails(t)
         \/ Spin(t) \/ LockQueue(t) \/ LockQueueFails(t)
         \/ UnlockFast(t) \/ UnlockLoad(t) \/ UnlockExchange(t) \/ UnlockQueue(t)
         \/ UnlockFails(t)
  PROVE  Queueing'
<1> USE DEF Away
<1>0. TypeOK BY DEF IInv
<1>1. CASE Call(t) \/ LockExchangeFails(t) \/ UnlockFails(t)
  BY <1>1, <1>0, AwayKeeps DEF Call, LockExchangeFails, UnlockFails, TypeOK
<1>2. CASE LockFast(t) BY <1>2, <1>0, AwayKeeps DEF LockFast, TypeOK
<1>3. CASE LockLoad(t) \/ UnlockLoad(t) BY <1>3, <1>0, AwayKeeps DEF LockLoad, UnlockLoad, TypeOK
<1>4. CASE LockExchange(t) BY <1>4, <1>0, AwayKeeps DEF LockExchange, TypeOK
<1>5. CASE Spin(t) BY <1>5, <1>0, AwayKeeps DEF Spin, TypeOK
<1>6. CASE LockQueue(t)
  <2>1. t \in alive BY <1>6 DEF LockQueue, Queueing, Living
  <2> QED BY <1>6, <2>1, <1>0, AwayKeeps DEF LockQueue, TypeOK
<1>7. CASE LockQueueFails(t) BY <1>7, <1>0, AwayKeeps DEF LockQueueFails, TypeOK
<1>8. CASE UnlockFast(t) BY <1>8, <1>0, AwayKeeps DEF UnlockFast, TypeOK
<1>9. CASE UnlockExchange(t) BY <1>9, <1>0, AwayKeeps DEF UnlockExchange, TypeOK
<1>10. CASE UnlockQueue(t) BY <1>10, <1>0, AwayKeeps DEF UnlockQueue, TypeOK
<1> QED BY <1>1, <1>2, <1>3, <1>4, <1>5, <1>6, <1>7, <1>8, <1>9, <1>10

\* A sleeping thread goes from one stage of its sleep to the next, and its parkingLock
\* keeps its waker out or the other way around.
LEMMA SleepSteps ==
  ASSUME NEW t \in Threads, IInv, TypeOK', Queueing,
         Park(t) \/ Wait(t) \/ SpuriousWakeup(t)
  PROVE  Queueing'
<1> USE DEF Queueing
<1>1. /\ pc[t] \in {"park", "parked", "waiting"} /\ pc'[t] \in {"park", "parked", "waiting"}
      /\ \A u \in Threads \ {t} : pc'[u] = pc[u]
      /\ UNCHANGED <<word, next, tail, shouldPark, alive, read, oldHead>>
      /\ \A u \in Threads \ {t} : parkingLock'[u] = parkingLock[u]
  BY DEF Park, Wait, SpuriousWakeup, IInv, TypeOK
<1>2. \A u \in Threads : Asleep(u)' <=> Asleep(u) BY <1>1 DEF Asleep
<1>3. \A u \in Threads : Waking(u)' <=> Waking(u) BY <1>1 DEF Waking
<1>4. \A v \in Threads : /\ In(v)' <=> In(v)
                         /\ pc'[v] = "publish" <=> pc[v] = "publish"
                         /\ pc'[v] = "release" => pc[v] = "release"
  BY <1>1, <1>2, <1>3 DEF In
<1>5. Living' BY <1>1 DEF Living
<1>6. ASSUME NEW u \in Threads, pc[u] = "wakeUnlock", oldHead[u] = t PROVE pc'[t] = "park"
  <2>1. pc[t] = "park" /\ parkingLock[t] # NoThread
    BY <1>6, WordLockConstants DEF Dequeued, Parking
  <2> QED BY <2>1 DEF Park, Wait, SpuriousWakeup
<1>7. Parking'
  <2>1. pc'[t] = "parked" => parkingLock'[t] = t
    BY DEF Park, Wait, SpuriousWakeup, Parking, IInv, TypeOK
  <2>2. \A u \in Threads : pc[u] \in {"wake", "wakeUnlock"} /\ oldHead[u] = t =>
          parkingLock'[t] = u
    BY WordLockConstants DEF Park, Wait, SpuriousWakeup, Parking, IInv, TypeOK
  <2>3. \A u \in Threads : pc[u] \in {"wake", "wakeUnlock"} =>
          oldHead[u] \in Threads
    BY OldHeads DEF Waking
  <2> QED BY <1>1, <2>1, <2>2, <2>3 DEF Parking
<1>8. Dequeued'
  <2>1. \A u \in Threads : pc'[u] = "publish" => shouldPark'[u] BY <1>1 DEF Dequeued
  <2>2. \A u \in Threads : Waking(u)' => Asleep(oldHead[u])'
    BY <1>1, <1>2, <1>3, OldHeads DEF Dequeued
  <2>3. \A u \in Threads : pc'[u] = "wakeUnlock" =>
          pc'[oldHead[u]] = "park" /\ ~shouldPark[oldHead[u]]
    BY <1>1, <1>6, OldHeads DEF Dequeued
  <2> QED BY <1>1, <1>3, <2>1, <2>2, <2>3 DEF Dequeued
<1>9. Clean' BY <1>1, <1>4 DEF Clean
<1>10. Reading' BY <1>1 DEF Reading
<1>11. \E q \in Seq(Threads) : Chain(q)' /\ Headed(q)'
  <2> PICK q \in Seq(Threads) : Chain(q) /\ Headed(q) OBVIOUS
  <2> QED BY <1>1, <1>4, ChainKept
<1> QED BY <1>5, <1>7, <1>8, <1>9, <1>10, <1>11

\* A thread leaves only after it has been dequeued and its waker has gone.
LEMMA UnparkStep ==
  ASSUME NEW t \in Threads, IInv, TypeOK', Queueing, Unpark(t)
  PROVE  Queueing'
<1> USE DEF Queueing
<1>1. /\ pc[t] = "parked" /\ ~shouldPark[t] /\ pc'[t] = "slow"
      /\ \A u \in Threads \ {t} : pc'[u] = pc[u] /\ parkingLock'[u] = parkingLock[u]
      /\ UNCHANGED <<word, next, tail, shouldPark, read, oldHead>>
      /\ \A u \in Threads \ {t} : u \in alive => u \in alive'
  BY DEF Unpark, IInv, TypeOK
<1>2. \A u \in Threads : Asleep(u)' <=> Asleep(u) BY <1>1 DEF Asleep
<1>3. \A u \in Threads : Waking(u)' <=> Waking(u) BY <1>1 DEF Waking
<1>4. \A v \in Threads : /\ In(v)' <=> In(v)
                         /\ pc'[v] = "publish" <=> pc[v] = "publish"
                         /\ pc'[v] = "release" => pc[v] = "release"
  BY <1>1, <1>2, <1>3 DEF In
<1>5. Living' BY <1>1 DEF Living
<1>6. \A u \in Threads : Waking(u) \/ pc[u] = "wakeUnlock" => oldHead[u] \in Threads \ {t}
  BY <1>1, OldHeads DEF Dequeued, Asleep
<1>7. Parking' BY <1>1, <1>6 DEF Parking, Waking
<1>8. Dequeued' BY <1>1, <1>2, <1>3, <1>6 DEF Dequeued
<1>9. Clean' BY <1>1, <1>4 DEF Clean
<1>10. Reading' BY <1>1 DEF Reading
<1>11. \E q \in Seq(Threads) : Chain(q)' /\ Headed(q)'
  <2> PICK q \in Seq(Threads) : Chain(q) /\ Headed(q) OBVIOUS
  <2> QED BY <1>1, <1>4, ChainKept
<1> QED BY <1>5, <1>7, <1>8, <1>9, <1>10, <1>11

\* A thread that edits the queue finds its head in the word, unless it is its own to be.
LEMMA HeadIsFirst ==
  ASSUME IInv, NEW q, Headed(q), NEW t \in Threads, pc[t] \in {"enqueue", "dequeue", "release"}
  PROVE  /\ \A u \in Threads : pc[u] # "publish"
         /\ q # <<>> /\ q[1] \in Threads => word.head = q[1]
<1>1. \A u \in Threads : pc[u] # "publish" BY DEF IInv, Ownership
<1> QED BY <1>1 DEF Headed

\* A chain that a thread has been appended to.
LEMMA AppendKeepsChain ==
  ASSUME TypeOK, NEW q \in Seq(Threads), Chain(q), NEW t \in Threads, ~In(t), next[t] = NoThread,
         \A v \in Threads : In(v)' <=> In(v) \/ v = t,
         IF q = <<>> THEN next' = next /\ tail'[t] = t
         ELSE next' = [next EXCEPT ![tail[q[1]]] = t] /\ tail'[q[1]] = t
  PROVE  Chain(Append(q, t))'
<1> DEFINE r == Append(q, t)
<1>1. Len(r) = Len(q) + 1 /\ r[Len(r)] = t /\ \A i \in 1 .. Len(q) : r[i] = q[i] /\ q[i] \in Threads
  OBVIOUS
<1>2. Len(q) \in Nat /\ r # <<>> /\ (q # <<>> => Len(q) > 0) /\ (q = <<>> => Len(q) = 0)
  OBVIOUS
<1>3. \A i \in 1 .. Len(q) : q[i] # t BY DEF Chain
<1> HIDE DEF r
<1>4. \A i, j \in 1 .. Len(r) : r[i] = r[j] => i = j
  <2> TAKE i, j \in 1 .. Len(r)
  <2>1. CASE i \in 1 .. Len(q) /\ j \in 1 .. Len(q) BY <1>1, <2>1 DEF Chain
  <2>2. CASE i = Len(r) \/ j = Len(r) BY <1>1, <1>2, <1>3, <2>2
  <2> QED BY <1>1, <1>2, <2>1, <2>2
<1>5. \A v \in Threads : In(v)' <=> \E i \in 1 .. Len(r) : r[i] = v
  <2> TAKE v \in Threads
  <2>1. In(v) <=> \E i \in 1 .. Len(q) : q[i] = v BY DEF Chain
  <2>2. (\E i \in 1 .. Len(r) : r[i] = v) <=> v = t \/ \E i \in 1 .. Len(q) : q[i] = v
    BY <1>1, <1>2
  <2> QED BY <2>1, <2>2
<1>6. \A i \in 1 .. Len(r) : next'[r[i]] = IF i < Len(r) THEN r[i + 1] ELSE NoThread
  <2>1. CASE q = <<>> BY <1>1, <1>2, <2>1
  <2>2. CASE q # <<>>
    <3>1. tail[q[1]] = q[Len(q)] BY <2>2 DEF Chain
    <3>2. next' = [next EXCEPT ![q[Len(q)]] = t] BY <2>2, <3>1
    <3>3. Len(q) \in 1 .. Len(q) BY <1>2, <2>2
    <3>4. next'[t] = NoThread BY <1>3, <3>2, <3>3 DEF TypeOK
    <3>5. next'[q[Len(q)]] = t BY <1>1, <3>2, <3>3 DEF TypeOK
    <3>6. ASSUME NEW i \in 1 .. Len(q), i # Len(q) PROVE next'[q[i]] = q[i + 1]
      <4>1. q[i] # q[Len(q)] BY <3>3, <3>6 DEF Chain
      <4>2. next[q[i]] = q[i + 1] BY <1>2, <3>6 DEF Chain
      <4> QED BY <1>1, <3>2, <4>1, <4>2 DEF TypeOK
    <3>7. \A i \in 1 .. Len(r) : i = Len(r) \/ i = Len(q) \/ (i \in 1 .. Len(q) /\ i # Len(q)) 
      BY <1>1, <1>2
    <3> TAKE i \in 1 .. Len(r)
    <3>8. CASE i = Len(r) BY <1>1, <3>4, <3>8
    <3>9. CASE i = Len(q) BY <1>1, <1>2, <3>3, <3>5, <3>9
    <3>10. CASE i \in 1 .. Len(q) /\ i # Len(q)
      <4>1. i < Len(r) /\ i + 1 \in 1 .. Len(q) BY <1>1, <1>2, <3>10
      <4> QED BY <1>1, <3>6, <3>10, <4>1
    <3> QED BY <3>7, <3>8, <3>9, <3>10
  <2> QED BY <2>1, <2>2
<1>7. tail'[r[1]] = r[Len(r)]
  <2>1. CASE q = <<>> BY <1>1, <1>2, <2>1
  <2>2. CASE q # <<>> BY <1>1, <1>2, <2>2
  <2> QED BY <2>1, <2>2
<1>8. Chain(r)' BY <1>4, <1>5, <1>6, <1>7 DEF Chain
<1> QED BY <1>8 DEF r

\* A thread queues itself behind the last one, which the head knows.
LEMMA EnqueueStep ==
  ASSUME NEW t \in Threads, IInv, TypeOK', Queueing, Enqueue(t)
  PROVE  Queueing'
<1> USE DEF Queueing
<1>1. /\ pc[t] = "enqueue" /\ pc'[t] = "publish" /\ shouldPark'[t] = TRUE /\ read'[t] = word
      /\ \A u \in Threads \ {t} : /\ pc'[u] = pc[u] /\ shouldPark'[u] = shouldPark[u]
                                  /\ read'[u] = read[u]
      /\ UNCHANGED <<word, parkingLock, alive, oldHead>>
  BY DEF Enqueue, IInv, TypeOK
<1>2. \A u \in Threads : Waking(u) \/ pc[u] = "wakeUnlock" => oldHead[u] \in Threads \ {t}
  BY <1>1, OldHeads
<1>3. \A u \in Threads : Waking(u)' <=> Waking(u) BY <1>1 DEF Waking
<1>4. ~In(t) BY <1>1 DEF In, Asleep
<1>5. \A v \in Threads : In(v)' <=> In(v) \/ v = t
  BY <1>1, <1>3 DEF In, Asleep
<1>6. next[t] = NoThread BY <1>2, <1>4 DEF Clean, Waking
<1> PICK q \in Seq(Threads) : Chain(q) /\ Headed(q) OBVIOUS
<1>7. q # <<>> => Len(q) \in 1 .. Len(q) /\ q[1] \in Threads /\ q[Len(q)] \in Threads OBVIOUS
<1>8. IF q = <<>> THEN read[t].head = NoThread
      ELSE read[t].head = q[1] /\ tail[q[1]] = q[Len(q)]
  BY <1>1, <1>7, HeadIsFirst DEF Reading, Headed, Chain
<1>9. IF q = <<>> THEN next' = next /\ tail'[t] = t
      ELSE next' = [next EXCEPT ![tail[q[1]]] = t] /\ tail'[q[1]] = t
  BY <1>7, <1>8, WordLockConstants DEF Enqueue, IInv, TypeOK
<1>10. Chain(Append(q, t))' BY <1>4, <1>5, <1>6, <1>9, AppendKeepsChain DEF IInv
<1>11. Headed(Append(q, t))'
  <2>1. \A u \in Threads : pc'[u] # "release" BY <1>1 DEF IInv, Ownership
  <2>2. Append(q, t) # <<>> /\ (q # <<>> => Append(q, t)[1] = q[1])
    <3>1. Append(q, t) # <<>> OBVIOUS
    <3>2. q # <<>> => 1 \in 1 .. Len(q) OBVIOUS
    <3> QED BY <3>1, <3>2
  <2>3. CASE q = <<>>
    <3>1. Len(Append(q, t)) = 1 /\ Append(q, t)[1] = t BY <2>3
    <3>2. word.head = NoThread BY <2>3 DEF Headed
    <3> QED BY <1>1, <2>1, <2>2, <3>1, <3>2 DEF Headed
  <2>4. CASE q # <<>>
    <3>1. word.head = q[1] BY <1>1, <1>7, <2>4, HeadIsFirst
    <3> QED BY <1>1, <2>1, <2>2, <2>4, <3>1 DEF Headed
  <2> QED BY <2>3, <2>4
<1>12. Append(q, t) \in Seq(Threads) OBVIOUS
<1>13. Living' BY <1>1 DEF Living
<1>14. Parking' BY <1>1 DEF Parking
<1>15. Dequeued' BY <1>1, <1>2, <1>3 DEF Dequeued, Asleep
<1>16. Clean'
  <2> SUFFICES ASSUME NEW v \in Threads, next'[v] # NoThread, ~In(v)'
               PROVE  \E u \in Threads : pc'[u] = "clear" /\ oldHead'[u] = v
    BY DEF Clean
  <2>1. ~In(v) /\ v # t BY <1>5
  <2>2. q # <<>> => v # q[Len(q)] BY <1>7, <2>1 DEF Chain
  <2>3. next'[v] = next[v] BY <1>7, <1>8, <1>9, <2>2 DEF IInv, TypeOK
  <2> QED BY <1>1, <2>1, <2>3 DEF Clean
<1>17. Reading' BY <1>1 DEF Reading, IInv, Ownership
<1> QED BY <1>10, <1>11, <1>12, <1>13, <1>14, <1>15, <1>16, <1>17

\* The store that gives the queue back also publishes its first thread.
LEMMA PublishStep ==
  ASSUME NEW t \in Threads, IInv, TypeOK', Queueing, Publish(t)
  PROVE  Queueing'
<1> USE DEF Queueing
<1>1. /\ pc[t] = "publish" /\ pc'[t] = "park" /\ shouldPark[t]
      /\ \A u \in Threads \ {t} : pc'[u] = pc[u] /\ pc[u] \notin {"enqueue", "publish", "release"}
      /\ UNCHANGED <<next, tail, shouldPark, parkingLock, alive, read, oldHead>>
      /\ word'.head = IF word.head = NoThread THEN t ELSE word.head
  BY DEF Publish, IInv, TypeOK, Ownership, Dequeued, Reading
<1>2. \A u \in Threads : Waking(u) \/ pc[u] = "wakeUnlock" => oldHead[u] \in Threads \ {t}
  BY <1>1, OldHeads
<1>3. \A u \in Threads : Waking(u)' <=> Waking(u) BY <1>1 DEF Waking
<1>4. \A v \in Threads : In(v)' <=> In(v)
  BY <1>1, <1>2, <1>3 DEF In, Asleep
<1> PICK q \in Seq(Threads) : Chain(q) /\ Headed(q) OBVIOUS
<1>5. Chain(q)' BY <1>1, <1>4 DEF Chain
<1>6. Headed(q)'
  <2>1. PICK i \in 1 .. Len(q) : q[i] = t BY <1>1 DEF Chain, In
  <2>2. Len(q) = 1 => q[1] = t BY <2>1
  <2>3. q # <<>> /\ q[1] \in Threads BY <2>1
  <2>4. word'.head = q[1] BY <1>1, <2>2, <2>3, WordLockConstants DEF Headed
  <2>5. \A u \in Threads : pc'[u] # "release" BY <1>1
  <2> QED BY <2>3, <2>4, <2>5 DEF Headed
<1>7. Living' BY <1>1 DEF Living
<1>8. Parking' BY <1>1 DEF Parking
<1>9. Dequeued' BY <1>1, <1>2, <1>3 DEF Dequeued, Asleep
<1>10. Clean' BY <1>1, <1>4 DEF Clean
<1>11. Reading' BY <1>1 DEF Reading
<1> QED BY <1>5, <1>6, <1>7, <1>8, <1>9, <1>10, <1>11

\* The second thread in the queue learns its tail before it becomes the first.
LEMMA DequeueStep ==
  ASSUME NEW t \in Threads, IInv, TypeOK', Queueing, Dequeue(t)
  PROVE  Queueing'
<1> USE DEF Queueing
<1>1. /\ pc[t] = "dequeue" /\ pc'[t] = "release" /\ oldHead'[t] = word.head
      /\ \A u \in Threads \ {t} : /\ pc'[u] = pc[u] /\ oldHead'[u] = oldHead[u]
                                  /\ read'[u] = read[u]
                                  /\ pc[u] \notin {"enqueue", "publish", "release"}
      /\ UNCHANGED <<word, next, shouldPark, parkingLock, alive>>
  BY DEF Dequeue, IInv, TypeOK, Ownership
<1>2. \A u \in Threads : Waking(u) \/ pc[u] = "wakeUnlock" =>
        oldHead[u] \in Threads /\ oldHead[u] # t /\ u # t
  BY <1>1, OldHeads DEF Waking
<1>3. \A u \in Threads : /\ Waking(u)' <=> Waking(u)
                         /\ Waking(u) => oldHead'[u] = oldHead[u]
                         /\ Asleep(u)' <=> Asleep(u)
  BY <1>1 DEF Waking, Asleep
<1>4. \A v \in Threads : In(v)' <=> In(v) BY <1>1, <1>3 DEF In
<1> PICK q \in Seq(Threads) : Chain(q) /\ Headed(q) OBVIOUS
<1>5. q # <<>> BY <1>1 DEF IInv, Knowledge, Headed
<1>6. Len(q) \in Nat /\ 1 \in 1 .. Len(q) /\ q[1] \in Threads BY <1>5
<1>7. word.head = q[1] /\ tail[q[1]] = q[Len(q)] BY <1>1, <1>5, <1>6, HeadIsFirst DEF Chain
<1>8. next[q[1]] = IF 1 < Len(q) THEN q[2] ELSE NoThread BY <1>6 DEF Chain
<1>9. Len(q) > 1 => /\ 2 \in 1 .. Len(q) /\ q[2] \in Threads /\ q[2] # q[1]
                    /\ tail' = [tail EXCEPT ![q[2]] = q[Len(q)]]
  <2> SUFFICES ASSUME Len(q) > 1
               PROVE  /\ 2 \in 1 .. Len(q) /\ q[2] \in Threads /\ q[2] # q[1]
                      /\ tail' = [tail EXCEPT ![q[2]] = q[Len(q)]]
    OBVIOUS
  <2>1. 2 \in 1 .. Len(q) /\ q[2] \in Threads BY <1>6
  <2>2. q[2] # q[1] BY <1>6, <2>1 DEF Chain
  <2>3. next[word.head] = q[2] /\ q[2] # NoThread BY <1>7, <1>8, <2>1, WordLockConstants
  <2> QED BY <1>7, <2>1, <2>2, <2>3 DEF Dequeue
<1>10. ~(Len(q) > 1) => tail' = tail BY <1>6, <1>7, <1>8 DEF Dequeue
<1>11. tail'[q[1]] = tail[q[1]] BY <1>6, <1>9, <1>10 DEF IInv, TypeOK
<1>12. Len(q) > 1 => tail'[q[2]] = q[Len(q)] BY <1>9 DEF IInv, TypeOK
<1>13. Chain(q)' BY <1>1, <1>4, <1>11 DEF Chain
<1>14. Headed(q)' BY <1>1, <1>5, <1>7, <1>12 DEF Headed
<1>15. Living' BY <1>1 DEF Living
<1>16. Parking' BY <1>1 DEF Parking
<1>17. Dequeued' BY <1>1, <1>2, <1>3 DEF Dequeued
<1>18. Clean' BY <1>1, <1>4 DEF Clean
<1>19. Reading' BY <1>1 DEF Reading
<1> QED BY <1>13, <1>14, <1>15, <1>16, <1>17, <1>18, <1>19

\* A chain without its first thread.
LEMMA TailKeepsChain ==
  ASSUME NEW q \in Seq(Threads), q # <<>>, Chain(q), UNCHANGED <<next, tail>>,
         Len(q) > 1 => tail[q[2]] = q[Len(q)],
         \A v \in Threads : In(v)' <=> In(v) /\ v # q[1]
  PROVE  Chain(Tail(q))'
<1> DEFINE r == Tail(q)
<1>1. /\ Len(r) = Len(q) - 1 /\ Len(q) \in Nat /\ Len(q) >= 1
      /\ \A i \in 1 .. Len(r) : r[i] = q[i + 1]
      /\ r # <<>> <=> Len(q) > 1
  <2>1. Len(r) = Len(q) - 1 /\ Len(q) \in Nat /\ Len(q) >= 1 OBVIOUS
  <2>2. \A i \in 1 .. Len(r) : r[i] = q[i + 1] OBVIOUS
  <2>3. r \in Seq(Threads) OBVIOUS
  <2>4. r = <<>> <=> Len(r) = 0
    <3> HIDE DEF r
    <3> QED BY <2>3
  <2> HIDE DEF r
  <2> QED BY <2>1, <2>2, <2>4
<1> HIDE DEF r
<1>2. \A i, j \in 1 .. Len(r) : r[i] = r[j] => i = j
  <2> TAKE i, j \in 1 .. Len(r)
  <2>1. i + 1 \in 1 .. Len(q) /\ j + 1 \in 1 .. Len(q) BY <1>1
  <2>2. q[i + 1] = q[j + 1] => i + 1 = j + 1 BY <2>1 DEF Chain
  <2> QED BY <1>1, <2>2
<1>3. \A v \in Threads : In(v)' <=> \E i \in 1 .. Len(r) : r[i] = v
  <2> TAKE v \in Threads
  <2>1. In(v) <=> \E i \in 1 .. Len(q) : q[i] = v BY DEF Chain
  <2>2. ASSUME NEW i \in 1 .. Len(q), q[i] = v, v # q[1] PROVE \E j \in 1 .. Len(r) : r[j] = v
    <3>1. i - 1 \in 1 .. Len(r) /\ (i - 1) + 1 = i BY <1>1, <2>2
    <3> QED BY <1>1, <2>2, <3>1
  <2>3. ASSUME NEW j \in 1 .. Len(r), r[j] = v PROVE v # q[1] /\ \E i \in 1 .. Len(q) : q[i] = v
    <3>1. j + 1 \in 1 .. Len(q) /\ 1 \in 1 .. Len(q) /\ j + 1 # 1 BY <1>1
    <3>2. q[j + 1] = v BY <1>1, <2>3
    <3>3. q[j + 1] # q[1] BY <3>1 DEF Chain
    <3> QED BY <3>1, <3>2, <3>3
  <2> QED BY <2>1, <2>2, <2>3
<1>4. \A i \in 1 .. Len(r) : next[r[i]] = IF i < Len(r) THEN r[i + 1] ELSE NoThread
  <2> TAKE i \in 1 .. Len(r)
  <2>1. i + 1 \in 1 .. Len(q) /\ r[i] = q[i + 1] /\ (i < Len(r) <=> i + 1 < Len(q)) BY <1>1
  <2>2. next[q[i + 1]] = IF i + 1 < Len(q) THEN q[(i + 1) + 1] ELSE NoThread BY <2>1 DEF Chain
  <2>3. i < Len(r) => i + 1 \in 1 .. Len(r) BY <1>1
  <2> QED BY <1>1, <2>1, <2>2, <2>3
<1>5. r # <<>> => tail[r[1]] = r[Len(r)]
  <2>1. r # <<>> => /\ 1 \in 1 .. Len(r) /\ Len(r) \in 1 .. Len(r) /\ 1 + 1 = 2
                    /\ Len(r) + 1 = Len(q)
    BY <1>1
  <2> QED BY <1>1, <2>1
<1>6. Chain(r)' BY <1>2, <1>3, <1>4, <1>5 DEF Chain
<1> QED BY <1>6 DEF r

\* The store that releases the lock takes the first thread out of the queue; it sleeps,
\* and only its waker can end that.
LEMMA ReleaseStep ==
  ASSUME NEW t \in Threads, IInv, TypeOK', Queueing, Release(t)
  PROVE  Queueing'
<1> USE DEF Queueing
<1>1. /\ pc[t] = "release" /\ pc'[t] = "clear" /\ word'.head = next[word.head]
      /\ oldHead[t] = word.head
      /\ \A u \in Threads \ {t} : /\ pc'[u] = pc[u]
                                  /\ pc[u] \notin {"enqueue", "publish", "release"}
      /\ UNCHANGED <<next, tail, shouldPark, parkingLock, alive, read, oldHead>>
  BY DEF Release, IInv, TypeOK, Ownership, Reading
<1> PICK q \in Seq(Threads) : Chain(q) /\ Headed(q) OBVIOUS
<1>2. q # <<>> BY <1>1, WordLockConstants DEF IInv, TypeOK, Knowledge, Headed
<1>3. Len(q) \in Nat /\ Len(q) >= 1 /\ 1 \in 1 .. Len(q) /\ q[1] \in Threads BY <1>2
<1>4. word.head = q[1] BY <1>1, <1>2, <1>3, HeadIsFirst
<1>5. next[q[1]] = IF 1 < Len(q) THEN q[2] ELSE NoThread BY <1>3 DEF Chain
<1>6. In(q[1]) BY <1>3 DEF Chain
<1>7. /\ Asleep(q[1]) /\ q[1] # t
      /\ \A u \in Threads : Waking(u) => oldHead[u] # q[1]
  BY <1>1, <1>3, <1>6 DEF In, Asleep
<1>8. \A u \in Threads : /\ Waking(u)' <=> Waking(u) \/ u = t
                         /\ Asleep(u)' <=> Asleep(u)
  BY <1>1 DEF Waking, Asleep
<1>9. \A u \in Threads : Waking(u) \/ pc[u] = "wakeUnlock" =>
        oldHead[u] \in Threads /\ oldHead[u] # t /\ u # t
  BY <1>1, OldHeads DEF Waking
<1>10. \A v \in Threads : In(v)' <=> In(v) /\ v # q[1]
  BY <1>1, <1>4, <1>8 DEF In, Asleep
<1>11. Chain(Tail(q))' BY <1>1, <1>2, <1>10, TailKeepsChain DEF Headed
<1>12. Tail(q) \in Seq(Threads) BY <1>2
<1>13. Headed(Tail(q))'
  <2>1. Tail(q) = <<>> <=> ~(1 < Len(q)) BY <1>2, <1>3
  <2>2. Tail(q) # <<>> => Tail(q)[1] = q[2] BY <1>2, <1>3
  <2>3. \A u \in Threads : pc'[u] # "release" BY <1>1
  <2> QED BY <1>1, <1>4, <1>5, <2>1, <2>2, <2>3 DEF Headed
<1>14. Living' BY <1>1 DEF Living
<1>15. Parking' BY <1>1 DEF Parking
<1>16. Dequeued'
  <2>1. \A u \in Threads : pc'[u] = "publish" => shouldPark'[u] BY <1>1
  <2>2. \A u \in Threads : Waking(u)' => Asleep(oldHead[u])'
    BY <1>1, <1>4, <1>7, <1>8, <1>9, <1>3 DEF Dequeued
  <2>3. \A u \in Threads : pc'[u] = "wakeUnlock" =>
          pc'[oldHead[u]] = "park" /\ ~shouldPark[oldHead[u]]
    BY <1>1, <1>9 DEF Dequeued
  <2>4. \A u, v \in Threads : Waking(u)' /\ Waking(v)' /\ oldHead[u] = oldHead[v] => u = v
    BY <1>1, <1>4, <1>7, <1>8 DEF Dequeued
  <2> QED BY <1>1, <2>1, <2>2, <2>3, <2>4 DEF Dequeued
<1>17. Clean'
  <2> SUFFICES ASSUME NEW v \in Threads, next'[v] # NoThread, ~In(v)'
               PROVE  \E u \in Threads : pc'[u] = "clear" /\ oldHead'[u] = v
    BY DEF Clean
  <2>1. CASE v = q[1] BY <1>1, <1>4, <2>1
  <2>2. CASE v # q[1]
    <3>1. PICK u \in Threads : pc[u] = "clear" /\ oldHead[u] = v BY <1>1, <1>10, <2>2 DEF Clean
    <3>2. pc'[u] = "clear" /\ oldHead'[u] = v BY <1>1, <3>1
    <3> QED BY <3>2
  <2> QED BY <2>1, <2>2
<1>18. Reading' BY <1>1 DEF Reading
<1> QED BY <1>11, <1>12, <1>13, <1>14, <1>15, <1>16, <1>17, <1>18

\* The old head's node is cleared after it has left the queue.
LEMMA ClearStep ==
  ASSUME NEW t \in Threads, IInv, TypeOK', Queueing, Clear(t)
  PROVE  Queueing'
<1> USE DEF Queueing
<1> DEFINE h == oldHead[t]
<1>1. /\ pc[t] = "clear" /\ pc'[t] = "wakeLock"
      /\ \A u \in Threads \ {t} : pc'[u] = pc[u]
      /\ UNCHANGED <<word, shouldPark, parkingLock, alive, read, oldHead>>
      /\ next' = [next EXCEPT ![h] = NoThread] /\ tail' = [tail EXCEPT ![h] = NoThread]
  BY DEF Clear, IInv, TypeOK
<1>2. h \in Threads /\ pc[h] \in {"park", "parked", "waiting"}
  BY <1>1, OldHeads DEF Waking
<1> HIDE DEF h
<1>3. /\ next'[h] = NoThread /\ \A v \in Threads \ {h} : next'[v] = next[v] /\ tail'[v] = tail[v]
  BY <1>1, <1>2 DEF IInv, TypeOK
<1>4. \A u \in Threads : /\ Waking(u)' <=> Waking(u)
                         /\ Asleep(u)' <=> Asleep(u)
  BY <1>1 DEF Waking, Asleep
<1>5. \A u \in Threads : Waking(u) \/ pc[u] = "wakeUnlock" =>
        oldHead[u] \in Threads /\ oldHead[u] # t
  BY <1>1, OldHeads DEF Waking
<1>6. \A v \in Threads : In(v)' <=> In(v)
  BY <1>1, <1>4 DEF In
<1>7. ~In(h) BY <1>1, <1>2 DEF In, h, Waking
<1> PICK q \in Seq(Threads) : Chain(q) /\ Headed(q) OBVIOUS
<1>8. \A i \in 1 .. Len(q) : q[i] \in Threads \ {h} BY <1>7 DEF Chain
<1>9. Chain(q)'
  <2>1. \A i \in 1 .. Len(q) : next'[q[i]] = IF i < Len(q) THEN q[i + 1] ELSE NoThread
    BY <1>3, <1>8 DEF Chain
  <2>2. q # <<>> => tail'[q[1]] = q[Len(q)]
    <3>1. q # <<>> => 1 \in 1 .. Len(q) OBVIOUS
    <3> QED BY <1>3, <1>8, <3>1 DEF Chain
  <2> QED BY <1>6, <2>1, <2>2 DEF Chain
<1>10. Headed(q)'
  <2>1. Len(q) > 1 => tail'[q[2]] = tail[q[2]]
    <3>1. Len(q) > 1 => 2 \in 1 .. Len(q) OBVIOUS
    <3> QED BY <1>3, <1>8, <3>1
  <2>2. q # <<>> => pc'[q[1]] = "publish" \/ pc[q[1]] # "publish"
    <3>1. q # <<>> => 1 \in 1 .. Len(q) OBVIOUS
    <3> QED BY <1>1, <1>8, <3>1
  <2> QED BY <1>1, <2>1, <2>2 DEF Headed
<1>11. Living' BY <1>1 DEF Living
<1>12. Parking' BY <1>1 DEF Parking
<1>13. Dequeued' BY <1>1, <1>4, <1>5 DEF Dequeued
<1>14. Clean'
  <2> SUFFICES ASSUME NEW v \in Threads, next'[v] # NoThread, ~In(v)'
               PROVE  \E u \in Threads : pc'[u] = "clear" /\ oldHead'[u] = v
    BY DEF Clean
  <2>1. v # h /\ next[v] # NoThread BY <1>3
  <2>2. PICK u \in Threads : pc[u] = "clear" /\ oldHead[u] = v BY <1>6, <2>1 DEF Clean
  <2>3. u # t BY <2>1, <2>2 DEF h
  <2> QED BY <1>1, <2>2, <2>3
<1>15. Reading' BY <1>1 DEF Reading
<1> QED BY <1>9, <1>10, <1>11, <1>12, <1>13, <1>14, <1>15

\* The waker takes the parkingLock of the thread it wakes, and gives it back.
LEMMA WakeLockSteps ==
  ASSUME NEW t \in Threads, IInv, TypeOK', Queueing, WakeLock(t) \/ WakeUnlock(t)
  PROVE  Queueing'
<1> USE DEF Queueing
<1> DEFINE h == oldHead[t]
<1>1. /\ \/ pc[t] = "wakeLock" /\ pc'[t] = "wake" /\ oldHead'[t] = h /\ parkingLock[h] = NoThread
         \/ pc[t] = "wakeUnlock" /\ pc'[t] = "outside"
      /\ \A u \in Threads \ {t} : pc'[u] = pc[u] /\ oldHead'[u] = oldHead[u]
      /\ UNCHANGED <<word, next, tail, shouldPark, alive, read>>
      /\ parkingLock' = [parkingLock EXCEPT ![h] = IF pc[t] = "wakeLock" THEN t ELSE NoThread]
  BY DEF WakeLock, WakeUnlock, IInv, TypeOK
<1>2. h \in Threads /\ pc[h] \in {"park", "parked", "waiting"} /\ h # t
  BY <1>1, OldHeads DEF Waking
<1>3. \A u \in Threads : /\ Waking(u)' <=> Waking(u)
                         /\ Asleep(u)' <=> Asleep(u)
                         /\ Waking(u) => oldHead'[u] = oldHead[u]
  BY <1>1 DEF Waking, Asleep, h
<1>4. \A u \in Threads : Waking(u) \/ pc[u] = "wakeUnlock" =>
        oldHead[u] \in Threads /\ oldHead[u] # t
  BY <1>1, OldHeads DEF Waking
<1> HIDE DEF h
<1>5. \A v \in Threads : /\ In(v)' <=> In(v)
                         /\ pc'[v] = "publish" <=> pc[v] = "publish"
                         /\ pc'[v] = "release" => pc[v] = "release"
  BY <1>1, <1>3 DEF In
<1>6. \A u \in Threads \ {t} : pc[u] \in {"wake", "wakeUnlock"} => oldHead[u] # h
  <2> SUFFICES ASSUME NEW u \in Threads \ {t}, pc[u] \in {"wake", "wakeUnlock"}, oldHead[u] = h
               PROVE  FALSE
    OBVIOUS
  <2>1. parkingLock[h] = u BY DEF Parking
  <2>2. pc[t] # "wakeLock" BY <1>1, <2>1, WordLockConstants
  <2>3. parkingLock[h] = t BY <1>1, <2>2 DEF Parking, h
  <2> QED BY <2>1, <2>3
<1>7. /\ \A v \in Threads \ {h} : parkingLock'[v] = parkingLock[v]
      /\ parkingLock'[h] = IF pc[t] = "wakeLock" THEN t ELSE NoThread
  BY <1>1, <1>2 DEF IInv, TypeOK
<1>8. pc[h] # "parked"
  <2> SUFFICES ASSUME pc[h] = "parked" PROVE FALSE OBVIOUS
  <2>1. parkingLock[h] = h BY <1>2 DEF Parking
  <2>2. pc[t] = "wakeUnlock" BY <1>1, <1>2, <2>1, WordLockConstants
  <2>3. parkingLock[h] = t BY <2>2 DEF Parking, h
  <2> QED BY <1>2, <2>1, <2>3
<1>9. Living' BY <1>1 DEF Living
<1>10. Parking'
  <2>1. \A v \in Threads : pc'[v] = "parked" => parkingLock'[v] = v
    BY <1>1, <1>7, <1>8 DEF Parking
  <2>2. ASSUME NEW u \in Threads, pc'[u] \in {"wake", "wakeUnlock"}
        PROVE  parkingLock'[oldHead'[u]] = u
    <3>1. CASE u = t BY <1>1, <1>7, <2>2, <3>1
    <3>2. CASE u # t
      <4>1. pc[u] \in {"wake", "wakeUnlock"} /\ oldHead'[u] = oldHead[u] BY <1>1, <2>2, <3>2
      <4>2. oldHead[u] \in Threads \ {h} BY <1>4, <1>6, <3>2, <4>1 DEF Waking
      <4> QED BY <1>7, <4>1, <4>2 DEF Parking
    <3> QED BY <3>1, <3>2
  <2> QED BY <2>1, <2>2 DEF Parking
<1>11. Dequeued'
  <2>1. \A u \in Threads : pc'[u] = "wakeUnlock" => pc[u] = "wakeUnlock" /\ oldHead'[u] = oldHead[u]
    BY <1>1
  <2> QED BY <1>1, <1>3, <1>4, <2>1 DEF Dequeued
<1>12. Clean'
  <2>1. \A u \in Threads : pc[u] = "clear" => pc'[u] = "clear" /\ oldHead'[u] = oldHead[u]
    BY <1>1
  <2> QED BY <1>1, <1>5, <2>1 DEF Clean
<1>13. Reading'
  <2>1. \A u \in Threads : pc'[u] \in {"enqueue", "publish", "release"} =>
          pc'[u] = pc[u] /\ oldHead'[u] = oldHead[u]
    BY <1>1
  <2> QED BY <1>1, <2>1 DEF Reading
<1>14. \E q \in Seq(Threads) : Chain(q)' /\ Headed(q)'
  <2> PICK q \in Seq(Threads) : Chain(q) /\ Headed(q) OBVIOUS
  <2> QED BY <1>1, <1>5, ChainKept
<1> QED BY <1>9, <1>10, <1>11, <1>12, <1>13, <1>14

\* The notification finds the thread before its test of shouldPark or in wait().
LEMMA WakeStep ==
  ASSUME NEW t \in Threads, IInv, TypeOK', Queueing, Wake(t)
  PROVE  Queueing'
<1> USE DEF Queueing
<1> DEFINE h == oldHead[t]
<1>1. /\ pc[t] = "wake" /\ shouldPark' = [shouldPark EXCEPT ![h] = FALSE]
      /\ pc' = [u \in Threads |-> IF u = t THEN "wakeUnlock"
                                  ELSE IF u = h /\ pc[u] = "waiting" THEN "park" ELSE pc[u]]
      /\ UNCHANGED <<word, next, tail, parkingLock, alive, read, oldHead>>
  BY DEF Wake
<1>2. h \in Threads /\ pc[h] \in {"park", "parked", "waiting"} /\ h # t /\ parkingLock[h] = t
  BY <1>1, OldHeads DEF Waking, Parking
<1> HIDE DEF h
<1>3. pc[h] # "parked" BY <1>2 DEF Parking
<1>4. /\ pc'[t] = "wakeUnlock" /\ pc'[h] = "park" /\ ~shouldPark'[h]
      /\ \A u \in Threads \ {t, h} : pc'[u] = pc[u] /\ shouldPark'[u] = shouldPark[u]
  BY <1>1, <1>2, <1>3 DEF IInv, TypeOK
<1>5. \A u \in Threads : /\ Waking(u)' <=> Waking(u) /\ u # t
                         /\ Asleep(u)' <=> Asleep(u) /\ u # h
  BY <1>1, <1>2, <1>4 DEF Waking, Asleep
<1>6. \A u \in Threads : Waking(u) \/ pc[u] = "wakeUnlock" => oldHead[u] \in Threads \ {t}
  BY <1>1, OldHeads DEF Waking
<1>7. ~In(h) BY <1>1, <1>2 DEF In, h, Waking
<1>8. \A v \in Threads : In(v)' <=> In(v)
  <2> TAKE v \in Threads
  <2>1. CASE v = h BY <1>4, <1>5, <1>7, <2>1 DEF In
  <2>2. CASE v # h
    <3>1. \A u \in Threads : oldHead[u] = v /\ Waking(u) <=> oldHead'[u] = v /\ Waking(u)'
      BY <1>1, <1>5, <2>2 DEF h
    <3>2. pc'[v] = "publish" <=> pc[v] = "publish" BY <1>1, <1>4, <2>2
    <3> QED BY <1>5, <2>2, <3>1, <3>2 DEF In
  <2> QED BY <2>1, <2>2
<1>9. \A v \in Threads : /\ pc'[v] = "publish" <=> pc[v] = "publish"
                         /\ pc'[v] = "release" => pc[v] = "release"
  BY <1>1, <1>2, <1>4
<1>10. Living' BY <1>1, <1>2, <1>4 DEF Living
<1>11. Parking'
  <2>1. \A v \in Threads : pc'[v] = "parked" => pc[v] = "parked" BY <1>4
  <2>2. \A v \in Threads : pc'[v] \in {"wake", "wakeUnlock"} => pc[v] \in {"wake", "wakeUnlock"}
    BY <1>1, <1>4
  <2> QED BY <1>1, <2>1, <2>2 DEF Parking
<1>12. Dequeued'
  <2>1. \A u \in Threads : pc'[u] = "publish" => shouldPark'[u]
    BY <1>4 DEF Dequeued
  <2>2. ASSUME NEW u \in Threads, Waking(u)' PROVE Asleep(oldHead[u])'
    <3>1. Waking(u) /\ u # t BY <1>5, <2>2
    <3>2. oldHead[u] # h BY <1>1, <3>1 DEF Dequeued, h, Waking
    <3> QED BY <1>1, <1>5, <1>6, <3>1, <3>2 DEF Dequeued
  <2>3. ASSUME NEW u \in Threads, pc'[u] = "wakeUnlock"
        PROVE  pc'[oldHead[u]] = "park" /\ ~shouldPark'[oldHead[u]]
    <3>1. CASE u = t BY <1>4, <3>1 DEF h
    <3>2. CASE u # t
      <4>1. pc[u] = "wakeUnlock" BY <1>4, <2>3, <3>2
      <4>2. pc[oldHead[u]] = "park" /\ ~shouldPark[oldHead[u]] BY <4>1 DEF Dequeued
      <4>3. oldHead[u] \in Threads \ {t} BY <1>6, <4>1
      <4> QED BY <1>4, <4>2, <4>3
    <3> QED BY <3>1, <3>2
  <2>4. \A u, v \in Threads : Waking(u)' /\ Waking(v)' /\ oldHead[u] = oldHead[v] => u = v
    BY <1>5 DEF Dequeued
  <2> QED BY <1>1, <2>1, <2>2, <2>3, <2>4 DEF Dequeued
<1>13. Clean'
  <2>1. \A u \in Threads : pc[u] = "clear" => pc'[u] = "clear" BY <1>1, <1>2, <1>4
  <2> QED BY <1>1, <1>8, <2>1 DEF Clean
<1>14. Reading'
  <2>1. \A u \in Threads : pc'[u] \in {"enqueue", "publish", "release"} => pc'[u] = pc[u]
    BY <1>4
  <2> QED BY <1>1, <2>1 DEF Reading
<1>15. \E q \in Seq(Threads) : Chain(q)' /\ Headed(q)'
  <2> PICK q \in Seq(Threads) : Chain(q) /\ Headed(q) OBVIOUS
  <2> QED BY <1>1, <1>8, <1>9, ChainKept
<1> QED BY <1>10, <1>11, <1>12, <1>13, <1>14, <1>15

-----------------------------------------------------------------------------
\* Nobody is in the queue at the start.
LEMMA InitQueueing == Init => Queueing
<1> SUFFICES ASSUME Init PROVE Queueing OBVIOUS
<1>1. Living /\ Parking /\ Dequeued /\ Clean /\ Reading
  BY DEF Init, Living, Parking, Dequeued, Clean, Reading, Waking
<1>2. Chain(<<>>) BY DEF Init, Chain, In, Asleep
<1>3. Headed(<<>>) BY DEF Init, Headed
<1>4. <<>> \in Seq(Threads) OBVIOUS
<1> QED BY <1>1, <1>2, <1>3, <1>4 DEF Queueing

\* No step of any thread tears the queue.
LEMMA NextQueueing == IInv /\ Queueing /\ [Next]_vars => Queueing'
<1> SUFFICES ASSUME IInv, Queueing, [Next]_vars PROVE Queueing' OBVIOUS
<1>1. TypeOK' BY NextIInv DEF IInv
<1>2. CASE UNCHANGED vars
  <2>1. \A v \in Threads : In(v)' <=> In(v) BY <1>2 DEF In, Asleep, Waking
  <2>2. PICK q \in Seq(Threads) : Chain(q) /\ Headed(q) BY DEF Queueing
  <2>3. Chain(q)' /\ Headed(q)' BY <1>2, <2>1, <2>2 DEF Chain, Headed
  <2>4. Living' /\ Parking' /\ Reading' BY <1>2 DEF Queueing, Living, Parking, Reading
  <2>5. Dequeued' BY <1>2 DEF Queueing, Dequeued, Waking, Asleep
  <2>6. Clean' BY <1>2, <2>1 DEF Queueing, Clean
  <2> QED BY <2>3, <2>4, <2>5, <2>6 DEF Queueing
<1>3. CASE \E t \in Threads : Call(t) \/ LockStep(t) \/ UnlockStep(t) \/ Exchanges(t)
                             \/ Failures(t) \/ SpuriousWakeup(t)
  <2> PICK t \in Threads : Call(t) \/ LockStep(t) \/ UnlockStep(t) \/ Exchanges(t)
                             \/ Failures(t) \/ SpuriousWakeup(t)
    BY <1>3
  <2>1. CASE Call(t) \/ Exchanges(t) \/ Failures(t)
    BY <1>1, <2>1, AwaySteps DEF Exchanges, Failures
  <2>2. CASE SpuriousWakeup(t) BY <1>1, <2>2, SleepSteps
  <2>3. CASE LockStep(t)
    BY <1>1, <2>3, AwaySteps, SleepSteps, UnparkStep, EnqueueStep, PublishStep DEF LockStep
  <2>4. CASE UnlockStep(t)
    BY <1>1, <2>4, AwaySteps, DequeueStep, ReleaseStep, ClearStep, WakeLockSteps, WakeStep
    DEF UnlockStep
  <2> QED BY <2>1, <2>2, <2>3, <2>4
<1> QED BY <1>2, <1>3 DEF Next

\* A set of natural numbers has a least one.
LEMMA Least == ASSUME NEW T \in SUBSET Nat, T # {} PROVE \E m \in T : \A k \in T : m <= k
<1>1. PICK m \in T : \A k \in T : <<k, m>> \notin OpToRel(<, Nat)
  BY NatLessThanWellFounded, WFMin
<1>2. \A k \in T : ~(k < m) BY <1>1 DEF OpToRel
<1> QED BY <1>2

\* Whoever starts with a sequence's first member and goes on along it gets to all of them.
LEMMA Reached ==
  ASSUME NEW A, NEW q \in Seq(A), NEW S, q # <<>> => q[1] \in S,
         \A i \in 1 .. Len(q) - 1 : q[i] \in S => q[i + 1] \in S
  PROVE  \A i \in 1 .. Len(q) : q[i] \in S
<1> DEFINE T == {i \in 1 .. Len(q) : q[i] \notin S}
<1> SUFFICES ASSUME T # {} PROVE FALSE OBVIOUS
<1>1. T \in SUBSET Nat OBVIOUS
<1>2. PICK m \in T : \A k \in T : m <= k
  <2> HIDE DEF T
  <2> QED BY <1>1, Least
<1>3. m \in 1 .. Len(q) /\ Len(q) \in Nat OBVIOUS
<1>4. m # 1 BY <1>3
<1>5. m - 1 \in 1 .. Len(q) - 1 /\ m - 1 \notin T BY <1>2, <1>3, <1>4
<1> QED BY <1>3, <1>5

\* The set of the threads of a chain is closed under next and holds the word's head.
LEMMA ChainIsClosed ==
  ASSUME TypeOK, NEW q \in Seq(Threads), Chain(q), Headed(q)
  PROVE  LET S == { t \in Threads : In(t) }
         IN  /\ word.head # NoThread => word.head \in S
             /\ \A u \in S : next[u] # NoThread => next[u] \in S
<1> DEFINE S == { t \in Threads : In(t) }
<1>1. Len(q) \in Nat /\ \A i \in 1 .. Len(q) : q[i] \in S BY DEF Chain
<1>2. word.head # NoThread => word.head \in S
  <2>1. q # <<>> => 1 \in 1 .. Len(q) OBVIOUS
  <2> QED BY <1>1, <2>1 DEF Headed
<1>3. ASSUME NEW u \in S, next[u] # NoThread PROVE next[u] \in S
  <2>1. PICK i \in 1 .. Len(q) : q[i] = u BY DEF Chain
  <2>2. i < Len(q) /\ next[u] = q[i + 1] BY <1>3, <2>1 DEF Chain
  <2>3. i + 1 \in 1 .. Len(q) BY <1>1, <2>2
  <2> QED BY <1>1, <2>2, <2>3
<1> QED BY <1>2, <1>3

\* The queue the word points to holds only threads that are in the queue.
LEMMA QueueIsIn == ASSUME TypeOK, Queueing PROVE Queue \subseteq { t \in Threads : In(t) }
<1> PICK q \in Seq(Threads) : Chain(q) /\ Headed(q) BY DEF Queueing
<1> QED BY ChainIsClosed DEF Queue

\* While nobody edits it, it holds all of them.
LEMMA InIsQueue ==
  ASSUME TypeOK, Queueing, NEW t \in Threads, In(t), \A u \in Threads : pc[u] # "publish"
  PROVE  t \in Queue
<1> PICK q \in Seq(Threads) : Chain(q) /\ Headed(q) BY DEF Queueing
<1> SUFFICES ASSUME NEW S \in SUBSET Threads, word.head # NoThread => word.head \in S,
                    \A u \in S : next[u] # NoThread => next[u] \in S
             PROVE  t \in S
  BY DEF Queue
<1>1. q # <<>> => q[1] \in Threads OBVIOUS
<1>2. q # <<>> => q[1] \in S BY <1>1, WordLockConstants DEF Headed
<1>3. ASSUME NEW i \in 1 .. Len(q) - 1, q[i] \in S PROVE q[i + 1] \in S
  <2>1. i \in 1 .. Len(q) /\ i < Len(q) /\ q[i + 1] \in Threads OBVIOUS
  <2>2. next[q[i]] = q[i + 1] BY <2>1 DEF Chain
  <2> QED BY <1>3, <2>1, <2>2, WordLockConstants
<1>4. \A i \in 1 .. Len(q) : q[i] \in S BY <1>2, <1>3, Reached
<1> QED BY <1>4 DEF Chain

\* The list that the word and the threads' stacks make up is, whenever nobody edits it,
\* the list of all sleeping threads: lockSlow and unlockSlow never lose one.
THEOREM NoSleeperIsLost == Spec => []QueueIsTheSleepers
<1>1. IInv /\ Queueing => QueueIsTheSleepers
  <2> SUFFICES ASSUME IInv, Queueing, \A t \in Threads : ~QueueOwner(t)
               PROVE  /\ Queue = Sleepers
                      /\ word.head # NoThread =>
                           tail[word.head] \in Queue /\ next[tail[word.head]] = NoThread
    BY DEF QueueIsTheSleepers
  <2>1. TypeOK /\ \A u \in Threads : pc[u] # "publish" BY DEF IInv
  <2>2. Sleepers = { t \in Threads : In(t) } BY <2>1 DEF Sleepers, In, Asleep, Waking
  <2>3. Queue \subseteq Threads BY DEF Queue
  <2>4. Queue = Sleepers BY <2>1, <2>2, <2>3, QueueIsIn, InIsQueue
  <2>5. PICK q \in Seq(Threads) : Chain(q) /\ Headed(q) BY DEF Queueing
  <2>6. q # <<>> => Len(q) \in 1 .. Len(q) /\ q[Len(q)] \in Threads /\ q[1] \in Threads OBVIOUS
  <2>7. word.head # NoThread => q # <<>> /\ word.head = q[1] BY <2>1, <2>5, <2>6 DEF Headed
  <2>8. word.head # NoThread => tail[word.head] = q[Len(q)] BY <2>5, <2>7 DEF Chain
  <2>9. q # <<>> => next[q[Len(q)]] = NoThread /\ In(q[Len(q)]) BY <2>5, <2>6 DEF Chain
  <2> QED BY <2>2, <2>4, <2>6, <2>7, <2>8, <2>9
<1> QED BY <1>1, InitIInv, NextIInv, InitQueueing, NextQueueing, PTL DEF Spec

\* A ThreadData lives on its thread's stack: nobody follows a pointer to one that is gone.
THEOREM StacksOutliveQueues == Spec => []NoUseAfterDestruction
<1>1. IInv /\ Queueing => NoUseAfterDestruction
  <2> SUFFICES ASSUME IInv, Queueing PROVE NoUseAfterDestruction OBVIOUS
  <2>1. \A t \in Threads : In(t) => t \in alive BY DEF Queueing, Living, In, Asleep
  <2>2. Queue \subseteq alive BY <2>1, QueueIsIn DEF IInv
  <2>3. \A t \in Threads : Waking(t) \/ pc[t] = "wakeUnlock" => oldHead[t] \in alive
    BY OldHeads DEF Queueing, Living
  <2>4. \A t \in Threads : pc[t] = "release" => oldHead[t] \in alive
    <3> SUFFICES ASSUME NEW t \in Threads, pc[t] = "release" PROVE oldHead[t] \in alive OBVIOUS
    <3>1. PICK q \in Seq(Threads) : Chain(q) /\ Headed(q) BY DEF Queueing
    <3>2. oldHead[t] # NoThread /\ oldHead[t] = word.head
      BY DEF IInv, Knowledge, Queueing, Reading
    <3>3. word.head \in { u \in Threads : In(u) } BY <3>1, <3>2, ChainIsClosed DEF IInv
    <3> QED BY <2>1, <3>2, <3>3
  <2> QED BY <2>2, <2>3, <2>4 DEF NoUseAfterDestruction, Waking
<1> QED BY <1>1, InitIInv, NextIInv, InitQueueing, NextQueueing, PTL DEF Spec
=============================================================================
