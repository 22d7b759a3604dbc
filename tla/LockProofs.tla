----------------------------- MODULE LockProofs -----------------------------
(***************************************************************************)
(* Mutual exclusion of Lock for any number of threads, that its owner sees *)
(* the bits it relies on, that no thread is left asleep on it, and that it *)
(* implements AbstractLock.                                                *)
(*                                                                         *)
(* The lock may be handed to a thread that sleeps, so who owns it depends  *)
(* on ParkingLot's queue: the invariant says that the queued threads are   *)
(* the parked ones, each queued once, and that the thread an unlocker is   *)
(* about to signal waits for that signal and for no other.  That a sleeper *)
(* is not forgotten needs what a thread has read before it parks, or       *)
(* unlocks without unparking, as well.                                     *)
(***************************************************************************)
EXTENDS Lock, TLAPS

Ownership ==
  /\ \A t \in Threads : Holder(t) => word.held
  /\ MutualExclusion
  /\ \A t \in Threads : pc[t] \in {"barge", "tryExchange", "timedExchange"} => ~read[t].held
  /\ \A t \in Threads : pc[t] \in {"unpark", "unparkFairly"} => word.parked
  /\ \A t \in Threads : pc[t] # "crashed"

Queued ==
  /\ \A i \in 1 .. Len(queue) : pc[queue[i]] = "parked"
  /\ \A i, j \in 1 .. Len(queue) : queue[i] = queue[j] => i = j

Signals ==
  /\ \A t \in Threads : pc[t] = "signal" =>
       target[t] \in Threads /\ pc[target[t]] = "dequeued"
  /\ \A t, u \in Threads : pc[t] = "signal" /\ pc[u] = "signal" /\ target[t] = target[u] => t = u

IInv == TypeOK /\ Ownership /\ Queued /\ Signals

\* What a step of a thread does that neither queues nor unparks anyone.
Ordinary(t) ==
  \/ Call(t) \/ CallTry(t) \/ CallTimed(t) \/ TryStep(t)
  \/ LockFast(t) \/ LockLoad(t) \/ Barge(t) \/ Spin(t) \/ SetParked(t) \/ AlreadyParked(t)
  \/ Unparked(t) \/ UnlockFast(t) \/ UnlockLoad(t) \/ UnlockExchange(t) \/ UnparkNobody(t)

USE DEF parking, vars, Words, Zero, isHeld, Tokens, Goto, Load, Forget, Tell, Exchange,
        Outside, Holder, Unlocking

-----------------------------------------------------------------------------
\* The two words the fast paths exchange are words.
LEMMA ConstantWords == Zero \in Words /\ isHeld \in Words
OBVIOUS

\* Nobody owns or queues anything at the start.
LEMMA InitIInv == Init => IInv
BY LockConstants
DEF Init, IInv, TypeOK, Labels, Ownership, MutualExclusion, Queued, Signals

\* Every step is an ordinary one of a thread, or one of ParkingLot's.
LEMMA NextSplit ==
  Next => \E t \in Threads : \/ Ordinary(t) \/ compareAndPark(t) \/ Signal(t)
                             \/ \E fair, collision \in BOOLEAN : UnparkOne(t, fair, collision)
BY DEF Next, LockStep, UnlockStep, Unpark, Ordinary

\* An ordinary step keeps the types.
LEMMA OrdinaryKeepsTypes ==
  ASSUME NEW t \in Threads, IInv, Ordinary(t)
  PROVE  TypeOK'
<1> USE DEF IInv, TypeOK, Labels
<1>1. CASE Call(t) \/ CallTry(t) \/ CallTimed(t)
  <2>1. CASE Call(t) BY <2>1 DEF Call
  <2>2. CASE CallTry(t) BY <2>2 DEF CallTry
  <2>3. CASE CallTimed(t) BY <2>3 DEF CallTimed
  <2> QED BY <1>1, <2>1, <2>2, <2>3
<1>2. CASE LockFast(t)
  <2>1. word' = isHeld \/ word' = word BY <1>2 DEF LockFast
  <2>2. word' \in Words BY <2>1, ConstantWords
  <2> QED BY <1>2, <2>2 DEF LockFast
<1>3. CASE LockLoad(t) BY <1>3 DEF LockLoad
<1>4. CASE Barge(t) BY <1>4 DEF Barge
<1>5. CASE Spin(t) \/ AlreadyParked(t)
  <2>1. CASE Spin(t) BY <2>1 DEF Spin
  <2>2. CASE AlreadyParked(t) BY <2>2 DEF AlreadyParked
  <2> QED BY <1>5, <2>1, <2>2
<1>6. CASE SetParked(t)
  <2> DEFINE newValue == [read[t] EXCEPT !.parked = TRUE]
  <2>1. newValue \in Words OBVIOUS
  <2>2. word' \in Words BY <1>6, <2>1 DEF SetParked
  <2>3. read' = read \/ read' = [read EXCEPT ![t] = newValue] BY <1>6 DEF SetParked
  <2> HIDE DEF newValue
  <2>5. read' \in [Threads -> Words] BY <2>1, <2>3
  <2>4. pc' \in [Threads -> Labels] BY <1>6 DEF SetParked
  <2> QED BY <1>6, <2>2, <2>4, <2>5 DEF SetParked
<1>7. CASE Unparked(t)
  <2>1. told' \in [Threads -> BOOLEAN] BY <1>7 DEF Unparked
  <2>3. \/ pc' = [pc EXCEPT ![t] = "critical"]
        \/ pc' = [pc EXCEPT ![t] = "slow"]
    BY <1>7 DEF Unparked
  <2>2. pc' \in [Threads -> Labels] BY <2>3
  <2> QED BY <1>7, <2>1, <2>2 DEF Unparked
<1>8. ASSUME NEW timed \in BOOLEAN, TryLoad(t, timed) PROVE TypeOK'
  BY <1>8 DEF TryLoad
<1>9. ASSUME NEW timed \in BOOLEAN, TryExchange(t, timed) PROVE TypeOK'
  BY <1>9 DEF TryExchange
<1>10. CASE Sleep(t) \/ GiveUp(t)
  <2>1. CASE Sleep(t) BY <2>1 DEF Sleep
  <2>2. CASE GiveUp(t) BY <2>2 DEF GiveUp
  <2> QED BY <1>10, <2>1, <2>2
<1>11. CASE UnlockFast(t)
  <2>1. word' = Zero \/ word' = word BY <1>11 DEF UnlockFast
  <2>2. word' \in Words BY <2>1, ConstantWords
  <2> QED BY <1>11, <2>2 DEF UnlockFast
<1>12. CASE UnlockLoad(t) BY <1>12 DEF UnlockLoad
<1>13. CASE UnlockExchange(t)
  <2>1. word' \in Words BY <1>13 DEF UnlockExchange
  <2>2. read' \in [Threads -> Words] BY <1>13, ConstantWords DEF UnlockExchange
  <2>3. pc' \in [Threads -> Labels] BY <1>13 DEF UnlockExchange
  <2> QED BY <1>13, <2>1, <2>2, <2>3 DEF UnlockExchange
<1>14. CASE UnparkNobody(t) BY <1>14, ConstantWords DEF UnparkNobody
<1> QED BY <1>1, <1>2, <1>3, <1>4, <1>5, <1>6, <1>7, <1>8, <1>9, <1>10, <1>11, <1>12,
           <1>13, <1>14 DEF Ordinary, TryStep

\* An ordinary step leaves the queue alone and moves one thread, which neither comes
\* from nor goes to where ParkingLot holds a thread.
LEMMA OrdinaryMoves ==
  ASSUME NEW t \in Threads, IInv, Ordinary(t)
  PROVE  /\ UNCHANGED <<queue, target>>
         /\ \A u \in Threads : u # t => pc'[u] = pc[u] /\ token'[u] = token[u]
         /\ pc[t] \notin {"parked", "dequeued", "signal"}
         /\ pc'[t] \notin {"parked", "dequeued", "signal"}
<1> USE DEF IInv, TypeOK
<1>1. CASE Call(t) \/ CallTry(t) \/ CallTimed(t) \/ LockFast(t) \/ LockLoad(t) \/ Barge(t)
  BY <1>1 DEF Call, CallTry, CallTimed, LockFast, LockLoad, Barge
<1>2. CASE Spin(t) \/ AlreadyParked(t) \/ SetParked(t) \/ Unparked(t) \/ TryStep(t)
  BY <1>2 DEF Spin, AlreadyParked, SetParked, Unparked, TryStep, TryLoad, TryExchange,
              Sleep, GiveUp
<1>3. CASE UnlockFast(t) \/ UnlockLoad(t) \/ UnlockExchange(t) \/ UnparkNobody(t)
  BY <1>3 DEF UnlockFast, UnlockLoad, UnlockExchange, UnparkNobody
<1> QED BY <1>1, <1>2, <1>3 DEF Ordinary

\* Who owns the lock after an ordinary step: an exchange that found the lock free makes
\* an owner, and only the owner clears the bits.
LEMMA OrdinaryKeepsOwnership ==
  ASSUME NEW t \in Threads, IInv, TypeOK', Ordinary(t)
  PROVE  Ownership'
<1> USE DEF IInv, TypeOK, Ownership, MutualExclusion
<1>1. CASE Call(t) \/ CallTry(t) \/ CallTimed(t) BY <1>1 DEF Call, CallTry, CallTimed
<1>2. CASE LockFast(t)
  <2>1. CASE Exchange(Zero, isHeld) /\ Goto(t, "critical") BY <1>2, <2>1 DEF LockFast
  <2>2. CASE UNCHANGED word /\ Goto(t, "slow") BY <1>2, <2>2 DEF LockFast
  <2> QED BY <1>2, <2>1, <2>2 DEF LockFast
<1>3. CASE LockLoad(t) BY <1>3 DEF LockLoad
<1>4. CASE Barge(t) BY <1>4 DEF Barge
<1>5. CASE Spin(t) \/ AlreadyParked(t) BY <1>5 DEF Spin, AlreadyParked
<1>6. CASE SetParked(t)
  <2>1. CASE UNCHANGED <<word, read>> /\ Goto(t, "slow") BY <1>6, <2>1 DEF SetParked
  <2>2. ASSUME ~(UNCHANGED <<word, read>> /\ Goto(t, "slow")) PROVE Ownership'
    <3>0. /\ word = read[t] /\ word' = [read[t] EXCEPT !.parked = TRUE]
          /\ token' = token
          /\ pc' = [pc EXCEPT ![t] = "park"]
      BY <1>6, <2>2 DEF SetParked
    <3>1. word'.held = word.held /\ word'.parked
      <4>1. word' = [word EXCEPT !.parked = TRUE] BY <3>0
      <4> QED BY <4>1
    <3>2. \A u \in Threads : u # t => read'[u] = read[u] BY <1>6 DEF SetParked
    <3>3. \A u \in Threads : Holder(u)' => Holder(u) BY <3>0
    <3>4. \A u \in Threads : Holder(u)' => word'.held BY <3>1, <3>3
    <3>5. \A u \in Threads : pc'[u] \in {"barge", "tryExchange", "timedExchange"} => ~read'[u].held
      BY <3>0, <3>2
    <3>6. \A u \in Threads : pc'[u] # "crashed" BY <3>0
    <3> QED BY <3>1, <3>3, <3>4, <3>5, <3>6
  <2> QED BY <2>1, <2>2
<1>7. CASE Unparked(t)
  <2>1. /\ pc[t] = "unparked" /\ UNCHANGED <<word, read>>
        /\ \A u \in Threads : u # t => token'[u] = token[u]
    BY <1>7 DEF Unparked
  <2>2. \/ Goto(t, "critical") /\ Holder(t)
        \/ Goto(t, "slow")
    BY <1>7 DEF Unparked
  <2>3. \A u \in Threads : Holder(u)' => Holder(u) BY <2>1, <2>2
  <2> QED BY <2>1, <2>2, <2>3
<1>8. ASSUME NEW timed \in BOOLEAN, TryLoad(t, timed) PROVE Ownership'
  BY <1>8 DEF TryLoad
<1>9. ASSUME NEW timed \in BOOLEAN, TryExchange(t, timed) PROVE Ownership'
  BY <1>9 DEF TryExchange
<1>10. CASE Sleep(t) \/ GiveUp(t) BY <1>10 DEF Sleep, GiveUp
<1>11. CASE UnlockFast(t)
  <2>1. CASE Exchange(isHeld, Zero) /\ Goto(t, "outside") BY <1>11, <2>1 DEF UnlockFast
  <2>2. CASE UNCHANGED word /\ (Goto(t, "unlock") \/ Goto(t, "unlockFairly"))
    <3>1. Holder(t) /\ UNCHANGED token /\ \A u \in Threads : u # t => read'[u] = read[u]
      BY <1>11 DEF UnlockFast
    <3>2. \A u \in Threads : Holder(u)' => Holder(u) BY <2>2, <3>1
    <3>3. \A u \in Threads : pc'[u] # "crashed" /\ (pc'[u] \in {"unpark", "unparkFairly"} => word'.parked)
      BY <2>2, <3>1, <3>2
    <3>4. \A u \in Threads : pc'[u] \in {"barge", "tryExchange", "timedExchange"} => ~read'[u].held
      BY <2>2, <3>1, <3>2
    <3>5. \A u \in Threads : Holder(u)' => word'.held BY <2>2, <3>1, <3>2
    <3> QED BY <2>2, <3>1, <3>2, <3>3, <3>4, <3>5
  <2> QED BY <1>11, <2>1, <2>2 DEF UnlockFast
<1>12. CASE UnlockLoad(t) BY <1>12 DEF UnlockLoad
<1>13. CASE UnlockExchange(t)
  <2>1. Holder(t) /\ token' = token /\ \A u \in Threads : u # t => read'[u] = read[u]
    BY <1>13 DEF UnlockExchange
  <2>2. CASE Goto(t, "outside")
    <3>1. \A u \in Threads : ~Holder(u)' BY <2>1, <2>2
    <3> QED BY <2>1, <2>2, <3>1
  <2>3. CASE UNCHANGED word /\ (Goto(t, "unlock") \/ Goto(t, "unlockFairly"))
    <3>1. \A u \in Threads : Holder(u)' => Holder(u) BY <2>1, <2>3
    <3>3. \A u \in Threads : pc'[u] # "crashed" /\ (pc'[u] \in {"unpark", "unparkFairly"} => word'.parked)
      BY <2>1, <2>3, <3>1
    <3>4. \A u \in Threads : pc'[u] \in {"barge", "tryExchange", "timedExchange"} => ~read'[u].held
      BY <2>1, <2>3, <3>1
    <3>5. \A u \in Threads : Holder(u)' => word'.held BY <2>1, <2>3, <3>1
    <3>6. ASSUME NEW u \in Threads, NEW v \in Threads, Holder(u)', Holder(v)' PROVE u = v
      <4>1. Holder(u) /\ Holder(v) BY <3>1, <3>6
      <4> QED BY <4>1
    <3>7. \A u \in Threads : pc'[u] # "crashed" BY <3>3
    <3>8. \A u \in Threads : pc'[u] \in {"unpark", "unparkFairly"} => word'.parked BY <3>3
    <3> QED BY <3>4, <3>5, <3>6, <3>7, <3>8
  <2> QED BY <1>13, <2>2, <2>3 DEF UnlockExchange
<1>14. CASE UnparkNobody(t) BY <1>14 DEF UnparkNobody
<1> QED BY <1>1, <1>2, <1>3, <1>4, <1>5, <1>6, <1>7, <1>8, <1>9, <1>10, <1>11, <1>12,
           <1>13, <1>14 DEF Ordinary, TryStep

\* The invariant after an ordinary step.
LEMMA OrdinaryIInv == ASSUME NEW t \in Threads, IInv, Ordinary(t) PROVE IInv'
<1>1. TypeOK' /\ Ownership' BY OrdinaryKeepsTypes, OrdinaryKeepsOwnership
<1>2. /\ UNCHANGED <<queue, target>>
      /\ \A u \in Threads : u # t => pc'[u] = pc[u]
      /\ pc[t] \notin {"parked", "dequeued", "signal"}
      /\ pc'[t] \notin {"parked", "dequeued", "signal"}
  BY OrdinaryMoves
<1>3. Queued'
  <2>1. \A i \in 1 .. Len(queue) : queue[i] \in Threads BY DEF IInv, TypeOK
  <2> QED BY <1>2, <2>1 DEF IInv, Queued
<1>4. Signals' BY <1>2 DEF IInv, Signals
<1> QED BY <1>1, <1>3, <1>4 DEF IInv

-----------------------------------------------------------------------------
\* A thread that parks is queued, and once: it was not parked before.
LEMMA ParkIInv == ASSUME NEW t \in Threads, IInv, compareAndPark(t) PROVE IInv'
<1> USE DEF IInv, TypeOK
<1>1. CASE word # read[t]
  <2>1. Goto(t, "slow") /\ UNCHANGED <<word, parking, read, told, calls>> /\ pc[t] = "park"
    BY <1>1 DEF compareAndPark
  <2>2. TypeOK' BY <2>1 DEF Labels
  <2>3. Ownership' BY <2>1, <2>2 DEF Ownership, MutualExclusion
  <2>4. Queued' BY <2>1 DEF Queued
  <2>5. Signals' BY <2>1 DEF Signals
  <2> QED BY <2>2, <2>3, <2>4, <2>5
<1>2. CASE word = read[t]
  <2>1. /\ Goto(t, "parked") /\ queue' = Append(queue, t) /\ pc[t] = "park"
        /\ UNCHANGED <<word, token, target, read, told, calls>>
    BY <1>2 DEF compareAndPark
  <2>2. TypeOK' BY <2>1 DEF Labels
  <2>3. Ownership' BY <2>1, <2>2 DEF Ownership, MutualExclusion
  <2>4. Queued' BY <2>1 DEF Queued
  <2>5. Signals' BY <2>1 DEF Signals
  <2> QED BY <2>2, <2>3, <2>4, <2>5
<1> QED BY <1>1, <1>2

\* A thread that is unparked leaves the queue; the lock is its own, or nobody's.
LEMMA UnparkIInv ==
  ASSUME NEW t \in Threads, NEW fair \in BOOLEAN, NEW collision \in BOOLEAN, IInv,
         UnparkOne(t, fair, collision)
  PROVE  IInv'
<1> USE DEF IInv, TypeOK
<1> PICK unparked \in Threads : unparked = Head(queue) BY DEF UnparkOne
<1>1. unparked \in Threads /\ pc[unparked] = "parked" /\ unparked # t
  BY DEF UnparkOne, Queued
<1>2. /\ pc' = [pc EXCEPT ![t] = "signal", ![unparked] = "dequeued"]
      /\ target' = [target EXCEPT ![t] = unparked]
      /\ queue' = Tail(queue) /\ queue # <<>>
      /\ pc[t] \in {"unpark", "unparkFairly"}
      /\ UNCHANGED <<read, told, calls>>
  BY DEF UnparkOne
<1>3. \/ word' = word /\ token' = [token EXCEPT ![unparked] = "DirectHandoff"]
      \/ /\ word' \in Words
         /\ token' = [token EXCEPT ![unparked] = "BargingOpportunity"]
  BY DEF UnparkOne
<1>4. TypeOK'
  <2>1. queue' \in Seq(Threads) BY <1>2
  <2>2. token' \in [Threads -> Tokens] BY <1>1, <1>3
  <2>3. word' \in Words BY <1>3
  <2>4. pc' \in [Threads -> Labels] BY <1>1, <1>2 DEF Labels
  <2>5. target' \in [Threads -> Threads \cup {NoThread}] BY <1>1, <1>2
  <2> QED BY <1>2, <2>1, <2>2, <2>3, <2>4, <2>5
<1>5. Ownership'
  <2> USE DEF Ownership, MutualExclusion
  <2>1. \A u \in Threads : Holder(u) => u = t BY <1>2
  <2>2. \A u \in Threads \ {t, unparked} : pc'[u] = pc[u] /\ token'[u] = token[u] BY <1>2, <1>3
  <2>3. pc'[t] = "signal" /\ pc'[unparked] = "dequeued" BY <1>1, <1>2
  <2>4. \A u \in Threads : Holder(u)' => u = unparked BY <2>1, <2>2, <2>3
  <2>5. Holder(unparked)' => word' = word
    <3>1. Holder(unparked)' => token'[unparked] = "DirectHandoff" BY <2>3
    <3>2. token'[unparked] = "DirectHandoff" => word' = word BY <1>1, <1>3
    <3> QED BY <3>1, <3>2
  <2>6. Holder(t) /\ word.held BY <1>2
  <2>7. \A u \in Threads : Holder(u)' => word'.held
    <3> SUFFICES ASSUME NEW u \in Threads, Holder(u)' PROVE word'.held OBVIOUS
    <3>1. Holder(unparked)' BY <2>4
    <3> QED BY <2>5, <2>6, <3>1
  <2>8. \A u \in Threads : pc'[u] \notin {"unpark", "unparkFairly"} BY <2>3, <2>4
  <2>9. \A u \in Threads : /\ pc'[u] # "crashed"
                           /\ pc'[u] \in {"barge", "tryExchange", "timedExchange"} => ~read'[u].held
    BY <1>2, <2>2, <2>3
  <2> QED BY <2>4, <2>7, <2>8, <2>9
<1>6. Queued'
  <2>1. unparked = queue[1] BY <1>2
  <2>2. /\ Len(queue') = Len(queue) - 1
        /\ \A i \in 1 .. Len(queue') : queue'[i] = queue[i + 1] /\ i + 1 \in 1 .. Len(queue)
    BY <1>2
  <2>3. \A i \in 1 .. Len(queue') : queue'[i] # unparked /\ queue'[i] # t /\ queue'[i] \in Threads
    BY <1>1, <1>2, <2>1, <2>2 DEF Queued
  <2> QED BY <1>1, <1>2, <2>2, <2>3 DEF Queued
<1>7. Signals' BY <1>1, <1>2 DEF Signals
<1> QED BY <1>4, <1>5, <1>6, <1>7

\* The signalled thread is the one this thread has dequeued.
LEMMA SignalIInv == ASSUME NEW t \in Threads, IInv, Signal(t) PROVE IInv'
<1> USE DEF IInv, TypeOK
<1> DEFINE woken == target[t]
<1>1. woken \in Threads /\ pc[woken] = "dequeued" /\ woken # t BY DEF Signal, Signals
<1>2. /\ pc' = [pc EXCEPT ![t] = "outside", ![woken] = "unparked"] /\ pc[t] = "signal"
      /\ target' = [target EXCEPT ![t] = NoThread]
      /\ UNCHANGED <<word, queue, token, told, calls>> /\ Forget(t)
  BY DEF Signal
<1>3. \A u \in Threads : pc[u] = "signal" /\ target[u] = woken => u = t
  BY <1>2 DEF Signals
<1> HIDE DEF woken
<1>4. TypeOK' BY <1>1, <1>2 DEF Labels
<1>5. Ownership' BY <1>1, <1>2, <1>4 DEF Ownership, MutualExclusion
<1>6. Queued' BY <1>1, <1>2 DEF Queued
<1>7. Signals' BY <1>1, <1>2, <1>3 DEF Signals
<1> QED BY <1>4, <1>5, <1>6, <1>7

-----------------------------------------------------------------------------
\* The invariant is inductive.
LEMMA NextIInv == IInv /\ [Next]_vars => IInv'
<1> SUFFICES ASSUME IInv, [Next]_vars PROVE IInv' OBVIOUS
<1>1. CASE UNCHANGED vars
  BY <1>1 DEF IInv, TypeOK, Ownership, MutualExclusion, Queued, Signals
<1>2. CASE Next BY <1>2, NextSplit, OrdinaryIInv, ParkIInv, UnparkIInv, SignalIInv
<1> QED BY <1>1, <1>2

\* The types of Lock's state.
THEOREM TypeCorrect == Spec => []TypeOK
<1>1. IInv => TypeOK BY DEF IInv
<1> QED BY <1>1, InitIInv, NextIInv, PTL DEF Spec

\* At most one thread owns a Lock, whether it took the lock or was handed it.
THEOREM LockExcludes == Spec => []MutualExclusion
<1>1. IInv => MutualExclusion BY DEF IInv, Ownership
<1> QED BY <1>1, InitIInv, NextIInv, PTL DEF Spec

\* The owner's bits stay as it read them until it unparks, and no thread crashes in
\* unlockSlow.
THEOREM BitsAreTheOwners == Spec => []OwnerSeesItsBits
<1>1. IInv => OwnerSeesItsBits BY DEF IInv, Ownership, OwnerSeesItsBits
<1> QED BY <1>1, InitIInv, NextIInv, PTL DEF Spec

-----------------------------------------------------------------------------
\* What a thread has read when it decides to park, or to unlock without unparking.
Reads ==
  /\ \A t \in Threads : pc[t] \in {"spin", "park"} => read[t].held
  /\ \A t \in Threads : pc[t] = "park" => read[t].parked
  /\ \A t \in Threads : pc[t] \in {"exchange", "exchangeFairly"} => ~read[t].parked

Awake(t) == pc[t] \in {"dequeued", "unparked", "slow", "barge", "spin", "park"}

Sleepers == Reads /\ SleepersAreAnnounced

\* A thread parks, or unlocks without unparking, on what it has read for that.
LEMMA NextReads == ASSUME IInv, Reads, Next PROVE Reads'
<1> USE DEF IInv, TypeOK, Reads
<1>1. ASSUME NEW u \in Threads, Ordinary(u) PROVE Reads'
  <2>1. \A v \in Threads : v # u => pc'[v] = pc[v]
    BY <1>1, OrdinaryMoves
  <2>2. /\ \A v \in Threads : v # u => read'[v] = read[v]
        /\ pc'[u] \in {"spin", "park"} => read'[u].held
        /\ pc'[u] = "park" => read'[u].parked
        /\ pc'[u] \in {"exchange", "exchangeFairly"} => ~read'[u].parked
    <3>1. CASE Call(u) \/ CallTry(u) \/ CallTimed(u) \/ LockFast(u) \/ LockLoad(u) \/ Barge(u)
      BY <3>1 DEF Call, CallTry, CallTimed, LockFast, LockLoad, Barge
    <3>2. CASE Spin(u) \/ AlreadyParked(u) \/ Unparked(u)
      BY <3>2 DEF Spin, AlreadyParked, Unparked
    <3>3. CASE SetParked(u)
      BY <3>3 DEF SetParked
    <3>4. CASE TryStep(u)
      BY <3>4 DEF TryStep, TryLoad, TryExchange, Sleep, GiveUp
    <3>5. CASE UnlockFast(u) \/ UnlockLoad(u) \/ UnlockExchange(u) \/ UnparkNobody(u)
      BY <3>5 DEF UnlockFast, UnlockLoad, UnlockExchange, UnparkNobody
    <3> QED BY <1>1, <3>1, <3>2, <3>3, <3>4, <3>5 DEF Ordinary
  <2> QED BY <2>1, <2>2
<1>2. ASSUME NEW u \in Threads, compareAndPark(u) PROVE Reads'
  BY <1>2 DEF compareAndPark
<1>3. ASSUME NEW u \in Threads, Signal(u) PROVE Reads'
  BY <1>3 DEF Signal, Signals
<1>4. ASSUME NEW u \in Threads, NEW fair \in BOOLEAN, NEW collision \in BOOLEAN,
             UnparkOne(u, fair, collision)
      PROVE  Reads'
  BY <1>4 DEF UnparkOne, Queued
<1> QED BY <1>1, <1>2, <1>3, <1>4, NextSplit

\* While threads are queued an ordinary step neither clears a bit nor, unless the lock
\* is held after it, sends a thread away that is awake to take the lock.
LEMMA OrdinaryKeepsBits ==
  ASSUME NEW t \in Threads, IInv, Sleepers, Ordinary(t), queue # <<>>
  PROVE  /\ word'.parked
         /\ word.held => word'.held
         /\ Awake(t) => Awake(t)' \/ word'.held
<1> USE DEF IInv, TypeOK, Sleepers, SleepersAreAnnounced, Awake
<1>1. word.parked
  OBVIOUS
<1>2. CASE Call(t) \/ CallTry(t) \/ CallTimed(t)
  BY <1>1, <1>2 DEF Call, CallTry, CallTimed
<1>3. CASE LockFast(t) \/ UnlockFast(t)
  BY <1>1, <1>3 DEF LockFast, UnlockFast
<1>4. CASE LockLoad(t) \/ Spin(t) \/ AlreadyParked(t)
  BY <1>1, <1>4 DEF LockLoad, Spin, AlreadyParked
<1>5. CASE Barge(t)
  BY <1>1, <1>5 DEF Barge
<1>6. CASE SetParked(t)
  BY <1>1, <1>6 DEF SetParked
<1>7. CASE Unparked(t)
  BY <1>1, <1>7 DEF Unparked, Ownership
<1>8. CASE TryStep(t)
  BY <1>1, <1>8 DEF TryStep, TryLoad, TryExchange, Sleep, GiveUp
<1>9. CASE UnlockLoad(t)
  BY <1>1, <1>9 DEF UnlockLoad
<1>10. CASE UnlockExchange(t)
  BY <1>1, <1>10 DEF UnlockExchange, Reads
<1>11. CASE UnparkNobody(t)
  BY <1>11 DEF UnparkNobody
<1> QED BY <1>2, <1>3, <1>4, <1>5, <1>6, <1>7, <1>8, <1>9, <1>10, <1>11 DEF Ordinary

\* A step leaves no sleeper behind: who frees the lock wakes one, who parks does so
\* behind an owner, and who is awake takes the lock or finds it taken.
LEMMA NextSleepers == IInv /\ Sleepers /\ [Next]_vars => Sleepers'
<1> SUFFICES ASSUME IInv, Sleepers, [Next]_vars PROVE Sleepers' OBVIOUS
<1> USE DEF IInv, TypeOK, SleepersAreAnnounced
<1>1. CASE UNCHANGED vars
  BY <1>1 DEF Sleepers, Reads
<1>2. CASE Next
  <2>1. Reads' BY <1>2, NextReads DEF Sleepers
  <2>2. ASSUME NEW t \in Threads, Ordinary(t), queue' # <<>>
        PROVE  word'.parked /\ (word'.held \/ \E u \in Threads : Awake(u)')
    <3>1. queue # <<>> /\ \A u \in Threads : u # t => pc'[u] = pc[u]
      BY <2>2, OrdinaryMoves
    <3>2. word.held \/ \E u \in Threads : Awake(u)
      BY <3>1 DEF Sleepers, Awake
    <3>3. \A u \in Threads : Awake(u) => Awake(u)' \/ word'.held
      BY <2>2, <3>1, OrdinaryKeepsBits DEF Awake
    <3> QED BY <2>2, <3>1, <3>2, <3>3, OrdinaryKeepsBits
  <2>3. ASSUME NEW t \in Threads, compareAndPark(t), queue' # <<>>
        PROVE  word'.parked /\ (word'.held \/ \E u \in Threads : Awake(u)')
    <3>1. CASE word = read[t]
      BY <2>3, <3>1 DEF compareAndPark, Sleepers, Reads
    <3>2. CASE word # read[t]
      <4>1. queue # <<>> /\ word' = word /\ Awake(t)'
        BY <2>3, <3>2 DEF compareAndPark, Awake
      <4> QED BY <4>1 DEF Sleepers
    <3> QED BY <3>1, <3>2
  <2>4. ASSUME NEW t \in Threads, Signal(t), queue' # <<>>
        PROVE  word'.parked /\ (word'.held \/ \E u \in Threads : Awake(u)')
    <3>1. UNCHANGED <<word, queue>> /\ \E u \in Threads : pc'[u] = "unparked"
      BY <2>4 DEF Signal, Signals
    <3> QED BY <2>4, <3>1 DEF Sleepers, Awake
  <2>5. ASSUME NEW t \in Threads, NEW fair \in BOOLEAN, NEW collision \in BOOLEAN,
               UnparkOne(t, fair, collision), queue' # <<>>
        PROVE  word'.parked /\ (word'.held \/ \E u \in Threads : Awake(u)')
    <3>1. \E u \in Threads : pc'[u] = "dequeued"
      BY <2>5 DEF UnparkOne
    <3>2. word' = word \/ word'.parked = (Len(queue) > 1 \/ collision)
      BY <2>5 DEF UnparkOne
    <3>3. word.parked /\ Len(queue) > 1
      BY <2>5 DEF UnparkOne, Sleepers
    <3> QED BY <3>1, <3>2, <3>3 DEF Awake
  <2>6. SleepersAreAnnounced'
    <3> SUFFICES ASSUME queue' # <<>>
                 PROVE  word'.parked /\ (word'.held \/ \E u \in Threads : Awake(u)')
      BY DEF Awake
    <3> QED BY <1>2, <2>2, <2>3, <2>4, <2>5, NextSplit
  <2> QED BY <2>1, <2>6 DEF Sleepers
<1> QED BY <1>1, <1>2

\* No thread sleeps on a Lock that nobody will unpark, however threads barge, park and
\* unpark.
THEOREM SleepersAreNeverForgotten == Spec => []SleepersAreAnnounced
<1>1. Init => Sleepers BY DEF Init, Sleepers, Reads, SleepersAreAnnounced
<1>2. Sleepers => SleepersAreAnnounced BY DEF Sleepers
<1> QED BY <1>1, <1>2, InitIInv, NextIInv, NextSleepers, PTL DEF Spec

-----------------------------------------------------------------------------
\* What an ordinary step makes of its thread.
LEMMA OrdinaryEffect ==
  ASSUME NEW t \in Threads, IInv, Ordinary(t)
  PROVE  \/ State'[t] = State[t]
         \/ State[t] = "outside" /\ State'[t] = "waiting"
         \/ State[t] = "waiting" /\ State'[t] = "outside"
         \/ State[t] = "owner" /\ State'[t] = "outside"
         \/ State[t] = "waiting" /\ State'[t] = "owner" /\ ~word.held
<1> USE DEF IInv, TypeOK, State
<1>1. CASE Call(t) \/ CallTry(t) \/ CallTimed(t)
  BY <1>1 DEF Call, CallTry, CallTimed
<1>2. CASE LockFast(t) BY <1>2 DEF LockFast, Ownership
<1>3. CASE LockLoad(t) \/ Spin(t) \/ SetParked(t) \/ AlreadyParked(t)
  BY <1>3 DEF LockLoad, Spin, SetParked, AlreadyParked
<1>4. CASE Barge(t) BY <1>4 DEF Barge, Ownership
<1>5. CASE Unparked(t) BY <1>5 DEF Unparked
<1>6. ASSUME NEW timed \in BOOLEAN, TryLoad(t, timed)
      PROVE  State'[t] = State[t] \/ (State[t] = "waiting" /\ State'[t] = "outside")
  <2>1. pc[t] \in {"try", "timedTry"} BY <1>6 DEF TryLoad
  <2>2. \E label \in {"timedExchange", "tryExchange", "outside", "sleep", "giveUp"} : Goto(t, label)
    BY <1>6 DEF TryLoad
  <2>3. State[t] = "waiting" BY <2>1
  <2>4. State'[t] \in {"waiting", "outside"} BY <2>2
  <2> QED BY <2>3, <2>4
<1>7. ASSUME NEW timed \in BOOLEAN, TryExchange(t, timed)
      PROVE  State'[t] = State[t] \/ (State[t] = "waiting" /\ State'[t] = "owner" /\ ~word.held)
  <2>1. pc[t] \in {"tryExchange", "timedExchange"} BY <1>7 DEF TryExchange
  <2>2. \/ word = read[t] /\ Goto(t, "critical")
        \/ \E label \in {"try", "timedTry"} : Goto(t, label)
    BY <1>7 DEF TryExchange
  <2>3. State[t] = "waiting" BY <2>1
  <2>4. ~read[t].held BY <2>1 DEF Ownership
  <2>5. State'[t] \in {"waiting", "owner"} BY <2>2
  <2>6. State'[t] = "owner" => word = read[t] BY <2>2
  <2> QED BY <2>3, <2>4, <2>5, <2>6
<1>8. CASE Sleep(t) \/ GiveUp(t) BY <1>8 DEF Sleep, GiveUp
<1>9. CASE UnlockFast(t) BY <1>9 DEF UnlockFast
<1>10. CASE UnlockLoad(t) BY <1>10 DEF UnlockLoad, Ownership
<1>11. CASE UnlockExchange(t) BY <1>11 DEF UnlockExchange
<1>12. CASE UnparkNobody(t) BY <1>12 DEF UnparkNobody
<1> QED BY <1>1, <1>2, <1>3, <1>4, <1>5, <1>6, <1>7, <1>8, <1>9, <1>10, <1>11, <1>12
        DEF Ordinary, TryStep

\* An ordinary step is a step of the abstract lock, or changes nothing for it.
LEMMA OrdinaryImplements ==
  ASSUME NEW t \in Threads, IInv, Ordinary(t)
  PROVE  Abstract!Next \/ State' = State
<1>1. State' = [State EXCEPT ![t] = State'[t]]
  <2>1. \A u \in Threads : u # t => pc'[u] = pc[u] /\ token'[u] = token[u]
    BY OrdinaryMoves
  <2>2. ASSUME NEW u \in Threads, u # t PROVE State'[u] = State[u]
    <3>1. pc'[u] = pc[u] /\ token'[u] = token[u] BY <2>1, <2>2
    <3>2. Holder(u)' = Holder(u) BY <3>1 DEF Holder, Unlocking
    <3> QED BY <3>1, <3>2 DEF State
  <2>3. DOMAIN State = Threads /\ DOMAIN State' = Threads BY DEF State
  <2>4. State = [u \in Threads |-> State[u]] /\ State' = [u \in Threads |-> State'[u]]
    BY DEF State
  <2> HIDE DEF State
  <2> QED BY <2>2, <2>3, <2>4
<1>2. ~word.held => Abstract!Free BY DEF Abstract!Free, State, IInv, Ownership
<1>3. State \in [Threads -> {"outside", "waiting", "owner"}] BY DEF State
<1>4. CASE State'[t] = State[t] BY <1>1, <1>3, <1>4
<1>5. CASE State[t] = "outside" /\ State'[t] = "waiting"
  BY <1>1, <1>5 DEF Abstract!Next, Abstract!Call
<1>6. CASE State[t] = "waiting" /\ State'[t] = "outside"
  BY <1>1, <1>6 DEF Abstract!Next, Abstract!GiveUp
<1>7. CASE State[t] = "owner" /\ State'[t] = "outside"
  BY <1>1, <1>7 DEF Abstract!Next, Abstract!Release
<1>8. CASE State[t] = "waiting" /\ State'[t] = "owner" /\ ~word.held
  BY <1>1, <1>2, <1>8 DEF Abstract!Next, Abstract!Acquire
<1> QED BY <1>4, <1>5, <1>6, <1>7, <1>8, OrdinaryEffect

\* Unparking releases the lock, or hands it to the thread it unparks.
LEMMA UnparkImplements ==
  ASSUME NEW t \in Threads, NEW fair \in BOOLEAN, NEW collision \in BOOLEAN, IInv,
         UnparkOne(t, fair, collision)
  PROVE  Abstract!Next
<1> USE DEF IInv, TypeOK
<1> PICK unparked \in Threads : unparked = Head(queue) BY DEF UnparkOne
<1>1. pc[unparked] = "parked" /\ unparked # t BY DEF UnparkOne, Queued
<1>2. /\ pc' = [pc EXCEPT ![t] = "signal", ![unparked] = "dequeued"]
      /\ pc[t] \in {"unpark", "unparkFairly"}
      /\ \/ token' = [token EXCEPT ![unparked] = "DirectHandoff"]
         \/ token' = [token EXCEPT ![unparked] = "BargingOpportunity"]
  BY DEF UnparkOne
<1>3. State[t] = "owner" /\ State[unparked] = "waiting" BY <1>1, <1>2 DEF State
<1>4. CASE token' = [token EXCEPT ![unparked] = "DirectHandoff"]
  <2>1. State' = [State EXCEPT ![t] = "outside", ![unparked] = "owner"]
    BY <1>1, <1>2, <1>4 DEF State
  <2> QED BY <1>3, <2>1 DEF Abstract!Next, Abstract!HandOff
<1>5. CASE token' = [token EXCEPT ![unparked] = "BargingOpportunity"]
  <2>1. State' = [State EXCEPT ![t] = "outside"]
    BY <1>1, <1>2, <1>5 DEF State
  <2> QED BY <1>3, <2>1 DEF Abstract!Next, Abstract!Release
<1> QED BY <1>2, <1>4, <1>5

\* Lock is a lock: every behaviour of it is one of AbstractLock.
THEOREM Implements == Spec => ImplementsLock
<1>1. Init => Abstract!Init BY DEF Init, Abstract!Init, State
<1>2. IInv /\ [Next]_vars => [Abstract!Next]_State
  <2> SUFFICES ASSUME IInv, [Next]_vars PROVE Abstract!Next \/ State' = State OBVIOUS
  <2>1. CASE UNCHANGED vars BY <2>1 DEF State
  <2>2. ASSUME NEW t \in Threads, compareAndPark(t) PROVE State' = State
    BY <2>2 DEF compareAndPark, State, IInv, TypeOK
  <2>3. ASSUME NEW t \in Threads, Signal(t) PROVE State' = State
    BY <2>3 DEF Signal, Signals, State, IInv, TypeOK
  <2> QED BY <2>1, <2>2, <2>3, NextSplit, OrdinaryImplements, UnparkImplements
<1> QED BY <1>1, <1>2, InitIInv, NextIInv, PTL DEF Spec, ImplementsLock, Abstract!Spec
=============================================================================
