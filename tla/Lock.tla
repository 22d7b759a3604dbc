-------------------------------- MODULE Lock --------------------------------
(***************************************************************************)
(* WTF/Lock, which is LockAlgorithm over one byte: a bit that says the     *)
(* lock is held, and one that says threads may be parked on it.  The       *)
(* queue of the parked threads is ParkingLot's.                            *)
(*                                                                         *)
(* ParkingLot is here what its header promises: parking tests the byte and *)
(* queues the thread in one step, unparking dequeues a thread and runs the *)
(* lock's callback in one step (both hold the bucket's lock), and the      *)
(* dequeued thread runs a little later, when it is signalled.  Two locks   *)
(* may share a bucket.                                                     *)
(***************************************************************************)
EXTENDS Integers, Sequences, FiniteSets

CONSTANTS
  Threads,
  NoThread,
  Clients       \* bound: the operations each thread locks with, one of several assignments

ASSUME LockConstants ==
  /\ NoThread \notin Threads
  /\ Clients \subseteq [Threads -> SUBSET {"lock", "tryLock", "tryLockWithTimeout"}]

VARIABLES
  word,     \* m_byte: isHeldBit and hasParkedBit
  queue,    \* the threads parked on the lock, the first to be unparked first
  token,    \* what unparkOne's callback returned for the thread
  pc,
  read,     \* currentValue, oldByteValue
  target,   \* the thread that unparkOne has dequeued
  told,     \* the thread has been told that it owns the lock
  calls     \* the operations each thread uses

parking == <<queue, token, target>>
vars    == <<word, parking, pc, read, told, calls>>

Words  == [held : BOOLEAN, parked : BOOLEAN]
Zero   == [held |-> FALSE, parked |-> FALSE]
isHeld == [held |-> TRUE, parked |-> FALSE]
Tokens == {"BargingOpportunity", "DirectHandoff"}

Init ==
  /\ word = Zero /\ queue = <<>>
  /\ token = [t \in Threads |-> "BargingOpportunity"]
  /\ pc = [t \in Threads |-> "outside"]
  /\ read = [t \in Threads |-> Zero]
  /\ target = [t \in Threads |-> NoThread]
  /\ told = [t \in Threads |-> FALSE]
  /\ calls \in Clients

Goto(t, label) == pc' = [pc EXCEPT ![t] = label]
Load(t) == read' = [read EXCEPT ![t] = word]
\* What a function has read means nothing after it.
Forget(t) == read' = [read EXCEPT ![t] = Zero]
Tell(t, owns) == told' = [told EXCEPT ![t] = owns]
\* A successful compareExchangeWeak; a failure is always possible.
Exchange(expected, new) == word = expected /\ word' = new

-----------------------------------------------------------------------------
(* lock() *)

\* A thread that believes it owns the lock does not lock it again.
Outside(t, call) == call \in calls[t] /\ pc[t] = "outside" /\ ~told[t]

Call(t) ==
  /\ Outside(t, "lock")
  /\ Goto(t, "fast")
  /\ UNCHANGED <<word, parking, read, told, calls>>

LockFast(t) ==
  /\ pc[t] = "fast"
  /\ \/ Exchange(Zero, isHeld) /\ Goto(t, "critical") /\ Tell(t, TRUE)
     \/ UNCHANGED <<word, told>> /\ Goto(t, "slow")
  /\ UNCHANGED <<parking, read, calls>>

LockLoad(t) ==
  /\ pc[t] = "slow"
  /\ Load(t)
  /\ Goto(t, IF word.held THEN "spin" ELSE "barge")
  /\ UNCHANGED <<word, parking, told, calls>>

Barge(t) ==
  /\ pc[t] = "barge"
  /\ \/ /\ Exchange(read[t], [read[t] EXCEPT !.held = TRUE])
        /\ Goto(t, "critical") /\ Tell(t, TRUE)
     \/ UNCHANGED <<word, told>> /\ Goto(t, "slow")
  /\ UNCHANGED <<parking, read, calls>>

\* 40 rounds in the code, here any number.
Spin(t) ==
  /\ pc[t] = "spin" /\ ~read[t].parked
  /\ Goto(t, "slow")
  /\ UNCHANGED <<word, parking, read, told, calls>>

\* The parked bit is set before the thread parks.
SetParked(t) ==
  /\ pc[t] = "spin" /\ ~read[t].parked
  /\ LET newValue == [read[t] EXCEPT !.parked = TRUE]
     IN  \/ /\ Exchange(read[t], newValue)
            /\ read' = [read EXCEPT ![t] = newValue]
            /\ Goto(t, "park")
         \/ UNCHANGED <<word, read>> /\ Goto(t, "slow")
  /\ UNCHANGED <<parking, told, calls>>

AlreadyParked(t) ==
  /\ pc[t] = "spin" /\ read[t].parked
  /\ Goto(t, "park")
  /\ UNCHANGED <<word, parking, read, told, calls>>

compareAndPark(t) ==
  /\ pc[t] = "park"
  /\ IF word = read[t]
     THEN queue' = Append(queue, t) /\ Goto(t, "parked")
     ELSE UNCHANGED queue /\ Goto(t, "slow")
  /\ UNCHANGED <<word, token, target, read, told, calls>>

\* Mutant: every token is taken for a handoff.
Unparked_AnyToken(t) ==
  /\ pc[t] = "unparked"
  /\ Goto(t, "critical") /\ Tell(t, TRUE)
  /\ token' = [token EXCEPT ![t] = "BargingOpportunity"]
  /\ UNCHANGED <<word, queue, target, read, calls>>

\* parkConditionally returns, with the token, which means nothing after that.
Unparked(t) ==
  /\ pc[t] = "unparked"
  /\ IF token[t] = "DirectHandoff"
     THEN Goto(t, "critical") /\ Tell(t, TRUE)
     ELSE Goto(t, "slow") /\ UNCHANGED told
  /\ token' = [token EXCEPT ![t] = "BargingOpportunity"]
  /\ UNCHANGED <<word, queue, target, read, calls>>

-----------------------------------------------------------------------------
(* tryLock() and tryLockWithTimeout() *)

CallTry(t) ==
  /\ Outside(t, "tryLock")
  /\ Goto(t, "try")
  /\ UNCHANGED <<word, parking, read, told, calls>>

TryLoad(t, timed) ==
  /\ pc[t] = (IF timed THEN "timedTry" ELSE "try")
  /\ Load(t)
  /\ Goto(t, IF ~word.held THEN (IF timed THEN "timedExchange" ELSE "tryExchange")
             ELSE IF ~timed THEN "outside"
             ELSE "giveUp")
  /\ UNCHANGED <<word, parking, told, calls>>

\* Mutant: a store, without a comparison.
TryExchange_Store(t, timed) ==
  /\ pc[t] = (IF timed THEN "timedExchange" ELSE "tryExchange")
  /\ word' = [read[t] EXCEPT !.held = TRUE]
  /\ Goto(t, "critical") /\ Tell(t, TRUE)
  /\ UNCHANGED <<parking, read, calls>>

TryExchange(t, timed) ==
  /\ pc[t] = (IF timed THEN "timedExchange" ELSE "tryExchange")
  /\ \/ /\ Exchange(read[t], [read[t] EXCEPT !.held = TRUE])
        /\ Goto(t, "critical") /\ Tell(t, TRUE)
     \/ UNCHANGED <<word, told>> /\ Goto(t, IF timed THEN "timedTry" ELSE "try")
  /\ UNCHANGED <<parking, read, calls>>

CallTimed(t) ==
  /\ Outside(t, "tryLockWithTimeout")
  /\ Goto(t, "timedTry")
  /\ UNCHANGED <<word, parking, read, told, calls>>

\* Another attempt after a second, as long as the timeout allows.
Sleep(t) ==
  /\ pc[t] = "giveUp"
  /\ Goto(t, "timedTry")
  /\ UNCHANGED <<word, parking, read, told, calls>>

\* The timeout is over: the answer is isHeld().
GiveUp(t) ==
  /\ pc[t] = "giveUp"
  /\ Tell(t, word.held)
  /\ Goto(t, "outside")
  /\ UNCHANGED <<word, parking, read, calls>>

-----------------------------------------------------------------------------
(* unlock() and unlockFairly(); safepoint() is unlockFairly() and then lock() *)

\* Mutant: the fast path does not look at the parked bit.
UnlockFast_IgnoresParked(t) ==
  /\ pc[t] = "critical"
  /\ Tell(t, FALSE)
  /\ word' = [word EXCEPT !.held = FALSE] /\ Goto(t, "outside")
  /\ Forget(t)
  /\ UNCHANGED <<parking, calls>>

UnlockFast(t) ==
  /\ pc[t] = "critical"
  /\ Tell(t, FALSE)
  /\ \/ Exchange(isHeld, Zero) /\ Goto(t, "outside")
     \/ UNCHANGED word /\ \E label \in {"unlock", "unlockFairly"} : Goto(t, label)
  /\ Forget(t)
  /\ UNCHANGED <<parking, calls>>

\* A value without isHeldBit would be a crash.
UnlockLoad(t) ==
  /\ pc[t] \in {"unlock", "unlockFairly"}
  /\ Load(t)
  /\ Goto(t, IF ~word.held THEN "crashed"
             ELSE IF word.parked
             THEN (IF pc[t] = "unlock" THEN "unpark" ELSE "unparkFairly")
             ELSE (IF pc[t] = "unlock" THEN "exchange" ELSE "exchangeFairly"))
  /\ UNCHANGED <<word, parking, told, calls>>

UnlockExchange(t) ==
  /\ pc[t] \in {"exchange", "exchangeFairly"}
  /\ \/ Exchange(read[t], [read[t] EXCEPT !.held = FALSE]) /\ Goto(t, "outside") /\ Forget(t)
     \/ /\ UNCHANGED <<word, read>>
        /\ Goto(t, IF pc[t] = "exchange" THEN "unlock" ELSE "unlockFairly")
  /\ UNCHANGED <<parking, told, calls>>

\* Mutants: the lock is unlocked although it is handed over; it forgets that more
\* threads are parked.
UnparkOne_AlwaysUnlocks(t, timeToBeFair, collision) ==
  /\ pc[t] \in {"unpark", "unparkFairly"} /\ queue # <<>>
  /\ LET unparked == Head(queue)
     IN  /\ word' = [held |-> FALSE, parked |-> Len(queue) > 1 \/ collision]
         /\ token' = [token EXCEPT ![unparked] =
                        IF timeToBeFair THEN "DirectHandoff" ELSE "BargingOpportunity"]
         /\ target' = [target EXCEPT ![t] = unparked]
         /\ pc' = [pc EXCEPT ![t] = "signal", ![unparked] = "dequeued"]
  /\ queue' = Tail(queue)
  /\ UNCHANGED <<read, told, calls>>

UnparkOne_ForgetsTheRest(t, timeToBeFair, collision) ==
  /\ pc[t] \in {"unpark", "unparkFairly"} /\ queue # <<>>
  /\ LET unparked == Head(queue)
     IN  /\ word' = Zero
         /\ token' = [token EXCEPT ![unparked] = "BargingOpportunity"]
         /\ target' = [target EXCEPT ![t] = unparked]
         /\ pc' = [pc EXCEPT ![t] = "signal", ![unparked] = "dequeued"]
  /\ queue' = Tail(queue)
  /\ UNCHANGED <<read, told, calls>>

\* unparkOne with a thread in the queue: the callback hands the lock over, or unlocks
\* it and keeps the parked bit if there may be more threads (in the queue, or in one
\* that shares its bucket).
UnparkOne(t, timeToBeFair, collision) ==
  /\ pc[t] \in {"unpark", "unparkFairly"} /\ queue # <<>>
  /\ LET unparked == Head(queue)
         more == Len(queue) > 1 \/ collision
         fair == pc[t] = "unparkFairly" \/ timeToBeFair
     IN  /\ word' = IF fair THEN word ELSE [held |-> FALSE, parked |-> more]
         /\ token' = [token EXCEPT ![unparked] =
                        IF fair THEN "DirectHandoff" ELSE "BargingOpportunity"]
         /\ target' = [target EXCEPT ![t] = unparked]
         /\ pc' = [pc EXCEPT ![t] = "signal", ![unparked] = "dequeued"]
  /\ queue' = Tail(queue)
  /\ UNCHANGED <<read, told, calls>>

\* unparkOne with no thread in the queue: a thread has set the parked bit, and has not
\* parked yet or has given up.
UnparkNobody(t) ==
  /\ pc[t] \in {"unpark", "unparkFairly"} /\ queue = <<>>
  /\ word' = Zero
  /\ Goto(t, "outside")
  /\ Forget(t)
  /\ UNCHANGED <<parking, told, calls>>

\* The dequeued thread's address is cleared and its condition signalled.
Signal(t) ==
  /\ pc[t] = "signal"
  /\ pc' = [pc EXCEPT ![t] = "outside", ![target[t]] = "unparked"]
  /\ target' = [target EXCEPT ![t] = NoThread]
  /\ Forget(t)
  /\ UNCHANGED <<word, queue, token, told, calls>>

Unpark(t) == UnparkNobody(t) \/ \E fair, collision \in BOOLEAN : UnparkOne(t, fair, collision)

LockStep(t) == \/ LockFast(t) \/ LockLoad(t) \/ Barge(t) \/ Spin(t) \/ SetParked(t)
               \/ AlreadyParked(t) \/ compareAndPark(t) \/ Unparked(t)
TryStep(t) == \/ \E timed \in BOOLEAN : TryLoad(t, timed) \/ TryExchange(t, timed)
              \/ Sleep(t) \/ GiveUp(t)
UnlockStep(t) == UnlockFast(t) \/ UnlockLoad(t) \/ UnlockExchange(t) \/ Unpark(t) \/ Signal(t)

Next == \E t \in Threads : \/ Call(t) \/ CallTry(t) \/ CallTimed(t)
                           \/ LockStep(t) \/ TryStep(t) \/ UnlockStep(t)

Spec == Init /\ [][Next]_vars

\* Threads run inside lock() and unlock() and in the critical section, and a
\* compareExchangeWeak that could succeed again and again does in the end.
FairSpec == Spec /\ \A t \in Threads :
  /\ WF_vars(LockStep(t) \/ UnlockStep(t))
  /\ SF_vars(Barge(t) /\ Goto(t, "critical"))
  /\ SF_vars(UnlockExchange(t) /\ Goto(t, "outside"))

-----------------------------------------------------------------------------
Labels == {"outside", "fast", "slow", "barge", "spin", "park", "parked", "dequeued",
           "unparked", "try", "tryExchange", "timedTry", "timedExchange", "giveUp",
           "critical", "unlock", "unlockFairly", "exchange", "exchangeFairly", "unpark",
           "unparkFairly", "signal", "crashed"}

\* Type invariant.
TypeOK ==
  /\ word \in Words /\ queue \in Seq(Threads)
  /\ token \in [Threads -> Tokens]
  /\ pc \in [Threads -> Labels]
  /\ read \in [Threads -> Words]
  /\ target \in [Threads -> Threads \cup {NoThread}]
  /\ told \in [Threads -> BOOLEAN] /\ calls \in Clients

\* The thread that owns the lock: from the step that sets the bit for it, or that hands
\* the set bit over to it while it is still asleep, to the one that gives it up.
Unlocking(t) == pc[t] \in {"unlock", "unlockFairly", "exchange", "exchangeFairly",
                           "unpark", "unparkFairly"}
Holder(t) == \/ pc[t] = "critical" \/ Unlocking(t)
             \/ pc[t] \in {"dequeued", "unparked"} /\ token[t] = "DirectHandoff"

\* One thread at a time owns the lock, whether it barged in or was handed the lock.
MutualExclusion == \A t, u \in Threads : Holder(t) /\ Holder(u) => t = u

\* "We are the only ones that can clear either the isHeldBit or the hasParkedBit"
\* (LockAlgorithmInlines.h:133): what the owner reads in unlockSlow is still there
\* when it unparks, whoever barges, spins or parks meanwhile, and it never crashes.
OwnerSeesItsBits ==
  \A t \in Threads :
    /\ pc[t] # "crashed"
    /\ Holder(t) => word.held
    /\ pc[t] \in {"unpark", "unparkFairly"} => word.parked

\* No thread sleeps behind a lock that nobody will unpark: while threads are in the
\* queue the parked bit is set, and when the lock is free somebody is awake who will
\* lock it and see the bit (LockAlgorithmInlines.h:155-171).
SleepersAreAnnounced ==
  queue # <<>> =>
    /\ word.parked
    /\ word.held \/ \E t \in Threads :
         pc[t] \in {"dequeued", "unparked", "slow", "barge", "spin", "park"}

\* Who is told that it owns the lock owns it (WTF_ACQUIRES_LOCK_IF(true), Lock.h:69-80).
TellsTheTruth == \A t \in Threads : told[t] => Holder(t)

\* A parked thread is unparked: threads that barge cannot keep it asleep.
Wakes(t) == pc[t] = "parked" ~> pc[t] = "unparked"

\* The state of AbstractLock that the threads are in.
State == [ t \in Threads |->
             IF Holder(t) THEN "owner"
             ELSE IF pc[t] \in {"outside", "signal", "crashed"} THEN "outside"
             ELSE "waiting" ]
Abstract == INSTANCE AbstractLock WITH state <- State
\* What the lock promises: every step, seen through State, is one of AbstractLock.
ImplementsLock == Abstract!Spec
=============================================================================
