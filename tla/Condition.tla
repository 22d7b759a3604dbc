----------------------------- MODULE Condition -----------------------------
(***************************************************************************)
(* WTF/Condition: waiting threads are parked on the address of one byte,   *)
(* m_hasWaiters, which lets the notifiers skip the parking lot when nobody *)
(* waits.  The byte is set under the lock of the parking lot's bucket,     *)
(* notifyOne() clears it there, too, but notifyAll() before it goes there. *)
(*                                                                         *)
(* ParkingLot is AbstractParkingLot here: a queue that threads enter and   *)
(* leave in one step.  The client's lock is AbstractLock.  A thread may    *)
(* notify whether it holds the lock or not.                                *)
(***************************************************************************)
EXTENDS Integers, Sequences, FiniteSets, SequencesExt

CONSTANTS
  Threads,
  Conditions,   \* the conditions used with the one lock
  NoThread, NoCondition

ASSUME ConditionConstants == NoThread \notin Threads /\ NoCondition \notin Conditions

VARIABLES
  owner,        \* the thread that holds the client's lock
  hasWaiters,   \* m_hasWaiters of each condition
  queue,        \* the threads parked on each condition
  at,           \* where in a Condition's function each thread is, and
  on            \* which Condition's

condition == <<owner, hasWaiters, queue, at, on>>

ConditionInit ==
  /\ owner = NoThread
  /\ hasWaiters = [c \in Conditions |-> FALSE] /\ queue = [c \in Conditions |-> <<>>]
  /\ at = [t \in Threads |-> "outside"] /\ on = [t \in Threads |-> NoCondition]

Enter(t, label, c) == at' = [at EXCEPT ![t] = label] /\ on' = [on EXCEPT ![t] = c]
Leave(t)           == Enter(t, "outside", NoCondition)
\* The thread runs the client's code.
Running(t) == at[t] = "outside"
Queued(t)  == on[t] # NoCondition /\ Contains(queue[on[t]], t)

-----------------------------------------------------------------------------
(* Called by clients *)

lock(t)   == Running(t) /\ owner = NoThread /\ owner' = t
             /\ UNCHANGED <<hasWaiters, queue, at, on>>
unlock(t) == Running(t) /\ owner = t /\ owner' = NoThread
             /\ UNCHANGED <<hasWaiters, queue, at, on>>

\* waitUntil() with a timeout to come, or none: the validation and the enqueueing.
waitUntil(t, c) ==
  /\ Running(t) /\ owner = t
  /\ hasWaiters' = [hasWaiters EXCEPT ![c] = TRUE]
  /\ queue' = [queue EXCEPT ![c] = Append(@, t)]
  /\ Enter(t, "beforeSleep", c)
  /\ UNCHANGED owner

\* A timeout in the past: the lock is released all the same.
waitUntilPast(t, c) ==
  /\ Running(t) /\ owner = t
  /\ owner' = NoThread
  /\ Enter(t, "relock", c)
  /\ UNCHANGED <<hasWaiters, queue>>

\* The load of m_hasWaiters that begins both functions.
notifyOne(t, c) ==
  /\ Running(t)
  /\ IF hasWaiters[c] THEN Enter(t, "unparkOne", c) ELSE UNCHANGED <<at, on>>
  /\ UNCHANGED <<owner, hasWaiters, queue>>

notifyAll(t, c) ==
  /\ Running(t)
  /\ IF hasWaiters[c] THEN Enter(t, "store", c) ELSE UNCHANGED <<at, on>>
  /\ UNCHANGED <<owner, hasWaiters, queue>>

-----------------------------------------------------------------------------
(* Inside waitUntil(), notifyOne() and notifyAll() *)

BeforeSleep(t) ==
  /\ at[t] = "beforeSleep"
  /\ owner' = NoThread
  /\ Enter(t, "parked", on[t])
  /\ UNCHANGED <<hasWaiters, queue>>

Unparked(t) ==
  /\ at[t] = "parked" /\ ~Queued(t)
  /\ Enter(t, "relock", on[t])
  /\ UNCHANGED <<owner, hasWaiters, queue>>

\* Only a wait with a finite timeout: the client of the module says which ones are.
TimesOut(t) ==
  /\ at[t] = "parked"
  /\ \E i \in DOMAIN queue[on[t]] :
       queue[on[t]][i] = t /\ queue' = [queue EXCEPT ![on[t]] = RemoveAt(@, i)]
  /\ Enter(t, "relock", on[t])
  /\ UNCHANGED <<owner, hasWaiters>>

Relock(t) ==
  /\ at[t] = "relock" /\ owner = NoThread
  /\ owner' = t
  /\ Leave(t)
  /\ UNCHANGED <<hasWaiters, queue>>

\* Mutant: the byte is cleared whoever is left in the queue.
UnparkOne_ForgetsTheRest(t) ==
  /\ at[t] = "unparkOne"
  /\ queue' = [queue EXCEPT ![on[t]] = IF @ = <<>> THEN @ ELSE Tail(@)]
  /\ hasWaiters' = [hasWaiters EXCEPT ![on[t]] = FALSE]
  /\ Leave(t)
  /\ UNCHANGED owner

\* A bucket's queue may hold threads that are parked on other addresses.
UnparkOne(t) ==
  /\ at[t] = "unparkOne"
  /\ LET rest == IF queue[on[t]] = <<>> THEN <<>> ELSE Tail(queue[on[t]])
     IN  /\ queue' = [queue EXCEPT ![on[t]] = rest]
         /\ \E mayHaveMoreThreads \in BOOLEAN :
              /\ rest # <<>> => mayHaveMoreThreads
              /\ queue[on[t]] = <<>> => ~mayHaveMoreThreads
              /\ hasWaiters' = [hasWaiters EXCEPT ![on[t]] = @ /\ mayHaveMoreThreads]
  /\ Leave(t)
  /\ UNCHANGED owner

Store(t) ==
  /\ at[t] = "store"
  /\ hasWaiters' = [hasWaiters EXCEPT ![on[t]] = FALSE]
  /\ Enter(t, "unparkAll", on[t])
  /\ UNCHANGED <<owner, queue>>

\* Mutant: one thread is unparked.
UnparkAll_One(t) ==
  /\ at[t] = "unparkAll"
  /\ queue' = [queue EXCEPT ![on[t]] = IF @ = <<>> THEN @ ELSE Tail(@)]
  /\ Leave(t)
  /\ UNCHANGED <<owner, hasWaiters>>

UnparkAll(t) ==
  /\ at[t] = "unparkAll"
  /\ queue' = [queue EXCEPT ![on[t]] = <<>>]
  /\ Leave(t)
  /\ UNCHANGED <<owner, hasWaiters>>

ConditionStep(t) ==
  BeforeSleep(t) \/ Unparked(t) \/ Relock(t) \/ UnparkOne(t) \/ Store(t) \/ UnparkAll(t)

-----------------------------------------------------------------------------
Places == {"outside", "beforeSleep", "parked", "relock", "unparkOne", "store", "unparkAll"}

\* Type invariant.
ConditionTypeOK ==
  /\ owner \in Threads \cup {NoThread}
  /\ hasWaiters \in [Conditions -> BOOLEAN] /\ queue \in [Conditions -> Seq(Threads)]
  /\ at \in [Threads -> Places]
  /\ on \in [Threads -> Conditions \cup {NoCondition}]
  /\ \A t \in Threads : Running(t) <=> on[t] = NoCondition

\* While threads wait the byte is set, so that a notifier looks for them, unless a
\* notifyAll() has just cleared it that is about to unpark them all: however waits,
\* timeouts and notifications overlap no waiter is hidden from the notifiers
\* (Condition.h:176-184 and 146-156).
WaitersAreAnnounced ==
  \A c \in Conditions : queue[c] # <<>> =>
    hasWaiters[c] \/ \E t \in Threads : at[t] = "unparkAll" /\ on[t] = c
=============================================================================
