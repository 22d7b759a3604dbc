---------------------------- MODULE AbstractLock ----------------------------
(***************************************************************************)
(* What WTF's locks promise: a thread that has called lock() gets the lock *)
(* when nobody owns it, or from its owner, and keeps it until it unlocks.  *)
(* Nothing is promised about the order.  A thread that only tries may go   *)
(* away without the lock.                                                  *)
(***************************************************************************)
CONSTANT Threads
VARIABLE state   \* of each thread: "outside", "waiting" or "owner"

Init == state = [t \in Threads |-> "outside"]

Free == \A t \in Threads : state[t] # "owner"

Call(t)    == state[t] = "outside" /\ state' = [state EXCEPT ![t] = "waiting"]
Acquire(t) == state[t] = "waiting" /\ Free /\ state' = [state EXCEPT ![t] = "owner"]
GiveUp(t)  == state[t] = "waiting" /\ state' = [state EXCEPT ![t] = "outside"]
Release(t) == state[t] = "owner" /\ state' = [state EXCEPT ![t] = "outside"]
HandOff(t, u) ==
  /\ state[t] = "owner" /\ state[u] = "waiting"
  /\ state' = [state EXCEPT ![t] = "outside", ![u] = "owner"]

Next == \/ \E t \in Threads : Call(t) \/ Acquire(t) \/ GiveUp(t) \/ Release(t)
        \/ \E t, u \in Threads : HandOff(t, u)

Spec == Init /\ [][Next]_state
=============================================================================
