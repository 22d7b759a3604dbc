------------------------- MODULE AbstractParkingLot -------------------------
(***************************************************************************)
(* What ParkingLot promises (ParkingLot.h:38-160): for every address one   *)
(* queue, first in, first out; threads enter and leave it in single steps. *)
(* A parked thread comes back either because an unparker took it or        *)
(* because it left by itself when its time had run out, and is told which. *)
(***************************************************************************)
EXTENDS Integers, Sequences, SequencesExt

CONSTANTS Threads, Addresses, NoToken, NoAnswer

VARIABLES
  queue,   \* the threads parked on each address, the longest parked first
  state,   \* what each thread is doing
  want,    \* an unparker's address and the number of threads it asks for
  token,   \* what the unparker has left for the thread
  answer   \* what each thread's call has returned

vars == <<queue, state, want, token, answer>>

NoWant == <<>>
Answer(t, result) == answer' = [answer EXCEPT ![t] = result]

Init ==
  /\ queue = [a \in Addresses |-> <<>>]
  /\ state = [t \in Threads |-> "running"]
  /\ want = [t \in Threads |-> NoWant]
  /\ token = [t \in Threads |-> NoToken]
  /\ answer = [t \in Threads |-> NoAnswer]

\* parkConditionally(): the validation held, and the thread is parked.
Park(t) ==
  /\ state[t] = "running"
  /\ state' = [state EXCEPT ![t] = "parked"]
  /\ \E a \in Addresses : queue' = [queue EXCEPT ![a] = Append(@, t)]
  /\ token' = [token EXCEPT ![t] = NoToken]
  /\ UNCHANGED <<want, answer>>

\* The validation failed.
Refuse(t) ==
  /\ state[t] = "running"
  /\ state' = [state EXCEPT ![t] = "answered"]
  /\ Answer(t, [wasUnparked |-> FALSE, token |-> NoToken])
  /\ UNCHANGED <<queue, want, token>>

BeginUnpark(t) ==
  /\ state[t] = "running"
  /\ state' = [state EXCEPT ![t] = "unparking"]
  /\ want' = [want EXCEPT ![t] = want'[t]] /\ want'[t] \in Addresses \X (Nat \ {0})
  /\ UNCHANGED <<queue, token, answer>>

\* The threads that have waited longest are unparked, as many as were asked for
\* or all there are; if the answer is that there are no more, there are none.
Unpark(t) ==
  /\ state[t] = "unparking"
  /\ LET a     == want[t][1]
         n     == IF want[t][2] < Len(queue[a]) THEN want[t][2] ELSE Len(queue[a])
         taken == ToSet(SubSeq(queue[a], 1, n))
     IN  /\ queue' = [queue EXCEPT ![a] = SubSeq(@, n + 1, Len(@))]
         /\ state' = [u \in Threads |-> IF u \in taken THEN "unparked"
                                        ELSE IF u = t THEN "answered" ELSE state[u]]
         /\ \E left \in {NoToken} \cup Threads :
              token' = [u \in Threads |-> IF u \in taken THEN left ELSE token[u]]
         /\ \E more \in BOOLEAN :
              /\ ~more => n = Len(queue[a])
              /\ Answer(t, [unparked |-> n, mayHaveMoreThreads |-> more])
  /\ want' = [want EXCEPT ![t] = NoWant]

\* The time of a parked thread has run out before anybody has unparked it.
Expire(t) ==
  /\ state[t] = "parked"
  /\ state' = [state EXCEPT ![t] = "expired"]
  /\ \E a \in Addresses : \E i \in DOMAIN queue[a] :
       queue[a][i] = t /\ queue' = [queue EXCEPT ![a] = RemoveAt(@, i)]
  /\ UNCHANGED <<want, token, answer>>

Answered(t) ==
  /\ state[t] \in {"unparked", "expired"}
  /\ Answer(t, [wasUnparked |-> state[t] = "unparked",
                token |-> IF state[t] = "unparked" THEN token[t] ELSE NoToken])
  /\ state' = [state EXCEPT ![t] = "answered"]
  /\ token' = [token EXCEPT ![t] = NoToken]
  /\ UNCHANGED <<queue, want>>

Return(t) ==
  /\ state[t] = "answered"
  /\ state' = [state EXCEPT ![t] = "running"] /\ Answer(t, NoAnswer)
  /\ UNCHANGED <<queue, want, token>>

Next == \E t \in Threads :
  \/ Park(t) \/ Refuse(t) \/ Expire(t) \/ Answered(t)
  \/ BeginUnpark(t) \/ Unpark(t)
  \/ Return(t)

Spec == Init /\ [][Next]_vars
=============================================================================
