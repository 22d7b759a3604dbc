------------------------- MODULE MemoryPressureUnix -------------------------
(***************************************************************************)
(* WTF/unix/MemoryPressureHandlerUnix.cpp: reception of memory pressure    *)
(* events on Linux and FreeBSD.  A thread that watches the system, or the  *)
(* main thread itself, calls triggerMemoryPressureEvent; the response runs *)
(* on the main thread.  The status is an atomic, but                       *)
(* setMemoryPressureStatus tests it, stores it, loads it again for its     *)
(* callback and calls it, and other threads run between these steps.       *)
(***************************************************************************)
EXTENDS Integers

CONSTANTS
  Callers,   \* the threads that call triggerMemoryPressureEvent
  Main,      \* the main thread, a caller or not
  Simulates, \* the main thread simulates memory pressure, too
  MaxTasks   \* bound on the main thread's pending responses

ASSUME UnixConstants == MaxTasks \in Nat \ {0} /\ Simulates \in BOOLEAN

VARIABLES
  status,      \* m_memoryPressureStatus
  simulating,  \* m_isSimulatingMemoryPressure
  installed,   \* m_installed
  holdOff,     \* m_holdOffTimer is active
  pc,          \* where each caller is in triggerMemoryPressureEvent
  argument,    \* what a caller has loaded for the callback
  seen,        \* what the status callback was last called with
  tasks,       \* responses posted to the main thread, critical or not
  overlap      \* two threads have been inside at once since nobody was

vars == <<status, simulating, installed, holdOff, pc, argument, seen, tasks, overlap>>
calling == <<pc, argument>>

Statuses == {"Normal", "SystemCritical"}
Threads  == Callers \cup {Main}
\* A thread is outside, in setMemoryPressureStatus(to), in the callback that begins
\* or ends a simulation, or about to respond.
Outside == [at |-> "outside", to |-> "Normal"]
Places  == [at : {"outside", "test", "store", "load", "call", "respond"},
            to : Statuses \cup {"begin", "end"}]

Init ==
  /\ status = "Normal" /\ simulating = FALSE
  /\ installed = TRUE /\ holdOff = FALSE
  /\ pc = [t \in Threads |-> Outside] /\ argument = [t \in Threads |-> "Normal"]
  /\ seen = "Normal" /\ tasks = 0 /\ overlap = FALSE

NobodyCalls == \A t \in Threads : pc[t].at = "outside"

Goto(t, at, to) == pc' = [pc EXCEPT ![t] = [at |-> at, to |-> to]]
\* The status has been set, or the callback called: on to the response, or out.
Return(t) == IF pc[t].to \in {"SystemCritical", "begin"} THEN Goto(t, "respond", pc[t].to)
             ELSE Goto(t, "outside", "Normal")

\* A call from outside the handler.
Enter(t, at, to) ==
  /\ pc[t].at = "outside"
  /\ Goto(t, at, to)
  /\ overlap' = ~NobodyCalls

\* triggerMemoryPressureEvent is entered; it returns at once unless installed.
Trigger(t) ==
  /\ installed
  /\ Enter(t, "test", "SystemCritical")
  /\ UNCHANGED <<status, simulating, installed, holdOff, argument, seen, tasks>>

TestStatus(t) ==
  /\ pc[t].at = "test"
  /\ IF status = pc[t].to THEN Return(t) ELSE Goto(t, "store", pc[t].to)
  /\ UNCHANGED <<status, simulating, installed, holdOff, argument, seen, tasks, overlap>>

\* Mutant: the client is not told that pressure is over.
StoreStatus_Silent(t) ==
  /\ pc[t].at = "store"
  /\ status' = pc[t].to
  /\ IF pc[t].to = "Normal" THEN Return(t) ELSE Goto(t, "load", pc[t].to)
  /\ UNCHANGED <<simulating, installed, holdOff, argument, seen, tasks, overlap>>

StoreStatus(t) ==
  /\ pc[t].at = "store"
  /\ status' = pc[t].to
  /\ Goto(t, "load", pc[t].to)
  /\ UNCHANGED <<simulating, installed, holdOff, argument, seen, tasks, overlap>>

LoadArgument(t) ==
  /\ pc[t].at = "load"
  /\ argument' = [argument EXCEPT ![t] = status]
  /\ Goto(t, "call", pc[t].to)
  /\ UNCHANGED <<status, simulating, installed, holdOff, seen, tasks, overlap>>

CallClient(t) ==
  /\ pc[t].at = "call"
  /\ seen' = argument[t]
  /\ argument' = [argument EXCEPT ![t] = "Normal"]
  /\ Return(t)
  /\ UNCHANGED <<status, simulating, installed, holdOff, tasks, overlap>>

\* Mutant: no timer is started.
RespondToMemoryPressure_NoHoldOff ==
  /\ installed' = FALSE
  /\ UNCHANGED holdOff

\* respondToMemoryPressure: uninstall() stops the timer, holdOff() starts it anew.
RespondToMemoryPressure ==
  /\ installed' = FALSE
  /\ holdOff' = TRUE

\* Mutant: the status is not set back to Normal.
PostResponse_StaysCritical(t) ==
  /\ pc[t].at = "respond"
  /\ IF t = Main
     THEN RespondToMemoryPressure /\ UNCHANGED tasks
     ELSE /\ tasks < MaxTasks /\ tasks' = tasks + 1
          /\ UNCHANGED <<installed, holdOff>>
  /\ Goto(t, "outside", "Normal")
  /\ UNCHANGED <<status, simulating, argument, seen, overlap>>

\* ensureOnMainThread; a simulation responds directly.
PostResponse(t) ==
  /\ pc[t].at = "respond"
  /\ IF t = Main
     THEN RespondToMemoryPressure /\ UNCHANGED tasks
     ELSE /\ tasks < MaxTasks /\ tasks' = tasks + 1
          /\ UNCHANGED <<installed, holdOff>>
  /\ IF pc[t].to = "begin" THEN Goto(t, "outside", "Normal") ELSE Goto(t, "test", "Normal")
  /\ UNCHANGED <<status, simulating, argument, seen, overlap>>

MainIsFree == pc[Main].at = "outside"

RunTask ==
  /\ MainIsFree /\ tasks > 0
  /\ tasks' = tasks - 1
  /\ RespondToMemoryPressure
  /\ UNCHANGED <<status, simulating, calling, seen, overlap>>

\* beginSimulatedMemoryPressure and endSimulatedMemoryPressure, on the main thread.
BeginSimulation ==
  /\ Simulates /\ ~simulating
  /\ simulating' = TRUE
  /\ Enter(Main, "load", "begin")
  /\ UNCHANGED <<status, installed, holdOff, argument, seen, tasks>>

EndSimulation ==
  /\ simulating
  /\ simulating' = FALSE
  /\ Enter(Main, "load", "end")
  /\ UNCHANGED <<status, installed, holdOff, argument, seen, tasks>>

\* The one-shot timer is not active any more when its function runs.
HoldOffTimerFired ==
  /\ MainIsFree /\ holdOff
  /\ holdOff' = FALSE /\ installed' = TRUE
  /\ UNCHANGED <<status, simulating, calling, seen, tasks, overlap>>

Step(t) == \/ TestStatus(t) \/ StoreStatus(t) \/ LoadArgument(t) \/ CallClient(t)
           \/ PostResponse(t)
MainLoop == RunTask \/ HoldOffTimerFired

Next == \/ \E t \in Callers : Trigger(t)
        \/ \E t \in Threads : Step(t)
        \/ MainLoop \/ BeginSimulation \/ EndSimulation

Spec == Init /\ [][Next]_vars

\* Threads run, and the main run loop runs its tasks and its timers.
FairSpec == /\ Spec /\ WF_vars(RunTask) /\ WF_vars(HoldOffTimerFired)
            /\ \A t \in Threads : WF_vars(Step(t))

-----------------------------------------------------------------------------
\* Type invariant.
TypeOK ==
  /\ status \in Statuses /\ seen \in Statuses
  /\ {simulating, installed, holdOff} \subseteq BOOLEAN
  /\ pc \in [Threads -> Places] /\ argument \in [Threads -> Statuses]
  /\ tasks \in 0 .. MaxTasks
  /\ overlap \in BOOLEAN

\* However the test and the stores of several triggers interleave, the status is
\* Normal again when the last of them returns: no thread's test takes another
\* thread's store for its own and leaves the process critical for ever.
StatusSettles == NobodyCalls => status = "Normal"

\* The client has been told of every change: its last call carried the status, unless
\* threads were inside together, when an argument loaded early may arrive last.
ClientSettles == NobodyCalls /\ ~overlap => seen = status

\* Reception is turned on again and again, unless the main thread keeps beginning
\* simulations, each of which starts the hold-off anew.
ReceptionReturns == []<>(installed \/ pc[Main].to = "begin")
=============================================================================
