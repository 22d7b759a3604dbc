---------------------- MODULE MemoryPressureUnixProofs ----------------------
(* Theorems about MemoryPressureUnix, for every number of threads that call    *)
(* triggerMemoryPressureEvent at once, finite or not.                          *)
EXTENDS MemoryPressureUnix, TLAPS

\* What a thread that is at `at` can be on its way to.
Ways ==
  \A t \in Threads :
    /\ pc[t].at \in {"test", "store"} => pc[t].to \in Statuses
    /\ pc[t].at = "respond" => pc[t].to \in {"SystemCritical", "begin"}
    /\ pc[t].at = "outside" => pc[t].to = "Normal"

\* Thread t will set the status back to Normal, or find it so.
WillSettle(t) ==
  \/ pc[t].to = "SystemCritical" /\ pc[t].at \in {"load", "call", "respond"}
  \/ pc[t].to = "Normal" /\ pc[t].at \in {"test", "store"}

\* While the process is critical, some thread is going to end that.
Settling == status # "Normal" => \E t \in Threads : WillSettle(t)

\* A thread that has been inside alone knows what the client knows.
Alone(t) ==
  /\ \A u \in Threads : pc[u].at # "outside" => u = t
  /\ pc[t].at = "test" /\ pc[t].to = "SystemCritical" => status = "Normal"
  /\ pc[t].at = "call" => argument[t] = status
  /\ pc[t].at = "respond" => seen = status
  /\ pc[t].at \in {"test", "store"} /\ pc[t].to = "Normal" => seen = status
Telling ==
  ~overlap => /\ \A t \in Threads : pc[t].at # "outside" => Alone(t)
              /\ NobodyCalls => seen = status

\* The inductive invariant of the two theorems.
IInv == TypeOK /\ Ways /\ Settling /\ Telling

USE DEF Statuses, Places, Outside, calling

-----------------------------------------------------------------------------
\* Every variable keeps its type, because no thread stores "begin" or "end" (Ways).
LEMMA NextTyped == ASSUME TypeOK, Ways, [Next]_vars PROVE TypeOK'
<1> USE UnixConstants DEF TypeOK
<1>m. Main \in Threads /\ Callers \subseteq Threads BY DEF Threads
<1>1. ASSUME NEW t \in Threads, NEW at \in {"outside", "test", "load"},
             NEW to \in Statuses \cup {"begin", "end"}, Enter(t, at, to)
      PROVE  pc' \in [Threads -> Places] /\ overlap' \in BOOLEAN
  BY <1>1 DEF Enter, Goto
<1>r. ASSUME NEW t \in Threads, Return(t) PROVE pc' \in [Threads -> Places]
  BY <1>r DEF Return, Goto
<1>2. ASSUME NEW t \in Callers, Trigger(t) PROVE TypeOK' BY <1>1, <1>2, <1>m DEF Trigger
<1>3. ASSUME NEW t \in Threads, Step(t) PROVE TypeOK'
  <2>1. CASE TestStatus(t) BY <1>r, <2>1 DEF TestStatus, Goto
  <2>2. CASE StoreStatus(t)
    <3>1. pc' \in [Threads -> Places] BY <2>2 DEF StoreStatus, Goto
    <3>2. status' \in Statuses BY <2>2 DEF StoreStatus, Ways
    <3> QED BY <2>2, <3>1, <3>2 DEF StoreStatus
  <2>5. CASE LoadArgument(t)
    <3>1. pc' \in [Threads -> Places] BY <2>5 DEF LoadArgument, Goto
    <3> QED BY <2>5, <3>1 DEF LoadArgument
  <2>3. CASE CallClient(t) BY <1>r, <2>3 DEF CallClient
  <2>4. CASE PostResponse(t)
    <3>1. pc' \in [Threads -> Places] BY <2>4 DEF PostResponse, Goto
    <3>2. {simulating, installed, holdOff}' \subseteq BOOLEAN
      <4>1. \/ UNCHANGED <<installed, holdOff>> \/ (installed' = FALSE /\ holdOff' = TRUE)
        BY <2>4 DEF PostResponse, RespondToMemoryPressure
      <4> QED BY <2>4, <4>1 DEF PostResponse
    <3>3. tasks' \in 0 .. MaxTasks
      <4>1. \/ tasks' = tasks \/ (tasks < MaxTasks /\ tasks' = tasks + 1)
        BY <2>4 DEF PostResponse
      <4> QED BY <4>1
    <3> QED BY <2>4, <3>1, <3>2, <3>3 DEF PostResponse
  <2> QED BY <1>3, <2>1, <2>2, <2>3, <2>4, <2>5 DEF Step
<1>4. CASE MainLoop
  <2>1. tasks' \in 0 .. MaxTasks
    <3>1. \/ tasks' = tasks \/ (tasks > 0 /\ tasks' = tasks - 1)
      BY <1>4 DEF MainLoop, RunTask, HoldOffTimerFired
    <3> QED BY <3>1
  <2>3. {simulating, installed, holdOff}' \subseteq BOOLEAN
    <3>1. /\ \/ installed' = FALSE /\ holdOff' = TRUE
             \/ installed' = TRUE /\ holdOff' = FALSE
          /\ simulating' = simulating
      BY <1>4 DEF MainLoop, RunTask, HoldOffTimerFired, RespondToMemoryPressure
    <3> QED BY <3>1
  <2>2. UNCHANGED <<status, simulating, pc, argument, seen, overlap>>
    BY <1>4 DEF MainLoop, RunTask, HoldOffTimerFired
  <2> QED BY <2>1, <2>2, <2>3
<1>5. CASE BeginSimulation \/ EndSimulation
  BY <1>1, <1>5, <1>m DEF BeginSimulation, EndSimulation
<1>6. CASE UNCHANGED vars BY <1>6 DEF vars
<1> QED BY <1>2, <1>3, <1>4, <1>5, <1>6 DEF Next

-----------------------------------------------------------------------------
(* Which way threads go *)

\* The threads other than t stay where they are when t takes a step.
LEMMA OthersStay ==
  ASSUME NEW t \in Threads, TypeOK, Step(t)
  PROVE  \A u \in Threads : u # t => pc'[u] = pc[u]
BY DEF TypeOK, Step, TestStatus, StoreStatus, LoadArgument, CallClient, PostResponse,
       Return, Goto

\* Where a step of t leads, by where it is.
Returned(t) ==
  \/ /\ pc[t].to \in {"SystemCritical", "begin"}
     /\ pc'[t].at = "respond" /\ pc'[t].to = pc[t].to
  \/ /\ pc[t].to \notin {"SystemCritical", "begin"}
     /\ pc'[t].at = "outside" /\ pc'[t].to = "Normal"
Moved(t) ==
  \/ /\ pc[t].at = "test" /\ UNCHANGED <<status, seen, argument>>
     /\ \/ status = pc[t].to /\ Returned(t)
        \/ status # pc[t].to /\ pc'[t].at = "store" /\ pc'[t].to = pc[t].to
  \/ /\ pc[t].at = "store" /\ status' = pc[t].to /\ UNCHANGED <<seen, argument>>
     /\ pc'[t].at = "load" /\ pc'[t].to = pc[t].to
  \/ /\ pc[t].at = "load" /\ UNCHANGED <<status, seen>> /\ argument'[t] = status
     /\ pc'[t].at = "call" /\ pc'[t].to = pc[t].to
  \/ pc[t].at = "call" /\ UNCHANGED status /\ seen' = argument[t] /\ Returned(t)
  \/ /\ pc[t].at = "respond" /\ UNCHANGED <<status, seen, argument>>
     /\ \/ pc[t].to = "begin" /\ pc'[t].at = "outside" /\ pc'[t].to = "Normal"
        \/ pc[t].to = "SystemCritical" /\ pc'[t].at = "test" /\ pc'[t].to = "Normal"

LEMMA Moves == ASSUME NEW t \in Threads, TypeOK, Ways, Step(t) PROVE Moved(t)
<1> USE DEF TypeOK, Goto, Moved
<1>r. Return(t) => Returned(t) BY DEF Return, Returned
<1>1. CASE TestStatus(t)
  <2>1. CASE status = pc[t].to BY <1>1, <1>r, <2>1 DEF TestStatus
  <2>2. CASE status # pc[t].to BY <1>1, <2>2 DEF TestStatus
  <2> QED BY <2>1, <2>2
<1>2. CASE StoreStatus(t) BY <1>2 DEF StoreStatus
<1>3. CASE LoadArgument(t) BY <1>3 DEF LoadArgument
<1>4. CASE CallClient(t) BY <1>4, <1>r DEF CallClient
<1>5. CASE PostResponse(t)
  <2>1. CASE pc[t].to = "begin" BY <1>5, <2>1 DEF PostResponse
  <2>2. CASE pc[t].to = "SystemCritical" BY <1>5, <2>2 DEF PostResponse
  <2> QED BY <1>5, <2>1, <2>2 DEF PostResponse, Ways
<1> QED BY <1>1, <1>2, <1>3, <1>4, <1>5 DEF Step

\* A thread that goes on keeps the invariant.
LEMMA StepIInv == ASSUME NEW t \in Threads, IInv, TypeOK', Step(t) PROVE IInv'
<1> USE DEF IInv
<1>o. \A u \in Threads : u # t => pc'[u] = pc[u] BY OthersStay
<1>m. Moved(t) BY Moves
<1> USE DEF Moved, Returned
<1>w. /\ pc[t].at \in {"test", "store"} => pc[t].to \in Statuses
      /\ pc[t].at = "respond" => pc[t].to \in {"SystemCritical", "begin"}
        /\ pc[t].to \in Statuses \cup {"begin", "end"}
  BY DEF Ways, TypeOK
<1>1. Ways'
  <2>1. /\ pc'[t].at \in {"test", "store"} => pc'[t].to \in Statuses
        /\ pc'[t].at = "respond" => pc'[t].to \in {"SystemCritical", "begin"}
        /\ pc'[t].at = "outside" => pc'[t].to = "Normal"
    BY <1>m, <1>w
  <2> QED BY <1>o, <2>1 DEF Ways
<1>2. Settling'
  <2>1. status' # "Normal" => WillSettle(t)' \/ (status # "Normal" /\ ~WillSettle(t))
    BY <1>m, <1>w DEF WillSettle, TypeOK
  <2>2. \A u \in Threads : u # t => WillSettle(u)' = WillSettle(u) BY <1>o DEF WillSettle
  <2> QED BY <2>1, <2>2 DEF Settling
<1>3. Telling'
  <2> SUFFICES ASSUME ~overlap' PROVE Telling' BY DEF Telling
  <2>1. ~overlap /\ pc[t].at # "outside"
    BY <1>m DEF Step, TestStatus, StoreStatus, LoadArgument, CallClient, PostResponse
  <2>2. Alone(t) BY <2>1 DEF Telling
  <2>3. \A u \in Threads : u # t => pc[u].at = "outside" /\ pc'[u].at = "outside"
    BY <1>o, <2>2 DEF Alone
  <2>4. Alone(t)'
    <3>1. /\ pc'[t].at = "test" /\ pc'[t].to = "SystemCritical" => status' = "Normal"
          /\ pc'[t].at = "call" => argument'[t] = status'
          /\ pc'[t].at = "respond" => seen' = status'
          /\ pc'[t].at \in {"test", "store"} /\ pc'[t].to = "Normal" => seen' = status'
      BY <1>m, <1>w, <2>2 DEF Alone, TypeOK
    <3> QED BY <2>3, <3>1 DEF Alone
  <2>5. pc'[t].at = "outside" => seen' = status'
    BY <1>m, <1>w, <2>2 DEF Alone
  <2> QED BY <2>3, <2>4, <2>5 DEF Telling, NobodyCalls
<1> QED BY <1>1, <1>2, <1>3

\* So does a thread that enters: if it is alone, then the status is Normal.
LEMMA EnterIInv ==
  ASSUME NEW t \in Threads, IInv, TypeOK', UNCHANGED <<status, argument, seen>>,
         NEW at, NEW to, Enter(t, at, to),
         \/ at = "test" /\ to = "SystemCritical"
         \/ at = "load" /\ to \in {"begin", "end"}
  PROVE  IInv'
<1> USE DEF IInv
<1>o. /\ \A u \in Threads : u # t => pc'[u] = pc[u]
      /\ pc[t].at = "outside" /\ pc[t].to = "Normal" /\ pc'[t].at = at /\ pc'[t].to = to
  BY DEF Enter, Goto, TypeOK, Ways
<1>1. Ways' BY <1>o DEF Ways
<1>2. Settling'
  <2>1. ~WillSettle(t) BY <1>o DEF WillSettle
  <2>2. \A u \in Threads : u # t => WillSettle(u)' = WillSettle(u) BY <1>o DEF WillSettle
  <2> QED BY <2>1, <2>2 DEF Settling
<1>3. Telling'
  <2> SUFFICES ASSUME ~overlap' PROVE Telling' BY DEF Telling
  <2>1. NobodyCalls BY DEF Enter
  <2>2. status = "Normal" BY <2>1 DEF Settling, NobodyCalls, WillSettle
  <2>3. \A u \in Threads : pc'[u].at # "outside" => u = t BY <1>o, <2>1 DEF NobodyCalls
  <2>4. Alone(t)' BY <1>o, <2>2, <2>3 DEF Alone
  <2> QED BY <1>o, <2>3, <2>4 DEF Telling, NobodyCalls
<1> QED BY <1>1, <1>2, <1>3

\* The inductive invariant is one.
LEMMA Invariant == Spec => []IInv
<1>1. Init => IInv
  <2> SUFFICES ASSUME Init PROVE IInv OBVIOUS
  <2>1. TypeOK
    <3>1. tasks \in 0 .. MaxTasks BY UnixConstants DEF Init
    <3>3. {simulating, installed, holdOff} \subseteq BOOLEAN BY DEF Init
    <3>2. pc \in [Threads -> Places] /\ argument \in [Threads -> Statuses] BY DEF Init
    <3> QED BY <3>1, <3>2, <3>3 DEF Init, TypeOK
  <2>2. \A t \in Threads : pc[t] = Outside BY DEF Init
  <2> QED BY <2>1, <2>2 DEF Init, IInv, Ways, Settling, Telling, Alone, NobodyCalls
<1>2. IInv /\ [Next]_vars => IInv'
  <2> SUFFICES ASSUME IInv, [Next]_vars PROVE IInv' OBVIOUS
  <2>0. TypeOK' BY NextTyped DEF IInv
  <2>m. Main \in Threads /\ Callers \subseteq Threads BY DEF Threads
  <2>1. ASSUME NEW t \in Callers, Trigger(t) PROVE IInv'
    BY <2>0, <2>1, <2>m, EnterIInv DEF Trigger
  <2>2. ASSUME NEW t \in Threads, Step(t) PROVE IInv' BY <2>0, <2>2, StepIInv
  <2>3. CASE BeginSimulation \/ EndSimulation
    BY <2>0, <2>3, <2>m, EnterIInv DEF BeginSimulation, EndSimulation
  <2>4. CASE UNCHANGED <<status, pc, argument, seen, overlap>>
    BY <2>0, <2>4 DEF IInv, Ways, Settling, WillSettle, Telling, Alone, NobodyCalls
  <2>5. CASE MainLoop \/ UNCHANGED vars
    BY <2>4, <2>5 DEF MainLoop, RunTask, HoldOffTimerFired, vars
  <2> QED BY <2>1, <2>2, <2>3, <2>5 DEF Next
<1> QED BY <1>1, <1>2, PTL DEF Spec

\* Every variable has its type (TypeOK), whatever the number of threads.
THEOREM TypeCorrect == Spec => []TypeOK
BY Invariant, PTL DEF IInv

\* However the tests and stores of any number of triggers interleave, the process is
\* not left critical (StatusSettles): while it is critical, some thread has yet to
\* test or store Normal.
THEOREM CriticalIsNeverForGood == Spec => []StatusSettles
<1>1. IInv => StatusSettles
  BY DEF IInv, Ways, Settling, WillSettle, StatusSettles, NobodyCalls
<1> QED BY <1>1, Invariant, PTL

\* A client that is told by one thread at a time is told everything (ClientSettles),
\* whatever overlapping threads have told it before.
THEOREM ClientIsTold == Spec => []ClientSettles
<1>1. IInv => ClientSettles BY DEF IInv, Telling, ClientSettles
<1> QED BY <1>1, Invariant, PTL
=============================================================================
