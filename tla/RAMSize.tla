------------------------------- MODULE RAMSize -------------------------------
(***************************************************************************)
(* WTF::ramSize() and bmalloc::availableMemory(): two values computed once *)
(* and cached, the first from the second.  Each is guarded by a            *)
(* std::once_flag: the first caller runs the initializer, callers that     *)
(* arrive meanwhile block, later ones read the cached value.  The kernel   *)
(* may answer differently from one query to the next.  The app's           *)
(* MemoryPressure.mm has the same two functions (AppCopy).                 *)
(***************************************************************************)
EXTENDS MemoryThresholds, FiniteSets

CONSTANTS
  Threads,     \* threads that call ramSize() or availableMemory()
  HostInfos,   \* what host_info or sysinfo may answer
  Limits,      \* what memorystatus_control may answer
  AppCopy      \* TRUE: the app's copy of the computation

ASSUME RAMSizeConstants ==
  /\ HostInfos # {} /\ Limits # {}
  /\ \A answer \in HostInfos \cup Limits : answer = Failed \/ answer = Answer(answer.value)
  /\ \A answer \in HostInfos \ {Failed} : answer.value \in Nat
  /\ \A answer \in Limits \ {Failed} : answer.value \in Int
  /\ AppCopy \in BOOLEAN
  /\ Threads \cap {"unset", "set"} = {}

VARIABLES
  hostInfo,        \* what host_info would answer now
  limit,           \* what memorystatus_control would answer now
  ramOnce,         \* ramSize's onceFlag: "unset", "set", or the thread initializing it
  ram,             \* ramSize's cached value
  availableOnce,   \* availableMemory's onceFlag, likewise
  available,       \* availableMemory's cached value
  seenHost,        \* the initializer's local: the answer of host_info it has seen
  pc,              \* where each thread is
  returned         \* the values that calls have returned

vars == <<hostInfo, limit, ramOnce, ram, availableOnce, available, seenHost, pc, returned>>

Compute(host, lim) ==
  IF AppCopy THEN appComputeAvailableMemory(host, lim) ELSE computeAvailableMemory(host, lim)

Goto(t, label) == pc' = [pc EXCEPT ![t] = label]
Return(t, value) == Goto(t, "idle") /\ returned' = returned \cup {value}

Init ==
  /\ hostInfo \in HostInfos /\ limit \in Limits
  /\ ramOnce = "unset" /\ availableOnce = "unset"
  /\ ram = 0 /\ available = 0
  /\ seenHost = Failed
  /\ pc = [t \in Threads |-> "idle"]
  /\ returned = {}

\* A client calls one of the two functions.
Call(t) ==
  /\ pc[t] = "idle"
  /\ \E function \in {"ramSize", "availableMemory"} : Goto(t, function)
  /\ UNCHANGED <<hostInfo, limit, ramOnce, ram, availableOnce, available, seenHost, returned>>

\* Mutant: the initializer of ramSize() calls ramSize().
RamSizeOnce_Recursive(t) ==
  /\ pc[t] = "ramSize"
  /\ \/ ramOnce = "unset" /\ ramOnce' = t /\ Goto(t, "ramSize") /\ UNCHANGED returned
     \/ ramOnce = "set" /\ Return(t, ram) /\ UNCHANGED ramOnce
  /\ UNCHANGED <<hostInfo, limit, ram, availableOnce, available, seenHost>>

\* std::call_once in ramSize(): a thread that finds the flag taken waits.
RamSizeOnce(t) ==
  /\ pc[t] = "ramSize"
  /\ \/ ramOnce = "unset" /\ ramOnce' = t /\ Goto(t, "availableMemory") /\ UNCHANGED returned
     \/ ramOnce = "set" /\ Return(t, ram) /\ UNCHANGED ramOnce
  /\ UNCHANGED <<hostInfo, limit, ram, availableOnce, available, seenHost>>

\* Mutant: a second thread initializes the value, too.
AvailableMemoryOnce_Unguarded(t) ==
  /\ pc[t] = "availableMemory" /\ availableOnce # "set"
  /\ availableOnce' = t
  /\ Goto(t, "host")
  /\ UNCHANGED <<hostInfo, limit, ramOnce, ram, available, seenHost, returned>>

\* std::call_once in availableMemory(), the flag still unset.
AvailableMemoryOnce(t) ==
  /\ pc[t] = "availableMemory" /\ availableOnce = "unset"
  /\ availableOnce' = t
  /\ Goto(t, "host")
  /\ UNCHANGED <<hostInfo, limit, ramOnce, ram, available, seenHost, returned>>

\* computeAvailableMemory: the first query, and the second one with the result.
QueryHost(t) ==
  /\ pc[t] = "host"
  /\ seenHost' = hostInfo
  /\ Goto(t, "limit")
  /\ UNCHANGED <<hostInfo, limit, ramOnce, ram, availableOnce, available, returned>>

QueryLimit(t) ==
  /\ pc[t] = "limit"
  /\ available' = Compute(seenHost, limit)
  /\ availableOnce' = "set"
  /\ Goto(t, "availableMemory")
  /\ UNCHANGED <<hostInfo, limit, ramOnce, ram, seenHost, returned>>

\* availableMemory() returns its cached value: to ramSize's initializer when
\* this thread runs it, which completes ramSize() too, and else to the client.
AvailableMemoryReturn(t) ==
  /\ pc[t] = "availableMemory" /\ availableOnce = "set"
  /\ \/ ramOnce = t /\ ram' = available /\ ramOnce' = "set"
     \/ ramOnce # t /\ UNCHANGED <<ram, ramOnce>>
  /\ Return(t, available)
  /\ UNCHANGED <<hostInfo, limit, availableOnce, available, seenHost>>

KernelChanges ==
  /\ hostInfo' \in HostInfos /\ limit' \in Limits
  /\ UNCHANGED <<ramOnce, ram, availableOnce, available, seenHost, pc, returned>>

Step(t) == \/ RamSizeOnce(t) \/ AvailableMemoryOnce(t) \/ QueryHost(t)
           \/ QueryLimit(t) \/ AvailableMemoryReturn(t)

Next == KernelChanges \/ \E t \in Threads : Call(t) \/ Step(t)

Spec == Init /\ [][Next]_vars
\* call_once makes progress as long as its initializer's thread runs.
FairSpec == Spec /\ \A t \in Threads : WF_vars(Step(t))

-----------------------------------------------------------------------------
Labels == {"idle", "ramSize", "availableMemory", "host", "limit"}

\* Type invariant.
TypeOK ==
  /\ hostInfo \in HostInfos /\ limit \in Limits
  /\ ramOnce \in {"unset", "set"} \cup Threads
  /\ availableOnce \in {"unset", "set"} \cup Threads
  /\ ram \in Size /\ available \in Size
  /\ seenHost \in HostInfos \cup {Failed}
  /\ pc \in [Threads -> Labels]
  /\ returned \subseteq Size

\* However the kernel's answers change and the callers interleave, every call of
\* either function, from the first one on, returns the same value, and never one that
\* is not stored yet: the kill thresholds and bmalloc's scavenger reason about one
\* size of memory (the once_flags in RAMSize.cpp:79 and AvailableMemory.cpp:182).
OneSizeOfMemory ==
  /\ returned # {} => availableOnce = "set" /\ returned = {available}
  /\ ramOnce = "set" => availableOnce = "set" /\ ram = available

\* The nested flags do not deadlock, and every call returns.
EveryCallReturns == \A t \in Threads : pc[t] # "idle" ~> pc[t] = "idle"
=============================================================================
