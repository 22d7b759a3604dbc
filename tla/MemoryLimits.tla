---------------------------- MODULE MemoryLimits ----------------------------
(***************************************************************************)
(* The limits a web process lives under: functions (MemoryThresholds) of   *)
(* the size of memory that ramSize() has cached (RAMSize) and the number   *)
(* of pages as they come and go (MemoryPressureHandler::setPageCount).     *)
(***************************************************************************)
EXTENDS RAMSize

CONSTANT MaxTabs   \* bound on the number of pages

ASSUME LimitsConstants == MaxTabs \in Nat

VARIABLE tabCount
limitsVars == <<vars, tabCount>>

LimitsInit == Init /\ tabCount = 0

SetPageCount ==
  /\ tabCount' \in (0 .. MaxTabs) \ {tabCount}
  /\ UNCHANGED vars

LimitsNext == SetPageCount \/ (Next /\ UNCHANGED tabCount)

LimitsSpec == LimitsInit /\ [][LimitsNext]_limitsVars
FairLimitsSpec == LimitsSpec /\ \A t \in Threads : WF_limitsVars(Step(t) /\ UNCHANGED tabCount)

-----------------------------------------------------------------------------
\* Type invariant.
LimitsTypeOK == TypeOK /\ tabCount \in 0 .. MaxTabs

\* A process is told to save memory before it is killed for using it: in either
\* state, with any number of pages, no footprint that reaches the kill threshold
\* is below the Strict band (MemoryPressureHandler.cpp:149-156 and 193-203).
StrictBeforeKill ==
  \A state \in {"Active", "Inactive"} :
    thresholdForPolicy(DefaultConfiguration(ram), "Strict")
      <= thresholdForMemoryKill(DefaultConfiguration(ram), state, ram, tabCount)

\* A process is never killed for becoming active: its limit does not fall when it
\* leaves the background, so didExceedInactiveLimitWhileActive is about a band
\* that exists (MemoryPressureHandler.cpp:97-111 and 218).
InactiveBelowActive ==
  thresholdForMemoryKillOfInactiveProcess(ram, tabCount)
    <= thresholdForMemoryKillOfActiveProcess(ram, tabCount)

\* The app shows the numbers that WebKit uses ("抽离 WebKit 的计算方法",
\* README.md:624), whatever the kernel answers when it asks: MemoryPressure.mm
\* against AvailableMemory.cpp and MemoryPressureHandler.cpp.
AppAgreesWithWebKit ==
  LET appRam    == appComputeAvailableMemory(hostInfo, limit)
      webKitRam == computeAvailableMemory(hostInfo, limit)
  IN  /\ appRam = webKitRam
      /\ appThresholdOfInactiveProcess(appRam, tabCount)
           = thresholdForMemoryKillOfInactiveProcess(webKitRam, tabCount)
=============================================================================
