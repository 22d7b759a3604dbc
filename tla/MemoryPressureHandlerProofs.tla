--------------------- MODULE MemoryPressureHandlerProofs ---------------------
(* Theorems about MemoryPressureHandler, for every configuration, every set of *)
(* footprints and both platforms, and about its reception on the Mac           *)
(* (MemoryPressureCocoa), for every number of timers and blocks.  The handler's *)
(* own theorems use no assumption of the Mac's.                                *)
EXTENDS MemoryPressureCocoa, TLAPS

-----------------------------------------------------------------------------
(* Facts about the arithmetic that the invariants need *)

\* What size_t arithmetic yields is a natural number.
LEMMA WrapIsNat == ASSUME NEW n \in Int PROVE Wrap(n) \in Nat
  BY ThresholdConstants DEF Wrap

\* A gigabyte is a natural number of bytes.
LEMMA GBIsNat == GB \in Nat
  BY ThresholdConstants DEF GB

\* The default configuration and every configuration a client gives are records
\* of natural numbers.
LEMMA ConfigurationsTyped ==
  /\ DefaultConfiguration(Ram) \in ConfigurationType
  /\ Configurations \subseteq ConfigurationType
  <1>1. DefaultConfiguration(Ram) \in ConfigurationType
    BY GBIsNat, HandlerConstants
    DEF DefaultConfiguration, ConfigurationType, Lesser, NoFraction
  <1>2. Configurations \subseteq ConfigurationType
    BY HandlerConstants DEF ConfigurationType
  <1> QED BY <1>1, <1>2

\* A fraction of a threshold is a natural number.
LEMMA FractionIsNat ==
  ASSUME NEW base \in Nat, NEW hundredths \in Nat
  PROVE  Fraction(base, hundredths) \in Nat
  <1>1. base * hundredths \in Nat
    OBVIOUS
  <1> QED BY <1>1 DEF Fraction

\* The kill threshold is a natural number, whatever the settings.
LEMMA KillThresholdIsNat ==
  ASSUME NEW c \in ConfigurationType, NEW state \in ProcessStates,
         NEW ram \in Nat, NEW count \in Nat
  PROVE  thresholdForMemoryKill(c, state, ram, count) \in Nat
  <1>1. CASE c.killThresholdFraction # NoFraction
    <2>1. c.baseThreshold \in Nat /\ c.killThresholdFraction \in Nat
      BY <1>1 DEF ConfigurationType
    <2> QED BY <1>1, <2>1, FractionIsNat DEF thresholdForMemoryKill
  <1>2. CASE c.killThresholdFraction = NoFraction
    <2>1. count * GB \in Int
      BY GBIsNat
    <2>2. Wrap(count * GB) \in Nat /\ Wrap(16 * GB) \in Nat
          /\ Wrap(15 * GB) \in Nat /\ Wrap(7 * GB) \in Nat
      BY <2>1, GBIsNat, WrapIsNat
    <2>3. thresholdForMemoryKillOfActiveProcess(ram, count) \in Nat
      BY <2>2, WrapIsNat DEF thresholdForMemoryKillOfActiveProcess
    <2>4. (ram * 9) \div 10 \in Nat
      OBVIOUS
    <2>5. Wrap(3 * GB + Wrap(count * GB)) \in Nat
      BY <2>2, GBIsNat, WrapIsNat
    <2>6. thresholdForMemoryKillOfInactiveProcess(ram, count) \in Nat
      BY <2>4, <2>5, GBIsNat DEF thresholdForMemoryKillOfInactiveProcess, Lesser
    <2> QED BY <1>2, <2>3, <2>6 DEF thresholdForMemoryKill
  <1> QED BY <1>1, <1>2

\* Every footprint has a policy.
LEMMA PolicyTyped ==
  ASSUME NEW c, NEW size PROVE policyForFootprint(c, size) \in Policies
  BY DEF policyForFootprint, Policies

\* What a client is shown is well typed in every state in which the pressure
\* variables are.
LEMMA ViewTyped ==
  ASSUME status \in Statuses, simulating \in BOOLEAN
  PROVE  /\ isUnderMemoryPressure \in BOOLEAN
         /\ ClientView \in [status : Statuses, under : BOOLEAN]
  BY DEF isUnderMemoryPressure, ClientView

-----------------------------------------------------------------------------
(* The type invariant *)

\* What releaseMemory may ask, and whom a tick may wait for.
Asks  == [critical : BOOLEAN, synchronous : BOOLEAN, ran : BOOLEAN]
Calls == {NoCall, "statusChanged", "lowMemory", "didExceed"}

\* What releaseMemory records is well typed.
LEMMA AsksTyped ==
  ASSUME NEW critical \in BOOLEAN, NEW synchronous \in BOOLEAN
  PROVE  /\ [critical |-> critical, synchronous |-> synchronous, ran |-> TRUE] \in Asks
         /\ NoRelease \in Asks
  BY DEF Asks, NoRelease

\* Every variable has its type (TypeOK), whatever the footprints, page counts and
\* configurations.
THEOREM TypeCorrect == Spec => []TypeOK
<1> USE DEF Asks, Calls, Phases
<1>1. Init => TypeOK
  <2> SUFFICES ASSUME Init PROVE TypeOK
    OBVIOUS
  <2>1. asked \in Asks
    BY DEF Init, NoRelease
  <2>2. notified \in [status : Statuses, under : BOOLEAN]
    BY DEF Init, Statuses
  <2>3. config \in ConfigurationType
    BY ConfigurationsTyped DEF Init
  <2>4. elapsed \in 0 .. PollInterval
    BY HandlerConstants DEF Init
  <2> QED BY <2>1, <2>2, <2>3, <2>4 DEF Init, TypeOK, ProcessStates, Statuses, Policies
<1>2. TypeOK /\ [Next]_vars => TypeOK'
  <2> SUFFICES ASSUME TypeOK, [Next]_vars PROVE TypeOK'
    OBVIOUS
  <2> USE DEF limits, timer_, tick, report, pressure
  <2>0. /\ pageCount \in Nat /\ footprint \in Nat /\ KillThreshold \in Nat
        /\ PollInterval \in Nat \ {0}
    <3>1. pageCount \in Nat /\ Ram \in Nat /\ footprint \in Nat
      BY HandlerConstants DEF TypeOK
    <3>2. KillThreshold \in Nat
      BY <3>1, KillThresholdIsNat DEF KillThreshold, TypeOK
    <3> QED BY <3>1, <3>2, HandlerConstants
  \* The operators that the steps share.
  <2>a. ASSUME setMemoryUsagePolicyBasedOnFootprint
        PROVE  /\ policy' \in Policies /\ status' \in Statuses /\ simulating' \in BOOLEAN
               /\ notified' \in [status : Statuses, under : BOOLEAN]
               /\ handlers' \subseteq Handlers
    <3>1. policy' \in Policies /\ status' \in Statuses /\ simulating' \in BOOLEAN
      BY <2>a, PolicyTyped DEF setMemoryUsagePolicyBasedOnFootprint, TypeOK
    <3>2. ClientView' \in [status : Statuses, under : BOOLEAN]
      BY <3>1, ViewTyped DEF ClientView, isUnderMemoryPressure
    <3> QED BY <2>a, <3>1, <3>2
            DEF setMemoryUsagePolicyBasedOnFootprint, memoryPressureStatusChanged, TypeOK
  <2>b. ASSUME NEW critical \in BOOLEAN, NEW synchronous \in BOOLEAN,
               releaseMemory(critical, synchronous)
        PROVE  asked' \in Asks /\ calling' \in Calls
    <3> HIDE DEF Asks
    <3> QED BY <2>b, AsksTyped DEF releaseMemory
  <2>c. ASSUME memoryPressureStatusChanged, status' \in Statuses, simulating' \in BOOLEAN
        PROVE  notified' \in [status : Statuses, under : BOOLEAN]
    <3>1. ClientView' \in [status : Statuses, under : BOOLEAN]
      BY <2>c, ViewTyped DEF ClientView, isUnderMemoryPressure
    <3> QED BY <2>c, <3>1 DEF memoryPressureStatusChanged, TypeOK
  <2>d. ASSUME Return
        PROVE  /\ phase' \in Phases /\ calling' \in Calls /\ asked' \in Asks
               /\ measured' \in Nat /\ killThreshold' \in Nat /\ moved' \in BOOLEAN
    BY <2>d DEF Return, NoRelease
  <2>e. ASSUME Measure
        PROVE  /\ elapsed' \in 0 .. PollInterval /\ measured' \in Nat /\ moved' \in BOOLEAN
               /\ footprint' \in Footprints /\ pageCount' \in PageCounts \cup {0}
               /\ processState' \in ProcessStates /\ config' \in ConfigurationType
               /\ monitoring' \in BOOLEAN /\ hasInvoked' \in BOOLEAN /\ told' \in BOOLEAN
               /\ handlers' \subseteq Handlers
    <3>1. elapsed' = 0 /\ measured' = footprint /\ moved' = FALSE
          /\ UNCHANGED <<footprint, limits, handlers, monitoring, report>>
      BY <2>e DEF Measure
    <3>2. elapsed' \in 0 .. PollInterval /\ measured' \in Nat
      BY <2>0, <3>1
    <3>3. moved' \in BOOLEAN
      BY <3>1
    <3>4. UNCHANGED <<footprint, limits, handlers, monitoring, hasInvoked, told>>
      BY <3>1
    <3> QED BY <3>2, <3>3, <3>4 DEF TypeOK
  \* The client's calls.
  <2>1. CASE FootprintChanges
    BY <2>1 DEF FootprintChanges, TypeOK
  <2>2. ASSUME NEW count \in PageCounts, SetPageCount(count) PROVE TypeOK'
    BY <2>2 DEF SetPageCount, Setting, TypeOK
  <2>3. ASSUME NEW state \in ProcessStates, SetProcessState(state) PROVE TypeOK'
    BY <2>3 DEF SetProcessState, Setting, TypeOK
  <2>4. ASSUME NEW c \in Configurations, SetConfiguration(c) PROVE TypeOK'
    BY <2>4, ConfigurationsTyped DEF SetConfiguration, Setting, TypeOK
  <2>5. ASSUME NEW h \in Handlers, SetHandler(h) PROVE TypeOK'
    BY <2>5, ViewTyped DEF SetHandler, TypeOK
  <2>6. ASSUME NEW use \in BOOLEAN, SetShouldUsePeriodicMemoryMonitor(use) PROVE TypeOK'
    BY <2>0, <2>6 DEF SetShouldUsePeriodicMemoryMonitor, TypeOK
  <2>7. CASE BeginSimulatedMemoryPressure
    BY <2>7, <2>c DEF BeginSimulatedMemoryPressure, TypeOK
  <2>8. CASE EndSimulatedMemoryPressure
    BY <2>8, <2>c DEF EndSimulatedMemoryPressure, TypeOK
  <2>9. ASSUME NEW event \in Events, MemoryPressureEvent(event) PROVE TypeOK'
    <3>1. status' \in Statuses /\ simulating' \in BOOLEAN
      BY <2>9, HandlerConstants DEF MemoryPressureEvent, TypeOK
    <3>2. notified' \in [status : Statuses, under : BOOLEAN]
      BY <2>9, <2>c, <3>1 DEF MemoryPressureEvent, TypeOK
    <3> QED BY <2>9, <3>1, <3>2 DEF MemoryPressureEvent, TypeOK
  \* The timer.
  <2>10. CASE TimePasses
    BY <2>0, <2>10 DEF TimePasses, TypeOK
  <2>11. CASE MeasurementTimerFiredAboveLimit
    <3>1. asked' \in Asks /\ calling' \in Calls
      BY <2>11, <2>b DEF MeasurementTimerFiredAboveLimit
    <3>2. killThreshold' \in Nat /\ phase' \in Phases
      BY <2>0, <2>11 DEF MeasurementTimerFiredAboveLimit
    <3>3. UNCHANGED <<pressure, notified>> /\ Measure
      BY <2>11 DEF MeasurementTimerFiredAboveLimit
    <3> QED BY <2>e, <3>1, <3>2, <3>3 DEF TypeOK
  <2>12. CASE MeasurementTimerFired
    <3>1. asked' \in Asks /\ killThreshold' \in Nat /\ phase' \in Phases /\ calling' \in Calls
      BY <2>12 DEF MeasurementTimerFired, TypeOK
    <3>2. setMemoryUsagePolicyBasedOnFootprint /\ Measure
      BY <2>12 DEF MeasurementTimerFired
    <3> QED BY <2>a, <2>e, <3>1, <3>2 DEF TypeOK
  <2>13. CASE ShrankBelowLimit
    BY <2>13, <2>a, <2>d DEF ShrankBelowLimit, TypeOK
  <2>14. CASE Die
    BY <2>14 DEF Die, TypeOK
  <2>15. CASE ReleaseByPolicy
    <3>1. asked' \in Asks /\ calling' \in Calls
      BY <2>15, <2>b DEF ReleaseByPolicy, TypeOK
    <3> QED BY <2>15, <3>1 DEF ReleaseByPolicy, TypeOK
  <2>16. CASE DoesNotExceedInactiveLimitWhileActive
    BY <2>16, <2>d DEF DoesNotExceedInactiveLimitWhileActive, TypeOK
  <2>17. CASE DoesExceedInactiveLimitWhileActive
    BY <2>17, <2>d DEF DoesExceedInactiveLimitWhileActive, TypeOK
  <2>18. CASE HasInvoked
    BY <2>18, <2>d DEF HasInvoked, TypeOK
  <2>19. CASE UNCHANGED vars
    BY <2>19 DEF vars, TypeOK
  <2> QED
    BY <2>1, <2>2, <2>3, <2>4, <2>5, <2>6, <2>7, <2>8, <2>9, <2>10, <2>11, <2>12, <2>13, <2>14,
       <2>15, <2>16, <2>17, <2>18, <2>19
    DEF Next, ClientCalls, Timer, Tick, ShrinkOrDie
<1> QED BY <1>1, <1>2, PTL DEF Spec

-----------------------------------------------------------------------------
(* The safety properties *)

\* A client that follows the status callback always knows whether the process is
\* under memory pressure (NotifiedCurrent), on iOS and on the Mac.
THEOREM ClientIsCurrent == Spec => []NotifiedCurrent
<1>1. Init => NotifiedCurrent
  BY DEF Init, NotifiedCurrent
<1>2. NotifiedCurrent /\ [Next]_vars => NotifiedCurrent'
  <2> SUFFICES ASSUME NotifiedCurrent, [Next]_vars PROVE NotifiedCurrent'
    OBVIOUS
  <2> USE DEF pressure
  \* A step that leaves the sources of pressure, the handlers and the view alone.
  <2>0. ASSUME UNCHANGED <<pressure, handlers, notified>> PROVE NotifiedCurrent'
    BY <2>0 DEF NotifiedCurrent, ClientView, isUnderMemoryPressure
  \* A step that runs the status callback.
  <2>1. ASSUME memoryPressureStatusChanged, UNCHANGED handlers PROVE NotifiedCurrent'
    BY <2>1 DEF NotifiedCurrent, memoryPressureStatusChanged
  <2>2. ASSUME setMemoryUsagePolicyBasedOnFootprint PROVE NotifiedCurrent'
    <3>1. CASE policy' = policy
      BY <2>0, <2>2, <3>1 DEF setMemoryUsagePolicyBasedOnFootprint
    <3>2. CASE policy' # policy
      BY <2>1, <2>2, <3>2 DEF setMemoryUsagePolicyBasedOnFootprint
    <3> QED BY <3>1, <3>2
  <2>3. ASSUME NEW h \in Handlers, SetHandler(h) PROVE NotifiedCurrent'
    <3>1. ClientView' = ClientView
      BY <2>3 DEF SetHandler, ClientView, isUnderMemoryPressure
    <3>2. CASE h = "statusChanged"
      BY <2>3, <3>1, <3>2 DEF SetHandler, NotifiedCurrent
    <3>3. CASE h # "statusChanged"
      BY <2>3, <3>1, <3>3 DEF SetHandler, NotifiedCurrent
    <3> QED BY <3>2, <3>3
  <2>4. ASSUME NEW event \in Events, MemoryPressureEvent(event) PROVE NotifiedCurrent'
    <3>1. CASE status' = status
      BY <2>0, <2>4, <3>1 DEF MemoryPressureEvent
    <3>2. CASE status' # status
      BY <2>1, <2>4, <3>2 DEF MemoryPressureEvent
    <3> QED BY <3>1, <3>2
  <2>5. CASE FootprintChanges \/ TimePasses
    BY <2>0, <2>5 DEF FootprintChanges, TimePasses
  <2>6. CASE \/ \E count \in PageCounts : SetPageCount(count)
             \/ \E state \in ProcessStates : SetProcessState(state)
             \/ \E c \in Configurations : SetConfiguration(c)
             \/ \E use \in BOOLEAN : SetShouldUsePeriodicMemoryMonitor(use)
    BY <2>0, <2>6 DEF SetPageCount, SetProcessState, SetConfiguration, Setting,
                      SetShouldUsePeriodicMemoryMonitor
  <2>7. CASE BeginSimulatedMemoryPressure \/ EndSimulatedMemoryPressure
    BY <2>1, <2>7 DEF BeginSimulatedMemoryPressure, EndSimulatedMemoryPressure
  \* Two steps set the policy, and the other steps of a tick leave it alone.
  <2>8. CASE MeasurementTimerFired \/ ShrankBelowLimit
    BY <2>2, <2>8 DEF MeasurementTimerFired, ShrankBelowLimit
  <2>9. CASE MeasurementTimerFiredAboveLimit
    BY <2>0, <2>9 DEF MeasurementTimerFiredAboveLimit, Measure
  <2>10. CASE \/ Die \/ ReleaseByPolicy \/ DoesNotExceedInactiveLimitWhileActive
              \/ DoesExceedInactiveLimitWhileActive \/ HasInvoked
    BY <2>0, <2>10 DEF Die, ReleaseByPolicy, DoesNotExceedInactiveLimitWhileActive,
                       DoesExceedInactiveLimitWhileActive, HasInvoked
  <2>11. CASE UNCHANGED vars
    BY <2>0, <2>11 DEF vars
  <2> QED
    BY <2>3, <2>4, <2>5, <2>6, <2>7, <2>8, <2>9, <2>10, <2>11
    DEF Next, ClientCalls, Timer, Tick, ShrinkOrDie
<1> QED BY <1>1, <1>2, PTL DEF Spec

\* The inductive invariant of shrinkOrDie: what it holds in its local variables while
\* the client runs, and, if the process ends, for ever after.
Chance ==
  phase \in {"shrinking", "killed", "crashed"} =>
    /\ measured >= killThreshold
    /\ killThreshold = KillThreshold \/ moved
    /\ asked = LastChance \/ (calling = NoCall /\ "lowMemory" \notin handlers)
    /\ phase # "shrinking" => footprint >= killThreshold /\ calling = NoCall

\* No process is killed, and none fails the assertion, without its last chance
\* (KilledOnlyAfterLastChance), whatever the thresholds, however the footprint moves
\* and whatever the handler of the client calls while shrinkOrDie waits for it.
THEOREM LastChanceIsGiven == Spec => []KilledOnlyAfterLastChance
<1>1. Init => Chance
  BY DEF Init, Chance
<1>2. Chance /\ [Next]_vars => Chance'
  <2> SUFFICES ASSUME Chance, [Next]_vars PROVE Chance'
    OBVIOUS
  <2> USE DEF limits, timer_, tick
  \* A step that leaves shrinkOrDie and what it depends on alone.
  <2>0. ASSUME UNCHANGED <<limits, handlers, tick, moved>>, ~Alive => footprint' = footprint
        PROVE  Chance'
    BY <2>0 DEF Chance, KillThreshold, Alive
  \* Nothing is claimed outside shrinkOrDie.
  <2>1. ASSUME phase' \notin {"shrinking", "killed", "crashed"} PROVE Chance'
    BY <2>1 DEF Chance
  <2>2. CASE FootprintChanges
    BY <2>0, <2>2 DEF FootprintChanges
  <2>3. CASE \/ TimePasses \/ BeginSimulatedMemoryPressure \/ EndSimulatedMemoryPressure
             \/ \E use \in BOOLEAN : SetShouldUsePeriodicMemoryMonitor(use)
             \/ \E event \in Events : MemoryPressureEvent(event)
    BY <2>0, <2>3 DEF TimePasses, BeginSimulatedMemoryPressure, EndSimulatedMemoryPressure,
                      SetShouldUsePeriodicMemoryMonitor, MemoryPressureEvent
  \* The client's handler calls a setter while shrinkOrDie waits.
  <2>4. ASSUME Setting PROVE Chance'
    <3>1. /\ UNCHANGED <<footprint, handlers, tick>> /\ ClientRuns
          /\ moved' = (phase = "shrinking")
      BY <2>4 DEF Setting
    <3>2. CASE phase = "shrinking"
      BY <3>1, <3>2 DEF Chance
    <3>3. CASE phase # "shrinking"
      BY <3>1, <3>3 DEF Chance, ClientRuns, Idle
    <3> QED BY <3>2, <3>3
  <2>5. CASE \/ \E count \in PageCounts : SetPageCount(count)
             \/ \E state \in ProcessStates : SetProcessState(state)
             \/ \E c \in Configurations : SetConfiguration(c)
    BY <2>4, <2>5 DEF SetPageCount, SetProcessState, SetConfiguration
  <2>6. ASSUME NEW h \in Handlers, SetHandler(h) PROVE Chance'
    <3>1. UNCHANGED <<footprint, limits, tick, moved>> /\ (Idle \/ calling # NoCall)
      BY <2>6 DEF SetHandler, ClientRuns
    <3> QED BY <3>1 DEF Chance, KillThreshold, Idle
  <2>7. CASE MeasurementTimerFiredAboveLimit
    <3>1. /\ phase' = "shrinking" /\ killThreshold' = KillThreshold /\ measured' = footprint
          /\ footprint >= KillThreshold /\ UNCHANGED <<limits, handlers>>
      BY <2>7 DEF MeasurementTimerFiredAboveLimit, Measure
    <3>2. asked' = LastChance \/ (calling' = NoCall /\ "lowMemory" \notin handlers')
      BY <2>7, <3>1 DEF MeasurementTimerFiredAboveLimit, releaseMemory, LastChance
    <3>3. killThreshold' = KillThreshold'
      BY <3>1 DEF KillThreshold
    <3> QED BY <3>1, <3>2, <3>3 DEF Chance
  <2>8. CASE Die
    BY <2>8 DEF Die, Chance, KillThreshold
  <2>9. CASE \/ MeasurementTimerFired \/ ShrankBelowLimit \/ ReleaseByPolicy
             \/ DoesNotExceedInactiveLimitWhileActive \/ DoesExceedInactiveLimitWhileActive
             \/ HasInvoked
    BY <2>1, <2>9 DEF MeasurementTimerFired, ShrankBelowLimit, ReleaseByPolicy, Return,
                      DoesNotExceedInactiveLimitWhileActive, DoesExceedInactiveLimitWhileActive,
                      HasInvoked
  <2>10. CASE UNCHANGED vars
    BY <2>0, <2>10 DEF vars
  <2> QED BY <2>2, <2>3, <2>5, <2>6, <2>7, <2>8, <2>9, <2>10
          DEF Next, ClientCalls, Timer, Tick, ShrinkOrDie
<1>3. Chance => KilledOnlyAfterLastChance
  BY DEF Chance, KilledOnlyAfterLastChance, Alive
<1> QED BY <1>1, <1>2, <1>3, PTL DEF Spec

\* Once the client is told, the flag says so, or the call has not returned yet.
Told == told => hasInvoked \/ phase = "reporting"

\* The client is told once of each excursion (ToldOncePerExcursion), though the flag is
\* set only after the call, during which the client may do what it likes.
THEOREM ToldOnce == Spec => ToldOncePerExcursion
<1>1. Init => Told
  BY DEF Init, Told
<1>2. Told /\ [Next]_vars => Told' /\ (told => calling' # "didExceed" \/ calling = "didExceed")
  <2> SUFFICES ASSUME Told, [Next]_vars
               PROVE  Told' /\ (told => calling' # "didExceed" \/ calling = "didExceed")
    OBVIOUS
  <2> USE DEF tick, report
  <2>0. ASSUME UNCHANGED <<tick, report>>
        PROVE  Told' /\ (told => calling' # "didExceed" \/ calling = "didExceed")
    BY <2>0 DEF Told
  \* A step that calls another callback, or none.
  <2>1. ASSUME phase # "reporting", calling' # "didExceed", UNCHANGED report
        PROVE  Told' /\ (told => calling' # "didExceed" \/ calling = "didExceed")
    BY <2>1 DEF Told
  <2>2. CASE \/ FootprintChanges \/ ClientCalls \/ TimePasses
             \/ BeginSimulatedMemoryPressure \/ EndSimulatedMemoryPressure
             \/ \E event \in Events : MemoryPressureEvent(event)
    BY <2>0, <2>2 DEF FootprintChanges, ClientCalls, TimePasses, BeginSimulatedMemoryPressure,
                      EndSimulatedMemoryPressure, MemoryPressureEvent, SetPageCount,
                      SetProcessState, SetConfiguration, Setting, SetHandler,
                      SetShouldUsePeriodicMemoryMonitor
  <2>3. CASE Timer
    BY <2>1, <2>3 DEF Timer, MeasurementTimerFired, MeasurementTimerFiredAboveLimit, Measure,
                      Idle, releaseMemory, NoCall
  <2>4. CASE ShrinkOrDie \/ ReleaseByPolicy
    <3>1. ASSUME UNCHANGED calling, UNCHANGED report, phase # "reporting"
          PROVE  Told' /\ (told => calling' # "didExceed" \/ calling = "didExceed")
      BY <3>1 DEF Told
    <3> QED BY <2>1, <2>4, <3>1 DEF ShrinkOrDie, ShrankBelowLimit, Die, ReleaseByPolicy,
                                    Return, releaseMemory, NoCall
  <2>5. CASE DoesNotExceedInactiveLimitWhileActive \/ HasInvoked
    BY <2>5 DEF DoesNotExceedInactiveLimitWhileActive, HasInvoked, Return, NoCall, Told
  <2>6. CASE DoesExceedInactiveLimitWhileActive
    BY <2>6 DEF DoesExceedInactiveLimitWhileActive, Return, NoCall, Told
  <2>7. CASE UNCHANGED vars
    BY <2>0, <2>7 DEF vars
  <2> QED BY <2>2, <2>3, <2>4, <2>5, <2>6, <2>7 DEF Next, Tick
<1> QED BY <1>1, <1>2, PTL DEF Spec, ToldOncePerExcursion

-----------------------------------------------------------------------------
(* Reception on the Mac: the handler hears nothing that it could not hear *)

\* Whatever reception does, the handler takes one of its own steps or none.
LEMMA CocoaStepIsHandlerStep == ASSUME CocoaNext PROVE [Next]_vars
<1>1. CASE PressureArrives \/ NotificationArrives \/ \E t \in Timers : HoldOffPasses(t)
  BY <1>1 DEF PressureArrives, NotificationArrives, HoldOffPasses
<1>2. CASE RunInstall \/ RunUninstall \/ RunHoldOff \/ RunTimer
  BY <1>2 DEF RunInstall, RunUninstall, RunHoldOff, RunTimer
<1>3. CASE RunEvent BY <1>3 DEF RunEvent, Next
<1>4. End => [Next]_vars BY DEF End, Next
<1>5. ASSUME NEW q, BeginOnto(q) PROVE [Next]_vars BY <1>5 DEF BeginOnto, Next
<1>6. CASE RunNotification
  <2> PICK n \in Simulations :
        CASE ~registered -> UNCHANGED vars
          [] registered /\ n = "lowMemory" -> BeginOnto(Tail(queue))
          [] registered /\ n = "lowMemory.begin" -> BeginOnto(Tail(queue))
          [] registered /\ n = "lowMemory.end" -> End
    BY <1>6, CocoaConstants DEF RunNotification
  <2> n \in {"lowMemory", "lowMemory.begin", "lowMemory.end"} BY CocoaConstants
  <2> QED BY <1>4, <1>5
<1>7. CASE RunEnd \/ DirectCall BY <1>4, <1>5, <1>7 DEF RunEnd, DirectCall
<1>8. CASE HandlerStep BY <1>8 DEF HandlerStep, Next
<1> QED BY <1>1, <1>2, <1>3, <1>6, <1>7, <1>8 DEF CocoaNext, RunBlock

\* What holds of the handler in every environment holds of it on the Mac: each
\* behaviour of MemoryPressureCocoa is one of MemoryPressureHandler.
THEOREM CocoaImplementsHandler == CocoaSpec => Spec
<1>1. CocoaInit => Init BY DEF CocoaInit
<1>2. [CocoaNext]_<<vars, cocoaVars>> => [Next]_vars BY CocoaStepIsHandlerStep
<1> QED BY <1>1, <1>2, PTL DEF CocoaSpec, Spec

\* On the Mac, too, the client knows the truth, nobody is killed without a last chance,
\* and the client is told once of each excursion, whatever the queue's blocks and the
\* notifications do.
THEOREM HandlerOnTheMac ==
  CocoaSpec => [](NotifiedCurrent /\ KilledOnlyAfterLastChance) /\ ToldOncePerExcursion
BY CocoaImplementsHandler, ClientIsCurrent, LastChanceIsGiven, ToldOnce, PTL

-----------------------------------------------------------------------------
(* The blocks of install and uninstall *)

Runs == {"install", "uninstall", "holdOff", "timer", "event"} \cup Simulations
Blocks == [run : Runs \ {"holdOff"}, of : Timers \cup {NoTimer}]
            \cup [run : {"holdOff"}, of : Timers]

\* What a block does to the pressure source, if it comes at the right time.
Turns(run, before, after) ==
  CASE run = "install"   -> before = "absent" /\ after = "present"
    [] run = "uninstall" -> before = "present" /\ after = "absent"
    [] OTHER             -> after = before

\* The blocks of q, from a source that is `from`, leave it `to`: live[k] is the source
\* when the k-th block begins.
Alternates(q, from, to) ==
  \E live \in [1 .. Len(q) + 1 -> {"present", "absent"}] :
    /\ live[1] = from /\ live[Len(q) + 1] = to
    /\ \A k \in 1 .. Len(q) : Turns(q[k].run, live[k], live[k + 1])

Source    == IF source THEN "present" ELSE "absent"
Installed == IF installed THEN "present" ELSE "absent"

\* The inductive invariant: the blocks that wait turn the source on and off in turn,
\* and bring it to what m_installed says.
Reception ==
  /\ leaked = 0 /\ installed \in BOOLEAN /\ source \in BOOLEAN
  /\ queue \in Seq(Blocks)
  /\ Alternates(queue, Source, Installed)

\* A block that follows the others.
LEMMA AppendTurns ==
  ASSUME NEW q \in Seq(Blocks), NEW b \in Blocks, NEW from, NEW to,
         NEW then \in {"present", "absent"}, Alternates(q, from, to), Turns(b.run, to, then)
  PROVE  Append(q, b) \in Seq(Blocks) /\ Alternates(Append(q, b), from, then)
<1> DEFINE n == Len(q)
<1>1. n \in Nat /\ Len(Append(q, b)) = n + 1 /\ Append(q, b) \in Seq(Blocks)
      /\ \A k \in 1 .. n : Append(q, b)[k] = q[k]
      /\ Append(q, b)[n + 1] = b
  OBVIOUS
<1>2. PICK live \in [1 .. n + 1 -> {"present", "absent"}] :
        /\ live[1] = from /\ live[n + 1] = to
        /\ \A k \in 1 .. n : Turns(q[k].run, live[k], live[k + 1])
  BY DEF Alternates
<1> DEFINE longer == [k \in 1 .. n + 2 |-> IF k = n + 2 THEN then ELSE live[k]]
<1> HIDE DEF n
<1>3. longer \in [1 .. n + 2 -> {"present", "absent"}] BY <1>1, <1>2
<1>4. longer[1] = from /\ longer[n + 2] = then BY <1>1, <1>2
<1>5. \A k \in 1 .. n + 1 : Turns(Append(q, b)[k].run, longer[k], longer[k + 1])
  <2> TAKE k \in 1 .. n + 1
  <2>1. CASE k \in 1 .. n
    <3>1. longer[k] = live[k] /\ longer[k + 1] = live[k + 1] BY <1>1, <2>1
    <3> QED BY <1>1, <1>2, <2>1, <3>1
  <2>2. CASE k = n + 1
    <3>1. longer[k] = to /\ longer[k + 1] = then BY <1>1, <1>2, <2>2
    <3> QED BY <1>1, <2>2, <3>1
  <2> QED BY <1>1, <2>1, <2>2
<1>6. Len(Append(q, b)) + 1 = n + 2 BY <1>1
<1> HIDE DEF longer
<1> QED BY <1>1, <1>3, <1>4, <1>5, <1>6 DEF Alternates

\* The first block has run.
LEMMA TailTurns ==
  ASSUME NEW q \in Seq(Blocks), q # <<>>, NEW from, NEW to, Alternates(q, from, to)
  PROVE  /\ Tail(q) \in Seq(Blocks)
         /\ \E after \in {"present", "absent"} :
              Turns(Head(q).run, from, after) /\ Alternates(Tail(q), after, to)
<1> DEFINE n == Len(q)
<1>1. n \in Nat \ {0} /\ Len(Tail(q)) = n - 1 /\ Tail(q) \in Seq(Blocks) /\ Head(q) = q[1]
      /\ \A k \in 1 .. n - 1 : Tail(q)[k] = q[k + 1]
  OBVIOUS
<1>2. PICK live \in [1 .. n + 1 -> {"present", "absent"}] :
        /\ live[1] = from /\ live[n + 1] = to
        /\ \A k \in 1 .. n : Turns(q[k].run, live[k], live[k + 1])
  BY DEF Alternates
<1> DEFINE shorter == [k \in 1 .. n |-> live[k + 1]]
<1> HIDE DEF n
<1>3. shorter \in [1 .. n -> {"present", "absent"}] BY <1>1, <1>2
<1>4. shorter[1] = live[2] /\ shorter[n] = to BY <1>1, <1>2
<1>5. \A k \in 1 .. n - 1 : Turns(Tail(q)[k].run, shorter[k], shorter[k + 1])
  <2> TAKE k \in 1 .. n - 1
  <2>1. shorter[k] = live[k + 1] /\ shorter[k + 1] = live[k + 1 + 1] BY <1>1
  <2>2. k + 1 \in 1 .. n BY <1>1
  <2>3. Turns(q[k + 1].run, live[k + 1], live[k + 1 + 1]) BY <1>2, <2>2
  <2> QED BY <1>1, <2>1, <2>3
<1>6. live[2] \in {"present", "absent"} /\ Turns(Head(q).run, from, live[2]) BY <1>1, <1>2
<1> HIDE DEF shorter
<1>7. Alternates(Tail(q), live[2], to)
  <2>1. (n - 1) + 1 = n BY <1>1
  <2> QED BY <1>1, <1>3, <1>4, <1>5, <2>1 DEF Alternates
<1> QED BY <1>1, <1>6, <1>7

\* No block waits: the source is what it will be.
LEMMA NothingTurns ==
  ASSUME NEW from, NEW to, Alternates(<<>>, from, to) PROVE from = to
BY DEF Alternates

-----------------------------------------------------------------------------
(* What the callers append *)

\* The blocks, by name.
LEMMA BlocksTyped ==
  /\ \A r \in Runs \ {"holdOff"} : Block(r) \in Blocks /\ Block(r).run = r
  /\ \A t \in Timers : /\ HoldOffBlock(t) \in Blocks /\ HoldOffBlock(t).run = "holdOff"
                       /\ TimerBlock(t) \in Blocks /\ TimerBlock(t).run = "timer"
  /\ {"install", "uninstall", "event"} \cup Simulations \subseteq Runs \ {"holdOff"}
  /\ "install" \notin Simulations /\ "uninstall" \notin Simulations
BY CocoaConstants DEF Blocks, Block, HoldOffBlock, TimerBlock, Runs

\* A block that is neither install's nor uninstall's.
LEMMA AppendOther ==
  ASSUME NEW q \in Seq(Blocks), NEW b \in Blocks, b.run \notin {"install", "uninstall"},
         NEW from, NEW to \in {"present", "absent"}, Alternates(q, from, to)
  PROVE  Append(q, b) \in Seq(Blocks) /\ Alternates(Append(q, b), from, to)
<1>1. Turns(b.run, to, to) BY DEF Turns
<1> QED BY <1>1, AppendTurns

\* install() leaves blocks that end with the source as it says.
LEMMA InstallTurns ==
  ASSUME NEW q \in Seq(Blocks), NEW from, Alternates(q, from, Installed),
         installed \in BOOLEAN, NEW may, may => ~installed, InstallOnto(q, may)
  PROVE  /\ queue' \in Seq(Blocks) /\ installed' \in BOOLEAN
         /\ Alternates(queue', from, Installed')
<1>1. CASE may
  <2>1. queue' = Append(q, Block("install")) /\ installed' BY <1>1 DEF InstallOnto
  <2>2. Installed = "absent" /\ Installed' = "present" BY <1>1, <2>1 DEF Installed
  <2>3. Turns("install", "absent", "present") BY DEF Turns
  <2> QED BY <1>1, <2>1, <2>2, <2>3, AppendTurns, BlocksTyped DEF InstallOnto
<1>2. CASE ~may BY <1>2 DEF InstallOnto, Installed
<1> QED BY <1>1, <1>2

\* respondToMemoryPressure leaves blocks that end with no source.
LEMMA RespondTurns ==
  ASSUME NEW q \in Seq(Blocks), NEW from, Alternates(q, from, Installed),
         NEW t \in Timers, RespondOnto(q, t)
  PROVE  /\ queue' \in Seq(Blocks) /\ installed' \in BOOLEAN
         /\ Alternates(queue', from, Installed')
<1> DEFINE r == IF installed THEN Append(q, Block("uninstall")) ELSE q
<1>1. r \in Seq(Blocks) /\ Alternates(r, from, "absent")
  <2>1. CASE installed
    <3>1. Turns("uninstall", "present", "absent") BY DEF Turns
    <3>2. Installed = "present" BY <2>1 DEF Installed
    <3> QED BY <2>1, <3>1, <3>2, AppendTurns, BlocksTyped
  <2>2. CASE ~installed BY <2>2 DEF Installed
  <2> QED BY <2>1, <2>2
<1>2. queue' = r \o <<HoldOffBlock(t)>> /\ ~installed' /\ installed' \in BOOLEAN
  BY DEF RespondOnto
<1> HIDE DEF r
<1>3. r \o <<HoldOffBlock(t)>> = Append(r, HoldOffBlock(t)) BY <1>1, BlocksTyped
<1>4. Installed' = "absent" BY <1>2 DEF Installed
<1>5. HoldOffBlock(t) \in Blocks /\ HoldOffBlock(t).run = "holdOff" BY BlocksTyped
<1> HIDE DEF HoldOffBlock
<1>6. /\ Append(r, HoldOffBlock(t)) \in Seq(Blocks)
      /\ Alternates(Append(r, HoldOffBlock(t)), from, "absent")
  BY <1>1, <1>5, AppendOther
<1> QED BY <1>2, <1>3, <1>4, <1>6

\* The same for beginSimulatedMemoryPressure.
LEMMA BeginTurns ==
  ASSUME NEW q \in Seq(Blocks), NEW from, Alternates(q, from, Installed),
         installed \in BOOLEAN, BeginOnto(q)
  PROVE  /\ queue' \in Seq(Blocks) /\ installed' \in BOOLEAN
         /\ Alternates(queue', from, Installed')
<1>1. CASE simulating BY <1>1 DEF BeginOnto, Installed
<1>2. CASE ~simulating
  <2> PICK t \in Timers : RespondOnto(q, t) BY <1>2 DEF BeginOnto
  <2> QED BY RespondTurns
<1> QED BY <1>1, <1>2

-----------------------------------------------------------------------------
(* One lemma per step *)

\* A step that takes no block off the queue and leaves the source alone.
LEMMA ArrivalTurns ==
  ASSUME Reception, \/ PressureArrives \/ NotificationArrives
                    \/ \E t \in Timers : HoldOffPasses(t)
  PROVE  Reception'
<1>1. UNCHANGED <<installed, source, leaked>>
  BY DEF PressureArrives, NotificationArrives, HoldOffPasses
<1>2. Source' = Source /\ Installed' = Installed /\ Installed \in {"present", "absent"}
  BY <1>1 DEF Source, Installed
<1>3. \/ queue' = queue
      \/ \E b \in Blocks : b.run \notin {"install", "uninstall"} /\ queue' = Append(queue, b)
  <2>1. CASE PressureArrives BY <2>1, BlocksTyped DEF PressureArrives
  <2>2. CASE NotificationArrives BY <2>2, BlocksTyped DEF NotificationArrives
  <2>3. CASE \E t \in Timers : HoldOffPasses(t) BY <2>3, BlocksTyped DEF HoldOffPasses
  <2> QED BY <2>1, <2>2, <2>3
<1>4. queue' \in Seq(Blocks) /\ Alternates(queue', Source, Installed)
  BY <1>2, <1>3, AppendOther DEF Reception
<1> QED BY <1>1, <1>2, <1>4 DEF Reception

\* The first block is one of the others: the rest alternates as the whole did.
LEMMA OtherRuns ==
  ASSUME Reception, queue # <<>>, Head(queue).run \notin {"install", "uninstall"}
  PROVE  Tail(queue) \in Seq(Blocks) /\ Alternates(Tail(queue), Source, Installed)
<1>1. PICK after : /\ Tail(queue) \in Seq(Blocks) /\ Turns(Head(queue).run, Source, after)
                   /\ Alternates(Tail(queue), after, Installed)
  BY TailTurns DEF Reception
<1>2. after = Source BY <1>1 DEF Turns
<1> QED BY <1>1, <1>2

\* The block of install(): there was no source.
LEMMA RunInstallTurns == ASSUME Reception, RunInstall PROVE Reception'
<1>1. queue # <<>> /\ Head(queue).run = "install" BY DEF RunInstall, AtHead
<1>2. PICK after : /\ Tail(queue) \in Seq(Blocks) /\ Turns(Head(queue).run, Source, after)
                   /\ Alternates(Tail(queue), after, Installed)
  BY <1>1, TailTurns DEF Reception
<1>3. Source = "absent" /\ after = "present" BY <1>1, <1>2 DEF Turns
<1>4. /\ ~source /\ source' = TRUE /\ leaked' = 0 /\ installed' = installed
      /\ queue' = Tail(queue)
  BY <1>3 DEF Source, RunInstall, Reception
<1>5. Source' = "present" /\ Installed' = Installed BY <1>4 DEF Source, Installed
<1> QED BY <1>2, <1>3, <1>4, <1>5 DEF Reception

\* The block of uninstall(): there was one.
LEMMA RunUninstallTurns == ASSUME Reception, RunUninstall PROVE Reception'
<1>1. queue # <<>> /\ Head(queue).run = "uninstall" BY DEF RunUninstall, AtHead
<1>2. PICK after : /\ Tail(queue) \in Seq(Blocks) /\ Turns(Head(queue).run, Source, after)
                   /\ Alternates(Tail(queue), after, Installed)
  BY <1>1, TailTurns DEF Reception
<1>3. after = "absent" BY <1>1, <1>2 DEF Turns
<1>4. /\ source' = FALSE /\ UNCHANGED <<leaked, installed>> /\ queue' = Tail(queue)
  BY DEF RunUninstall
<1>5. Source' = "absent" /\ Installed' = Installed BY <1>4 DEF Source, Installed
<1> QED BY <1>2, <1>3, <1>4, <1>5 DEF Reception

\* The other blocks leave the source to the blocks that they append.
LEMMA RunOtherTurns ==
  ASSUME Reception, RunHoldOff \/ RunTimer \/ RunEvent \/ RunNotification
  PROVE  Reception'
<1>1. queue # <<>> /\ Head(queue).run \notin {"install", "uninstall"}
  BY BlocksTyped DEF RunHoldOff, RunTimer, RunEvent, RunNotification, AtHead
<1>2. Tail(queue) \in Seq(Blocks) /\ Alternates(Tail(queue), Source, Installed)
  BY <1>1, OtherRuns
<1>3. UNCHANGED <<source, leaked>>
  BY DEF RunHoldOff, RunTimer, RunEvent, RunNotification
<1>4. \/ queue' = Tail(queue) /\ installed' = installed
      \/ InstallOnto(Tail(queue), ~installed)
      \/ \E t \in Timers : RespondOnto(Tail(queue), t)
      \/ BeginOnto(Tail(queue))
  <2>1. CASE RunHoldOff BY <2>1 DEF RunHoldOff
  <2>2. CASE RunTimer BY <2>2 DEF RunTimer
  <2>3. CASE RunEvent BY <2>3 DEF RunEvent
  <2>4. CASE RunNotification
    <3> PICK n \in Simulations :
          CASE ~registered -> queue' = Tail(queue) /\ installed' = installed
            [] registered /\ n = "lowMemory" -> BeginOnto(Tail(queue))
            [] registered /\ n = "lowMemory.begin" -> BeginOnto(Tail(queue))
            [] registered /\ n = "lowMemory.end" -> queue' = Tail(queue) /\ installed' = installed
      BY <2>4, CocoaConstants DEF RunNotification
    <3> n \in {"lowMemory", "lowMemory.begin", "lowMemory.end"} BY CocoaConstants
    <3> QED OBVIOUS
  <2> QED BY <2>1, <2>2, <2>3, <2>4
<1>5. /\ queue' \in Seq(Blocks) /\ installed' \in BOOLEAN
      /\ Alternates(queue', Source, Installed')
  <2>1. CASE queue' = Tail(queue) /\ installed' = installed
    BY <1>2, <2>1 DEF Reception, Installed
  <2>2. CASE InstallOnto(Tail(queue), ~installed) BY <1>2, <2>2, InstallTurns DEF Reception
  <2>3. CASE \E t \in Timers : RespondOnto(Tail(queue), t)
    BY <1>2, <2>3, RespondTurns DEF Reception
  <2>4. CASE BeginOnto(Tail(queue)) BY <1>2, <2>4, BeginTurns DEF Reception
  <2> QED BY <1>4, <2>1, <2>2, <2>3, <2>4
<1>6. Source' = Source BY <1>3 DEF Source
<1> QED BY <1>3, <1>5, <1>6 DEF Reception

\* Calls from outside the queue.
LEMMA DirectCallTurns == ASSUME Reception, DirectCall PROVE Reception'
<1>1. UNCHANGED <<source, leaked>> BY DEF DirectCall
<1>2. \/ queue' = queue /\ installed' = installed
      \/ InstallOnto(queue, TRUE) /\ ~installed
      \/ BeginOnto(queue)
  BY DEF DirectCall
<1>3. /\ queue' \in Seq(Blocks) /\ installed' \in BOOLEAN
      /\ Alternates(queue', Source, Installed')
  <2>1. CASE queue' = queue /\ installed' = installed BY <2>1 DEF Reception, Installed
  <2>2. CASE InstallOnto(queue, TRUE) /\ ~installed BY <2>2, InstallTurns DEF Reception
  <2>3. CASE BeginOnto(queue) BY <2>3, BeginTurns DEF Reception
  <2> QED BY <1>2, <2>1, <2>2, <2>3
<1>4. Source' = Source BY <1>1 DEF Source
<1> QED BY <1>1, <1>3, <1>4 DEF Reception

\* Reception is an invariant.
LEMMA ReceptionInvariant == CocoaSpec => []Reception
<1>1. CocoaInit => Reception
  <2> SUFFICES ASSUME CocoaInit PROVE Reception OBVIOUS
  <2>1. queue = Append(<<>>, Block("install")) /\ <<>> \in Seq(Blocks) BY DEF CocoaInit
  <2>2. Source = "absent" /\ Installed = "present" BY DEF CocoaInit, Source, Installed
  <2>3. Alternates(<<>>, "absent", "absent")
    <3> DEFINE live == [k \in 1 .. 1 |-> "absent"]
    <3>1. live \in [1 .. 1 -> {"present", "absent"}] /\ live[1] = "absent" OBVIOUS
    <3>2. Len(<<>>) = 0 OBVIOUS
    <3> HIDE DEF live
    <3>3. /\ live \in [1 .. Len(<<>>) + 1 -> {"present", "absent"}]
          /\ live[Len(<<>>) + 1] = "absent"
      BY <3>1, <3>2
    <3>4. \A k \in 1 .. Len(<<>>) : FALSE BY <3>2
    <3> QED BY <3>1, <3>3, <3>4 DEF Alternates
  <2>4. Turns("install", "absent", "present") BY DEF Turns
  <2>5. queue \in Seq(Blocks) /\ Alternates(queue, "absent", "present")
    BY <2>1, <2>3, <2>4, AppendTurns, BlocksTyped
  <2> QED BY <2>2, <2>5 DEF CocoaInit, Reception
<1>2. Reception /\ [CocoaNext]_<<vars, cocoaVars>> => Reception'
  <2> SUFFICES ASSUME Reception, [CocoaNext]_<<vars, cocoaVars>> PROVE Reception' OBVIOUS
  <2>1. CASE UNCHANGED <<installed, source, leaked, queue>>
    BY <2>1 DEF Reception, Source, Installed
  <2>2. CASE HandlerStep \/ RunEnd \/ UNCHANGED <<vars, cocoaVars>>
    BY <2>1, <2>2 DEF HandlerStep, RunEnd, cocoaVars
  <2> QED BY <2>2, ArrivalTurns, RunInstallTurns, RunUninstallTurns, RunOtherTurns,
             DirectCallTurns
          DEF CocoaNext, RunBlock
<1> QED BY <1>1, <1>2, PTL DEF CocoaSpec

\* What reception adds to the handler's state is well typed.
CocoaTypes ==
  /\ registered \in BOOLEAN /\ ends \in 0 .. MaxEnds
  /\ timer \in Timers \cup {NoTimer} /\ lastEvent \in Timers \cup {NoTimer}
  /\ armed \subseteq Timers /\ heldOff \subseteq Timers

\* Each step keeps these types: the block that starts a timer names one.
LEMMA TypesKept ==
  ASSUME Reception, CocoaTypes, [CocoaNext]_<<vars, cocoaVars>> PROVE CocoaTypes'
<1> USE DEF CocoaTypes
<1>b. MaxEnds \in Nat BY CocoaConstants
<1>h. queue # <<>> /\ Head(queue).run = "holdOff" => Head(queue).of \in Timers
  <2> SUFFICES ASSUME queue # <<>>, Head(queue).run = "holdOff" PROVE Head(queue).of \in Timers
    OBVIOUS
  <2>1. Head(queue) \in Blocks BY DEF Reception
  <2> QED BY <2>1 DEF Blocks
<1>i. ASSUME NEW q, NEW may, InstallOnto(q, may) PROVE registered' \in BOOLEAN
  BY <1>i DEF InstallOnto
<1>r. ASSUME NEW q, NEW t \in Timers, RespondOnto(q, t)
      PROVE  registered' \in BOOLEAN /\ heldOff' \subseteq Timers
  BY <1>r DEF RespondOnto
<1>g. ASSUME NEW q, BeginOnto(q) PROVE registered' \in BOOLEAN /\ heldOff' \subseteq Timers
  BY <1>g, <1>r DEF BeginOnto
<1>1. CASE PressureArrives \/ NotificationArrives \/ \E t \in Timers : HoldOffPasses(t)
  BY <1>1 DEF PressureArrives, NotificationArrives, HoldOffPasses
<1>2. CASE RunInstall \/ RunUninstall BY <1>2 DEF RunInstall, RunUninstall
<1>3. CASE RunHoldOff
  BY <1>3, <1>h DEF RunHoldOff, AtHead
<1>4. CASE RunTimer BY <1>4, <1>i DEF RunTimer
<1>5. CASE RunEvent BY <1>5, <1>r DEF RunEvent
<1>6. CASE RunNotification
  <2>1. PICK n \in Simulations :
          /\ ~registered => UNCHANGED <<registered, heldOff, ends>>
          /\ registered /\ n = "lowMemory" =>
               ends < MaxEnds /\ BeginOnto(Tail(queue)) /\ ends' = ends + 1
          /\ registered /\ n = "lowMemory.begin" => BeginOnto(Tail(queue)) /\ ends' = ends
          /\ registered /\ n = "lowMemory.end" => UNCHANGED <<registered, heldOff, ends>>
    BY <1>6, CocoaConstants DEF RunNotification
  <2>2. UNCHANGED <<timer, armed, lastEvent>> BY <1>6 DEF RunNotification
  <2>n. n \in {"lowMemory", "lowMemory.begin", "lowMemory.end"} BY CocoaConstants
  <2>3. registered' \in BOOLEAN /\ heldOff' \subseteq Timers BY <1>g, <2>1, <2>n
  <2>4. ends' = ends \/ (ends < MaxEnds /\ ends' = ends + 1) BY <2>1, <2>n
  <2>5. ends' \in 0 .. MaxEnds BY <1>b, <2>4
  <2> QED BY <2>2, <2>3, <2>5
<1>7. CASE RunEnd BY <1>7, <1>b DEF RunEnd
<1>8. CASE DirectCall BY <1>8, <1>g, <1>i DEF DirectCall
<1>9. CASE HandlerStep \/ UNCHANGED <<vars, cocoaVars>> BY <1>9 DEF HandlerStep, cocoaVars
<1> QED BY <1>1, <1>2, <1>3, <1>4, <1>5, <1>6, <1>7, <1>8, <1>9 DEF CocoaNext, RunBlock

\* Every variable of the reception has its type (CocoaTypeOK), and every variable of
\* the handler.
THEOREM CocoaTypeCorrect == CocoaSpec => []CocoaTypeOK
<1>1. CocoaInit => CocoaTypes BY CocoaConstants DEF CocoaInit, CocoaTypes
<1>2. TypeOK /\ Reception /\ CocoaTypes => CocoaTypeOK
  <2>1. Blocks \subseteq [run : Runs, of : Timers \cup {NoTimer}] BY DEF Blocks, Runs
  <2>2. ASSUME NEW q \in Seq(Blocks) PROVE q \in Seq([run : Runs, of : Timers \cup {NoTimer}])
    <3> DEFINE records == [run : Runs, of : Timers \cup {NoTimer}]
    <3>1. Blocks \subseteq records BY <2>1
    <3> HIDE DEF Blocks, records
    <3>2. q \in Seq(records) BY <3>1
    <3> QED BY <3>2 DEF records
  <2>3. Reception => queue \in Seq([run : Runs, of : Timers \cup {NoTimer}])
    BY <2>2 DEF Reception
  <2> QED BY <2>3 DEF Reception, CocoaTypes, CocoaTypeOK, Runs
<1> QED BY <1>1, <1>2, TypesKept, ReceptionInvariant, CocoaImplementsHandler, TypeCorrect, PTL
        DEF CocoaSpec

\* No pressure source is lost (NoSourceLeaks), however many timers, notifications and
\* direct calls there are: install() and uninstall() never append two blocks of a kind
\* in a row, because m_installed is what the last of them says.
THEOREM SourcesAreNeverLost == CocoaSpec => []NoSourceLeaks
<1>1. Reception => NoSourceLeaks BY DEF Reception, NoSourceLeaks
<1> QED BY <1>1, ReceptionInvariant, PTL

\* Once the queue has caught up, m_installed is the truth (InstalledMeansSource).
THEOREM InstalledIsTrue == CocoaSpec => []InstalledMeansSource
<1>1. Reception => InstalledMeansSource
  <2> SUFFICES ASSUME Reception, queue = <<>> PROVE installed = source
    BY DEF InstalledMeansSource
  <2>1. Alternates(<<>>, Source, Installed) BY DEF Reception
  <2>2. Source = Installed BY <2>1, NothingTurns
  <2> QED BY <2>2 DEF Reception, Source, Installed
<1> QED BY <1>1, ReceptionInvariant, PTL
=============================================================================
