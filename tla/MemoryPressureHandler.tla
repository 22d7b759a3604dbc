------------------------ MODULE MemoryPressureHandler ------------------------
(***************************************************************************)
(* WTF/MemoryPressureHandler.cpp: what one web process does about its      *)
(* memory.  Everything here runs on the main queue, except that the        *)
(* footprint moves at any time (other threads allocate, the low memory     *)
(* handler frees).  This module is the part common to all platforms; when  *)
(* the operating system's events are delivered at all is the platforms'    *)
(* business (install, uninstall, hold-off), so here one may come at any    *)
(* time.                                                                   *)
(*                                                                         *)
(* A tick of the measurement timer calls the client up to three times: a   *)
(* new policy (its status callback), a release of memory (its low memory   *)
(* handler), an excursion (that callback).  Each call ends a step, and     *)
(* while it lasts the client may call the handler's public functions, as   *)
(* it may when the main queue is idle.  What these call in turn runs to    *)
(* its end.  Outside a tick, and at its end, a callback is part of the     *)
(* step that calls it: what the client calls from there comes to the same  *)
(* as calling it right afterwards.  There the low memory handler is left   *)
(* out: the memory it frees is the footprint's.                            *)
(*                                                                         *)
(* Four variables are history: notified is what the client saw when its    *)
(* status callback last ran, asked what the tick has asked of the low      *)
(* memory handler, moved that the client has set something in shrinkOrDie  *)
(* that the kill threshold depends on, told that the client has been       *)
(* called for the excursion that the timer last found.                     *)
(***************************************************************************)
EXTENDS MemoryThresholds

CONSTANTS
  Mac,             \* PLATFORM(MAC)
  FastMalloc,      \* isFastMallocEnabled()
  Ram,             \* ramSize(): fixed once computed, see RAMSize
  Footprints,      \* values memoryFootprint() may return
  PageCounts,
  Configurations,  \* what setConfiguration may be given
  Handlers,        \* the client's callbacks, all of them or those it registers
  Events,          \* the statuses that the operating system reports
  PollInterval     \* a bound: the ticks of the clock from one measurement to the next

Statuses == {"Normal", "SystemWarning", "SystemCritical",
             "ProcessLimitWarning", "ProcessLimitCritical"}

ConfigurationType ==
  [ baseThreshold : Nat, conservativeThresholdFraction : Nat,
    strictThresholdFraction : Nat, killThresholdFraction : Nat \cup {NoFraction} ]

ASSUME HandlerConstants ==
  /\ {Mac, FastMalloc} \subseteq BOOLEAN
  /\ Ram \in Nat
  /\ Footprints \subseteq Nat /\ PageCounts \subseteq Nat
  /\ \A c \in Configurations :
       /\ c = [ baseThreshold |-> c.baseThreshold,
                conservativeThresholdFraction |-> c.conservativeThresholdFraction,
                strictThresholdFraction |-> c.strictThresholdFraction,
                killThresholdFraction |-> c.killThresholdFraction ]
       /\ {c.baseThreshold, c.conservativeThresholdFraction, c.strictThresholdFraction}
            \subseteq Nat
       /\ c.killThresholdFraction \in Nat \cup {NoFraction}
  /\ Handlers \subseteq {"lowMemory", "memoryKill", "statusChanged", "didExceed"}
  /\ Events \subseteq Statuses
  /\ PollInterval \in Nat \ {0}

VARIABLES
  footprint,      \* memoryFootprint()
  pageCount, processState, config, handlers,  \* handlers: the callbacks that are set
  status, simulating, policy, hasInvoked,
  monitoring,     \* m_measurementTimer is set
  elapsed,        \* the time since it was made or has fired
  phase,          \* where the tick is, or how the process ended
  calling,        \* the callback that the tick waits for
  measured, killThreshold,  \* the tick's local variables
  notified, asked, moved, told

limits   == <<pageCount, processState, config>>
timer_   == <<monitoring, elapsed>>
tick     == <<phase, calling, measured, killThreshold, asked>>
report   == <<hasInvoked, told>>
pressure == <<status, simulating, policy>>
vars     == <<footprint, limits, handlers, timer_, tick, moved, report, pressure, notified>>

Phases   == {"idle", "shrinking", "policySet", "released", "reporting", "killed", "crashed"}
CriticalStatuses == {"SystemCritical", "ProcessLimitCritical"}
ProcessStates == {"Active", "Inactive"}

-----------------------------------------------------------------------------
isUnderMemoryPressure ==
  \/ status \in CriticalStatuses
  \/ Mac /\ policy = "Strict"
  \/ simulating

\* What memoryPressureStatusChanged shows the client: the status it is passed and
\* what it finds when it asks the handler.
ClientView == [status |-> status, under |-> isUnderMemoryPressure]

memoryPressureStatusChanged ==
  notified' = IF "statusChanged" \in handlers THEN ClientView' ELSE notified

NoCall == "none"

\* What releaseMemory asks of the client, if there is one.
NoRelease == [critical |-> FALSE, synchronous |-> FALSE, ran |-> FALSE]
LastChance == [critical |-> TRUE, synchronous |-> TRUE, ran |-> TRUE]

releaseMemory(critical, synchronous) ==
  IF "lowMemory" \in handlers
  THEN /\ asked' = [critical |-> critical, synchronous |-> synchronous, ran |-> TRUE]
       /\ calling' = "lowMemory"
  ELSE asked' = NoRelease /\ calling' = NoCall

KillThreshold == thresholdForMemoryKill(config, processState, Ram, pageCount)
InactiveLimit == thresholdForMemoryKillOfInactiveProcess(Ram, pageCount)

\* Mutant: the client is not told of a new policy.
setMemoryUsagePolicyBasedOnFootprint_Silent ==
  /\ policy' = policyForFootprint(config, footprint)
  /\ UNCHANGED <<status, simulating, handlers, notified>>

setMemoryUsagePolicyBasedOnFootprint ==
  /\ policy' = policyForFootprint(config, footprint)
  /\ UNCHANGED <<status, simulating, handlers>>
  /\ IF policy' = policy THEN UNCHANGED notified ELSE memoryPressureStatusChanged

-----------------------------------------------------------------------------
Init ==
  /\ footprint \in Footprints
  /\ pageCount = 0 /\ processState = "Inactive"
  /\ config = DefaultConfiguration(Ram) /\ handlers = {}
  /\ status = "Normal" /\ simulating = FALSE /\ policy = "Unrestricted"
  /\ hasInvoked = FALSE /\ told = FALSE
  /\ monitoring = FALSE /\ elapsed = 0
  /\ phase = "idle" /\ calling = NoCall /\ measured = 0 /\ killThreshold = 0
  /\ notified = [status |-> "Normal", under |-> FALSE]
  /\ asked = NoRelease /\ moved = FALSE

Alive == phase \notin {"killed", "crashed"}
Idle  == phase = "idle"

\* The client's code runs on the main queue: nothing else does, or a callback.
ClientRuns == Idle \/ calling # NoCall

\* Threads allocate and free.
FootprintChanges ==
  /\ Alive
  /\ footprint' \in Footprints \ {footprint}
  /\ UNCHANGED <<limits, handlers, timer_, tick, moved, report, pressure, notified>>

-----------------------------------------------------------------------------
(* The public functions *)

\* A setter of what the limits depend on.
Setting ==
  /\ ClientRuns
  /\ moved' = (phase = "shrinking")
  /\ UNCHANGED <<footprint, handlers, timer_, tick, report, pressure, notified>>

SetPageCount(count) ==
  /\ Setting /\ count # pageCount
  /\ pageCount' = count
  /\ UNCHANGED <<processState, config>>

SetProcessState(state) ==
  /\ Setting /\ state # processState
  /\ processState' = state
  /\ UNCHANGED <<pageCount, config>>

SetConfiguration(configuration) ==
  /\ Setting
  /\ config' = configuration
  /\ UNCHANGED <<pageCount, processState>>

\* The setters of the callbacks.  A client that sets the status callback reads the
\* status as well.
SetHandler(h) ==
  /\ ClientRuns
  /\ handlers' = handlers \cup {h}
  /\ notified' = IF h = "statusChanged" THEN ClientView ELSE notified
  /\ UNCHANGED <<footprint, limits, timer_, tick, moved, report, pressure>>

\* A new timer has all of its time before it, whatever the old one had left.
SetShouldUsePeriodicMemoryMonitor(use) ==
  /\ ClientRuns /\ FastMalloc
  /\ monitoring' = use /\ elapsed' = 0
  /\ UNCHANGED <<footprint, limits, handlers, tick, moved, report, pressure, notified>>

BeginSimulatedMemoryPressure ==
  /\ ClientRuns /\ ~simulating
  /\ simulating' = TRUE
  /\ UNCHANGED <<footprint, limits, handlers, timer_, tick, moved, report, status, policy>>
  /\ memoryPressureStatusChanged

EndSimulatedMemoryPressure ==
  /\ ClientRuns /\ simulating
  /\ simulating' = FALSE
  /\ UNCHANGED <<footprint, limits, handlers, timer_, tick, moved, report, status, policy>>
  /\ memoryPressureStatusChanged

\* setMemoryPressureStatus, called by the handler of the operating system's events,
\* which the main queue runs.
MemoryPressureEvent(event) ==
  /\ Idle
  /\ status' = event
  /\ UNCHANGED <<footprint, limits, handlers, timer_, tick, moved, report, simulating, policy>>
  /\ IF status' = status THEN UNCHANGED notified ELSE memoryPressureStatusChanged

-----------------------------------------------------------------------------
(* The measurement timer *)

TimePasses ==
  /\ Alive /\ monitoring /\ elapsed < PollInterval
  /\ elapsed' = elapsed + 1
  /\ UNCHANGED <<footprint, limits, handlers, monitoring, tick, moved, report, pressure,
                 notified>>

\* The timer is due, and starts over; the footprint is measured.
Measure ==
  /\ Idle /\ monitoring /\ elapsed = PollInterval
  /\ elapsed' = 0
  /\ measured' = footprint
  /\ moved' = FALSE
  /\ UNCHANGED <<footprint, limits, handlers, monitoring, report>>

\* The tick is over.
Return ==
  /\ phase' = "idle" /\ calling' = NoCall /\ measured' = 0 /\ killThreshold' = 0
  /\ asked' = NoRelease /\ moved' = FALSE

\* Mutant: the handler is not waited for.
MeasurementTimerFiredAboveLimit_Asynchronous ==
  /\ Measure /\ footprint >= KillThreshold
  /\ phase' = "shrinking" /\ killThreshold' = KillThreshold
  /\ releaseMemory(TRUE, FALSE)
  /\ UNCHANGED <<pressure, notified>>

\* measurementTimerFired above the kill threshold: shrinkOrDie calls releaseMemory.
MeasurementTimerFiredAboveLimit ==
  /\ Measure /\ footprint >= KillThreshold
  /\ phase' = "shrinking" /\ killThreshold' = KillThreshold
  /\ releaseMemory(TRUE, TRUE)
  /\ UNCHANGED <<pressure, notified>>

\* The rest of shrinkOrDie: the footprint is measured again, and compared with the
\* limit there was before.
ShrankBelowLimit ==
  /\ phase = "shrinking" /\ footprint < killThreshold
  /\ setMemoryUsagePolicyBasedOnFootprint
  /\ Return
  /\ UNCHANGED <<footprint, limits, timer_, report>>

\* Mutant: the callback does not kill.
Die_Spares ==
  /\ phase = "shrinking" /\ footprint >= killThreshold
  /\ Return
  /\ UNCHANGED <<footprint, limits, handlers, timer_, report, pressure, notified>>

\* The kill callback, or the assertion that there is one.
Die ==
  /\ phase = "shrinking" /\ footprint >= killThreshold
  /\ phase' = IF "memoryKill" \in handlers THEN "killed" ELSE "crashed"
  /\ calling' = NoCall
  /\ UNCHANGED <<footprint, limits, handlers, timer_, measured, killThreshold, asked, moved,
                 report, pressure, notified>>


\* measurementTimerFired below the kill threshold: a new policy calls the client.
MeasurementTimerFired ==
  /\ Measure /\ footprint < KillThreshold
  /\ setMemoryUsagePolicyBasedOnFootprint
  /\ phase' = "policySet"
  /\ calling' = IF policy' # policy /\ "statusChanged" \in handlers THEN "statusChanged" ELSE NoCall
  /\ UNCHANGED <<killThreshold, asked>>

\* The switch: how urgently memory is released.
ReleaseByPolicy ==
  /\ phase = "policySet"
  /\ phase' = "released"
  /\ IF policy = "Unrestricted" THEN calling' = NoCall /\ UNCHANGED asked
     ELSE releaseMemory(policy = "Strict", FALSE)
  /\ UNCHANGED <<footprint, limits, handlers, timer_, measured, killThreshold, moved, report,
                 pressure, notified>>

\* An active process over the limit of an inactive one, by the tick's measurement and
\* the settings there are after the release.
Exceeds(size) == processState = "Active" /\ size > InactiveLimit

DoesNotExceedInactiveLimitWhileActive ==
  /\ phase = "released" /\ ~Exceeds(measured)
  /\ hasInvoked' = FALSE /\ told' = FALSE
  /\ Return
  /\ UNCHANGED <<footprint, limits, handlers, timer_, pressure, notified>>

\* Mutant: the flag is not looked at.
DoesExceedInactiveLimitWhileActive_Again ==
  /\ phase = "released" /\ Exceeds(measured)
  /\ IF "didExceed" \in handlers
     THEN /\ phase' = "reporting" /\ calling' = "didExceed" /\ told' = TRUE
          /\ UNCHANGED <<hasInvoked, measured, killThreshold, asked, moved>>
     ELSE hasInvoked' = TRUE /\ UNCHANGED told /\ Return
  /\ UNCHANGED <<footprint, limits, handlers, timer_, pressure, notified>>


\* Unless the flag says that this has been done, the callback is called, if there is
\* one; then the flag is set, whether there is one or not.
DoesExceedInactiveLimitWhileActive ==
  /\ phase = "released" /\ Exceeds(measured)
  /\ IF ~hasInvoked /\ "didExceed" \in handlers
     THEN /\ phase' = "reporting" /\ calling' = "didExceed" /\ told' = TRUE
          /\ UNCHANGED <<hasInvoked, measured, killThreshold, asked, moved>>
     ELSE hasInvoked' = TRUE /\ UNCHANGED told /\ Return
  /\ UNCHANGED <<footprint, limits, handlers, timer_, pressure, notified>>

\* That callback has returned.
HasInvoked ==
  /\ phase = "reporting"
  /\ hasInvoked' = TRUE
  /\ Return
  /\ UNCHANGED <<footprint, limits, handlers, timer_, told, pressure, notified>>

Timer == MeasurementTimerFired \/ MeasurementTimerFiredAboveLimit
ShrinkOrDie == ShrankBelowLimit \/ Die
Tick == \/ ShrinkOrDie \/ ReleaseByPolicy \/ DoesNotExceedInactiveLimitWhileActive
        \/ DoesExceedInactiveLimitWhileActive \/ HasInvoked

\* What the client's code calls, simulations aside.
ClientCalls ==
  \/ \E count \in PageCounts : SetPageCount(count)
  \/ \E state \in ProcessStates : SetProcessState(state)
  \/ \E c \in Configurations : SetConfiguration(c)
  \/ \E h \in Handlers : SetHandler(h)
  \/ \E use \in BOOLEAN : SetShouldUsePeriodicMemoryMonitor(use)

Next ==
  \/ FootprintChanges
  \/ ClientCalls
  \/ TimePasses
  \/ Timer
  \/ Tick
  \/ \E event \in Events : MemoryPressureEvent(event)
  \/ BeginSimulatedMemoryPressure
  \/ EndSimulatedMemoryPressure

Spec == Init /\ [][Next]_vars

\* Time passes, a timer that is due fires, and the client's callbacks return.  A
\* client that makes a new timer again and again may put it off for ever.
FairSpec == Spec /\ WF_vars(TimePasses) /\ WF_vars(Timer) /\ WF_vars(Tick)

-----------------------------------------------------------------------------
\* Type invariant.
TypeOK ==
  /\ footprint \in Footprints
  /\ pageCount \in PageCounts \cup {0}
  /\ processState \in ProcessStates
  /\ config \in ConfigurationType
  /\ handlers \subseteq Handlers
  /\ status \in Statuses /\ simulating \in BOOLEAN /\ policy \in Policies
  /\ {hasInvoked, told, moved, monitoring} \subseteq BOOLEAN
  /\ elapsed \in 0 .. PollInterval
  /\ phase \in Phases
  /\ calling \in {NoCall, "statusChanged", "lowMemory", "didExceed"}
  /\ measured \in Nat /\ killThreshold \in Nat
  /\ notified \in [status : Statuses, under : BOOLEAN]
  /\ asked \in [critical : BOOLEAN, synchronous : BOOLEAN, ran : BOOLEAN]

\* A client that follows the status callback knows the truth: whichever of the
\* three sources of pressure moves (an event of the system, a simulation, on the
\* Mac the usage policy), what it was last shown is what isUnderMemoryPressure()
\* answers now (the calls of memoryPressureStatusChanged in
\* MemoryPressureHandler.cpp:190, 250, 259 and 278).
NotifiedCurrent == "statusChanged" \in handlers => notified = ClientView

\* The low memory handler is the process's last chance (shrinkOrDie).  A process
\* dies only if it has been found at or above one limit twice, and has run its handler
\* in between, critical and synchronous, if it has one.  The limit is the one it has
\* now, unless the handler itself has changed what it depends on: it was computed
\* before the handler ran.
KilledOnlyAfterLastChance ==
  ~Alive =>
    /\ measured >= killThreshold /\ footprint >= killThreshold
    /\ "lowMemory" \in handlers => asked = LastChance
    /\ killThreshold = KillThreshold \/ moved

\* The client is told once of each excursion: not again before a measurement has
\* found that it is over (hasInvoked, which is set only when the call has returned,
\* and survives ticks above the kill threshold and a new timer).
ToldOncePerExcursion == [][told => calling' # "didExceed" \/ calling = "didExceed"]_vars

\* A client may put the timer off by making a new one before it is due; from some time
\* on it does not.
Postpone == elapsed # 0 /\ SetShouldUsePeriodicMemoryMonitor(TRUE)
ClientLetsTimerCome == <>[][~Postpone]_vars

\* It may move the limits while a tick waits for it; from some time on it does not.
MovesLimits == phase # "idle" /\ limits' # limits
ClientLeavesLimits == <>[][~MovesLimits]_vars

\* With the monitor on, and a client that does neither for ever, no process stays above
\* its limit for ever: again and again it is below the limit, or it has been killed
\* (setShouldUsePeriodicMemoryMonitor, shrinkOrDie).
NoProcessStaysAboveLimit ==
  ClientLetsTimerCome /\ ClientLeavesLimits =>
    []<>(~Alive \/ ~monitoring \/ footprint < KillThreshold)

=============================================================================
