------------------------- MODULE MemoryPressureCocoa -------------------------
(***************************************************************************)
(* WTF/cocoa/MemoryPressureHandlerCocoa.mm on the Mac: when the handler    *)
(* hears of memory pressure at all.  Every event turns reception off       *)
(* (uninstall) and starts a hold-off timer whose handler turns it on again *)
(* (install).  All of it runs on one serial dispatch queue, as blocks that *)
(* dispatch_async appends and as the handlers of event sources and         *)
(* notifications, which are appended when they become due and run only if  *)
(* their source or token has not been cancelled by then.                   *)
(*                                                                         *)
(* It extends MemoryPressureHandler, whose actions it takes part in: the   *)
(* handler's events come when this module delivers them.                   *)
(***************************************************************************)
EXTENDS MemoryPressureHandler, Sequences, FiniteSets

CONSTANTS
  Timers,        \* the hold-off timers alive at a time: a bound
  MaxQueue,      \* bound on the blocks that wait in the queue
  MaxEnds,       \* bound on the pending dispatch_after blocks
  Simulations,   \* the notifications that are posted
  DirectCalls,   \* clients call the public functions again after launch
  TimersFail     \* dispatch_source_create may fail for a timer

NoTimer == "none"

ASSUME CocoaConstants ==
  /\ Simulations \subseteq {"lowMemory", "lowMemory.begin", "lowMemory.end"}
  /\ Mac /\ NoTimer \notin Timers
  /\ MaxQueue \in Nat /\ MaxEnds \in Nat
  /\ {DirectCalls, TimersFail} \subseteq BOOLEAN

VARIABLES
  installed,     \* m_installed
  source,        \* memoryPressureEventSource is set
  leaked,        \* live pressure sources nothing points to
  timer,         \* timerEventSource
  armed,         \* the timer sources that are live and have not fired
  registered,    \* the notify tokens are registered
  queue,         \* the dispatch queue
  ends,          \* pending dispatch_after blocks of "org.WebKit.lowMemory"
  heldOff,       \* hold-offs begun, whose time has not passed
  lastEvent      \* the hold-off of the system's last event, until its time has passed

cocoaVars == <<installed, source, leaked, timer, armed, registered, queue, ends,
               heldOff, lastEvent>>

\* Blocks, and the handlers of the event source, the timers and the tokens.
Block(b)        == [run |-> b, of |-> NoTimer]
HoldOffBlock(t) == [run |-> "holdOff", of |-> t]
TimerBlock(t)   == [run |-> "timer", of |-> t]

Queued(b) == \E i \in DOMAIN queue : queue[i] = b
NoBlockOf(t) == ~Queued(HoldOffBlock(t)) /\ ~Queued(TimerBlock(t))

\* The client has called install() once, at launch.
CocoaInit ==
  /\ Init
  /\ installed = TRUE /\ source = FALSE /\ leaked = 0
  /\ timer = NoTimer /\ armed = {} /\ registered = TRUE
  /\ queue = <<Block("install")>> /\ ends = 0 /\ heldOff = {} /\ lastEvent = NoTimer

-----------------------------------------------------------------------------
\* install(), with the queue it appends to; mayInstall is what its first line asks.
InstallOnto(q, mayInstall) ==
  IF mayInstall
  THEN queue' = Append(q, Block("install")) /\ installed' = TRUE /\ registered' = TRUE
  ELSE queue' = q /\ UNCHANGED <<installed, registered>>

\* Mutant: uninstall() leaves its block out.
RespondOnto_KeepsSource(q, t) ==
  /\ t \in Timers \ (heldOff \cup armed) /\ NoBlockOf(t)
  /\ queue' = Append(q, HoldOffBlock(t))
  /\ installed' = FALSE
  /\ registered' = (registered /\ ~installed)
  /\ heldOff' = heldOff \cup {t}

\* respondToMemoryPressure around releaseMemory: uninstall() appends its block and
\* drops the tokens, holdOff() appends the one that starts a timer, t.
RespondOnto(q, t) ==
  /\ t \in Timers \ (heldOff \cup armed) /\ NoBlockOf(t)
  /\ queue' = (IF installed THEN Append(q, Block("uninstall")) ELSE q) \o <<HoldOffBlock(t)>>
  /\ installed' = FALSE
  /\ registered' = (registered /\ ~installed)
  /\ heldOff' = heldOff \cup {t}

\* The kernel reports pressure; a source has at most one handler call pending.
PressureArrives ==
  /\ source /\ ~Queued(Block("event")) /\ Len(queue) < MaxQueue
  /\ queue' = Append(queue, Block("event"))
  /\ UNCHANGED <<vars, installed, source, leaked, timer, armed, registered, ends,
                 heldOff, lastEvent>>

\* notifyutil -p org.WebKit.lowMemory, .begin or .end.
NotificationArrives ==
  /\ registered /\ Len(queue) < MaxQueue
  /\ \E n \in Simulations : queue' = Append(queue, Block(n))
  /\ UNCHANGED <<vars, installed, source, leaked, timer, armed, registered, ends,
                 heldOff, lastEvent>>

\* The time of hold-off t has passed: its timer is due, if it is live still.  A
\* timer that the queue has not started yet cannot be due.
HoldOffPasses(t) ==
  /\ t \in heldOff /\ ~Queued(HoldOffBlock(t))
  /\ heldOff' = heldOff \ {t}
  /\ lastEvent' = IF lastEvent = t THEN NoTimer ELSE lastEvent
  /\ queue' = IF t \in armed THEN Append(queue, TimerBlock(t)) ELSE queue
  /\ UNCHANGED <<vars, installed, source, leaked, timer, armed, registered, ends>>

-----------------------------------------------------------------------------
(* The queue runs its first block *)

AtHead(b) == Idle /\ queue # <<>> /\ Head(queue).run = b

RunInstall ==
  /\ AtHead("install")
  /\ queue' = Tail(queue)
  /\ source' = TRUE
  /\ leaked' = leaked + (IF source THEN 1 ELSE 0)
  /\ UNCHANGED <<vars, installed, timer, armed, registered, ends, heldOff, lastEvent>>

\* Mutant: the pressure source is not cancelled.
RunUninstall_TimerOnly ==
  /\ AtHead("uninstall")
  /\ queue' = Tail(queue)
  /\ timer' = NoTimer /\ armed' = armed \ {timer}
  /\ UNCHANGED <<vars, installed, source, leaked, registered, ends, heldOff, lastEvent>>

\* uninstall's block cancels both sources.
RunUninstall ==
  /\ AtHead("uninstall")
  /\ queue' = Tail(queue)
  /\ source' = FALSE
  /\ timer' = NoTimer /\ armed' = armed \ {timer}
  /\ UNCHANGED <<vars, installed, leaked, registered, ends, heldOff, lastEvent>>

RunHoldOff ==
  /\ AtHead("holdOff")
  /\ queue' = Tail(queue)
  /\ \/ timer' = Head(queue).of /\ armed' = armed \cup {Head(queue).of}
     \/ TimersFail /\ timer' = NoTimer /\ UNCHANGED armed
  /\ UNCHANGED <<vars, installed, source, leaked, registered, ends, heldOff, lastEvent>>


\* The handler of a timer cancels the source that timerEventSource points to,
\* whichever that is, and installs.
RunTimer ==
  /\ AtHead("timer")
  /\ LET t == Head(queue).of
     IN  IF t \in armed
         THEN /\ timer' = NoTimer /\ armed' = armed \ {t, timer}
              /\ InstallOnto(Tail(queue), ~installed)
         ELSE /\ queue' = Tail(queue)
              /\ UNCHANGED <<timer, armed, installed, registered>>
  /\ UNCHANGED <<vars, source, leaked, ends, heldOff, lastEvent>>

\* The event handler of the pressure source, unless it has been cancelled.
RunEvent ==
  /\ AtHead("event")
  /\ IF ~source
     THEN queue' = Tail(queue) /\ UNCHANGED <<vars, installed, registered, heldOff, lastEvent>>
     ELSE \E event \in Events :
            /\ MemoryPressureEvent(event)
            /\ IF event = "Normal"
               THEN /\ queue' = Tail(queue)
                    /\ UNCHANGED <<installed, registered, heldOff, lastEvent>>
               ELSE \E t \in Timers : RespondOnto(Tail(queue), t) /\ lastEvent' = t
  /\ UNCHANGED <<source, leaked, timer, armed, ends>>

\* beginSimulatedMemoryPressure and the rest of its caller.
BeginOnto(q) ==
  IF simulating
  THEN queue' = q /\ UNCHANGED <<vars, installed, registered, heldOff>>
  ELSE BeginSimulatedMemoryPressure /\ \E t \in Timers : RespondOnto(q, t)

\* Mutant: a simulation is not ended while the tokens are dropped.
End_NeedsToken ==
  IF simulating /\ registered THEN EndSimulatedMemoryPressure ELSE UNCHANGED vars

End == IF simulating THEN EndSimulatedMemoryPressure ELSE UNCHANGED vars

RunNotification ==
  /\ \E n \in Simulations :
       /\ AtHead(n)
       /\ CASE ~registered ->
                 queue' = Tail(queue) /\ UNCHANGED <<vars, installed, registered, heldOff, ends>>
            [] registered /\ n = "lowMemory" ->
                 ends < MaxEnds /\ BeginOnto(Tail(queue)) /\ ends' = ends + 1
            [] registered /\ n = "lowMemory.begin" ->
                 BeginOnto(Tail(queue)) /\ UNCHANGED ends
            [] registered /\ n = "lowMemory.end" ->
                 End /\ queue' = Tail(queue) /\ UNCHANGED <<installed, registered, heldOff, ends>>
  /\ UNCHANGED <<source, leaked, timer, armed, lastEvent>>

\* Two seconds after "org.WebKit.lowMemory".
RunEnd ==
  /\ Idle /\ ends > 0 /\ ends' = ends - 1
  /\ End
  /\ UNCHANGED <<installed, source, leaked, timer, armed, registered, queue, heldOff, lastEvent>>

RunBlock == \/ RunInstall \/ RunUninstall \/ RunHoldOff \/ RunTimer \/ RunEvent
            \/ RunNotification

\* Clients that use the public functions: beginSimulatedMemoryPressure,
\* endSimulatedMemoryPressure and, once more, install.
DirectCall ==
  /\ DirectCalls /\ ClientRuns /\ Len(queue) < MaxQueue
  /\ \/ ~simulating /\ BeginOnto(queue)
     \/ simulating /\ End /\ UNCHANGED <<queue, installed, registered, heldOff>>
     \/ /\ ~installed /\ timer = NoTimer /\ InstallOnto(queue, TRUE)
        /\ UNCHANGED <<vars, heldOff>>
  /\ UNCHANGED <<source, leaked, timer, armed, ends, lastEvent>>

\* What has nothing to do with reception.
HandlerStep ==
  /\ FootprintChanges \/ ClientCalls \/ TimePasses \/ Timer \/ Tick
  /\ UNCHANGED cocoaVars

CocoaNext == \/ PressureArrives \/ NotificationArrives
             \/ \E t \in Timers : HoldOffPasses(t)
             \/ RunBlock \/ RunEnd \/ DirectCall \/ HandlerStep

CocoaSpec == CocoaInit /\ [][CocoaNext]_<<vars, cocoaVars>>

\* The queue runs and time passes.
CocoaFairness ==
  /\ WF_<<vars, cocoaVars>>(RunBlock) /\ WF_<<vars, cocoaVars>>(RunEnd)
  /\ \A t \in Timers : WF_<<vars, cocoaVars>>(HoldOffPasses(t))

FairCocoaSpec == CocoaSpec /\ CocoaFairness

-----------------------------------------------------------------------------
\* Type invariant.
CocoaTypeOK ==
  /\ TypeOK
  /\ {installed, source, registered} \subseteq BOOLEAN
  /\ leaked \in Nat /\ ends \in 0 .. MaxEnds
  /\ timer \in Timers \cup {NoTimer} /\ lastEvent \in Timers \cup {NoTimer}
  /\ armed \subseteq Timers /\ heldOff \subseteq Timers
  /\ queue \in Seq([run : {"install", "uninstall", "holdOff", "timer", "event"}
                            \cup Simulations, of : Timers \cup {NoTimer}])


\* No source is lost: what installs and uninstalls appended to the queue never makes
\* a second source while the first is live, which nothing could cancel any more
\* (memoryPressureEventSource is one static).
NoSourceLeaks == leaked = 0

\* When the queue has caught up, m_installed says whether the source exists, though
\* the one is set by callers and the other by blocks (lines 72-105 and 134, 142-154).
InstalledMeansSource == queue = <<>> => installed = source


\* Every hold-off whose timer has started ends with the handler hearing of pressure
\* again, whatever clients and notifications do meanwhile, and even if a second
\* hold-off overwrites timerEventSource or fails to create its timer.
ReceptionReturns == armed # {} ~> source \/ ~Alive

\* The pressure that "org.WebKit.lowMemory" simulates is over some time, whatever
\* happens to the tokens meanwhile (the dispatch_after of line 122).
SimulationEnds == (ends > 0) ~> ~simulating
=============================================================================
