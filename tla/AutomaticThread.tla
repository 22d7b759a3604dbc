-------------------------- MODULE AutomaticThread --------------------------
(***************************************************************************)
(* WTF/AutomaticThread: threads that share a lock and an                   *)
(* AutomaticThreadCondition, look for work under the lock (poll), do it    *)
(* without (work), and end when they have waited in vain for a timeout; a  *)
(* notification wakes one or creates its underlying thread again.          *)
(*                                                                         *)
(* poll() and shouldSleep() are the subclass's and are parameters here, as *)
(* WorkerPool is.  No client waits on the AutomaticThreadCondition itself, *)
(* so that the notifications of its m_condition return at once.            *)
(***************************************************************************)
EXTENDS Condition

CONSTANT m_threads   \* AutomaticThreadCondition's, in the order of creation

Workers == Range(m_threads)
m_waitCondition(w)      == <<"wait", w>>
m_isRunningCondition(w) == <<"isRunning", w>>

ASSUME AutomaticThreadConstants ==
  /\ m_threads \in Seq(Threads) /\ IsInjective(m_threads)
  /\ Conditions = {"wait", "isRunning"} \X Workers

VARIABLES
  m_isRunning, m_isWaiting, m_hasUnderlyingThread,
  pc            \* where each thread is, outside of the conditions' functions

automaticThread == <<m_isRunning, m_isWaiting, m_hasUnderlyingThread>>

Goto(t, label) == pc' = [pc EXCEPT ![t] = label]

\* Earlier notifications have left the workers of `warm` waiting.
AutomaticThreadInit(warm) ==
  /\ owner = NoThread
  /\ hasWaiters = [c \in Conditions |-> c[1] = "wait" /\ c[2] \in warm]
  /\ queue = [c \in Conditions |-> IF c[1] = "wait" /\ c[2] \in warm THEN <<c[2]>> ELSE <<>>]
  /\ at = [t \in Threads |-> IF t \in warm THEN "parked" ELSE "outside"]
  /\ on = [t \in Threads |-> IF t \in warm THEN m_waitCondition(t) ELSE NoCondition]
  /\ m_isRunning = [w \in Workers |-> TRUE]
  /\ m_isWaiting = [w \in Workers |-> w \in warm]
  /\ m_hasUnderlyingThread = [w \in Workers |-> w \in warm]
  /\ pc = [t \in Threads |-> IF t \in warm THEN "waited" ELSE "outside"]

-----------------------------------------------------------------------------
(* Called with the lock held *)

isWaiting(w) == m_hasUnderlyingThread[w] /\ m_isWaiting[w]

\* Thread t notifies w, or creates its underlying thread, and goes on at label.
notify(t, w, label) ==
  /\ m_isWaiting' = [m_isWaiting EXCEPT ![w] = FALSE]
  /\ notifyOne(t, m_waitCondition(w))
  /\ Goto(t, label)
  /\ UNCHANGED <<m_isRunning, m_hasUnderlyingThread>>

start(t, w, label) ==
  /\ m_hasUnderlyingThread' = [m_hasUnderlyingThread EXCEPT ![w] = TRUE]
  /\ pc' = [pc EXCEPT ![w] = "threadDidStart", ![t] = label]
  /\ UNCHANGED <<condition, m_isRunning, m_isWaiting>>

Nothing(t, label) == Goto(t, label) /\ UNCHANGED <<condition, automaticThread>>

\* The first thread of the condition in S, if there is one.
First(S) == { m_threads[i] : i \in {i \in DOMAIN m_threads :
                m_threads[i] \in S /\ \A j \in 1 .. i - 1 : m_threads[j] \notin S} }

\* Mutant: only threads that wait are notified.
ConditionNotifyOne_StartsNone(t, label) ==
  LET waiting == {w \in Workers : isWaiting(w)}
  IN  \/ \E w \in First(waiting) : notify(t, w, label)
      \/ waiting = {} /\ Nothing(t, label)

\* AutomaticThreadCondition::notifyOne.
ConditionNotifyOne(t, label) ==
  LET waiting    == {w \in Workers : isWaiting(w)}
      threadless == {w \in Workers : ~m_hasUnderlyingThread[w]}
  IN  \/ \E w \in First(waiting) : notify(t, w, label)
      \/ waiting = {} /\ \E w \in First(threadless) : start(t, w, label)
      \/ waiting = {} /\ threadless = {} /\ Nothing(t, label)

\* AutomaticThreadCondition::notifyAll, as far as thread w is concerned.
ConditionNotify(t, w, label) ==
  IF isWaiting(w) THEN notify(t, w, label)
  ELSE IF ~m_hasUnderlyingThread[w] THEN start(t, w, label)
  ELSE Nothing(t, label)

\* One turn of join()'s loop; m_isRunning is false when it ends.
joinWaits(t, w) ==
  /\ m_isRunning[w] /\ waitUntil(t, m_isRunningCondition(w))
  /\ UNCHANGED <<automaticThread, pc>>

-----------------------------------------------------------------------------
(* The underlying thread of w *)

Lock(w) ==
  /\ pc[w] = "lock"
  /\ lock(w)
  /\ Goto(w, "poll")
  /\ UNCHANGED automaticThread

\* poll() answers Work, Stop or Wait.
PolledWork(w) ==
  /\ pc[w] = "poll"
  /\ unlock(w)
  /\ Goto(w, "work")
  /\ UNCHANGED automaticThread

\* Mutant: nobody who joins is told.
PolledStop_Silently(w) ==
  /\ pc[w] = "poll"
  /\ m_isRunning' = [m_isRunning EXCEPT ![w] = FALSE]
  /\ Goto(w, "stop")
  /\ UNCHANGED <<condition, m_isWaiting, m_hasUnderlyingThread>>

PolledStop(w) ==
  /\ pc[w] = "poll"
  /\ m_isRunning' = [m_isRunning EXCEPT ![w] = FALSE]
  /\ notifyAll(w, m_isRunningCondition(w))
  /\ Goto(w, "stop")
  /\ UNCHANGED <<m_isWaiting, m_hasUnderlyingThread>>

PolledWait(w) ==
  /\ pc[w] = "poll"
  /\ m_isWaiting' = [m_isWaiting EXCEPT ![w] = TRUE]
  /\ waitUntil(w, m_waitCondition(w))
  /\ Goto(w, "waited")
  /\ UNCHANGED <<m_isRunning, m_hasUnderlyingThread>>

\* waitFor() has returned.
WaitedOn(w) == pc[w] = "waited" /\ Running(w)

Repolls(w) ==
  /\ WaitedOn(w)
  /\ Goto(w, "poll")
  /\ UNCHANGED <<condition, automaticThread>>

\* The end of the thread, for its timeout or for good.
Ends(w) ==
  /\ unlock(w)
  /\ m_hasUnderlyingThread' = [m_hasUnderlyingThread EXCEPT ![w] = FALSE]
  /\ Goto(w, "outside")

\* Mutant: a thread that has timed out ignores that it has been notified since.
StopsForTimeout_Regardless(w) ==
  /\ WaitedOn(w)
  /\ m_isWaiting' = [m_isWaiting EXCEPT ![w] = FALSE]
  /\ Ends(w)
  /\ UNCHANGED m_isRunning

StopsForTimeout(w) ==
  /\ WaitedOn(w) /\ m_isWaiting[w]
  /\ m_isWaiting' = [m_isWaiting EXCEPT ![w] = FALSE]
  /\ Ends(w)
  /\ UNCHANGED m_isRunning

StopsPermanently(w) ==
  /\ pc[w] = "stop"
  /\ Ends(w)
  /\ UNCHANGED <<m_isRunning, m_isWaiting>>

Worked(w) ==
  /\ pc[w] = "work"
  /\ Nothing(w, "lock")
=============================================================================
