----------------------------- MODULE WorkerPool -----------------------------
(***************************************************************************)
(* WTF/WorkerPool: a queue of tasks and AutomaticThreads that take them.   *)
(* Clients post tasks; when all of them are through, one destroys the      *)
(* pool, which posts a null task for each worker and joins them all.       *)
(***************************************************************************)
EXTENDS AutomaticThread

CONSTANTS
  Clients,   \* the threads that post
  Owner,     \* the one of them that destroys the pool
  MaxTasks   \* bound: how many tasks they post

ASSUME WorkerPoolConstants ==
  /\ Threads = Workers \cup Clients /\ Workers \cap Clients = {}
  /\ Owner \in Clients /\ MaxTasks \in Nat
  /\ m_threads # <<>>   \* numberOfWorkers >= 1

VARIABLES
  m_tasks,                  \* of "task"s and "null"s
  m_numberOfActiveWorkers,
  overtaken,   \* the workers that wait since before m_lastTimeoutTime
  todo,        \* the workers which the destructor has yet to notify or to join
  posted, ran  \* the number of tasks posted and completed

pool == <<m_tasks, m_numberOfActiveWorkers, overtaken, todo, posted, ran>>
vars == <<condition, automaticThread, pc, pool>>

Init ==
  /\ \E warm \in SUBSET Workers :
       AutomaticThreadInit(warm) /\ m_numberOfActiveWorkers = Cardinality(warm)
  /\ m_tasks = <<>> /\ overtaken = {} /\ todo = <<>>
  /\ posted = 0 /\ ran = 0

-----------------------------------------------------------------------------
(* Clients *)

\* Nobody who still refers to the pool lets it be destroyed.
Destroying == pc[Owner] \notin {"outside", "postTask", "unlock"}

\* postTask(): the lock, and the critical section up to the end of notifyOne().
Post(t) ==
  /\ t \in Clients /\ pc[t] = "outside" /\ ~Destroying /\ posted < MaxTasks
  /\ lock(t)
  /\ Goto(t, "postTask")
  /\ posted' = posted + 1
  /\ UNCHANGED <<automaticThread, m_tasks, m_numberOfActiveWorkers, overtaken, todo, ran>>

postTask(t) ==
  /\ pc[t] = "postTask"
  /\ m_tasks' = Append(m_tasks, "task")
  /\ ConditionNotifyOne(t, "unlock")
  /\ UNCHANGED <<m_numberOfActiveWorkers, overtaken, todo, posted, ran>>

Unlock(t) ==
  /\ pc[t] = "unlock"
  /\ unlock(t)
  /\ Goto(t, "outside")
  /\ UNCHANGED <<automaticThread, pool>>

\* Mutant: the null tasks overtake the posted ones.
Destroy_NullsFirst ==
  /\ \A t \in Clients : pc[t] = "outside"
  /\ lock(Owner)
  /\ Goto(Owner, "notifyAll")
  /\ m_tasks' = [i \in DOMAIN m_threads |-> "null"] \o m_tasks
  /\ todo' = m_threads
  /\ UNCHANGED <<automaticThread, m_numberOfActiveWorkers, overtaken, posted, ran>>

\* ~WorkerPool(), when nobody else refers to the pool.
Destroy ==
  /\ \A t \in Clients : pc[t] = "outside"
  /\ lock(Owner)
  /\ Goto(Owner, "notifyAll")
  /\ m_tasks' = m_tasks \o [i \in DOMAIN m_threads |-> "null"]
  /\ todo' = m_threads
  /\ UNCHANGED <<automaticThread, m_numberOfActiveWorkers, overtaken, posted, ran>>

NotifyNext ==
  /\ pc[Owner] = "notifyAll" /\ Running(Owner) /\ todo # <<>>
  /\ ConditionNotify(Owner, Head(todo), "notifyAll")
  /\ todo' = Tail(todo)
  /\ UNCHANGED <<m_tasks, m_numberOfActiveWorkers, overtaken, posted, ran>>

NotifiedAll ==
  /\ pc[Owner] = "notifyAll" /\ todo = <<>>
  /\ unlock(Owner)
  /\ Goto(Owner, "join")
  /\ todo' = m_threads
  /\ UNCHANGED <<automaticThread, m_tasks, m_numberOfActiveWorkers, overtaken, posted, ran>>

Join ==
  /\ pc[Owner] = "join" /\ todo # <<>>
  /\ lock(Owner)
  /\ Goto(Owner, "joining")
  /\ UNCHANGED <<automaticThread, pool>>

JoinWaits ==
  /\ pc[Owner] = "joining"
  /\ joinWaits(Owner, Head(todo))
  /\ UNCHANGED pool

Joined ==
  /\ pc[Owner] = "joining" /\ ~m_isRunning[Head(todo)]
  /\ unlock(Owner)
  /\ Goto(Owner, IF Len(todo) = 1 THEN "destroyed" ELSE "join")
  /\ todo' = Tail(todo)
  /\ UNCHANGED <<automaticThread, m_tasks, m_numberOfActiveWorkers, overtaken, posted, ran>>

-----------------------------------------------------------------------------
(* WorkerPool::Worker *)

\* The whole critical section of threadDidStart().
threadDidStart(w) ==
  /\ pc[w] = "threadDidStart" /\ owner = NoThread
  /\ m_numberOfActiveWorkers' = m_numberOfActiveWorkers + 1
  /\ Nothing(w, "lock")
  /\ UNCHANGED <<m_tasks, overtaken, todo, posted, ran>>

\* threadIsStopping() is called with the lock held.
threadIsStopping == m_numberOfActiveWorkers' = m_numberOfActiveWorkers - 1

poll(w) ==
  /\ \/ m_tasks = <<>> /\ PolledWait(w) /\ overtaken' = overtaken \ {w} /\ UNCHANGED m_tasks
     \/ /\ m_tasks # <<>> /\ m_tasks' = Tail(m_tasks) /\ UNCHANGED overtaken
        /\ IF Head(m_tasks) = "null" THEN PolledStop(w) ELSE PolledWork(w)
  /\ UNCHANGED <<m_numberOfActiveWorkers, todo, posted, ran>>

\* WorkerPool::shouldSleep is false only less than a timeout after it was last true:
\* the worker, which has waited for a timeout, waits since before then.
Sleep(w) ==
  /\ StopsForTimeout(w)
  /\ threadIsStopping
  /\ overtaken' = {v \in Workers \ {w} : pc[v] = "waited"}
  /\ UNCHANGED <<m_tasks, todo, posted, ran>>

Stop(w) ==
  /\ StopsPermanently(w)
  /\ threadIsStopping
  /\ UNCHANGED <<m_tasks, overtaken, todo, posted, ran>>

Wake(w) ==
  /\ m_isWaiting[w] => w \in overtaken
  /\ Repolls(w)
  /\ UNCHANGED pool

work(w) ==
  /\ Worked(w)
  /\ ran' = ran + 1
  /\ UNCHANGED <<m_tasks, m_numberOfActiveWorkers, overtaken, todo, posted>>

-----------------------------------------------------------------------------
LockWorker(w)  == Lock(w) /\ UNCHANGED pool
InCondition(t) == ConditionStep(t) /\ UNCHANGED <<automaticThread, pc, pool>>
Expires(w)     == TimesOut(w) /\ UNCHANGED <<automaticThread, pc, pool>>

\* What each thread does next once it has called.
WorkerStep(w) == \/ threadDidStart(w) \/ LockWorker(w) \/ poll(w) \/ work(w)
                 \/ Wake(w) \/ Sleep(w) \/ Stop(w)
ClientStep(t) == \/ postTask(t) \/ Unlock(t)
                 \/ t = Owner /\ (NotifyNext \/ NotifiedAll \/ Join \/ JoinWaits \/ Joined)
ThreadStep(t) == \/ t \in Workers /\ WorkerStep(t)
                 \/ t \in Clients /\ ClientStep(t)
                 \/ InCondition(t)

Next == Destroy \/ (\E t \in Clients : Post(t)) \/ (\E w \in Workers : Expires(w))
        \/ (\E t \in Threads : ThreadStep(t))

\* Threads run, tasks end, and a Lock is handed in the end to a thread that has been
\* parked on it for long (eventual fairness).  Timeouts need not come.
Spec == Init /\ [][Next]_vars /\ \A t \in Threads : SF_vars(ThreadStep(t))

-----------------------------------------------------------------------------
\* The workers on their way to poll(), and those of them that have no task to do first.
Notified(w) == pc[w] = "waited" /\ ~Queued(w) /\ ~m_isWaiting[w]
Coming == {w \in Workers : pc[w] \in {"threadDidStart", "lock", "poll"} \/ Notified(w)}
Busy   == {w \in Workers : pc[w] = "work"}
\* The workers that wait, and those that wait for a thread.
Idle   == {w \in Workers : Queued(w) \/ (m_isRunning[w] /\ ~m_hasUnderlyingThread[w])}

\* A posted task is never left to workers that all sleep, whenever timeouts fall: some
\* worker is on its way to the queue (AutomaticThread.cpp:48-62 and 200-213, "a notify
\* race that manifests as a deadlock").
NoTaskIsStranded ==
  owner = NoThread /\ m_tasks # <<>> => Coming \cup Busy # {}

\* When the destructor returns, every task has been completed and no thread is left
\* that could touch the pool, as its last line asserts (WorkerPool.cpp:96-107).
DestroyedMeansDone ==
  pc[Owner] = "destroyed" =>
    /\ m_tasks = <<>> /\ ran = posted
    /\ m_numberOfActiveWorkers = 0
    /\ \A w \in Workers : pc[w] = "outside" /\ ~m_hasUnderlyingThread[w]

\* Every task runs (WorkerPool.cpp:122-127).
EveryTaskRuns == \A n \in 1 .. MaxTasks : posted >= n ~> ran >= n

\* The destructor returns: each worker takes one null task and wakes who joins it.
PoolIsDestroyed == pc[Owner] = "notifyAll" ~> pc[Owner] = "destroyed"

\* Workers that poll and wait on one condition "like so" (AutomaticThread.h:138-162)
\* leave no task to wait for another one's end while one of them idles.
NoTaskWaitsForAnother ==
  owner = NoThread /\ Idle # {} => Len(m_tasks) <= Cardinality(Coming)
=============================================================================
