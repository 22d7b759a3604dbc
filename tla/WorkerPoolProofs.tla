-------------------------- MODULE WorkerPoolProofs --------------------------
(***************************************************************************)
(* For any number of workers, clients and tasks: a posted task is never    *)
(* left to workers that all sleep, and when the destructor returns every   *)
(* task has run and no worker's thread is left.                            *)
(*                                                                         *)
(* The invariant places every thread (which function of a Condition it may *)
(* be in, and whether it holds the pool's lock), says who has been         *)
(* notified, and counts: the null tasks in the queue are as many as the    *)
(* workers that run, and every task posted is in the queue, in the hands   *)
(* of a worker or done.                                                    *)
(***************************************************************************)
EXTENDS WorkerPool, FiniteSetTheorems, TLAPS

-----------------------------------------------------------------------------
(* What every use of a Condition preserves, whatever its clients do between the calls. *)

\* Everything a thread can do with a Condition and the lock it is used with.
ConditionNext(t) ==
  \/ lock(t) \/ unlock(t)
  \/ \E c \in Conditions : \/ waitUntil(t, c)
                           \/ waitUntilPast(t, c) \/ notifyOne(t, c) \/ notifyAll(t, c)
  \/ ConditionStep(t) \/ TimesOut(t)

\* A sequence without one of its elements is a sequence of the same kind.
LEMMA RemoveAtType ==
  ASSUME NEW S, NEW s \in Seq(S), NEW i \in 1 .. Len(s)
  PROVE  RemoveAt(s, i) \in Seq(S)
  BY DEF RemoveAt

\* No operation leads out of the types.
LEMMA ConditionKeepsTypes ==
  ASSUME NEW t \in Threads, ConditionTypeOK, ConditionNext(t)
  PROVE  ConditionTypeOK'
<1> USE DEF ConditionTypeOK, Running, Enter, Leave, Places
<1>n. NoCondition \notin Conditions /\ NoThread \notin Threads
  BY ConditionConstants
<1>1. CASE lock(t)
  BY <1>1 DEF lock
<1>2. CASE unlock(t)
  BY <1>2 DEF unlock
<1>3. ASSUME NEW c \in Conditions, waitUntil(t, c) PROVE ConditionTypeOK'
  BY <1>3, <1>n DEF waitUntil
<1>4. ASSUME NEW c \in Conditions, waitUntilPast(t, c) PROVE ConditionTypeOK'
  BY <1>4, <1>n DEF waitUntilPast
<1>5. ASSUME NEW c \in Conditions, notifyOne(t, c) PROVE ConditionTypeOK'
  BY <1>5, <1>n DEF notifyOne
<1>6. ASSUME NEW c \in Conditions, notifyAll(t, c) PROVE ConditionTypeOK'
  BY <1>6, <1>n DEF notifyAll
<1>7. ASSUME at[t] # "outside" PROVE on[t] \in Conditions
  BY <1>7
<1>8. CASE BeforeSleep(t)
  BY <1>8, <1>7, <1>n DEF BeforeSleep
<1>9. CASE Unparked(t)
  BY <1>9, <1>7, <1>n DEF Unparked
<1>10. CASE TimesOut(t)
  <2> PICK i \in DOMAIN queue[on[t]] : queue' = [queue EXCEPT ![on[t]] = RemoveAt(@, i)]
    BY <1>10 DEF TimesOut
  <2>1. on[t] \in Conditions /\ queue[on[t]] \in Seq(Threads) /\ i \in 1 .. Len(queue[on[t]])
    BY <1>7, <1>10 DEF TimesOut
  <2>2. RemoveAt(queue[on[t]], i) \in Seq(Threads)
    BY <2>1, RemoveAtType
  <2>3. queue' \in [Conditions -> Seq(Threads)]
    BY <2>1, <2>2
  <2> QED BY <1>10, <2>1, <2>3, <1>n DEF TimesOut
<1>11. CASE Relock(t)
  BY <1>11, <1>n DEF Relock
<1>12. CASE UnparkOne(t)
  <2>1. on[t] \in Conditions /\ queue[on[t]] \in Seq(Threads)
    BY <1>7, <1>12 DEF UnparkOne
  <2>2. (IF queue[on[t]] = <<>> THEN <<>> ELSE Tail(queue[on[t]])) \in Seq(Threads)
    BY <2>1
  <2>3. queue' \in [Conditions -> Seq(Threads)]
    BY <1>12, <2>1, <2>2 DEF UnparkOne
  <2>4. hasWaiters' \in [Conditions -> BOOLEAN]
    BY <1>12, <2>1 DEF UnparkOne
  <2> QED BY <1>12, <2>3, <2>4, <1>n DEF UnparkOne
<1>13. CASE Store(t)
  BY <1>13, <1>7, <1>n DEF Store
<1>14. CASE UnparkAll(t)
  BY <1>14, <1>7, <1>n DEF UnparkAll
<1> QED BY <1>1, <1>2, <1>3, <1>4, <1>5, <1>6, <1>8, <1>9, <1>10, <1>11, <1>12, <1>13, <1>14
        DEF ConditionNext, ConditionStep

-----------------------------------------------------------------------------
WorkerLabels == {"outside", "threadDidStart", "lock", "poll", "work", "stop", "waited"}
ClientLabels == {"outside", "postTask", "unlock", "notifyAll", "join", "joining", "destroyed"}

TypeOK ==
  /\ ConditionTypeOK
  /\ m_isRunning \in [Workers -> BOOLEAN] /\ m_isWaiting \in [Workers -> BOOLEAN]
  /\ m_hasUnderlyingThread \in [Workers -> BOOLEAN]
  /\ pc \in [Threads -> WorkerLabels \cup ClientLabels]
  /\ \A w \in Workers : pc[w] \in WorkerLabels
  /\ \A t \in Clients : pc[t] \in ClientLabels
  /\ m_tasks \in Seq({"task", "null"}) /\ m_numberOfActiveWorkers \in Int
  /\ overtaken \subseteq Workers /\ todo \in Seq(Workers)
  /\ posted \in Nat /\ ran \in Nat

\* Where a thread is in a Condition's function, for where it is in its own.
Placed ==
  /\ \A w \in Workers :
       \/ Running(w)
       \/ /\ pc[w] = "waited" /\ on[w] = m_waitCondition(w)
          /\ at[w] \in {"beforeSleep", "parked", "relock"}
       \/ /\ pc[w] = "stop" /\ on[w] = m_isRunningCondition(w)
          /\ at[w] \in {"store", "unparkAll"}
  /\ \A t \in Clients :
       \/ Running(t)
       \/ /\ pc[t] \in {"unlock", "notifyAll"} /\ at[t] = "unparkOne"
          /\ \E w \in Workers : /\ on[t] = m_waitCondition(w)
                                /\ m_hasUnderlyingThread[w] /\ ~m_isWaiting[w]
       \/ /\ pc[t] = "joining" /\ at[t] \in {"beforeSleep", "parked", "relock"}
          /\ \E w \in Workers : on[t] = m_isRunningCondition(w)

\* Who holds the pool's lock, and who is left when the pool is destroyed.
Holds(t) == \/ pc[t] \in {"poll", "stop", "postTask", "unlock", "notifyAll"}
            \/ pc[t] \in {"waited", "joining"} /\ at[t] \in {"beforeSleep", "outside"}
Holding ==
  /\ \A t \in Threads : owner = t <=> Holds(t)
  /\ \A t \in Clients : t = Owner \/ pc[t] \in {"outside", "postTask", "unlock"}
  /\ Destroying => \A t \in Clients : t = Owner \/ pc[t] = "outside"

\* The workers' threads.
Living ==
  /\ \A w \in Workers : m_hasUnderlyingThread[w] <=> pc[w] # "outside"
  /\ \A w \in Workers : ~m_isRunning[w] => pc[w] \in {"stop", "outside"}
  /\ \A w \in Workers : pc[w] = "stop" => ~m_isRunning[w]
  /\ \A w \in Workers : ~m_isRunning[w] => pc[Owner] \in {"join", "joining", "destroyed"}

\* The queue of a worker's condition: the worker, as long as it sleeps.  A client that
\* has notified it is about to unpark it.
Pending(w) == \E t \in Clients : at[t] = "unparkOne" /\ on[t] = m_waitCondition(w)
Waiting ==
  \A w \in Workers : queue[m_waitCondition(w)] # <<>> =>
    /\ queue[m_waitCondition(w)] = <<w>>
    /\ pc[w] = "waited" /\ at[w] \in {"beforeSleep", "parked"}
    /\ hasWaiters[m_waitCondition(w)]
    /\ m_isWaiting[w] \/ Pending(w)

\* A worker that will look at the tasks, or that a client is about to wake for them.
Up(w) == \/ pc[w] \in {"threadDidStart", "lock", "poll", "work"}
         \/ pc[w] = "waited" /\ queue[m_waitCondition(w)] = <<>> /\ ~m_isWaiting[w]
Attended(w) == Up(w) \/ Pending(w)
Attendance ==
  /\ ~Destroying /\ m_tasks # <<>> => \E w \in Workers : Attended(w)
  /\ pc[Owner] = "notifyAll" =>
       \A w \in Workers : Attended(w) \/ \E i \in 1 .. Len(todo) : todo[i] = w
  /\ pc[Owner] \in {"join", "joining", "destroyed"} =>
       \A w \in Workers : m_isRunning[w] => Attended(w)

\* The workers that the destructor has joined are not running.
Joining ==
  /\ pc[Owner] \in {"join", "joining"} =>
       \A w \in Workers : m_isRunning[w] => \E i \in 1 .. Len(todo) : todo[i] = w
  /\ pc[Owner] = "joining" => todo # <<>>
  /\ pc[Owner] = "destroyed" => \A w \in Workers : ~m_isRunning[w] /\ pc[w] = "outside"

\* The queue: posted tasks, and once the pool is being destroyed a null task for each
\* worker that runs.
Alive  == {w \in Workers : m_isRunning[w]}
Nulls  == IF Destroying THEN Cardinality(Alive) ELSE 0
Active == {w \in Workers : pc[w] \notin {"outside", "threadDidStart"}}
Tasks ==
  /\ Nulls <= Len(m_tasks)
  /\ \A i \in 1 .. Len(m_tasks) : m_tasks[i] = "task" <=> i <= Len(m_tasks) - Nulls
  /\ Destroying /\ Nulls = 0 => m_tasks = <<>>
Adding == \E t \in Clients : pc[t] = "postTask"
Counts ==
  /\ posted = ran + (Len(m_tasks) - Nulls) + Cardinality(Busy) + (IF Adding THEN 1 ELSE 0)
  /\ m_numberOfActiveWorkers = Cardinality(Active)

IInv == TypeOK /\ Placed /\ Holding /\ Living /\ Waiting /\ Attendance /\ Joining /\ Tasks /\ Counts

USE DEF condition, automaticThread, pool, vars, Goto, Enter, Leave, Running

-----------------------------------------------------------------------------
\* What the constants are.
LEMMA Constants ==
  /\ Workers \subseteq Threads /\ Clients \subseteq Threads /\ Threads = Workers \cup Clients
  /\ Owner \in Clients /\ \A w \in Workers : w \notin Clients
  /\ NoCondition \notin Conditions /\ NoThread \notin Threads
  /\ \A w \in Workers : /\ m_waitCondition(w) \in Conditions
                        /\ m_isRunningCondition(w) \in Conditions
  /\ \A v, w \in Workers : /\ m_waitCondition(v) # m_isRunningCondition(w)
                           /\ m_waitCondition(v) = m_waitCondition(w) => v = w
BY ConditionConstants, AutomaticThreadConstants, WorkerPoolConstants
DEF m_waitCondition, m_isRunningCondition

\* The workers are the elements of m_threads, each there once.
LEMMA WorkersCount ==
  /\ m_threads \in Seq(Workers) /\ m_threads # <<>>
  /\ \A w \in Workers : \E i \in 1 .. Len(m_threads) : m_threads[i] = w
  /\ IsFiniteSet(Workers) /\ Cardinality(Workers) = Len(m_threads)
<1>1. /\ m_threads \in Seq(Workers) /\ m_threads # <<>>
      /\ \A w \in Workers : \E i \in 1 .. Len(m_threads) : m_threads[i] = w
  BY AutomaticThreadConstants, WorkerPoolConstants DEF Workers, Range
<1>2. m_threads \in Bijection(1 .. Len(m_threads), Workers)
  <2>1. m_threads \in [1 .. Len(m_threads) -> Workers] BY <1>1
  <2>2. \A i, j \in 1 .. Len(m_threads) : m_threads[i] = m_threads[j] => i = j
    BY <2>1, AutomaticThreadConstants DEF IsInjective
  <2> QED BY <1>1, <2>1, <2>2 DEF Bijection, Injection, Surjection, IsInjective
<1>3. ExistsBijection(1 .. Len(m_threads), Workers)
  BY <1>2 DEF ExistsBijection
<1>4. Len(m_threads) \in Nat BY <1>1
<1>5. IsFiniteSet(1 .. Len(m_threads)) /\ Cardinality(1 .. Len(m_threads)) = Len(m_threads)
  <2>1. /\ IsFiniteSet(1 .. Len(m_threads))
        /\ Cardinality(1 .. Len(m_threads)) = IF 1 > Len(m_threads) THEN 0 ELSE Len(m_threads) - 1 + 1
    BY <1>4, FS_Interval
  <2> QED BY <1>4, <2>1
<1> QED BY <1>1, <1>3, <1>5, FS_Bijection

\* A set of workers is finite, and loses or gains one with an element.
LEMMA Finite ==
  ASSUME NEW S \in SUBSET Workers
  PROVE  /\ IsFiniteSet(S) /\ Cardinality(S) \in Nat
         /\ Cardinality(S) = 0 <=> S = {}
         /\ \A w \in S : Cardinality(S \ {w}) = Cardinality(S) - 1
         /\ \A w : w \notin S => Cardinality(S \cup {w}) = Cardinality(S) + 1
<1>1. IsFiniteSet(S) BY WorkersCount, FS_Subset
<1> QED BY <1>1, FS_CardinalityType, FS_EmptySet, FS_RemoveElement, FS_AddElement

\* At the start the workers that wait are in the queues of their conditions.
LEMMA InitIInv == Init => IInv
<1> SUFFICES ASSUME Init PROVE IInv OBVIOUS
<1> PICK warm \in SUBSET Workers :
           AutomaticThreadInit(warm) /\ m_numberOfActiveWorkers = Cardinality(warm)
  BY DEF Init
<1> USE Constants DEF AutomaticThreadInit, Init, Destroying
<1>2. \A w \in Workers : m_waitCondition(w)[1] = "wait" /\ m_waitCondition(w)[2] = w
  BY DEF m_waitCondition
<1>q. /\ queue \in [Conditions -> Seq(Threads)] /\ hasWaiters \in [Conditions -> BOOLEAN]
      /\ \A w \in Workers : /\ queue[m_waitCondition(w)] = IF w \in warm THEN <<w>> ELSE <<>>
                            /\ hasWaiters[m_waitCondition(w)] = (w \in warm)
  <2>1. hasWaiters \in [Conditions -> BOOLEAN] OBVIOUS
  <2>2. ASSUME NEW c \in Conditions PROVE queue[c] \in Seq(Threads)
    <3>1. CASE c[1] = "wait" /\ c[2] \in warm
      <4>1. queue[c] = <<c[2]>> /\ c[2] \in Threads BY <3>1
      <4>2. \A t \in Threads : <<t>> \in Seq(Threads) OBVIOUS
      <4> QED BY <4>1, <4>2
    <3>2. CASE ~(c[1] = "wait" /\ c[2] \in warm)
      <4>1. queue[c] = <<>> BY <3>2
      <4> QED BY <4>1
    <3> QED BY <3>1, <3>2
  <2>3. queue \in [Conditions -> Seq(Threads)]
    <3>1. queue = [c \in Conditions |-> queue[c]] OBVIOUS
    <3> QED BY <2>2, <3>1
  <2>4. ASSUME NEW w \in Workers
        PROVE  /\ queue[m_waitCondition(w)] = IF w \in warm THEN <<w>> ELSE <<>>
               /\ hasWaiters[m_waitCondition(w)] = (w \in warm)
    BY <1>2
  <2> QED BY <2>1, <2>3, <2>4
<1>3. TypeOK
  <2>1. ConditionTypeOK BY <1>q DEF ConditionTypeOK, Places
  <2>2. Cardinality(warm) \in Int BY Finite
  <2>3. m_tasks \in Seq({"task", "null"}) /\ todo \in Seq(Workers) OBVIOUS
  <2> QED BY <2>1, <2>2, <2>3 DEF TypeOK, WorkerLabels, ClientLabels
<1>4. Placed BY DEF Placed
<1>5. Holding BY DEF Holding, Holds
<1>6. Living BY DEF Living
<1>7. Waiting BY <1>q DEF Waiting
<1>8. Attendance BY DEF Attendance
<1>9. Joining BY DEF Joining
<1>10. Nulls = 0 BY DEF Nulls
<1>11. Tasks BY <1>10 DEF Tasks
<1>12. Counts
  <2>1. Busy = {} /\ Active = warm BY DEF Busy, Active
  <2>2. Cardinality({}) = 0 BY FS_EmptySet
  <2> QED BY <1>10, <2>1, <2>2 DEF Counts, Adding
<1> QED BY <1>3, <1>4, <1>5, <1>6, <1>7, <1>8, <1>9, <1>11, <1>12 DEF IInv

-----------------------------------------------------------------------------
\* A step that keeps every worker attended, adds no task and does not bring the
\* destruction on.
LEMMA AttendanceKept ==
  ASSUME IInv,
         \A w \in Workers : Attended(w) => Attended(w)',
         \A w \in Workers : m_isRunning'[w] => m_isRunning[w],
         m_tasks' # <<>> => m_tasks # <<>>,
         \/ pc'[Owner] = pc[Owner] /\ todo' = todo
         \/ /\ pc[Owner] \in {"outside", "postTask", "unlock"}
            /\ pc'[Owner] \in {"outside", "postTask", "unlock"}
         \/ /\ pc[Owner] \in {"join", "joining"} /\ pc'[Owner] \in {"join", "joining", "destroyed"}
  PROVE  Attendance'
BY DEF IInv, Attendance, Destroying

\* A step that leaves the tasks and the running workers alone, outside of the
\* destructor's first step, leaves the number of null tasks as it is.
LEMMA TasksKept ==
  ASSUME IInv, m_tasks' = m_tasks, m_isRunning' = m_isRunning, Destroying' = Destroying
  PROVE  Nulls' = Nulls /\ Tasks'
BY DEF IInv, Tasks, Nulls, Alive

\* The numbers are numbers.
LEMMA Numbers ==
  ASSUME TypeOK
  PROVE  /\ Nulls \in Nat /\ Len(m_tasks) \in Nat
         /\ Cardinality(Busy) \in Nat /\ Cardinality(Active) \in Nat /\ Cardinality(Alive) \in Nat
<1>1. Alive \subseteq Workers /\ Busy \subseteq Workers /\ Active \subseteq Workers
  BY DEF Alive, Busy, Active
<1> QED BY <1>1, Finite DEF Nulls, TypeOK

-----------------------------------------------------------------------------
(* The clients *)

\* postTask() begins.
LEMMA PostIInv == ASSUME NEW t \in Clients, IInv, Post(t) PROVE IInv'
<1> USE Constants DEF IInv, Post, lock
<1>c. ConditionTypeOK'
  <2>1. ConditionNext(t) BY DEF ConditionNext
  <2> QED BY <2>1, ConditionKeepsTypes DEF TypeOK
<1> USE DEF TypeOK, ConditionTypeOK
<1>1. TypeOK' BY <1>c DEF ClientLabels
<1>2. Placed' BY DEF Placed
<1>3. Holding' BY DEF Holding, Holds, Placed, Destroying
<1>4. Living' BY DEF Living, Holding, Holds
<1>5. Waiting' BY DEF Waiting, Pending, Placed
<1>6. Destroying' = Destroying /\ UNCHANGED <<m_tasks, m_isRunning>> BY DEF Destroying
<1>7. Nulls' = Nulls /\ Tasks' BY <1>6, TasksKept
<1>8. Attendance'
  <2>1. \A w \in Workers : Attended(w)' = Attended(w) BY DEF Attended, Up, Pending
  <2> QED BY <2>1, AttendanceKept DEF Destroying
<1>9. Joining' BY DEF Joining, Destroying
<1>10. Counts'
  <2>1. Busy' = Busy /\ Active' = Active BY DEF Busy, Active
  <2>2. ~Adding /\ Adding' BY DEF Adding, Holding, Holds
  <2> QED BY <1>7, <2>1, <2>2, Numbers DEF Counts
<1> QED BY <1>1, <1>2, <1>3, <1>4, <1>5, <1>7, <1>8, <1>9, <1>10

\* postTask() ends.
LEMMA UnlockIInv == ASSUME NEW t \in Clients, IInv, Unlock(t) PROVE IInv'
<1> USE Constants DEF IInv, Unlock, unlock
<1>c. ConditionTypeOK'
  <2>1. ConditionNext(t) BY DEF ConditionNext
  <2> QED BY <2>1, ConditionKeepsTypes DEF TypeOK
<1> USE DEF TypeOK, ConditionTypeOK
<1>1. TypeOK' BY <1>c DEF ClientLabels
<1>2. Placed' BY DEF Placed
<1>3. Holding' BY DEF Holding, Holds, Placed, Destroying
<1>4. Living' BY DEF Living, Holding, Holds
<1>5. Waiting' BY DEF Waiting, Pending, Placed
<1>6. Destroying' = Destroying /\ UNCHANGED <<m_tasks, m_isRunning>> BY DEF Destroying
<1>7. Nulls' = Nulls /\ Tasks' BY <1>6, TasksKept
<1>8. Attendance'
  <2>1. \A w \in Workers : Attended(w)' = Attended(w) BY DEF Attended, Up, Pending
  <2> QED BY <2>1, AttendanceKept DEF Destroying
<1>9. Joining' BY DEF Joining, Destroying
<1>10. Counts'
  <2>1. Busy' = Busy /\ Active' = Active BY DEF Busy, Active
  <2>2. Adding' = Adding BY DEF Adding
  <2> QED BY <1>7, <2>1, <2>2 DEF Counts
<1> QED BY <1>1, <1>2, <1>3, <1>4, <1>5, <1>7, <1>8, <1>9, <1>10

\* The destructor has notified every worker.
LEMMA NotifiedAllIInv == ASSUME IInv, NotifiedAll PROVE IInv'
<1> USE Constants DEF IInv, NotifiedAll, unlock
<1>c. ConditionTypeOK'
  <2>1. ConditionNext(Owner) BY DEF ConditionNext
  <2> QED BY <2>1, ConditionKeepsTypes DEF TypeOK
<1> USE DEF TypeOK, ConditionTypeOK
<1>1. TypeOK' BY <1>c, WorkersCount DEF ClientLabels
<1>2. Placed' BY DEF Placed
<1>3. Holding' BY DEF Holding, Holds, Placed, Destroying
<1>4. Living' BY DEF Living, Holding, Holds
<1>5. Waiting' BY DEF Waiting, Pending, Placed
<1>6. Destroying' = Destroying /\ UNCHANGED <<m_tasks, m_isRunning>> BY DEF Destroying
<1>7. Nulls' = Nulls /\ Tasks' BY <1>6, TasksKept
<1>8. Attendance'
  <2>1. \A w \in Workers : Attended(w)' = Attended(w) BY DEF Attended, Up, Pending
  <2>2. \A w \in Workers : Attended(w) BY DEF Attendance
  <2> QED BY <2>1, <2>2 DEF Attendance, Destroying
<1>9. Joining' BY WorkersCount DEF Joining, Destroying
<1>10. Counts'
  <2>1. Busy' = Busy /\ Active' = Active BY DEF Busy, Active
  <2>2. Adding' = Adding BY DEF Adding
  <2> QED BY <1>7, <2>1, <2>2 DEF Counts
<1> QED BY <1>1, <1>2, <1>3, <1>4, <1>5, <1>7, <1>8, <1>9, <1>10

\* The destructor begins to join a worker.
LEMMA JoinIInv == ASSUME IInv, Join PROVE IInv'
<1> USE Constants DEF IInv, Join, lock
<1>c. ConditionTypeOK'
  <2>1. ConditionNext(Owner) BY DEF ConditionNext
  <2> QED BY <2>1, ConditionKeepsTypes DEF TypeOK
<1> USE DEF TypeOK, ConditionTypeOK
<1>1. TypeOK' BY <1>c DEF ClientLabels
<1>2. Placed' BY DEF Placed
<1>3. Holding' BY DEF Holding, Holds, Placed, Destroying
<1>4. Living' BY DEF Living, Holding, Holds
<1>5. Waiting' BY DEF Waiting, Pending, Placed
<1>6. Destroying' = Destroying /\ UNCHANGED <<m_tasks, m_isRunning>> BY DEF Destroying
<1>7. Nulls' = Nulls /\ Tasks' BY <1>6, TasksKept
<1>8. Attendance'
  <2>1. \A w \in Workers : Attended(w)' = Attended(w) BY DEF Attended, Up, Pending
  <2> QED BY <2>1, AttendanceKept DEF Destroying
<1>9. Joining' BY DEF Joining, Destroying
<1>10. Counts'
  <2>1. Busy' = Busy /\ Active' = Active BY DEF Busy, Active
  <2>2. Adding' = Adding BY DEF Adding
  <2> QED BY <1>7, <2>1, <2>2 DEF Counts
<1> QED BY <1>1, <1>2, <1>3, <1>4, <1>5, <1>7, <1>8, <1>9, <1>10

\* The worker runs: the destructor waits.
LEMMA JoinWaitsIInv == ASSUME IInv, JoinWaits PROVE IInv'
<1> USE Constants DEF IInv, JoinWaits, joinWaits, waitUntil
<1> PICK h \in Workers : h = Head(todo) BY DEF Joining, TypeOK
<1>h. /\ waitUntil(Owner, m_isRunningCondition(h)) /\ m_isRunningCondition(h) \in Conditions
      /\ \A w \in Workers : m_waitCondition(w) # m_isRunningCondition(h)
  OBVIOUS
<1>c. ConditionTypeOK'
  <2>1. ConditionNext(Owner) BY <1>h DEF ConditionNext
  <2> QED BY <2>1, ConditionKeepsTypes DEF TypeOK
<1> USE DEF TypeOK, ConditionTypeOK
<1>w. \A w \in Workers : /\ queue'[m_waitCondition(w)] = queue[m_waitCondition(w)]
                         /\ hasWaiters'[m_waitCondition(w)] = hasWaiters[m_waitCondition(w)]
  BY <1>h
<1>t. /\ pc[Owner] = "joining" /\ Running(Owner) /\ owner = Owner /\ UNCHANGED <<owner, pc>>
      /\ at' = [at EXCEPT ![Owner] = "beforeSleep"]
      /\ on' = [on EXCEPT ![Owner] = m_isRunningCondition(h)]
      /\ UNCHANGED <<m_isRunning, m_isWaiting, m_hasUnderlyingThread, pool>>
  <2>1. /\ Running(Owner) /\ owner = Owner /\ UNCHANGED owner
        /\ at' = [at EXCEPT ![Owner] = "beforeSleep"]
        /\ on' = [on EXCEPT ![Owner] = m_isRunningCondition(h)]
    <3> HIDE Constants DEF IInv, JoinWaits, joinWaits, TypeOK, ConditionTypeOK
    <3> QED BY <1>h
  <2>2. pc[Owner] = "joining" /\ UNCHANGED <<m_isRunning, m_isWaiting, m_hasUnderlyingThread, pc, pool>>
    OBVIOUS
  <2> QED BY <2>1, <2>2
<1>p. \A w \in Workers : Pending(w)' = Pending(w) BY <1>h, <1>t DEF Pending
<1>1. TypeOK'
  <2>1. UNCHANGED <<m_isRunning, m_isWaiting, m_hasUnderlyingThread, pc, pool>> BY <1>t
  <2> HIDE DEF JoinWaits, ConditionTypeOK
  <2> QED BY <1>c, <2>1
<1>2. Placed' BY <1>t DEF Placed
<1>3. Holding' BY <1>t DEF Holding, Holds, Placed, Destroying
<1>4. Living' BY <1>t DEF Living
<1>5. Waiting' BY <1>p, <1>t, <1>w DEF Waiting
<1>6. Destroying' = Destroying /\ UNCHANGED <<m_tasks, m_isRunning>> BY <1>t DEF Destroying
<1>7. Nulls' = Nulls /\ Tasks' BY <1>6, TasksKept
<1>8. Attendance'
  <2>1. \A w \in Workers : Attended(w)' = Attended(w) BY <1>p, <1>t, <1>w DEF Attended, Up
  <2> QED BY <1>t, <2>1, AttendanceKept DEF Destroying
<1>9. Joining' BY <1>t DEF Joining
<1>10. Counts'
  <2>1. Busy' = Busy /\ Active' = Active BY <1>t DEF Busy, Active
  <2>2. Adding' = Adding BY <1>t DEF Adding
  <2> QED BY <1>7, <2>1, <2>2 DEF Counts
<1> QED BY <1>1, <1>2, <1>3, <1>4, <1>5, <1>7, <1>8, <1>9, <1>10

\* The worker has stopped: the next one, or the end.
LEMMA JoinedIInv == ASSUME IInv, Joined PROVE IInv'
<1> USE Constants DEF IInv, Joined, unlock
<1>c. ConditionTypeOK'
  <2>1. ConditionNext(Owner) BY DEF ConditionNext
  <2> QED BY <2>1, ConditionKeepsTypes DEF TypeOK
<1> USE DEF TypeOK, ConditionTypeOK
<1>t. /\ todo \in Seq(Workers) /\ todo # <<>> /\ todo' = Tail(todo) BY DEF Joining
<1>1. TypeOK'
  <2>1. todo' \in Seq(Workers) BY <1>t
  <2> QED BY <1>c, <2>1 DEF ClientLabels
<1>2. Placed' BY DEF Placed
<1>3. Holding' BY DEF Holding, Holds, Placed, Destroying
<1>4. Living' BY DEF Living, Holding, Holds
<1>5. Waiting' BY DEF Waiting, Pending, Placed
<1>6. Destroying' = Destroying /\ UNCHANGED <<m_tasks, m_isRunning>> BY DEF Destroying
<1>7. Nulls' = Nulls /\ Tasks' BY <1>6, TasksKept
<1>8. Attendance'
  <2>1. \A w \in Workers : Attended(w)' = Attended(w) BY DEF Attended, Up, Pending
  <2> QED BY <2>1, AttendanceKept DEF Destroying
<1>9. Joining'
  <2>1. ASSUME NEW w \in Workers, m_isRunning[w]
        PROVE  \E i \in 1 .. Len(todo') : todo'[i] = w
    <3>1. PICK i \in 1 .. Len(todo) : todo[i] = w BY <2>1 DEF Joining
    <3>2. i # 1 BY <1>t, <2>1, <3>1
    <3>3. i - 1 \in 1 .. Len(todo') /\ todo'[i - 1] = w BY <1>t, <3>1, <3>2
    <3> QED BY <3>3
  <2>2. Len(todo) = 1 => \A w \in Workers : ~m_isRunning[w]
    <3>1. ASSUME NEW w \in Workers, Len(todo) = 1, m_isRunning[w] PROVE FALSE
      <4>1. Len(todo') = 0 BY <1>t, <3>1
      <4>2. \E i \in 1 .. Len(todo') : todo'[i] = w BY <2>1, <3>1
      <4> QED BY <4>1, <4>2
    <3> QED BY <3>1
  <2>3. /\ m_isRunning' = m_isRunning
        /\ pc'[Owner] = "join" \/ (pc'[Owner] = "destroyed" /\ Len(todo) = 1)
    OBVIOUS
  <2>4. \A w \in Workers : ~m_isRunning[w] => pc'[w] = "outside" BY DEF Living, Holding, Holds
  <2> QED BY <2>1, <2>2, <2>3, <2>4 DEF Joining
<1>10. Counts'
  <2>1. Busy' = Busy /\ Active' = Active BY DEF Busy, Active
  <2>2. Adding' = Adding BY DEF Adding
  <2> QED BY <1>7, <2>1, <2>2 DEF Counts
<1> QED BY <1>1, <1>2, <1>3, <1>4, <1>5, <1>7, <1>8, <1>9, <1>10

-----------------------------------------------------------------------------
(* The workers *)

\* What a worker with the lock knows of the destructor.
LEMMA OwnerElsewhere ==
  ASSUME NEW w \in Workers, IInv, owner = w \/ owner = NoThread
  PROVE  /\ pc[Owner] # "notifyAll" /\ ~Adding
         /\ \A v \in Workers : ~Pending(v)
         /\ \A v \in Workers : v # w => pc[v] # "poll"
BY Constants DEF IInv, Holding, Holds, Adding, Placed, Pending

\* A worker's thread starts.
LEMMA DidStartIInv == ASSUME NEW w \in Workers, IInv, threadDidStart(w) PROVE IInv'
<1> USE Constants DEF IInv, threadDidStart, Nothing
<1>c. ConditionTypeOK' BY DEF TypeOK, ConditionTypeOK
<1> USE DEF TypeOK, ConditionTypeOK
<1>1. TypeOK' BY <1>c DEF WorkerLabels, ClientLabels
<1>2. Placed' BY DEF Placed
<1>3. Holding' BY DEF Holding, Holds, Placed, Destroying
<1>4. Living' BY DEF Living, Holding, Holds
<1>5. Waiting' BY DEF Waiting, Pending, Placed
<1>6. Destroying' = Destroying /\ UNCHANGED <<m_tasks, m_isRunning>> BY DEF Destroying
<1>7. Nulls' = Nulls /\ Tasks' BY <1>6, TasksKept
<1>8. Attendance'
  <2>1. \A v \in Workers : Attended(v) => Attended(v)' BY DEF Attended, Up, Pending
  <2> QED BY <2>1, AttendanceKept
<1>9. Joining' BY DEF Joining, Destroying
<1>10. Counts'
  <2>1. Busy' = Busy /\ Adding' = Adding BY DEF Busy, Adding
  <2>2. Active' = Active \cup {w} /\ w \notin Active /\ Active \subseteq Workers BY DEF Active
  <2>3. Cardinality(Active') = Cardinality(Active) + 1 BY <2>2, Finite
  <2> QED BY <1>7, <2>1, <2>3 DEF Counts
<1> QED BY <1>1, <1>2, <1>3, <1>4, <1>5, <1>7, <1>8, <1>9, <1>10

\* It takes the lock.
LEMMA LockWorkerIInv == ASSUME NEW w \in Workers, IInv, LockWorker(w) PROVE IInv'
<1> USE Constants DEF IInv, LockWorker, Lock, lock
<1>c. ConditionTypeOK'
  <2>1. ConditionNext(w) BY DEF ConditionNext
  <2> QED BY <2>1, ConditionKeepsTypes DEF TypeOK
<1> USE DEF TypeOK, ConditionTypeOK
<1>1. TypeOK' BY <1>c DEF WorkerLabels, ClientLabels
<1>2. Placed' BY DEF Placed
<1>3. Holding' BY DEF Holding, Holds, Placed, Destroying
<1>4. Living' BY DEF Living, Holding, Holds
<1>5. Waiting' BY DEF Waiting, Pending, Placed
<1>6. Destroying' = Destroying /\ UNCHANGED <<m_tasks, m_isRunning>> BY DEF Destroying
<1>7. Nulls' = Nulls /\ Tasks' BY <1>6, TasksKept
<1>8. Attendance'
  <2>1. \A v \in Workers : Attended(v) => Attended(v)' BY DEF Attended, Up, Pending
  <2> QED BY <2>1, AttendanceKept
<1>9. Joining' BY DEF Joining, Destroying
<1>10. Counts'
  <2>1. Busy' = Busy /\ Active' = Active /\ Adding' = Adding BY DEF Busy, Active, Adding
  <2> QED BY <1>7, <2>1 DEF Counts
<1> QED BY <1>1, <1>2, <1>3, <1>4, <1>5, <1>7, <1>8, <1>9, <1>10

\* It finds no task and waits: then no worker needs to come, and the pool is not
\* being destroyed, as a null task would be left for this worker.
LEMMA PollWaitIInv == ASSUME NEW w \in Workers, IInv, poll(w), m_tasks = <<>> PROVE IInv'
<1> USE Constants DEF IInv
<1>p. /\ PolledWait(w) /\ overtaken' = overtaken \ {w}
      /\ UNCHANGED <<m_tasks, m_numberOfActiveWorkers, todo, posted, ran>>
  BY DEF poll
<1>u. waitUntil(w, m_waitCondition(w)) BY <1>p DEF PolledWait
<1>c. ConditionTypeOK'
  <2>1. ConditionNext(w) BY <1>u DEF ConditionNext
  <2> QED BY <2>1, ConditionKeepsTypes DEF TypeOK
<1> USE DEF TypeOK, ConditionTypeOK
<1>t. /\ pc[w] = "poll" /\ Running(w) /\ owner = w /\ owner' = w
      /\ pc' = [pc EXCEPT ![w] = "waited"]
      /\ at' = [at EXCEPT ![w] = "beforeSleep"] /\ on' = [on EXCEPT ![w] = m_waitCondition(w)]
      /\ m_isWaiting' = [m_isWaiting EXCEPT ![w] = TRUE]
      /\ UNCHANGED <<m_isRunning, m_hasUnderlyingThread>>
  BY <1>p, <1>u DEF PolledWait, waitUntil
<1>w. /\ queue[m_waitCondition(w)] = <<>> /\ queue'[m_waitCondition(w)] = <<w>>
      /\ hasWaiters'[m_waitCondition(w)] = TRUE
      /\ \A v \in Workers : v # w =>
           /\ queue'[m_waitCondition(v)] = queue[m_waitCondition(v)]
           /\ hasWaiters'[m_waitCondition(v)] = hasWaiters[m_waitCondition(v)]
  <2>1. queue[m_waitCondition(w)] = <<>> BY <1>t DEF Waiting
  <2>2. Append(<<>>, w) = <<w>> OBVIOUS
  <2>3. /\ queue' = [queue EXCEPT ![m_waitCondition(w)] = Append(@, w)]
        /\ hasWaiters' = [hasWaiters EXCEPT ![m_waitCondition(w)] = TRUE]
    BY <1>u DEF waitUntil
  <2> QED BY <2>1, <2>2, <2>3
<1>r. m_isRunning[w] /\ ~Destroying
  <2>1. m_isRunning[w] BY <1>t DEF Living
  <2>2. Alive # {} /\ Alive \subseteq Workers BY <2>1 DEF Alive
  <2>3. Cardinality(Alive) \in Nat \ {0} BY <2>2, Finite
  <2>4. Nulls = 0 BY Numbers DEF Tasks
  <2> QED BY <2>1, <2>3, <2>4 DEF Nulls
<1>1. TypeOK' BY <1>c, <1>p, <1>t DEF WorkerLabels, ClientLabels
<1>2. Placed'
  <2>1. \A v \in Workers : ~Pending(v) BY <1>t, OwnerElsewhere
  <2> QED BY <1>t, <2>1 DEF Placed, Pending
<1>3. Holding' BY <1>t DEF Holding, Holds, Destroying
<1>4. Living' BY <1>t DEF Living
<1>5. Waiting' BY <1>t, <1>w DEF Waiting, Pending
<1>6. Destroying' = Destroying /\ UNCHANGED <<m_tasks, m_isRunning>> BY <1>p, <1>t DEF Destroying
<1>7. Nulls' = Nulls /\ Tasks' BY <1>6, TasksKept
<1>8. Attendance' BY <1>6, <1>r DEF Attendance, Destroying
<1>9. Joining' BY <1>6, <1>r DEF Joining, Destroying
<1>10. Counts'
  <2>1. Busy' = Busy /\ Active' = Active /\ Adding' = Adding BY <1>t DEF Busy, Active, Adding
  <2> QED BY <1>7, <1>p, <2>1 DEF Counts
<1> QED BY <1>1, <1>2, <1>3, <1>4, <1>5, <1>7, <1>8, <1>9, <1>10

\* It takes a null task: the pool is being destroyed, and one worker fewer runs.
LEMMA PollStopIInv ==
  ASSUME NEW w \in Workers, IInv, poll(w), m_tasks # <<>>, Head(m_tasks) = "null"
  PROVE  IInv'
<1> USE Constants DEF IInv
<1>p. /\ PolledStop(w) /\ m_tasks' = Tail(m_tasks)
      /\ UNCHANGED <<overtaken, m_numberOfActiveWorkers, todo, posted, ran>>
  BY DEF poll
<1>u. notifyAll(w, m_isRunningCondition(w)) BY <1>p DEF PolledStop
<1>c. ConditionTypeOK'
  <2>1. ConditionNext(w) BY <1>u DEF ConditionNext
  <2> QED BY <2>1, ConditionKeepsTypes DEF TypeOK
<1> USE DEF TypeOK, ConditionTypeOK
<1>t. /\ pc[w] = "poll" /\ Running(w) /\ owner = w
      /\ pc' = [pc EXCEPT ![w] = "stop"]
      /\ \/ UNCHANGED <<at, on>>
         \/ /\ at' = [at EXCEPT ![w] = "store"]
            /\ on' = [on EXCEPT ![w] = m_isRunningCondition(w)]
      /\ m_isRunning' = [m_isRunning EXCEPT ![w] = FALSE]
      /\ UNCHANGED <<owner, hasWaiters, queue, m_isWaiting, m_hasUnderlyingThread>>
  BY <1>p, <1>u DEF PolledStop, notifyAll, Holding, Holds
<1>d. Nulls > 0 /\ Len(m_tasks) = Nulls /\ Destroying
  <2>1. 1 \in 1 .. Len(m_tasks) /\ m_tasks[1] = "null" /\ Nulls \in Nat /\ Len(m_tasks) \in Nat
    BY Numbers
  <2>2. ~(1 <= Len(m_tasks) - Nulls) BY <2>1 DEF Tasks
  <2>3. Len(m_tasks) = Nulls /\ Nulls > 0 BY <2>1, <2>2 DEF Tasks
  <2> QED BY <2>3 DEF Nulls
<1>o. pc[Owner] \in {"join", "joining", "destroyed"}
  BY <1>d, <1>t, OwnerElsewhere DEF Destroying, ClientLabels
<1>1. TypeOK'
  <2>1. m_tasks' \in Seq({"task", "null"}) BY <1>p
  <2> QED BY <1>c, <1>p, <1>t, <2>1 DEF WorkerLabels, ClientLabels
<1>2. Placed' BY <1>t DEF Placed
<1>3. Holding' BY <1>t DEF Holding, Holds, Destroying
<1>4. Living' BY <1>o, <1>t DEF Living
<1>5. Waiting'
  <2>1. \A v \in Workers : Pending(v) => Pending(v)' BY <1>t DEF Pending
  <2>2. \A v \in Workers : queue[m_waitCondition(v)] # <<>> => v # w BY <1>t DEF Waiting
  <2> QED BY <1>t, <2>1, <2>2 DEF Waiting
<1>6. Destroying' BY <1>d, <1>t DEF Destroying
<1>7. Nulls' = Nulls - 1 /\ Len(m_tasks') = Len(m_tasks) - 1
  <2>1. Alive' = Alive \ {w} /\ w \in Alive /\ Alive \subseteq Workers BY <1>t DEF Alive, Living
  <2>2. Cardinality(Alive') = Cardinality(Alive) - 1 BY <2>1, Finite
  <2> QED BY <1>6, <1>d, <1>p, <2>2 DEF Nulls
<1>8. Tasks'
  <2>1. \A i \in 1 .. Len(m_tasks') : m_tasks'[i] = m_tasks[i + 1] /\ i + 1 \in 1 .. Len(m_tasks)
    BY <1>p
  <2>2. \A i \in 1 .. Len(m_tasks) : m_tasks[i] # "task" BY <1>d, Numbers DEF Tasks
  <2>3. Len(m_tasks') = 0 <=> m_tasks' = <<>> BY <1>1
  <2>4. Len(m_tasks') = Nulls' /\ Nulls' \in Nat BY <1>7, <1>d, Numbers
  <2>5. \A i \in 1 .. Len(m_tasks') : ~(i <= Len(m_tasks') - Nulls')
    <3>1. \A n \in Nat : \A i \in 1 .. n : ~(i <= n - n) OBVIOUS
    <3> QED BY <2>4, <3>1
  <2>6. \A i \in 1 .. Len(m_tasks') : m_tasks'[i] # "task" BY <2>1, <2>2
  <2>7. Nulls' <= Len(m_tasks') /\ (Nulls' = 0 => m_tasks' = <<>>) BY <2>3, <2>4
  <2> QED BY <2>5, <2>6, <2>7 DEF Tasks
<1>9. Attendance'
  <2>1. \A v \in Workers : m_isRunning'[v] => v # w /\ Attended(v) BY <1>o, <1>t DEF Attendance
  <2>2. \A v \in Workers : v # w /\ Attended(v) => Attended(v)' BY <1>t DEF Attended, Up, Pending
  <2> QED BY <1>o, <1>t, <1>6, <2>1, <2>2 DEF Attendance
<1>10. Joining' BY <1>p, <1>t DEF Joining
<1>11. Counts'
  <2>1. Busy' = Busy /\ Active' = Active /\ Adding' = Adding BY <1>t DEF Busy, Active, Adding
  <2>4. TypeOK /\ Counts /\ ran \in Nat OBVIOUS
  <2> HIDE Constants DEF IInv, TypeOK, ConditionTypeOK
  <2> QED BY <2>4, <1>7, <1>p, <2>1, Numbers DEF Counts
<1> QED BY <1>1, <1>2, <1>3, <1>4, <1>5, <1>8, <1>9, <1>10, <1>11

\* It takes a posted task.
LEMMA PollWorkIInv ==
  ASSUME NEW w \in Workers, IInv, poll(w), m_tasks # <<>>, Head(m_tasks) # "null"
  PROVE  IInv'
<1> USE Constants DEF IInv
<1>p. /\ PolledWork(w) /\ m_tasks' = Tail(m_tasks)
      /\ UNCHANGED <<overtaken, m_numberOfActiveWorkers, todo, posted, ran>>
  BY DEF poll
<1>u. unlock(w) BY <1>p DEF PolledWork
<1>c. ConditionTypeOK'
  <2>1. ConditionNext(w) BY <1>u DEF ConditionNext
  <2> QED BY <2>1, ConditionKeepsTypes DEF TypeOK
<1> USE DEF TypeOK, ConditionTypeOK
<1>t. /\ pc[w] = "poll" /\ Running(w) /\ owner = w /\ owner' = NoThread
      /\ pc' = [pc EXCEPT ![w] = "work"]
      /\ UNCHANGED <<at, on, hasWaiters, queue, m_isRunning, m_isWaiting, m_hasUnderlyingThread>>
  BY <1>p, <1>u DEF PolledWork, unlock
<1>1. TypeOK'
  <2>1. m_tasks' \in Seq({"task", "null"}) BY <1>p
  <2> QED BY <1>c, <1>p, <1>t, <2>1 DEF WorkerLabels, ClientLabels
<1>2. Placed' BY <1>t DEF Placed
<1>3. Holding' BY <1>t DEF Holding, Holds, Destroying
<1>4. Living' BY <1>t DEF Living
<1>5. Waiting' BY <1>t DEF Waiting, Pending
<1>6. Destroying' = Destroying BY <1>t DEF Destroying
<1>7. Nulls' = Nulls /\ Len(m_tasks') = Len(m_tasks) - 1
  <2>1. Alive' = Alive BY <1>t DEF Alive
  <2> QED BY <1>6, <1>p, <2>1 DEF Nulls
<1>8. Tasks'
  <2>1. \A i \in 1 .. Len(m_tasks') : m_tasks'[i] = m_tasks[i + 1] /\ i + 1 \in 1 .. Len(m_tasks)
    BY <1>p
  <2>2. 1 \in 1 .. Len(m_tasks) /\ m_tasks[1] = "task" OBVIOUS
  <2>3. 1 <= Len(m_tasks) - Nulls BY <2>2 DEF Tasks
  <2>4. \A i \in 1 .. Len(m_tasks') : m_tasks'[i] = "task" <=> i + 1 <= Len(m_tasks) - Nulls
    BY <2>1 DEF Tasks
  <2>5. Destroying => Nulls # 0 BY DEF Tasks
  <2>6. Nulls' = 0 /\ Destroying' => m_tasks' = <<>> BY <1>6, <1>7, <2>5
  <2>7. Nulls' <= Len(m_tasks') BY <1>7, <2>3, Numbers
  <2>8. \A i \in 1 .. Len(m_tasks') : i + 1 <= Len(m_tasks) - Nulls <=> i <= Len(m_tasks') - Nulls'
    BY <1>7, Numbers
  <2> QED BY <2>4, <2>6, <2>7, <2>8 DEF Tasks
<1>9. Attendance'
  <2>1. \A v \in Workers : Attended(v) => Attended(v)' BY <1>t DEF Attended, Up, Pending
  <2> QED BY <1>p, <1>t, <2>1, AttendanceKept
<1>10. Joining' BY <1>p, <1>t DEF Joining
<1>11. Counts'
  <2>1. Active' = Active /\ Adding' = Adding BY <1>t DEF Active, Adding
  <2>2. Busy' = Busy \cup {w} /\ w \notin Busy /\ Busy \subseteq Workers BY <1>t DEF Busy
  <2>3. Cardinality(Busy') = Cardinality(Busy) + 1 BY <2>2, Finite
  <2>4. TypeOK /\ Counts /\ ran \in Nat OBVIOUS
  <2> HIDE Constants DEF IInv, TypeOK, ConditionTypeOK
  <2> QED BY <2>4, <1>7, <1>p, <2>1, <2>3, Numbers DEF Counts
<1> QED BY <1>1, <1>2, <1>3, <1>4, <1>5, <1>8, <1>9, <1>10, <1>11

\* Its thread ends for a timeout: it has not been notified.
LEMMA SleepIInv == ASSUME NEW w \in Workers, IInv, Sleep(w) PROVE IInv'
<1> USE Constants DEF IInv, Sleep, StopsForTimeout, WaitedOn, Ends, unlock, threadIsStopping
<1>c. ConditionTypeOK'
  <2>1. ConditionNext(w) BY DEF ConditionNext
  <2> QED BY <2>1, ConditionKeepsTypes DEF TypeOK
<1> USE DEF TypeOK, ConditionTypeOK
<1>1. TypeOK' BY <1>c DEF WorkerLabels, ClientLabels
<1>2. Placed'
  <2>1. \A v \in Workers : ~Pending(v) BY OwnerElsewhere
  <2> QED BY <2>1 DEF Placed, Pending
<1>3. Holding' BY DEF Holding, Holds, Placed, Destroying
<1>4. Living' BY DEF Living, Holding, Holds
<1>5. Waiting' BY DEF Waiting, Pending, Placed
<1>6. Destroying' = Destroying /\ UNCHANGED <<m_tasks, m_isRunning>> BY DEF Destroying
<1>7. Nulls' = Nulls /\ Tasks' BY <1>6, TasksKept
<1>8. Attendance'
  <2>1. \A v \in Workers : Attended(v) => Attended(v)' BY DEF Attended, Up, Pending
  <2> QED BY <2>1, AttendanceKept
<1>9. Joining' BY DEF Joining, Destroying
<1>10. Counts'
  <2>1. Busy' = Busy /\ Adding' = Adding BY DEF Busy, Adding
  <2>2. Active' = Active \ {w} /\ w \in Active /\ Active \subseteq Workers BY DEF Active
  <2>3. Cardinality(Active') = Cardinality(Active) - 1 BY <2>2, Finite
  <2> QED BY <1>7, <2>1, <2>3 DEF Counts
<1> QED BY <1>1, <1>2, <1>3, <1>4, <1>5, <1>7, <1>8, <1>9, <1>10

\* Its thread ends for good.
LEMMA StopIInv == ASSUME NEW w \in Workers, IInv, Stop(w) PROVE IInv'
<1> USE Constants DEF IInv, Stop, StopsPermanently, Ends, unlock, threadIsStopping
<1>c. ConditionTypeOK'
  <2>1. ConditionNext(w) BY DEF ConditionNext
  <2> QED BY <2>1, ConditionKeepsTypes DEF TypeOK
<1> USE DEF TypeOK, ConditionTypeOK
<1>1. TypeOK' BY <1>c DEF WorkerLabels, ClientLabels
<1>2. Placed'
  <2>1. \A v \in Workers : ~Pending(v) BY OwnerElsewhere
  <2> QED BY <2>1 DEF Placed, Pending
<1>3. Holding' BY DEF Holding, Holds, Placed, Destroying
<1>4. Living' BY DEF Living, Holding, Holds
<1>5. Waiting' BY DEF Waiting, Pending, Placed
<1>6. Destroying' = Destroying /\ UNCHANGED <<m_tasks, m_isRunning>> BY DEF Destroying
<1>7. Nulls' = Nulls /\ Tasks' BY <1>6, TasksKept
<1>8. Attendance'
  <2>1. \A v \in Workers : Attended(v) => Attended(v)' BY DEF Attended, Up, Pending
  <2> QED BY <2>1, AttendanceKept
<1>9. Joining' BY DEF Joining, Destroying
<1>10. Counts'
  <2>1. Busy' = Busy /\ Adding' = Adding BY DEF Busy, Adding
  <2>2. Active' = Active \ {w} /\ w \in Active /\ Active \subseteq Workers BY DEF Active
  <2>3. Cardinality(Active') = Cardinality(Active) - 1 BY <2>2, Finite
  <2> QED BY <1>7, <2>1, <2>3 DEF Counts
<1> QED BY <1>1, <1>2, <1>3, <1>4, <1>5, <1>7, <1>8, <1>9, <1>10

\* It has waited, and looks at the tasks again.
LEMMA WakeIInv == ASSUME NEW w \in Workers, IInv, Wake(w) PROVE IInv'
<1> USE Constants DEF IInv, Wake, Repolls, WaitedOn
<1>c. ConditionTypeOK' BY DEF TypeOK, ConditionTypeOK
<1> USE DEF TypeOK, ConditionTypeOK
<1>1. TypeOK' BY <1>c DEF WorkerLabels, ClientLabels
<1>2. Placed' BY DEF Placed
<1>3. Holding' BY DEF Holding, Holds, Placed, Destroying
<1>4. Living' BY DEF Living, Holding, Holds
<1>5. Waiting' BY DEF Waiting, Pending, Placed
<1>6. Destroying' = Destroying /\ UNCHANGED <<m_tasks, m_isRunning>> BY DEF Destroying
<1>7. Nulls' = Nulls /\ Tasks' BY <1>6, TasksKept
<1>8. Attendance'
  <2>1. \A v \in Workers : Attended(v) => Attended(v)' BY DEF Attended, Up, Pending
  <2> QED BY <2>1, AttendanceKept
<1>9. Joining' BY DEF Joining, Destroying
<1>10. Counts'
  <2>1. Busy' = Busy /\ Active' = Active /\ Adding' = Adding BY DEF Busy, Active, Adding
  <2> QED BY <1>7, <2>1 DEF Counts
<1> QED BY <1>1, <1>2, <1>3, <1>4, <1>5, <1>7, <1>8, <1>9, <1>10

\* It has completed a task.
LEMMA WorkIInv == ASSUME NEW w \in Workers, IInv, work(w) PROVE IInv'
<1> USE Constants DEF IInv, work, Worked, Nothing
<1>c. ConditionTypeOK' BY DEF TypeOK, ConditionTypeOK
<1> USE DEF TypeOK, ConditionTypeOK
<1>1. TypeOK' BY <1>c DEF WorkerLabels, ClientLabels
<1>2. Placed' BY DEF Placed
<1>3. Holding' BY DEF Holding, Holds, Placed, Destroying
<1>4. Living' BY DEF Living, Holding, Holds
<1>5. Waiting' BY DEF Waiting, Pending, Placed
<1>6. Destroying' = Destroying /\ UNCHANGED <<m_tasks, m_isRunning>> BY DEF Destroying
<1>7. Nulls' = Nulls /\ Tasks' BY <1>6, TasksKept
<1>8. Attendance'
  <2>1. \A v \in Workers : Attended(v) => Attended(v)' BY DEF Attended, Up, Pending
  <2> QED BY <2>1, AttendanceKept
<1>9. Joining' BY DEF Joining, Destroying
<1>10. Counts'
  <2>1. Active' = Active /\ Adding' = Adding BY DEF Active, Adding
  <2>2. Busy' = Busy \ {w} /\ w \in Busy /\ Busy \subseteq Workers BY DEF Busy
  <2>3. Cardinality(Busy') = Cardinality(Busy) - 1 BY <2>2, Finite
  <2>4. TypeOK /\ Counts /\ ran \in Nat OBVIOUS
  <2> HIDE Constants DEF IInv, TypeOK, ConditionTypeOK
  <2> QED BY <2>4, <1>7, <2>1, <2>3, Numbers DEF Counts
<1> QED BY <1>1, <1>2, <1>3, <1>4, <1>5, <1>7, <1>8, <1>9, <1>10

-----------------------------------------------------------------------------
(* Inside the functions of a Condition *)

\* A worker's wait times out.
LEMMA ExpiresIInv == ASSUME NEW w \in Workers, IInv, Expires(w) PROVE IInv'
<1> USE Constants DEF IInv, Expires, TimesOut
<1>c. ConditionTypeOK'
  <2>1. ConditionNext(w) BY DEF ConditionNext
  <2> QED BY <2>1, ConditionKeepsTypes DEF TypeOK
<1> USE DEF TypeOK, ConditionTypeOK
<1>t. /\ at[w] = "parked" /\ on[w] = m_waitCondition(w) /\ pc[w] = "waited"
      /\ at' = [at EXCEPT ![w] = "relock"] /\ on' = [on EXCEPT ![w] = m_waitCondition(w)]
      /\ UNCHANGED <<owner, hasWaiters, automaticThread, pc, pool>>
  BY DEF Placed
<1>w. /\ queue[m_waitCondition(w)] = <<w>> /\ queue'[m_waitCondition(w)] = <<>>
      /\ \A v \in Workers : v # w => queue'[m_waitCondition(v)] = queue[m_waitCondition(v)]
  <2> PICK i \in DOMAIN queue[m_waitCondition(w)] :
             queue' = [queue EXCEPT ![m_waitCondition(w)] = RemoveAt(@, i)]
    BY <1>t
  <2>1. queue[m_waitCondition(w)] = <<w>> BY DEF Waiting
  <2>2. i = 1 BY <2>1
  <2>3. RemoveAt(<<w>>, 1) = <<>> BY DEF RemoveAt
  <2> QED BY <2>1, <2>2, <2>3
<1>p. \A v \in Workers : Pending(v)' = Pending(v) BY <1>t DEF Pending
<1>1. TypeOK' BY <1>c, <1>t
<1>2. Placed' BY <1>t DEF Placed
<1>3. Holding' BY <1>t DEF Holding, Holds, Destroying
<1>4. Living' BY <1>t DEF Living
<1>5. Waiting' BY <1>p, <1>t, <1>w DEF Waiting
<1>6. Destroying' = Destroying /\ UNCHANGED <<m_tasks, m_isRunning>> BY <1>t DEF Destroying
<1>7. Nulls' = Nulls /\ Tasks' BY <1>6, TasksKept
<1>8. Attendance'
  <2>1. \A v \in Workers : Attended(v) => Attended(v)' BY <1>p, <1>t, <1>w DEF Attended, Up
  <2> QED BY <1>t, <2>1, AttendanceKept
<1>9. Joining' BY <1>t DEF Joining
<1>10. Counts'
  <2>1. Busy' = Busy /\ Active' = Active /\ Adding' = Adding BY <1>t DEF Busy, Active, Adding
  <2> QED BY <1>7, <1>t, <2>1 DEF Counts
<1> QED BY <1>1, <1>2, <1>3, <1>4, <1>5, <1>7, <1>8, <1>9, <1>10

\* What a step inside a Condition's function has to keep: the rest is the clients'.
LEMMA InConditionKeeps ==
  ASSUME NEW t \in Threads, IInv, InCondition(t), Placed', Holding', Waiting',
         \A w \in Workers : Attended(w) => Attended(w)'
  PROVE  IInv'
<1> USE DEF IInv, InCondition
<1>1. TypeOK'
  <2>1. ConditionNext(t) BY DEF ConditionNext
  <2> QED BY <2>1, ConditionKeepsTypes DEF TypeOK
<1>2. Living' BY DEF Living
<1>3. Destroying' = Destroying /\ UNCHANGED <<m_tasks, m_isRunning>> BY DEF Destroying
<1>4. Nulls' = Nulls /\ Tasks' BY <1>3, TasksKept
<1>5. Attendance' BY AttendanceKept
<1>6. Joining' BY DEF Joining
<1>7. Counts'
  <2>1. Busy' = Busy /\ Active' = Active /\ Adding' = Adding BY DEF Busy, Active, Adding
  <2> QED BY <1>4, <2>1 DEF Counts
<1> QED BY <1>1, <1>2, <1>4, <1>5, <1>6, <1>7

\* Each step inside a Condition's function keeps it.
LEMMA InConditionIInv == ASSUME NEW t \in Threads, IInv, InCondition(t) PROVE IInv'
<1> USE Constants DEF IInv
<1>0. UNCHANGED <<automaticThread, pc, pool>> BY DEF InCondition
<1>m. /\ ConditionTypeOK /\ (t \in Workers \/ t \in Clients)
      /\ pc \in [Threads -> WorkerLabels \cup ClientLabels]
  BY DEF TypeOK
<1> USE DEF ConditionTypeOK
<1>1. CASE BeforeSleep(t) \/ Relock(t)
  <2>1. /\ UNCHANGED <<hasWaiters, queue>>
        /\ \/ /\ at[t] = "beforeSleep" /\ at' = [at EXCEPT ![t] = "parked"]
              /\ on' = [on EXCEPT ![t] = on[t]] /\ owner' = NoThread
           \/ /\ at[t] = "relock" /\ at' = [at EXCEPT ![t] = "outside"]
              /\ on' = [on EXCEPT ![t] = NoCondition] /\ owner = NoThread /\ owner' = t
    BY <1>1 DEF BeforeSleep, Relock
  <2>2. Placed' BY <1>0, <1>m, <2>1 DEF Placed
  <2>3. Holding' BY <1>0, <1>m, <2>1 DEF Holding, Holds, Placed, Destroying
  <2>4. \A w \in Workers : Pending(w)' = Pending(w) BY <1>m, <2>1 DEF Pending
  <2>5. Waiting' BY <1>0, <1>m, <2>1, <2>4 DEF Waiting
  <2>6. \A w \in Workers : Attended(w) => Attended(w)' BY <1>0, <2>1, <2>4 DEF Attended, Up
  <2> QED BY <2>2, <2>3, <2>5, <2>6, InConditionKeeps
<1>2. CASE Unparked(t)
  <2>1. /\ at[t] = "parked" /\ ~Queued(t) /\ UNCHANGED <<owner, hasWaiters, queue>>
        /\ at' = [at EXCEPT ![t] = "relock"] /\ on' = [on EXCEPT ![t] = on[t]]
    BY <1>2 DEF Unparked
  <2>2. Placed' BY <1>0, <1>m, <2>1 DEF Placed
  <2>3. Holding' BY <1>0, <1>m, <2>1 DEF Holding, Holds, Placed, Destroying
  <2>4. \A w \in Workers : Pending(w)' = Pending(w) BY <1>m, <2>1 DEF Pending
  <2>5. t \in Workers => queue[m_waitCondition(t)] = <<>>
    <3> SUFFICES ASSUME t \in Workers, queue[m_waitCondition(t)] # <<>> PROVE FALSE OBVIOUS
    <3>1. queue[m_waitCondition(t)] = <<t>> BY DEF Waiting
    <3>2. on[t] = m_waitCondition(t) BY <2>1 DEF Placed
    <3> QED BY <2>1, <3>1, <3>2 DEF Queued, Contains
  <2>6. Waiting' BY <1>0, <1>m, <2>1, <2>4, <2>5 DEF Waiting
  <2>7. \A w \in Workers : Attended(w) => Attended(w)' BY <1>0, <2>1, <2>4 DEF Attended, Up
  <2> QED BY <2>2, <2>3, <2>6, <2>7, InConditionKeeps
<1>3. CASE UnparkOne(t)
  <2>1. /\ t \in Clients /\ pc[t] \in {"unlock", "notifyAll"}
        /\ \A u \in Clients : at[u] = "unparkOne" => u = t
        /\ owner = t
    BY <1>3 DEF UnparkOne, Placed, Holding, Holds
  <2> PICK w \in Workers : on[t] = m_waitCondition(w) /\ m_hasUnderlyingThread[w] /\ ~m_isWaiting[w]
    BY <1>3, <2>1 DEF UnparkOne, Placed
  <2>2. /\ at' = [at EXCEPT ![t] = "outside"] /\ on' = [on EXCEPT ![t] = NoCondition]
        /\ owner' = owner /\ at[t] = "unparkOne"
        /\ \A v \in Workers : v # w =>
             /\ queue'[m_waitCondition(v)] = queue[m_waitCondition(v)]
             /\ hasWaiters'[m_waitCondition(v)] = hasWaiters[m_waitCondition(v)]
    BY <1>3 DEF UnparkOne
  <2>3. queue'[m_waitCondition(w)] = <<>>
    <3>1. Tail(<<w>>) = <<>> OBVIOUS
    <3>2. queue[m_waitCondition(w)] \in {<<>>, <<w>>} BY DEF Waiting
    <3>3. queue' = [queue EXCEPT ![on[t]] = IF queue[on[t]] = <<>> THEN <<>> ELSE Tail(queue[on[t]])]
      BY <1>3 DEF UnparkOne
    <3>4. queue'[m_waitCondition(w)] = IF queue[m_waitCondition(w)] = <<>> THEN <<>>
                                       ELSE Tail(queue[m_waitCondition(w)])
      BY <1>m, <3>3
    <3> QED BY <3>1, <3>2, <3>4
  <2>4. Placed' BY <1>0, <1>m, <2>2 DEF Placed
  <2>5. Holding' BY <1>0, <1>m, <2>1, <2>2 DEF Holding, Holds, Destroying
  <2>6. \A v \in Workers : Pending(v) => v = w BY <2>1 DEF Pending
  <2>7. Waiting' BY <1>0, <1>m, <2>1, <2>2, <2>3, <2>6 DEF Waiting
  <2>8. Up(w)'
    <3>1. pc[w] \notin {"outside", "poll", "stop"} BY <2>1 DEF Living, Holding, Holds
    <3>2. pc[w] \in WorkerLabels BY DEF TypeOK
    <3> QED BY <1>0, <2>3, <3>1, <3>2 DEF Up, WorkerLabels
  <2>9. \A v \in Workers : v # w /\ Attended(v) => Attended(v)'
    BY <1>0, <2>2, <2>6 DEF Attended, Up
  <2> QED BY <2>4, <2>5, <2>7, <2>8, <2>9, InConditionKeeps DEF Attended
<1>4. CASE Store(t) \/ UnparkAll(t)
  <2>1. /\ t \in Workers /\ pc[t] = "stop" /\ on[t] = m_isRunningCondition(t) /\ owner' = owner
        /\ at[t] \in {"store", "unparkAll"}
        /\ \/ at' = [at EXCEPT ![t] = "unparkAll"] /\ on' = [on EXCEPT ![t] = on[t]]
           \/ at' = [at EXCEPT ![t] = "outside"] /\ on' = [on EXCEPT ![t] = NoCondition]
    BY <1>4, <1>m DEF Store, UnparkAll, Placed
  <2>2. \A v \in Workers : /\ queue'[m_waitCondition(v)] = queue[m_waitCondition(v)]
                           /\ hasWaiters'[m_waitCondition(v)] = hasWaiters[m_waitCondition(v)]
    <3>1. CASE Store(t) BY <1>m, <2>1, <3>1 DEF Store
    <3>2. CASE UnparkAll(t) BY <1>m, <2>1, <3>2 DEF UnparkAll
    <3> QED BY <1>4, <3>1, <3>2
  <2>3. Placed' BY <1>0, <1>m, <2>1 DEF Placed
  <2>4. Holding' BY <1>0, <1>m, <2>1 DEF Holding, Holds, Destroying
  <2>5. \A v \in Workers : Pending(v)' = Pending(v) BY <1>m, <2>1 DEF Pending
  <2>6. Waiting' BY <1>0, <1>m, <2>1, <2>2, <2>5 DEF Waiting
  <2>7. \A v \in Workers : Attended(v) => Attended(v)' BY <1>0, <2>2, <2>5 DEF Attended, Up
  <2> QED BY <2>3, <2>4, <2>6, <2>7, InConditionKeeps
<1> QED BY <1>1, <1>2, <1>3, <1>4 DEF InCondition, ConditionStep

-----------------------------------------------------------------------------
(* Notifying, and the destructor's first step *)

\* A worker with a thread that does not wait is up, unless it sleeps.
LEMMA NotWaiting ==
  ASSUME NEW w \in Workers, NEW t \in Clients, IInv, owner = t, Running(t),
         m_hasUnderlyingThread[w], ~m_isWaiting[w]
  PROVE  Up(w)
<1> USE Constants DEF IInv, TypeOK
<1>1. \A u \in Clients : at[u] # "unparkOne"
  BY DEF Holding, Holds, Placed
<1>2. queue[m_waitCondition(w)] = <<>> BY <1>1 DEF Waiting, Pending
<1>3. pc[w] \notin {"outside", "poll", "stop"} BY DEF Living, Holding, Holds
<1> QED BY <1>2, <1>3 DEF Up, WorkerLabels

\* What a client does with a worker when it notifies it, while it holds the lock.
Notifies(t, w, label) ==
  \/ isWaiting(w) /\ notify(t, w, label)
  \/ ~m_hasUnderlyingThread[w] /\ start(t, w, label)
  \/ m_hasUnderlyingThread[w] /\ ~m_isWaiting[w] /\ Nothing(t, label)

\* Notifying a worker keeps all that does not depend on the tasks, and the worker is
\* attended afterwards, as the others stay.
LEMMA NotifiesKeeps ==
  ASSUME NEW t \in Clients, NEW w \in Workers, IInv,
         pc[t] = "postTask" \/ (pc[t] = "notifyAll" /\ t = Owner), Running(t),
         NEW label, label = (IF pc[t] = "postTask" THEN "unlock" ELSE "notifyAll"),
         Notifies(t, w, label), m_isRunning[w]
  PROVE  /\ ConditionTypeOK' /\ pc' \in [Threads -> WorkerLabels \cup ClientLabels]
         /\ pc'[t] = label /\ \A u \in Clients : u # t => pc'[u] = pc[u]
         /\ \A v \in Workers : pc'[v] \in WorkerLabels
         /\ m_isWaiting' \in [Workers -> BOOLEAN]
         /\ m_hasUnderlyingThread' \in [Workers -> BOOLEAN] /\ m_isRunning' = m_isRunning
         /\ Placed' /\ Holding' /\ Living' /\ Waiting'
         /\ Attended(w)' /\ \A v \in Workers : Attended(v) => Attended(v)'
         /\ Busy' = Busy /\ Active' = Active /\ Destroying' = Destroying
<1> USE Constants DEF IInv, TypeOK, ConditionTypeOK
<1>o. /\ owner = t /\ label \in {"unlock", "notifyAll"}
      /\ \A u \in Clients : at[u] # "unparkOne"
      /\ \A v \in Workers : ~Pending(v)
  <2>1. owner = t /\ label \in {"unlock", "notifyAll"} BY DEF Holding, Holds
  <2>2. ASSUME NEW u \in Clients, at[u] = "unparkOne" PROVE FALSE
    <3>1. pc[u] \in {"unlock", "notifyAll"} BY <2>2 DEF Placed
    <3>2. u = t BY <2>1, <3>1 DEF Holding, Holds
    <3> QED BY <2>2, <3>2
  <2> QED BY <2>1, <2>2 DEF Pending
<1>1. CASE isWaiting(w) /\ notify(t, w, label)
  <2>c. ConditionTypeOK'
    <3>1. ConditionNext(t) BY <1>1 DEF notify, ConditionNext
    <3> QED BY <3>1, ConditionKeepsTypes
  <2>1. /\ m_hasUnderlyingThread[w]
        /\ m_isWaiting' = [m_isWaiting EXCEPT ![w] = FALSE]
        /\ pc' = [pc EXCEPT ![t] = label]
        /\ \/ hasWaiters[m_waitCondition(w)] /\ at' = [at EXCEPT ![t] = "unparkOne"]
              /\ on' = [on EXCEPT ![t] = m_waitCondition(w)]
           \/ ~hasWaiters[m_waitCondition(w)] /\ at' = at /\ on' = on
        /\ UNCHANGED <<owner, hasWaiters, queue, m_isRunning, m_hasUnderlyingThread>>
    BY <1>1 DEF notify, notifyOne, isWaiting
  <2>2. /\ pc' \in [Threads -> WorkerLabels \cup ClientLabels]
        /\ pc'[t] = label /\ \A u \in Threads : u # t => pc'[u] = pc[u]
        /\ \A v \in Workers : pc'[v] \in WorkerLabels
    BY <1>o, <2>1 DEF ClientLabels
  <2>3. Placed' BY <1>o, <2>1, <2>2 DEF Placed
  <2>4. Holding' BY <1>o, <2>1, <2>2 DEF Holding, Holds, Destroying
  <2>5. Living' BY <2>1, <2>2 DEF Living
  <2>6. hasWaiters[m_waitCondition(w)] => Pending(w)' BY <2>1 DEF Pending
  <2>7. Waiting' BY <1>o, <2>1, <2>2, <2>6 DEF Waiting
  <2>8. Attended(w)'
    <3>1. CASE hasWaiters[m_waitCondition(w)] BY <3>1, <2>6 DEF Attended
    <3>2. CASE ~hasWaiters[m_waitCondition(w)]
      <4>1. queue'[m_waitCondition(w)] = <<>> BY <3>2, <2>1 DEF Waiting
      <4>2. pc'[w] \notin {"outside", "poll", "stop"} BY <1>o, <2>1, <2>2 DEF Living, Holding, Holds
      <4> QED BY <2>1, <2>2, <4>1, <4>2 DEF Attended, Up, WorkerLabels
    <3> QED BY <3>1, <3>2
  <2>9. \A v \in Workers : v # w /\ Attended(v) => Attended(v)'
    BY <1>o, <2>1, <2>2 DEF Attended, Up
  <2>10. Busy' = Busy /\ Active' = Active BY <2>2 DEF Busy, Active
  <2>11. Destroying' = Destroying BY <1>o, <2>1, <2>2 DEF Destroying
  <2> QED BY <2>c, <2>1, <2>2, <2>3, <2>4, <2>5, <2>7, <2>8, <2>9, <2>10, <2>11
<1>2. CASE ~m_hasUnderlyingThread[w] /\ start(t, w, label)
  <2>1. /\ pc[w] = "outside" /\ m_hasUnderlyingThread' = [m_hasUnderlyingThread EXCEPT ![w] = TRUE]
        /\ UNCHANGED <<owner, hasWaiters, queue, at, on, m_isRunning, m_isWaiting>>
    BY <1>2 DEF start, Living
  <2>2. /\ pc' \in [Threads -> WorkerLabels \cup ClientLabels]
        /\ pc'[t] = label /\ pc'[w] = "threadDidStart"
        /\ \A u \in Clients : u # t => pc'[u] = pc[u]
        /\ \A v \in Workers : v # w => pc'[v] = pc[v]
        /\ \A v \in Workers : pc'[v] \in WorkerLabels
    <3>1. pc' = [pc EXCEPT ![w] = "threadDidStart", ![t] = label] BY <1>2 DEF start
    <3>2. label \in ClientLabels /\ "threadDidStart" \in WorkerLabels
      BY <1>o DEF ClientLabels, WorkerLabels
    <3>3. t # w /\ t \in Threads /\ w \in Threads OBVIOUS
    <3>4. pc' \in [Threads -> WorkerLabels \cup ClientLabels] BY <3>1, <3>2
    <3>5. pc'[t] = label /\ pc'[w] = "threadDidStart" BY <3>1, <3>3
    <3>6. \A u \in Threads : u # t /\ u # w => pc'[u] = pc[u] BY <3>1
    <3>7. \A v \in Workers : pc'[v] \in WorkerLabels BY <3>2, <3>5, <3>6
    <3> QED BY <3>4, <3>5, <3>6, <3>7
  <2>3. Placed' BY <1>o, <2>1, <2>2 DEF Placed
  <2>4. Holding'
    <3>1. \A u \in Clients : owner' = u <=> Holds(u)' BY <1>o, <2>1, <2>2 DEF Holding, Holds
    <3>2. \A v \in Workers : owner' = v <=> Holds(v)' BY <2>1, <2>2 DEF Holding, Holds
    <3>3. \A u \in Clients : u = Owner \/ pc'[u] \in {"outside", "postTask", "unlock"}
      BY <1>o, <2>2 DEF Holding
    <3>4. Destroying' => \A u \in Clients : u = Owner \/ pc'[u] = "outside"
      BY <1>o, <2>2 DEF Holding, Destroying
    <3> QED BY <3>1, <3>2, <3>3, <3>4 DEF Holding
  <2>5. Living'
    <3>1. \A v \in Workers : m_hasUnderlyingThread'[v] <=> pc'[v] # "outside"
      BY <2>1, <2>2 DEF Living
    <3>2. \A v \in Workers : v # w => m_isRunning'[v] = m_isRunning[v] /\ pc'[v] = pc[v]
      BY <2>1, <2>2
    <3>3. \A v \in Workers : ~m_isRunning[v] => pc'[Owner] \in {"join", "joining", "destroyed"}
      BY <2>2 DEF Living
    <3>4. m_isRunning'[w] /\ pc'[w] # "stop" BY <2>1, <2>2
    <3>5. \A v \in Workers : ~m_isRunning'[v] => pc'[v] \in {"stop", "outside"}
      BY <3>2, <3>4 DEF Living
    <3>6. \A v \in Workers : pc'[v] = "stop" => ~m_isRunning'[v] BY <3>2, <3>4 DEF Living
    <3> QED BY <2>1, <3>1, <3>3, <3>5, <3>6 DEF Living
  <2>7. Waiting' BY <1>o, <2>1, <2>2 DEF Waiting
  <2>8. Attended(w)' BY <2>2 DEF Attended, Up
  <2>9. \A v \in Workers : v # w /\ Attended(v) => Attended(v)'
    BY <1>o, <2>1, <2>2 DEF Attended, Up
  <2>10. Busy' = Busy /\ Active' = Active BY <2>1, <2>2 DEF Busy, Active
  <2>11. Destroying' = Destroying BY <1>o, <2>1, <2>2 DEF Destroying
  <2>c. ConditionTypeOK' BY <2>1
  <2> QED BY <2>c, <2>1, <2>2, <2>3, <2>4, <2>5, <2>7, <2>8, <2>9, <2>10, <2>11
<1>3. CASE m_hasUnderlyingThread[w] /\ ~m_isWaiting[w] /\ Nothing(t, label)
  <2>1. /\ pc' = [pc EXCEPT ![t] = label]
        /\ UNCHANGED <<owner, hasWaiters, queue, at, on, m_isRunning, m_isWaiting, m_hasUnderlyingThread>>
    BY <1>3 DEF Nothing
  <2>2. /\ pc' \in [Threads -> WorkerLabels \cup ClientLabels]
        /\ pc'[t] = label /\ \A u \in Threads : u # t => pc'[u] = pc[u]
        /\ \A v \in Workers : pc'[v] \in WorkerLabels
    BY <1>o, <2>1 DEF ClientLabels
  <2>3. Placed' BY <1>o, <2>1, <2>2 DEF Placed
  <2>4. Holding' BY <1>o, <2>1, <2>2 DEF Holding, Holds, Destroying
  <2>5. Living' BY <2>1, <2>2 DEF Living
  <2>7. Waiting' BY <1>o, <2>1, <2>2 DEF Waiting
  <2>8. Up(w) BY <1>3, <1>o, NotWaiting
  <2>9. \A v \in Workers : Attended(v) => Attended(v)' BY <1>o, <2>1, <2>2 DEF Attended, Up
  <2>10. Busy' = Busy /\ Active' = Active BY <2>2 DEF Busy, Active
  <2>11. Destroying' = Destroying BY <1>o, <2>1, <2>2 DEF Destroying
  <2>c. ConditionTypeOK' BY <2>1
  <2> QED BY <2>c, <2>1, <2>2, <2>3, <2>4, <2>5, <2>7, <2>8, <2>9, <2>10, <2>11 DEF Attended
<1> QED BY <1>1, <1>2, <1>3 DEF Notifies

\* postTask() adds a task, and notifies a worker unless none waits and each has a thread:
\* then they all are up.
LEMMA PostTaskIInv == ASSUME NEW t \in Clients, IInv, postTask(t) PROVE IInv'
<1> USE Constants DEF IInv
<1>1. /\ pc[t] = "postTask" /\ Running(t) /\ ~Destroying /\ m_tasks' = Append(m_tasks, "task")
      /\ UNCHANGED <<m_numberOfActiveWorkers, overtaken, todo, posted, ran>>
  <2>1. owner = t BY DEF postTask, Holding, Holds
  <2>2. ~Destroying BY DEF postTask, Holding, Destroying
  <2> QED BY <2>1, <2>2 DEF postTask, Placed
<1>2. \A w \in Workers : m_isRunning[w] BY <1>1 DEF Living, Destroying
<1>3. \E w \in Workers : Notifies(t, w, "unlock")
  <2>1. ConditionNotifyOne(t, "unlock") BY DEF postTask
  <2>2. \A S : First(S) \subseteq S BY DEF First
  <2>3. Workers # {} BY WorkersCount
  <2> QED BY <2>1, <2>2, <2>3 DEF ConditionNotifyOne, Notifies, isWaiting
<1> PICK w \in Workers : Notifies(t, w, "unlock") BY <1>3
<1>k. /\ ConditionTypeOK' /\ pc' \in [Threads -> WorkerLabels \cup ClientLabels]
      /\ pc'[t] = "unlock" /\ \A u \in Clients : u # t => pc'[u] = pc[u]
      /\ \A v \in Workers : pc'[v] \in WorkerLabels
      /\ m_isWaiting' \in [Workers -> BOOLEAN]
      /\ m_hasUnderlyingThread' \in [Workers -> BOOLEAN] /\ m_isRunning' = m_isRunning
      /\ Placed' /\ Holding' /\ Living' /\ Waiting'
      /\ Attended(w)'
      /\ Busy' = Busy /\ Active' = Active /\ Destroying' = Destroying
  BY <1>1, <1>2, NotifiesKeeps
<1>4. TypeOK'
  <2>1. m_tasks' \in Seq({"task", "null"}) BY <1>1 DEF TypeOK
  <2>2. \A u \in Clients : pc'[u] \in ClientLabels BY <1>k DEF TypeOK, ClientLabels
  <2> QED BY <1>1, <1>k, <2>1, <2>2 DEF TypeOK
<1>5. Attendance' BY <1>1, <1>k DEF Attendance, Destroying
<1>6. Joining' BY <1>1, <1>k DEF Joining, Destroying
<1>7. Nulls = 0 /\ Nulls' = 0 BY <1>1, <1>k DEF Nulls
<1>8. Len(m_tasks') = Len(m_tasks) + 1 /\ Len(m_tasks) \in Nat BY <1>1 DEF TypeOK
<1>9. Tasks'
  <2>1. \A i \in 1 .. Len(m_tasks) : m_tasks[i] = "task" BY <1>7, <1>8 DEF Tasks
  <2>2. \A i \in 1 .. Len(m_tasks') : m_tasks'[i] = "task" BY <1>1, <1>8, <2>1 DEF TypeOK
  <2> QED BY <1>1, <1>7, <1>8, <1>k, <2>2 DEF Tasks
<1>10. Counts'
  <2>1. Adding /\ ~Adding'
    <3>1. \A u \in Clients : u # t => pc[u] # "postTask" BY <1>1 DEF Holding, Holds
    <3> QED BY <1>1, <1>k, <3>1 DEF Adding
  <2> QED BY <1>1, <1>7, <1>8, <1>k, <2>1, Numbers DEF Counts, TypeOK
<1> QED BY <1>4, <1>5, <1>6, <1>9, <1>10, <1>k

\* The destructor notifies the next worker.
LEMMA NotifyNextIInv == ASSUME IInv, NotifyNext PROVE IInv'
<1> USE Constants DEF IInv
<1> DEFINE w == Head(todo)
<1>1. /\ pc[Owner] = "notifyAll" /\ Running(Owner) /\ todo # <<>> /\ todo' = Tail(todo)
      /\ UNCHANGED <<m_tasks, m_numberOfActiveWorkers, overtaken, posted, ran>>
      /\ ConditionNotify(Owner, w, "notifyAll")
  BY DEF NotifyNext
<1>2. w \in Workers /\ todo \in Seq(Workers) BY <1>1 DEF TypeOK
<1>3. \A v \in Workers : m_isRunning[v] BY <1>1 DEF Living
<1>4. Notifies(Owner, w, "notifyAll")
  BY <1>1 DEF ConditionNotify, Notifies, isWaiting
<1>e. \A v \in Workers : (\E i \in 1 .. Len(todo) : todo[i] = v) =>
                           v = w \/ \E i \in 1 .. Len(todo') : todo'[i] = v
  <2> SUFFICES ASSUME NEW i \in 1 .. Len(todo), todo[i] # w
               PROVE  \E j \in 1 .. Len(todo') : todo'[j] = todo[i]
    OBVIOUS
  <2>1. i - 1 \in 1 .. Len(todo') /\ todo'[i - 1] = todo[i] BY <1>1, <1>2
  <2> QED BY <2>1
<1>t. todo' \in Seq(Workers) BY <1>1, <1>2
<1> HIDE DEF w
<1>k. /\ ConditionTypeOK' /\ pc' \in [Threads -> WorkerLabels \cup ClientLabels]
      /\ pc'[Owner] = "notifyAll" /\ \A u \in Clients : u # Owner => pc'[u] = pc[u]
      /\ \A v \in Workers : pc'[v] \in WorkerLabels
      /\ m_isWaiting' \in [Workers -> BOOLEAN]
      /\ m_hasUnderlyingThread' \in [Workers -> BOOLEAN] /\ m_isRunning' = m_isRunning
      /\ Placed' /\ Holding' /\ Living' /\ Waiting'
      /\ \A v \in Workers : v = w \/ Attended(v) => Attended(v)'
      /\ Busy' = Busy /\ Active' = Active /\ Destroying' = Destroying
  BY <1>1, <1>2, <1>3, <1>4, NotifiesKeeps
<1>5. TypeOK' BY <1>1, <1>k, <1>t DEF TypeOK
<1>6. Attendance' BY <1>1, <1>e, <1>k DEF Attendance, Destroying
<1>7. Joining' BY <1>k DEF Joining
<1>8. Nulls' = Nulls /\ Tasks' BY <1>1, <1>k, TasksKept
<1>9. Counts'
  <2>1. Adding' = Adding BY <1>1, <1>k DEF Adding
  <2> QED BY <1>1, <1>8, <1>k, <2>1 DEF Counts
<1> QED BY <1>5, <1>6, <1>7, <1>8, <1>9, <1>k

\* The destructor begins: a null task for each worker.
LEMMA DestroyIInv == ASSUME IInv, Destroy PROVE IInv'
<1> USE Constants DEF IInv, Destroy, lock
<1>c. ConditionTypeOK'
  <2>1. ConditionNext(Owner) BY DEF ConditionNext
  <2> QED BY <2>1, ConditionKeepsTypes DEF TypeOK
<1>n. /\ m_threads \in Seq(Workers) /\ Len(m_threads) \in Nat \ {0}
      /\ \A w \in Workers : \E i \in 1 .. Len(m_threads) : m_threads[i] = w
      /\ Cardinality(Workers) = Len(m_threads)
  BY WorkersCount
<1> DEFINE nulls == [i \in DOMAIN m_threads |-> "null"]
<1>s. /\ nulls \in Seq({"task", "null"}) /\ Len(nulls) = Len(m_threads)
      /\ \A i \in 1 .. Len(m_threads) : nulls[i] = "null"
  <2>1. DOMAIN m_threads = 1 .. Len(m_threads) BY <1>n
  <2>2. nulls \in [1 .. Len(m_threads) -> {"task", "null"}] BY <2>1
  <2> QED BY <1>n, <2>1, <2>2
<1>q. m_tasks' = m_tasks \o nulls OBVIOUS
<1> HIDE DEF nulls
<1> USE DEF TypeOK, ConditionTypeOK
<1>1. TypeOK'
  <2>1. m_tasks' \in Seq({"task", "null"}) BY <1>q, <1>s
  <2> QED BY <1>c, <1>n, <2>1 DEF ClientLabels
<1>d. ~Destroying /\ Destroying' /\ \A w \in Workers : m_isRunning[w] BY DEF Destroying, Living
<1>2. Placed' BY DEF Placed
<1>3. Holding' BY DEF Holding, Holds, Placed, Destroying
<1>4. Living' BY <1>d DEF Living
<1>5. Waiting' BY DEF Waiting, Pending, Placed
<1>6. Attendance' BY <1>n DEF Attendance, Destroying
<1>7. Joining' BY DEF Joining
<1>8. Nulls = 0 /\ Nulls' = Len(m_threads)
  <2>1. Alive' = Workers BY <1>d DEF Alive
  <2> QED BY <1>d, <1>n, <2>1 DEF Nulls
<1>9. Len(m_tasks') = Len(m_tasks) + Len(m_threads) /\ Len(m_tasks) \in Nat
  <2>1. m_tasks \in Seq({"task", "null"}) OBVIOUS
  <2> HIDE Constants DEF IInv, Destroy, TypeOK, ConditionTypeOK
  <2>2. Len(m_tasks \o nulls) = Len(m_tasks) + Len(nulls) BY <1>s, <2>1
  <2>3. Len(m_tasks) \in Nat BY <2>1
  <2> QED BY <1>q, <1>s, <2>2, <2>3
<1>10. Tasks'
  <2>1. \A i \in 1 .. Len(m_tasks) : m_tasks[i] = "task" BY <1>8, <1>9 DEF Tasks
  <2>2. \A i \in 1 .. Len(m_tasks') :
          m_tasks'[i] = IF i <= Len(m_tasks) THEN "task" ELSE "null"
    <3> TAKE i \in 1 .. Len(m_tasks')
    <3>1. CASE i <= Len(m_tasks) BY <1>9, <1>q, <1>s, <2>1, <3>1
    <3>2. CASE ~(i <= Len(m_tasks))
      <4>1. i - Len(m_tasks) \in 1 .. Len(m_threads) BY <1>9, <1>n, <3>2
      <4>2. m_tasks'[i] = nulls[i - Len(m_tasks)] BY <1>9, <1>q, <1>s, <3>2
      <4> QED BY <1>s, <3>2, <4>1, <4>2
    <3> QED BY <3>1, <3>2
  <2>3. /\ Len(m_tasks') - Nulls' = Len(m_tasks) /\ Nulls' <= Len(m_tasks') /\ Nulls' # 0
        /\ "null" # "task"
    BY <1>8, <1>9, <1>n
  <2> HIDE Constants DEF IInv, Destroy, TypeOK, ConditionTypeOK, Destroying, Nulls
  <2> QED BY <2>2, <2>3 DEF Tasks
<1>11. Counts'
  <2>1. Busy' = Busy /\ Active' = Active BY DEF Busy, Active
  <2>2. ~Adding /\ ~Adding' BY DEF Adding
  <2> QED BY <1>8, <1>9, <1>n, <2>1, <2>2, Numbers DEF Counts
<1> QED BY <1>1, <1>2, <1>3, <1>4, <1>5, <1>6, <1>7, <1>10, <1>11

-----------------------------------------------------------------------------
\* The invariant is inductive.
LEMMA NextIInv == IInv /\ [Next]_vars => IInv'
<1> SUFFICES ASSUME IInv, [Next]_vars PROVE IInv' OBVIOUS
<1>1. CASE UNCHANGED vars
  <2>1. ConditionTypeOK' BY <1>1 DEF IInv, TypeOK, ConditionTypeOK
  <2>2. TypeOK' BY <1>1, <2>1 DEF IInv, TypeOK
  <2>3. /\ Destroying' = Destroying /\ Busy' = Busy /\ Active' = Active /\ Adding' = Adding
        /\ \A w \in Workers : Pending(w)' = Pending(w) /\ Attended(w)' = Attended(w)
    BY <1>1 DEF Destroying, Busy, Active, Adding, Pending, Attended, Up
  <2>4. Nulls' = Nulls /\ Tasks' BY <1>1, <2>3, TasksKept
  <2>5. Placed' /\ Living' BY <1>1 DEF IInv, Placed, Living
  <2>6. Holding' BY <1>1, <2>3 DEF IInv, Holding, Holds
  <2>7. Waiting' BY <1>1, <2>3 DEF IInv, Waiting
  <2>8. Attendance' BY <1>1, <2>3 DEF IInv, Attendance
  <2>9. Joining' BY <1>1 DEF IInv, Joining
  <2>10. Counts' BY <1>1, <2>3, <2>4 DEF IInv, Counts
  <2> QED BY <2>2, <2>4, <2>5, <2>6, <2>7, <2>8, <2>9, <2>10 DEF IInv
<1>2. ASSUME NEW w \in Workers, WorkerStep(w) PROVE IInv'
  <2>1. ASSUME poll(w) PROVE IInv'
    BY <2>1, PollWaitIInv, PollStopIInv, PollWorkIInv
  <2> QED BY <1>2, <2>1, DidStartIInv, LockWorkerIInv, SleepIInv, StopIInv, WakeIInv, WorkIInv
          DEF WorkerStep
<1>3. ASSUME NEW t \in Clients, ClientStep(t) PROVE IInv'
  BY <1>3, PostTaskIInv, UnlockIInv, NotifyNextIInv, NotifiedAllIInv, JoinIInv, JoinWaitsIInv,
     JoinedIInv DEF ClientStep
<1> QED BY <1>1, <1>2, <1>3, DestroyIInv, PostIInv, ExpiresIInv, InConditionIInv
        DEF Next, ThreadStep

\* The invariant holds of every behaviour, fair or not.
LEMMA SpecIInv == Spec => []IInv
BY InitIInv, NextIInv, PTL DEF Spec

\* When nobody holds the lock no notification is pending: some worker comes for the
\* posted tasks, or for the null tasks.
THEOREM NoTaskLeft == Spec => []NoTaskIsStranded
<1>1. IInv => NoTaskIsStranded
  <2> SUFFICES ASSUME IInv, owner = NoThread, m_tasks # <<>> PROVE Coming \cup Busy # {}
    BY DEF NoTaskIsStranded
  <2> USE Constants DEF IInv
  <2>1. pc[Owner] # "notifyAll" /\ \A w \in Workers : ~Pending(w)
    BY DEF Holding, Holds, Pending, Placed
  <2>2. \E w \in Workers : Attended(w)
    <3>1. CASE ~Destroying BY <3>1 DEF Attendance
    <3>2. CASE Destroying
      <4>1. Alive # {}
        <5>1. Cardinality(Alive) # 0 BY <3>2 DEF Tasks, Nulls
        <5> QED BY <5>1, FS_EmptySet
      <4>2. pc[Owner] \in {"join", "joining", "destroyed"}
        BY <2>1, <3>2 DEF Destroying, TypeOK, ClientLabels
      <4> QED BY <4>1, <4>2 DEF Alive, Attendance
    <3> QED BY <3>1, <3>2
  <2>3. ASSUME NEW w \in Workers, Up(w) PROVE w \in Coming \cup Busy
    <3>1. CASE pc[w] = "waited"
      <4>1. on[w] = NoCondition \/ on[w] = m_waitCondition(w)
        BY <3>1 DEF Placed, TypeOK, ConditionTypeOK
      <4>2. queue[m_waitCondition(w)] = <<>> /\ ~m_isWaiting[w] BY <2>3, <3>1 DEF Up
      <4>3. ~Queued(w) BY <4>1, <4>2 DEF Queued, Contains
      <4> QED BY <3>1, <4>2, <4>3 DEF Coming, Notified
    <3> QED BY <2>3, <3>1 DEF Up, Coming, Busy
  <2> QED BY <2>1, <2>2, <2>3 DEF Attended
<1> QED BY <1>1, SpecIInv, PTL

\* When the destructor returns every task has been completed and the workers' threads
\* have ended.
THEOREM DestructorJoins == Spec => []DestroyedMeansDone
<1>1. IInv => DestroyedMeansDone
  <2> SUFFICES ASSUME IInv, pc[Owner] = "destroyed"
               PROVE  /\ m_tasks = <<>> /\ ran = posted /\ m_numberOfActiveWorkers = 0
                      /\ \A w \in Workers : pc[w] = "outside" /\ ~m_hasUnderlyingThread[w]
    BY DEF DestroyedMeansDone
  <2> USE Constants DEF IInv
  <2>1. \A w \in Workers : ~m_isRunning[w] /\ pc[w] = "outside" /\ ~m_hasUnderlyingThread[w]
    BY DEF Joining, Living
  <2>2. Destroying BY DEF Destroying
  <2>3. Alive = {} /\ Busy = {} /\ Active = {} BY <2>1 DEF Alive, Busy, Active
  <2>4. Nulls = 0 /\ Cardinality(Busy) = 0 /\ Cardinality(Active) = 0
    BY <2>3, FS_EmptySet DEF Nulls
  <2>5. m_tasks = <<>> /\ Len(m_tasks) = 0 BY <2>2, <2>4 DEF Tasks
  <2>6. ~Adding BY <2>2 DEF Adding, Holding
  <2>7. posted = ran /\ m_numberOfActiveWorkers = 0 BY <2>4, <2>5, <2>6 DEF Counts, TypeOK
  <2> QED BY <2>1, <2>5, <2>7
<1> QED BY <1>1, SpecIInv, PTL
=============================================================================
