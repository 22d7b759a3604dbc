------------------------- MODULE ReadWriteLockProofs -------------------------
(***************************************************************************)
(* For any number of readers, writers and other users of the condition: no *)
(* waiter is hidden from the notifiers, a writer is alone, and no reader   *)
(* enters past a writer that waits.                                        *)
(*                                                                         *)
(* The reader's guard is the count of the waiting writers; the invariant   *)
(* says that it is their number, and that a writer inside the condition's  *)
(* wait is one of them.                                                    *)
(***************************************************************************)
EXTENDS ReadWriteLock, FiniteSetTheorems, TLAPS

-----------------------------------------------------------------------------
(* What every use of a Condition preserves, whatever its clients do between the calls. *)

\* Everything a thread can do with a Condition and the lock it is used with.
ConditionNext(t) ==
  \/ lock(t) \/ unlock(t)
  \/ \E c \in Conditions : \/ waitUntil(t, c)
                           \/ waitUntilPast(t, c) \/ notifyOne(t, c) \/ notifyAll(t, c)
  \/ ConditionStep(t) \/ TimesOut(t)

\* A sequence without one of its elements is a sequence of the same kind.
LEMMA RemoveAtType ==
  ASSUME NEW S, NEW s \in Seq(S), NEW i \in 1 .. Len(s)
  PROVE  RemoveAt(s, i) \in Seq(S)
  BY DEF RemoveAt

\* No operation leads out of the types.
LEMMA ConditionKeepsTypes ==
  ASSUME NEW t \in Threads, ConditionTypeOK, ConditionNext(t)
  PROVE  ConditionTypeOK'
<1> USE DEF ConditionTypeOK, Running, Enter, Leave, Places
<1>n. NoCondition \notin Conditions /\ NoThread \notin Threads
  BY ConditionConstants
<1>1. CASE lock(t)
  BY <1>1 DEF lock
<1>2. CASE unlock(t)
  BY <1>2 DEF unlock
<1>3. ASSUME NEW c \in Conditions, waitUntil(t, c) PROVE ConditionTypeOK'
  BY <1>3, <1>n DEF waitUntil
<1>4. ASSUME NEW c \in Conditions, waitUntilPast(t, c) PROVE ConditionTypeOK'
  BY <1>4, <1>n DEF waitUntilPast
<1>5. ASSUME NEW c \in Conditions, notifyOne(t, c) PROVE ConditionTypeOK'
  BY <1>5, <1>n DEF notifyOne
<1>6. ASSUME NEW c \in Conditions, notifyAll(t, c) PROVE ConditionTypeOK'
  BY <1>6, <1>n DEF notifyAll
<1>7. ASSUME at[t] # "outside" PROVE on[t] \in Conditions
  BY <1>7
<1>8. CASE BeforeSleep(t)
  BY <1>8, <1>7, <1>n DEF BeforeSleep
<1>9. CASE Unparked(t)
  BY <1>9, <1>7, <1>n DEF Unparked
<1>10. CASE TimesOut(t)
  <2> PICK i \in DOMAIN queue[on[t]] : queue' = [queue EXCEPT ![on[t]] = RemoveAt(@, i)]
    BY <1>10 DEF TimesOut
  <2>1. on[t] \in Conditions /\ queue[on[t]] \in Seq(Threads) /\ i \in 1 .. Len(queue[on[t]])
    BY <1>7, <1>10 DEF TimesOut
  <2>2. RemoveAt(queue[on[t]], i) \in Seq(Threads)
    BY <2>1, RemoveAtType
  <2>3. queue' \in [Conditions -> Seq(Threads)]
    BY <2>1, <2>2
  <2> QED BY <1>10, <2>1, <2>3, <1>n DEF TimesOut
<1>11. CASE Relock(t)
  BY <1>11, <1>n DEF Relock
<1>12. CASE UnparkOne(t)
  <2>1. on[t] \in Conditions /\ queue[on[t]] \in Seq(Threads)
    BY <1>7, <1>12 DEF UnparkOne
  <2>2. (IF queue[on[t]] = <<>> THEN <<>> ELSE Tail(queue[on[t]])) \in Seq(Threads)
    BY <2>1
  <2>3. queue' \in [Conditions -> Seq(Threads)]
    BY <1>12, <2>1, <2>2 DEF UnparkOne
  <2>4. hasWaiters' \in [Conditions -> BOOLEAN]
    BY <1>12, <2>1 DEF UnparkOne
  <2> QED BY <1>12, <2>3, <2>4, <1>n DEF UnparkOne
<1>13. CASE Store(t)
  BY <1>13, <1>7, <1>n DEF Store
<1>14. CASE UnparkAll(t)
  BY <1>14, <1>7, <1>n DEF UnparkAll
<1> QED BY <1>1, <1>2, <1>3, <1>4, <1>5, <1>6, <1>8, <1>9, <1>10, <1>11, <1>12, <1>13, <1>14
        DEF ConditionNext, ConditionStep

\* No operation hides a waiter (WaitersAreAnnounced).
LEMMA ConditionKeepsAnnounced ==
  ASSUME NEW t \in Threads, ConditionTypeOK, WaitersAreAnnounced, ConditionNext(t)
  PROVE  WaitersAreAnnounced'
<1> DEFINE Announced(c) == queue[c] # <<>> =>
                             hasWaiters[c] \/ \E u \in Threads : at[u] = "unparkAll" /\ on[u] = c
<1> SUFFICES ASSUME NEW c \in Conditions PROVE Announced(c)'
  BY DEF WaitersAreAnnounced
<1>a. Announced(c)
  BY DEF WaitersAreAnnounced
<1>t. /\ hasWaiters \in [Conditions -> BOOLEAN] /\ queue \in [Conditions -> Seq(Threads)]
      /\ at \in [Threads -> Places] /\ on \in [Threads -> Conditions \cup {NoCondition}]
  BY DEF ConditionTypeOK
\* The thread is not one that is about to unpark all, and the queue does not begin.
<1>q. ASSUME at[t] # "unparkAll", UNCHANGED hasWaiters,
             \A u \in Threads \ {t} : at'[u] = at[u] /\ on'[u] = on[u],
             queue'[c] # <<>> => queue[c] # <<>>
      PROVE  Announced(c)'
  BY <1>a, <1>q
<1> USE DEF Running, Enter, Leave
<1>1. CASE lock(t) \/ unlock(t)
  BY <1>1, <1>q DEF lock, unlock
<1>2. ASSUME NEW d \in Conditions, waitUntil(t, d) PROVE Announced(c)'
  BY <1>2, <1>a, <1>t DEF waitUntil
<1>3. ASSUME NEW d \in Conditions, waitUntilPast(t, d) PROVE Announced(c)'
  BY <1>3, <1>q, <1>t DEF waitUntilPast
<1>4. ASSUME NEW d \in Conditions, notifyOne(t, d) PROVE Announced(c)'
  BY <1>4, <1>q, <1>t DEF notifyOne
<1>5. ASSUME NEW d \in Conditions, notifyAll(t, d) PROVE Announced(c)'
  BY <1>5, <1>q, <1>t DEF notifyAll
<1>6. CASE BeforeSleep(t)
  BY <1>6, <1>q, <1>t DEF BeforeSleep
<1>7. CASE Unparked(t)
  BY <1>7, <1>q, <1>t DEF Unparked
<1>8. CASE TimesOut(t)
  <2>1. queue'[c] # <<>> => queue[c] # <<>>
    BY <1>8, <1>t DEF TimesOut
  <2> QED BY <1>8, <2>1, <1>q, <1>t DEF TimesOut
<1>9. CASE Relock(t)
  BY <1>9, <1>q, <1>t DEF Relock
<1>10. CASE UnparkOne(t)
  <2>1. CASE on[t] # c
    BY <1>10, <2>1, <1>a, <1>t DEF UnparkOne
  <2>2. CASE on[t] = c
    <3>1. queue'[c] # <<>> => queue[c] # <<>> /\ hasWaiters'[c] = hasWaiters[c]
      BY <1>10, <2>2, <1>t DEF UnparkOne
    <3>2. \A u \in Threads \ {t} : at'[u] = at[u] /\ on'[u] = on[u]
      BY <1>10, <1>t DEF UnparkOne
    <3> QED BY <1>10, <3>1, <3>2, <1>a DEF UnparkOne
  <2> QED BY <2>1, <2>2
<1>11. CASE Store(t)
  BY <1>11, <1>a, <1>t DEF Store
<1>12. CASE UnparkAll(t)
  BY <1>12, <1>a, <1>t DEF UnparkAll
<1> QED BY <1>1, <1>2, <1>3, <1>4, <1>5, <1>6, <1>7, <1>8, <1>9, <1>10, <1>11, <1>12
        DEF ConditionNext, ConditionStep

-----------------------------------------------------------------------------
(* The invariant *)

Labels == {"outside", "readLock", "reading", "readUnlock",
           "writeLock", "writeWaited", "writing", "writeUnlock", "unlock"}

Types ==
  /\ ConditionTypeOK
  /\ m_isWriteLocked \in BOOLEAN /\ m_numReaders \in Int /\ m_numWaitingWriters \in Int
  /\ pc \in [Threads -> Labels]
  /\ client \in [Threads -> {"reader", "writer", "any"}]
  /\ rounds \in [Threads -> Nat]

Waiting ==
  /\ m_numWaitingWriters = Cardinality({t \in Threads : pc[t] = "writeWaited"})
  /\ \A t \in Threads : pc[t] = "readLock" => client[t] = "reader"
  /\ \A t \in Threads : client[t] = "writer" =>
       /\ at[t] # "unparkOne"
       /\ at[t] \in {"beforeSleep", "parked", "relock"} => pc[t] = "writeWaited"

IInv == Types /\ WaitersAreAnnounced /\ WriterIsAlone /\ Waiting

-----------------------------------------------------------------------------
\* One more thread at a label, or one fewer.
LEMMA CountOneMore ==
  ASSUME NEW S, NEW T, IsFiniteSet(S), NEW t, t \notin S, T = S \cup {t}
  PROVE  Cardinality(T) = Cardinality(S) + 1
  BY FS_AddElement

LEMMA CountOneLess ==
  ASSUME NEW S, NEW T, IsFiniteSet(S), NEW t, t \in S, T = S \ {t}
  PROVE  Cardinality(T) = Cardinality(S) - 1
  BY FS_RemoveElement

\* The threads at some labels are finitely many.
LEMMA FiniteAt ==
  ASSUME NEW labels
  PROVE  IsFiniteSet({t \in Threads : pc[t] \in labels})
<1>1. {t \in Threads : pc[t] \in labels} \subseteq Threads OBVIOUS
<1> QED BY <1>1, FS_Subset, ReadWriteLockConstants

\* A thread's step moves that thread alone, though it may empty a queue.
LEMMA ConditionMovesOne ==
  ASSUME NEW t \in Threads, ConditionTypeOK, ConditionNext(t)
  PROVE  \A u \in Threads \ {t} : at'[u] = at[u] /\ on'[u] = on[u]
  BY DEF ConditionNext, ConditionStep, ConditionTypeOK, lock, unlock, waitUntil, waitUntilPast,
         notifyOne, notifyAll, BeforeSleep, Unparked, TimesOut, Relock, UnparkOne, Store,
         UnparkAll, Enter, Leave

\* The initial state.
LEMMA InitIInv == Init => IInv
<1> SUFFICES ASSUME Init PROVE IInv OBVIOUS
<1> USE DEF Init, ConditionInit
<1>0. ConditionTypeOK
  BY ConditionConstants DEF ConditionTypeOK, Running, Places
<1>1. Types
  <2>1. client \in [Threads -> {"reader", "writer", "any"}]
    BY ReadWriteLockConstants
  <2>2. pc \in [Threads -> Labels] BY DEF Labels
  <2>3. rounds \in [Threads -> Nat] OBVIOUS
  <2>4. m_isWriteLocked = FALSE OBVIOUS
  <2>5. m_numReaders \in Int /\ m_numWaitingWriters \in Int OBVIOUS
  <2> HIDE DEF Init
  <2> QED BY <1>0, <2>1, <2>2, <2>3, <2>4, <2>5, Zenon DEF Types
<1>2. WaitersAreAnnounced BY DEF WaitersAreAnnounced
<1>3. {t \in Threads : Reading(t)} = {} /\ {t \in Threads : pc[t] = "writeWaited"} = {}
  BY DEF Reading
<1>4. WriterIsAlone BY <1>3, FS_EmptySet DEF WriterIsAlone, Reading, Writing
<1>5. Waiting BY <1>3, FS_EmptySet DEF Waiting
<1> QED BY <1>1, <1>2, <1>4, <1>5 DEF IInv

-----------------------------------------------------------------------------
\* The steps that change neither who reads or writes nor who is counted.
Aside(t) == AnyClient(t) \/ Call(t) \/ CallUnlock(t) \/ Unlock(t) \/ Expires(t) \/ InCondition(t)
            \/ \E c \in Conditions : ReadWaits(t, c)

Step(t) == \/ Aside(t) \/ readLock(t) \/ writeLock(t) \/ WriteWaited(t)
           \/ \E c \in Conditions : WriteWaits(t, c) \/ readUnlock(t, c) \/ writeUnlock(t, c)

\* Every step is one of those.
LEMMA NextSplit == Next => \E t \in Threads : Step(t)
  BY DEF Next, ThreadStep, Aside, Step

\* As far as the condition goes, a thread makes one step of it or none.
LEMMA UsesCondition ==
  ASSUME NEW t \in Threads, Step(t)
  PROVE  ConditionNext(t) \/ UNCHANGED condition
  BY DEF Aside, AnyClient, Call, CallUnlock, Unlock, Expires, InCondition, ReadWaits, readLock,
         writeLock, WriteWaited, WriteWaits, readUnlock, writeUnlock, ConditionNext, Step

-----------------------------------------------------------------------------
\* The steps of the readers and writers keep the types.
LEMMA StepKeepsTypes ==
  ASSUME NEW t \in Threads, Types, Step(t)
  PROVE  Types'
<1> USE DEF Types, Goto, state
<1>1. ConditionTypeOK'
  <2>1. CASE ConditionNext(t) BY <2>1, ConditionKeepsTypes
  <2>2. CASE UNCHANGED condition BY <2>2 DEF condition, ConditionTypeOK, Running
  <2> QED BY <2>1, <2>2, UsesCondition
<1>2. CASE Aside(t)
  <2>1. UNCHANGED <<state, client>> BY <1>2 DEF Aside, AnyClient, Call, CallUnlock, Unlock, Expires, InCondition, ReadWaits
  <2>2. pc' \in [Threads -> Labels]
    BY <1>2 DEF Aside, AnyClient, Call, CallUnlock, Unlock, Expires, InCondition, ReadWaits, Labels
  <2>3. rounds' \in [Threads -> Nat]
    BY <1>2 DEF Aside, AnyClient, Call, CallUnlock, Unlock, Expires, InCondition, ReadWaits
  <2> QED BY <1>1, <2>1, <2>2, <2>3
<1>3. CASE readLock(t) BY <1>1, <1>3 DEF readLock, Labels
<1>4. CASE writeLock(t) BY <1>1, <1>4 DEF writeLock, Labels
<1>5. CASE WriteWaited(t) BY <1>1, <1>5 DEF WriteWaited, Labels
<1>6. ASSUME NEW c \in Conditions, WriteWaits(t, c) PROVE Types' BY <1>1, <1>6 DEF WriteWaits, Labels
<1>7. ASSUME NEW c \in Conditions, readUnlock(t, c) PROVE Types' BY <1>1, <1>7 DEF readUnlock, Labels
<1>8. ASSUME NEW c \in Conditions, writeUnlock(t, c) PROVE Types' BY <1>1, <1>8 DEF writeUnlock, Labels
<1> QED BY <1>2, <1>3, <1>4, <1>5, <1>6, <1>7, <1>8 DEF Step

\* They hide no waiter.
LEMMA StepKeepsAnnounced ==
  ASSUME NEW t \in Threads, Types, WaitersAreAnnounced, Step(t)
  PROVE  WaitersAreAnnounced'
<1>1. CASE ConditionNext(t) BY <1>1, ConditionKeepsAnnounced DEF Types
<1>2. CASE UNCHANGED condition BY <1>2 DEF condition, WaitersAreAnnounced
<1> QED BY <1>1, <1>2, UsesCondition

\* A step after which the same threads read and write disturbs nothing.
LEMMA AsideKeepsAlone ==
  ASSUME NEW t \in Threads, Types, WriterIsAlone, Aside(t)
  PROVE  WriterIsAlone'
<1> USE DEF Types, Goto, state, Reading, Writing
<1>1. UNCHANGED <<m_isWriteLocked, m_numReaders>>
  BY DEF Aside, AnyClient, Call, CallUnlock, Unlock, Expires, InCondition, ReadWaits
<1>2. \A u \in Threads : Reading(u)' = Reading(u) /\ Writing(u)' = Writing(u)
  BY DEF Aside, AnyClient, Call, CallUnlock, Unlock, Expires, InCondition, ReadWaits
<1>3. {u \in Threads : Reading(u)}' = {u \in Threads : Reading(u)}
  BY <1>2
<1> QED BY <1>1, <1>2, <1>3 DEF WriterIsAlone

\* The writer is alone after each step.
LEMMA StepKeepsAlone ==
  ASSUME NEW t \in Threads, Types, WriterIsAlone, Step(t)
  PROVE  WriterIsAlone'
<1> DEFINE Readers == {u \in Threads : Reading(u)}
<1>f. IsFiniteSet(Readers)
  BY FiniteAt DEF Reading
<1>n. m_numReaders = Cardinality(Readers) BY DEF WriterIsAlone
<1> USE DEF Types, Goto, Reading, Writing
<1>1. CASE Aside(t) BY <1>1, AsideKeepsAlone
<1>2. CASE readLock(t)
  <2>1. Readers' = Readers \cup {t} /\ t \notin Readers
    BY <1>2 DEF readLock
  <2>2. m_numReaders' = Cardinality(Readers')
    BY <1>2, <1>f, <1>n, <2>1, CountOneMore DEF readLock
  <2>3. \A u \in Threads : ~Writing(u) /\ ~Writing(u)'
    BY <1>2 DEF readLock, ReadBlocked, WriterIsAlone
  <2>4. ~m_isWriteLocked' BY <1>2 DEF readLock, ReadBlocked
  <2> QED BY <2>2, <2>3, <2>4 DEF WriterIsAlone
<1>3. CASE writeLock(t)
  <2>1. Readers = {}
    BY <1>3, <1>f, <1>n, FS_EmptySet DEF writeLock, WriteBlocked
  <2>2. Readers' = Readers
    BY <1>3 DEF writeLock
  <2>3. \A u \in Threads : ~Writing(u)
    BY <1>3 DEF writeLock, WriteBlocked, WriterIsAlone
  <2>4. \A u \in Threads : Writing(u)' <=> u = t
    BY <1>3, <2>3 DEF writeLock
  <2>5. \A u \in Threads : ~Reading(u)' BY <2>1, <2>2
  <2>6. m_isWriteLocked' /\ m_numReaders' = m_numReaders BY <1>3 DEF writeLock
  <2> QED BY <1>n, <2>2, <2>4, <2>5, <2>6 DEF WriterIsAlone
<1>4. CASE WriteWaited(t) \/ \E c \in Conditions : WriteWaits(t, c)
  <2>1. UNCHANGED <<m_isWriteLocked, m_numReaders>> BY <1>4 DEF WriteWaited, WriteWaits
  <2>2. \A u \in Threads : Reading(u)' = Reading(u) /\ Writing(u)' = Writing(u)
    BY <1>4 DEF WriteWaited, WriteWaits
  <2>3. Readers' = Readers BY <2>2
  <2> QED BY <2>1, <2>2, <2>3 DEF WriterIsAlone
<1>5. ASSUME NEW c \in Conditions, readUnlock(t, c) PROVE WriterIsAlone'
  <2>1. Readers' = Readers \ {t} /\ t \in Readers
    BY <1>5 DEF readUnlock
  <2>2. m_numReaders' = Cardinality(Readers')
    BY <1>5, <1>f, <1>n, <2>1, CountOneLess DEF readUnlock
  <2>3. UNCHANGED m_isWriteLocked /\ \A u \in Threads : /\ Writing(u)' = Writing(u)
                                                        /\ Reading(u)' => Reading(u)
    BY <1>5 DEF readUnlock
  <2> QED BY <2>2, <2>3 DEF WriterIsAlone
<1>6. ASSUME NEW c \in Conditions, writeUnlock(t, c) PROVE WriterIsAlone'
  <2>1. Readers' = Readers
    BY <1>6 DEF writeUnlock
  <2>2. \A u \in Threads : ~Writing(u)'
    BY <1>6 DEF writeUnlock, WriterIsAlone
  <2>3. ~m_isWriteLocked' /\ UNCHANGED m_numReaders BY <1>6 DEF writeUnlock
  <2> QED BY <1>n, <2>1, <2>2, <2>3 DEF WriterIsAlone
<1> QED BY <1>1, <1>2, <1>3, <1>4, <1>5, <1>6 DEF Step

\* The waiting writers stay counted, and a writer in the condition's wait is one.
LEMMA StepKeepsWaiting ==
  ASSUME NEW t \in Threads, Types, Waiting, Step(t)
  PROVE  Waiting'
<1> DEFINE Writers == {u \in Threads : pc[u] = "writeWaited"}
           Told(u) == /\ pc[u] = "readLock" => client[u] = "reader"
                      /\ client[u] = "writer" =>
                           /\ at[u] # "unparkOne"
                           /\ at[u] \in {"beforeSleep", "parked", "relock"} => pc[u] = "writeWaited"
<1>f. IsFiniteSet(Writers)
  <2>1. Writers = {u \in Threads : pc[u] \in {"writeWaited"}} OBVIOUS
  <2> QED BY <2>1, FiniteAt
<1>n. m_numWaitingWriters = Cardinality(Writers) /\ \A u \in Threads : Told(u)
  BY DEF Waiting
<1>o. \A u \in Threads \ {t} : at'[u] = at[u] /\ pc'[u] = pc[u] /\ client'[u] = client[u]
  <2>1. \A u \in Threads \ {t} : at'[u] = at[u]
    BY UsesCondition, ConditionMovesOne DEF Types, condition
  <2>2. \A u \in Threads \ {t} : pc'[u] = pc[u] /\ client'[u] = client[u]
    BY DEF Types, Goto, Aside, AnyClient, Call, CallUnlock, Unlock, Expires, InCondition, ReadWaits,
       readLock, writeLock, WriteWaited, WriteWaits, readUnlock, writeUnlock, Step
  <2> QED BY <2>1, <2>2
<1>1. ASSUME Told(t)', m_numWaitingWriters' = Cardinality(Writers') PROVE Waiting'
  <2>1. \A u \in Threads : Told(u)' BY <1>n, <1>o, <1>1
  <2> QED BY <1>1, <2>1 DEF Waiting
<1>2. ASSUME Told(t)', UNCHANGED m_numWaitingWriters,
             pc[t] = "writeWaited" <=> pc'[t] = "writeWaited"
      PROVE  Waiting'
  <2>1. Writers' = Writers BY <1>2, <1>o
  <2> QED BY <1>1, <1>2, <1>n, <2>1
<1> USE DEF Types, ConditionTypeOK, Goto, Running, Enter, Leave
<1>3. CASE Aside(t)
  <2> USE DEF state
  <2>1. CASE AnyClient(t) \/ Expires(t)
    BY <1>2, <1>n, <2>1 DEF AnyClient, Expires
  <2>2. CASE Call(t) \/ CallUnlock(t) \/ Unlock(t)
    <3>1. Running(t) /\ UNCHANGED <<at, client, m_numWaitingWriters>>
      BY <2>2 DEF Call, CallUnlock, Unlock, lock, unlock
    <3>2. /\ pc[t] # "writeWaited" /\ pc'[t] # "writeWaited"
          /\ pc'[t] = "readLock" => client[t] = "reader"
      BY <2>2 DEF Call, CallUnlock, Unlock
    <3> QED BY <1>2, <3>1, <3>2
  <2>3. CASE InCondition(t)
    BY <1>2, <1>n, <2>3 DEF InCondition, ConditionStep, BeforeSleep, Unparked, Relock,
       UnparkOne, Store, UnparkAll
  <2>4. ASSUME NEW d \in Conditions, ReadWaits(t, d) PROVE Waiting'
    BY <1>2, <1>n, <2>4 DEF ReadWaits, waitUntil
  <2> QED BY <1>3, <2>1, <2>2, <2>3, <2>4 DEF Aside
<1>4. CASE readLock(t) BY <1>2, <1>n, <1>4 DEF readLock, unlock
<1>5. CASE writeLock(t) BY <1>2, <1>n, <1>5 DEF writeLock, unlock
<1>6. CASE WriteWaited(t)
  <2>1. Writers' = Writers \ {t} /\ t \in Writers BY <1>6 DEF WriteWaited
  <2>2. m_numWaitingWriters' = Cardinality(Writers')
    BY <1>6, <1>f, <1>n, <2>1, CountOneLess DEF WriteWaited
  <2>3. Told(t)' BY <1>6 DEF WriteWaited, condition
  <2> QED BY <1>1, <2>2, <2>3
<1>7. ASSUME NEW c \in Conditions, WriteWaits(t, c) PROVE Waiting'
  <2>1. Writers' = Writers \cup {t} /\ t \notin Writers BY <1>7 DEF WriteWaits
  <2>2. m_numWaitingWriters' = Cardinality(Writers')
    BY <1>7, <1>f, <1>n, <2>1, CountOneMore DEF WriteWaits
  <2>3. Told(t)' BY <1>7 DEF WriteWaits, waitUntil
  <2> QED BY <1>1, <2>2, <2>3
<1>8. ASSUME NEW c \in Conditions, readUnlock(t, c) PROVE Waiting'
  BY <1>2, <1>n, <1>8 DEF readUnlock, notifyAll, condition
<1>9. ASSUME NEW c \in Conditions, writeUnlock(t, c) PROVE Waiting'
  BY <1>2, <1>n, <1>9 DEF writeUnlock, notifyAll
<1> QED BY <1>3, <1>4, <1>5, <1>6, <1>7, <1>8, <1>9 DEF Step

-----------------------------------------------------------------------------
\* The invariant is inductive.
LEMMA NextIInv == IInv /\ [Next]_vars => IInv'
<1> SUFFICES ASSUME IInv, [Next]_vars PROVE IInv' OBVIOUS
<1>1. CASE UNCHANGED vars
  BY <1>1 DEF vars, state, condition, IInv, Types, ConditionTypeOK, Running, WaitersAreAnnounced,
     WriterIsAlone, Reading, Writing, Waiting
<1>2. CASE Next
  <2> PICK t \in Threads : Step(t)
    BY <1>2, NextSplit
  <2> QED BY StepKeepsTypes, StepKeepsAnnounced, StepKeepsAlone, StepKeepsWaiting DEF IInv
<1> QED BY <1>1, <1>2

\* What the theorems follow from.
LEMMA Invariance == Spec => []IInv
<1> QED BY InitIInv, NextIInv, PTL DEF Spec

\* Every use of the condition by its clients keeps its types.
THEOREM TypeCorrect == Spec => []ConditionTypeOK
<1>1. IInv => ConditionTypeOK BY DEF IInv, Types
<1> QED BY <1>1, Invariance, PTL

\* However waits, timeouts and notifications overlap, the byte is set while threads wait.
THEOREM Announced == Spec => []WaitersAreAnnounced
<1>1. IInv => WaitersAreAnnounced BY DEF IInv
<1> QED BY <1>1, Invariance, PTL

\* A writer is alone, and the counts are the numbers of those they count.
THEOREM OneWriter == Spec => []WriterIsAlone
<1>1. IInv => WriterIsAlone BY DEF IInv
<1> QED BY <1>1, Invariance, PTL

\* A thread begins to read in readLock() only.
LEMMA OnlyReadLockReads ==
  ASSUME NEW t \in Threads, Types, Step(t), ~readLock(t)
  PROVE  \A r \in Threads : Reading(r)' => Reading(r)
  BY DEF Types, Reading, Goto, Aside, AnyClient, Call, CallUnlock, Unlock, Expires, InCondition,
         ReadWaits, writeLock, WriteWaited, WriteWaits, readUnlock, writeUnlock, Step

\* No reader enters past a writer that has begun to wait.
LEMMA StepLetsWritersGoFirst ==
  ASSUME IInv, [Next]_vars, NEW r \in Threads, NEW w \in Threads,
         ~Reading(r), Reading(r)', client[w] = "writer"
  PROVE  at[w] = "outside" \/ at[w] = "store" \/ at[w] = "unparkAll"
<1>1. Next BY DEF vars, Reading
<1> PICK t \in Threads : Step(t)
  BY <1>1, NextSplit
<1>2. readLock(t) BY OnlyReadLockReads DEF IInv
<1>3. Cardinality({u \in Threads : pc[u] = "writeWaited"}) = 0
  BY <1>2 DEF readLock, ReadBlocked, IInv, Waiting
<1>4. IsFiniteSet({u \in Threads : pc[u] = "writeWaited"})
  <2>1. {u \in Threads : pc[u] = "writeWaited"} = {u \in Threads : pc[u] \in {"writeWaited"}} OBVIOUS
  <2> QED BY <2>1, FiniteAt
<1>5. pc[w] # "writeWaited" BY <1>3, <1>4, FS_EmptySet
<1> QED BY <1>5 DEF IInv, Types, ConditionTypeOK, Places, Waiting

\* Every step of the program is such a step.
THEOREM WritersFirst == Spec => WritersGoFirst
<1> DEFINE Behind == \A r, w \in Threads : ~Reading(r) /\ Reading(r)' /\ client[w] = "writer"
                    => at[w] = "outside" \/ at[w] = "store" \/ at[w] = "unparkAll"
<1>1. IInv /\ [Next]_vars => [Behind]_vars BY StepLetsWritersGoFirst
<1> QED BY <1>1, Invariance, PTL DEF Spec, WritersGoFirst
=============================================================================
