----------------------------- MODULE ParkingLot -----------------------------
(***************************************************************************)
(* WTF/ParkingLot: the threads parked on any address of the process, in    *)
(* the buckets of one hash table.  The table is replaced when threads make *)
(* it too small; its spine is read without a lock, so that whoever has     *)
(* locked a bucket looks again whether the table is still the current one. *)
(*                                                                         *)
(* A bucket's lock is held across steps only by lockHashtable(), which     *)
(* takes all of them; everything else done under it is one step here.  So  *)
(* is every use of a thread's parkingLock.                                 *)
(***************************************************************************)
EXTENDS Integers, Sequences, FiniteSets, FiniteSetsExt, SequencesExt

CONSTANTS
  Threads,
  Addresses,
  Hash,            \* PtrHash: the hash of each address
  maxLoadFactor,   \* 3 in the code
  growthFactor,    \* 2 in the code
  Programs,        \* bound: what the threads call, each a sequence of sets of calls
  NoThread, NoAddress, NoToken, NoAnswer

ParkCalls   == [op : {"park"}, address : Addresses, timed : BOOLEAN]
UnparkCalls == [op : {"unparkOne"}, address : Addresses, count : {1}, token : {NoToken} \cup Threads]
               \cup [op : {"unparkCount"}, address : Addresses, count : Nat \ {0}]
ForEach     == [op |-> "forEach"]
ParkAnswers   == [wasUnparked : BOOLEAN, token : {NoToken} \cup Threads]
UnparkAnswers == [unparked : Nat, mayHaveMoreThreads : BOOLEAN]

ASSUME ParkingLotConstants ==
  /\ Hash \in [Addresses -> Nat]
  /\ maxLoadFactor \in Nat \ {0} /\ growthFactor \in Nat \ {0}
  /\ Programs \subseteq [Threads -> Seq(SUBSET (ParkCalls \cup UnparkCalls \cup {ForEach}))]
  /\ NoThread \notin Threads /\ NoToken \notin Threads /\ NoAddress \notin Addresses
  /\ NoAnswer \notin ParkAnswers \cup UnparkAnswers

VARIABLES
  tables,      \* every spine there has been, the last one is `hashtable`
  queue,       \* the queue of each bucket, in the order the buckets were created
  holder,      \* which thread has locked the bucket in lockHashtable()
  numThreads,
  number,      \* currentNumThreads of a thread with ThreadData, else 0
  address,     \* ThreadData's address and token
  token,
  pc,
  calls,       \* the calls each thread has still to make
  call,        \* the current one
  spine,       \* myHashtable, currentHashtable: its place in tables
  bucket,      \* the bucket found in it
  threadDatas, \* the threads an unparker has dequeued and not signalled yet
  answer       \* what the call returns

lot    == <<tables, queue, holder>>
data   == <<numThreads, number, address, token>>
found  == <<spine, bucket>>
vars   == <<lot, data, pc, calls, call, found, threadDatas, answer>>

NoCall == [op |-> "none"]
null   == 0

Init ==
  /\ tables = <<>> /\ queue = <<>> /\ holder = <<>>
  /\ numThreads = 0 /\ number = [t \in Threads |-> 0]
  /\ address = [t \in Threads |-> NoAddress] /\ token = [t \in Threads |-> NoToken]
  /\ pc = [t \in Threads |-> "idle"]
  /\ calls \in Programs /\ call = [t \in Threads |-> NoCall]
  /\ spine = [t \in Threads |-> null] /\ bucket = [t \in Threads |-> null]
  /\ threadDatas = [t \in Threads |-> <<>>]
  /\ answer = [t \in Threads |-> NoAnswer]

Goto(t, label) == pc' = [pc EXCEPT ![t] = label]
Finish(t) == Goto(t, "return") /\ UNCHANGED <<call, found>>
Answer(t, result) == answer' = [answer EXCEPT ![t] = result]
WasUnparked(t) == Answer(t, [wasUnparked |-> TRUE, token |-> token[t]])
NotUnparked(t) == Answer(t, [wasUnparked |-> FALSE, token |-> NoToken])

\* The members of a finite set, as a set of pairs orders them.
Sorted(S, before) ==
  [k \in 1 .. Cardinality(S) |-> CHOOSE x \in S : Cardinality({y \in S : <<y, x>> \in before}) = k - 1]
Ascending(S)  == Sorted(S, {p \in S \X S : p[1] < p[2]})
Descending(S) == Sorted(S, {p \in S \X S : p[1] > p[2]})
\* What a sequence has of a set, in its order: SelectSeq, written without recursion.
Keep(s, S) == LET places == Ascending({i \in DOMAIN s : s[i] \in S})
              IN  [k \in DOMAIN places |-> s[places[k]]]

size(table)     == Cardinality(DOMAIN table)
index(a, table) == Hash[a] % size(table)
EmptyTable(n)   == [i \in 0 .. n - 1 |-> null]
\* ensureHashtable(): the first one is made for one thread.
ensured == IF tables = <<>> THEN <<EmptyTable(maxLoadFactor)>> ELSE tables

-----------------------------------------------------------------------------
(* Calls, and a thread's ThreadData *)

Call(t) ==
  /\ pc[t] = "idle" /\ calls[t] # <<>>
  /\ calls' = [calls EXCEPT ![t] = Tail(@)]
  /\ \E request \in Head(calls[t]) :
       /\ call' = [call EXCEPT ![t] = request]
       /\ token' = [token EXCEPT ![t] = IF request.op = "park" THEN NoToken ELSE @]
       /\ Goto(t, IF request.op = "forEach" THEN "collect"
                  ELSE IF request.op = "park" /\ number[t] = 0 THEN "newThread" ELSE "table")
  /\ UNCHANGED <<lot, numThreads, number, address, found, threadDatas, answer>>

NewThreadData(t) ==
  /\ pc[t] = "newThread"
  /\ numThreads' = numThreads + 1 /\ number' = [number EXCEPT ![t] = numThreads']
  /\ Goto(t, "size")
  /\ UNCHANGED <<lot, address, token, calls, call, found, threadDatas, answer>>

BigEnough(table, n) == size(table) >= maxLoadFactor * n

ensureHashtableSize(t) ==
  /\ pc[t] = "size"
  /\ Goto(t, IF tables # <<>> /\ BigEnough(Last(tables), number[t]) THEN "table" ELSE "collect")
  /\ UNCHANGED <<lot, data, calls, call, found, threadDatas, answer>>

\* The client has its answer; the call's locals are gone.
Return(t) ==
  /\ pc[t] = "return"
  /\ Goto(t, "idle") /\ call' = [call EXCEPT ![t] = NoCall]
  /\ spine' = [spine EXCEPT ![t] = null] /\ bucket' = [bucket EXCEPT ![t] = null]
  /\ Answer(t, NoAnswer)
  /\ UNCHANGED <<lot, data, calls, threadDatas>>

ThreadExits(t) ==
  /\ pc[t] = "idle" /\ calls[t] = <<>> /\ number[t] # 0
  /\ numThreads' = numThreads - 1 /\ number' = [number EXCEPT ![t] = 0]
  /\ UNCHANGED <<lot, address, token, pc, calls, call, found, threadDatas, answer>>

-----------------------------------------------------------------------------
(* lockHashtable() and what is done with all buckets locked *)

\* The buckets of the current table, made where there were none.
Collect(t) ==
  /\ pc[t] = "collect"
  /\ LET table == Last(ensured)
         empty == {i \in DOMAIN table : table[i] = null}
         place(i) == Cardinality({j \in empty : j >= i})
     IN  /\ tables' = [ensured EXCEPT ![Len(ensured)] =
                         [i \in DOMAIN table |-> IF i \in empty THEN Len(queue) + place(i) ELSE table[i]]]
         /\ queue' = queue \o [i \in 1 .. Cardinality(empty) |-> <<>>]
         /\ holder' = holder \o [i \in 1 .. Cardinality(empty) |-> NoThread]
  /\ spine' = [spine EXCEPT ![t] = Len(ensured)]
  /\ Goto(t, "lockAll")
  /\ UNCHANGED <<data, calls, call, bucket, threadDatas, answer>>

BucketsOf(table) == {table[i] : i \in DOMAIN table} \ {null}
Unlocked(t)      == {b \in BucketsOf(tables[spine[t]]) : holder[b] # t}
Lowest(buckets)  == CHOOSE b \in buckets : \A other \in buckets : b <= other

\* Mutant: the buckets are not sorted.
LockBucket_Unsorted(t) ==
  /\ pc[t] = "lockAll" /\ Unlocked(t) # {}
  /\ \E b \in Unlocked(t) : holder[b] = NoThread /\ holder' = [holder EXCEPT ![b] = t]
  /\ UNCHANGED <<tables, queue, data, pc, calls, call, found, threadDatas, answer>>

\* In the order of the buckets.
LockBucket(t) ==
  /\ pc[t] = "lockAll" /\ Unlocked(t) # {}
  /\ LET b == Lowest(Unlocked(t))
     IN  holder[b] = NoThread /\ holder' = [holder EXCEPT ![b] = t]
  /\ UNCHANGED <<tables, queue, data, pc, calls, call, found, threadDatas, answer>>

AllLocked(t) == pc[t] = "lockAll" /\ Unlocked(t) = {}
\* Mutant: nobody looks again.
Current_Assumed(t) == TRUE
Current(t) == spine[t] = Len(tables)
unlockHashtable(t) == [b \in DOMAIN holder |-> IF holder[b] = t THEN NoThread ELSE holder[b]]

\* The table has been replaced meanwhile.
LockAgain(t) ==
  /\ AllLocked(t) /\ ~Current(t)
  /\ holder' = unlockHashtable(t)
  /\ Goto(t, "collect")
  /\ UNCHANGED <<tables, queue, data, calls, call, found, threadDatas, answer>>

forEach(t) ==
  /\ AllLocked(t) /\ Current(t) /\ call[t].op = "forEach"
  /\ holder' = unlockHashtable(t)
  /\ Finish(t)
  /\ UNCHANGED <<tables, queue, data, calls, threadDatas, answer>>

NoRehash(t) ==
  /\ AllLocked(t) /\ Current(t) /\ call[t].op = "park"
  /\ BigEnough(Last(tables), number[t])
  /\ holder' = unlockHashtable(t)
  /\ Goto(t, "table")
  /\ UNCHANGED <<tables, queue, data, calls, call, found, threadDatas, answer>>

\* The larger table.  The slots in the order in which `parked` needs a bucket take
\* the old buckets and then new ones; the old ones that are left fill empty slots.
Refilled(n, parked, reusable) ==
  LET slotOf(k)  == Hash[address[parked[k]]] % n
      user(i)    == {k \in 1 .. Len(parked) : slotOf(k) = i}
      first(i)   == IF user(i) = {} THEN Len(parked) + 1 + i ELSE Min(user(i))
      rank(i)    == Cardinality({j \in 0 .. n - 1 : first(j) <= first(i)})
  IN  [i \in 0 .. n - 1 |-> IF rank(i) <= Len(reusable) THEN reusable[rank(i)]
                            ELSE IF user(i) # {} THEN Len(queue) + rank(i) - Len(reusable) ELSE null]

\* All parked threads, bucket by bucket and each bucket in its order.
Gathered(buckets) ==
  LET places == UNION {{b} \X DOMAIN queue[b] : b \in buckets}
      before == {p \in places \X places : \/ p[1][1] < p[2][1]
                                         \/ (p[1][1] = p[2][1] /\ p[1][2] < p[2][2])}
      order  == Sorted(places, before)
  IN  [k \in DOMAIN order |-> queue[order[k][1]][order[k][2]]]

\* They go to the new table.
Rehash(t) ==
  /\ AllLocked(t) /\ Current(t) /\ call[t].op = "park"
  /\ ~BigEnough(Last(tables), number[t])
  /\ \E parked \in {Gathered(BucketsOf(Last(tables)))} :
     \E table \in {Refilled(number[t] * growthFactor * maxLoadFactor, parked,
                           Descending(BucketsOf(Last(tables))))} :
       LET created == Max(BucketsOf(table) \cup {Len(queue)})
       IN  /\ tables' = Append(tables, table)
           /\ queue' = [b \in 1 .. created |->
                          Keep(parked, {u \in ToSet(parked) : table[index(address[u], table)] = b})]
           /\ holder' = unlockHashtable(t) \o [i \in 1 .. created - Len(queue) |-> NoThread]
  /\ Goto(t, "table")
  /\ UNCHANGED <<data, calls, call, found, threadDatas, answer>>

-----------------------------------------------------------------------------
(* enqueue() and dequeue(): find a bucket, lock it, look again *)

FindTable(t) ==
  /\ pc[t] = "table"
  /\ tables' = ensured /\ spine' = [spine EXCEPT ![t] = Len(ensured)]
  /\ Goto(t, "bucket")
  /\ UNCHANGED <<queue, holder, data, calls, call, bucket, threadDatas, answer>>

slot(t)        == index(call[t].address, tables[spine[t]])
found_(t)      == tables[spine[t]][slot(t)]
IgnoreEmpty(t) == call[t].op \in {"unparkCount", "leave"}

FindBucket(t) ==
  /\ pc[t] = "bucket" /\ (found_(t) # null \/ ~IgnoreEmpty(t))
  /\ IF found_(t) # null
     THEN UNCHANGED lot /\ bucket' = [bucket EXCEPT ![t] = found_(t)]
     ELSE /\ queue' = Append(queue, <<>>) /\ holder' = Append(holder, NoThread)
          /\ tables' = [tables EXCEPT ![spine[t]][slot(t)] = Len(queue')]
          /\ bucket' = [bucket EXCEPT ![t] = Len(queue')]
  /\ Goto(t, "lock")
  /\ UNCHANGED <<data, calls, call, spine, threadDatas, answer>>

NoBucket(t) ==
  /\ pc[t] = "bucket" /\ found_(t) = null /\ IgnoreEmpty(t)
  /\ IF call[t].op = "leave"
     THEN Goto(t, "settle") /\ UNCHANGED <<call, found, answer>>
     ELSE Finish(t) /\ Answer(t, [unparked |-> 0, mayHaveMoreThreads |-> FALSE])
  /\ UNCHANGED <<lot, data, calls, threadDatas>>

Locks(t) == pc[t] = "lock" /\ holder[bucket[t]] = NoThread

LookAgain(t) ==
  /\ Locks(t) /\ ~Current(t)
  /\ Goto(t, "table")
  /\ UNCHANGED <<lot, data, calls, call, found, threadDatas, answer>>

-----------------------------------------------------------------------------
(* parkConditionally() *)

\* The client's validation, under the bucket's lock, decides.
Enqueue(t) ==
  /\ Locks(t) /\ Current(t) /\ call[t].op = "park"
  /\ address' = [address EXCEPT ![t] = call[t].address]
  /\ queue' = [queue EXCEPT ![bucket[t]] = Append(@, t)]
  /\ Goto(t, "check")
  /\ UNCHANGED <<tables, holder, numThreads, number, token, calls, call, found, threadDatas, answer>>

ValidationFails(t) ==
  /\ Locks(t) /\ Current(t) /\ call[t].op = "park"
  /\ NotUnparked(t) /\ Finish(t)
  /\ UNCHANGED <<lot, data, calls, threadDatas>>

\* The parkingLock is held: the thread goes to sleep, or has been unparked.
Check(t) ==
  /\ pc[t] = "check"
  /\ IF address[t] # NoAddress
     THEN Goto(t, "asleep") /\ UNCHANGED <<call, found, answer>>
     ELSE WasUnparked(t) /\ Finish(t)
  /\ UNCHANGED <<lot, data, calls, threadDatas>>

\* A spurious wakeup, or the system's timer.
WaitEnds(t) ==
  /\ pc[t] = "asleep"
  /\ Goto(t, IF call[t].op = "leave" THEN "settle" ELSE "check")
  /\ UNCHANGED <<lot, data, calls, call, found, threadDatas, answer>>

\* The time has run out and nobody has cleared the address: leave the queue.
TimesOut(t) ==
  /\ pc[t] = "check" /\ address[t] # NoAddress /\ call[t].timed
  /\ call' = [call EXCEPT ![t].op = "leave"]
  /\ Goto(t, "table")
  /\ UNCHANGED <<lot, data, calls, found, threadDatas, answer>>

DequeueMyself(t) ==
  /\ Locks(t) /\ Current(t) /\ call[t].op = "leave"
  /\ queue' = [queue EXCEPT ![bucket[t]] = Keep(@, Threads \ {t})]
  /\ Goto(t, IF Contains(queue[bucket[t]], t) THEN "didDequeue" ELSE "settle")
  /\ UNCHANGED <<tables, holder, data, calls, call, found, threadDatas, answer>>

DidDequeue(t) ==
  /\ pc[t] = "didDequeue"
  /\ address' = [address EXCEPT ![t] = NoAddress]
  /\ NotUnparked(t) /\ Finish(t)
  /\ UNCHANGED <<lot, numThreads, number, token, calls, threadDatas>>

\* Mutant: a thread that was dequeued by somebody else returns at once.
Settle_DoesNotWait(t) ==
  /\ pc[t] = "settle"
  /\ WasUnparked(t) /\ Finish(t)
  /\ address' = [address EXCEPT ![t] = NoAddress]
  /\ UNCHANGED <<lot, numThreads, number, token, calls, threadDatas>>

\* An unparker has dequeued this thread already: it will clear the address.
Settle(t) ==
  /\ pc[t] = "settle"
  /\ IF address[t] # NoAddress
     THEN Goto(t, "asleep") /\ UNCHANGED <<call, found, answer>>
     ELSE WasUnparked(t) /\ Finish(t)
  /\ UNCHANGED <<lot, data, calls, threadDatas>>

-----------------------------------------------------------------------------
(* unparkOne() and unparkCount() *)

\* Mutant: every thread in the bucket is taken for one that waits on the address.
InBucketFor_All(t) == queue[bucket[t]]
InBucketFor(t) == Keep(queue[bucket[t]], {u \in Threads : address[u] = call[t].address})

\* unparkOne's callback may leave a token with the thread; without a callback it is 0.
Dequeue(t) ==
  /\ Locks(t) /\ Current(t) /\ call[t].op \in {"unparkOne", "unparkCount"}
  /\ LET b    == bucket[t]
         here == InBucketFor(t)
         one  == call[t].op = "unparkOne"
     IN  \E taken \in {SubSeq(here, 1, IF call[t].count < Len(here) THEN call[t].count ELSE Len(here))} :
           /\ threadDatas' = [threadDatas EXCEPT ![t] = taken]
           /\ queue' = [queue EXCEPT ![b] = Keep(@, Threads \ ToSet(taken))]
           /\ token' = IF one /\ taken # <<>> THEN [token EXCEPT ![taken[1]] = call[t].token] ELSE token
           /\ Answer(t, [unparked |-> Len(taken),
                         mayHaveMoreThreads |-> queue'[b] # <<>> /\ (one => taken # <<>>)])
  /\ Goto(t, "unpark")
  /\ UNCHANGED <<tables, holder, numThreads, number, address, calls, call, found>>

ClearAddress(t) ==
  /\ pc[t] = "unpark" /\ threadDatas[t] # <<>>
  /\ address' = [address EXCEPT ![Head(threadDatas[t])] = NoAddress]
  /\ Goto(t, "signal")
  /\ UNCHANGED <<lot, numThreads, number, token, calls, call, found, threadDatas, answer>>

\* The parkingLock is free again: the thread may be anywhere by now.
Signal(t) ==
  /\ pc[t] = "signal"
  /\ LET u == Head(threadDatas[t])
     IN  pc' = [pc EXCEPT ![t] = "unpark",
                  ![u] = IF @ # "asleep" THEN @
                         ELSE IF call[u].op = "leave" THEN "settle" ELSE "check"]
  /\ threadDatas' = [threadDatas EXCEPT ![t] = Tail(@)]
  /\ UNCHANGED <<lot, data, calls, call, found, answer>>

UnparkEnds(t) ==
  /\ pc[t] = "unpark" /\ threadDatas[t] = <<>>
  /\ Finish(t)
  /\ UNCHANGED <<lot, data, calls, threadDatas, answer>>

-----------------------------------------------------------------------------
Step(t) ==
  \/ NewThreadData(t) \/ ensureHashtableSize(t)
  \/ Collect(t) \/ LockBucket(t) \/ LockAgain(t) \/ forEach(t) \/ NoRehash(t) \/ Rehash(t)
  \/ FindTable(t) \/ FindBucket(t) \/ NoBucket(t) \/ LookAgain(t)
  \/ Enqueue(t) \/ ValidationFails(t) \/ Check(t) \/ TimesOut(t)
  \/ DequeueMyself(t) \/ DidDequeue(t) \/ Settle(t)
  \/ Dequeue(t) \/ ClearAddress(t) \/ Signal(t) \/ UnparkEnds(t) \/ Return(t)

Next == \E t \in Threads : Call(t) \/ ThreadExits(t) \/ WaitEnds(t) \/ Step(t)

\* Every thread that is not asleep runs.
Spec == Init /\ [][Next]_vars /\ \A t \in Threads : WF_vars(Step(t))

-----------------------------------------------------------------------------
Queued(t) == \E b \in DOMAIN queue : Contains(queue[b], t)
Parking(t) == \/ pc[t] \in {"check", "asleep", "settle", "didDequeue"}
              \/ call[t].op = "leave" /\ pc[t] # "return"

\* Those that an unparker has dequeued and that still have their address.
Taken(t) == {threadDatas[t][i] : i \in (IF pc[t] = "signal" THEN 2 ELSE 1) .. Len(threadDatas[t])}

\* However often the table is replaced, every parked thread is in one queue, once,
\* where the current table sends those who look for its address, unless somebody
\* has dequeued it and is about to wake it; and a thread that is not in
\* parkConditionally() has no address (ParkingLot.cpp:355-407 and 489,
\* RELEASE_ASSERT(!me->address) at 574).
QueuesAreWhole ==
  /\ \A t \in Threads : Queued(t) => Parking(t)
  /\ \A b \in DOMAIN queue : \A i \in 1 .. Len(queue[b]) :
       /\ address[queue[b][i]] \in Addresses
       /\ Last(tables)[index(address[queue[b][i]], Last(tables))] = b
       /\ \A j \in 1 .. i - 1 : queue[b][i] # queue[b][j]
  /\ \A t \in Threads : IF Parking(t)
       THEN address[t] = NoAddress \/ Queued(t) \/ pc[t] = "didDequeue" \/ \E u \in Threads : t \in Taken(u)
       ELSE address[t] = NoAddress

\* A thread that has been dequeued by an unparker stays until that unparker has
\* cleared its address, though its time runs out meanwhile: the unparker never
\* clears the address of a later call (ParkingLot.cpp:640-645, ASSERT at 736).
TakenThreadsStay ==
  \A t \in Threads : \A u \in Taken(t) :
    Parking(u) /\ ~Queued(u) /\ address[u] = call[t].address

\* Every call ends: threads that lock several buckets do not wait for each other,
\* and a thread that has left the queue returns (ParkingLot.cpp:312-326, 606-613).
EveryCallEnds ==
  \A t \in Threads : (pc[t] # "idle" /\ ~Queued(t)) ~> (pc[t] = "idle" \/ Queued(t))

\* ParkingLot implements AbstractParkingLot.
ParkedOn(a) ==
  IF tables = <<>> THEN <<>>
  ELSE LET b == Last(tables)[index(a, Last(tables))]
       IN  IF b = null THEN <<>> ELSE Keep(queue[b], {u \in Threads : address[u] = a})
Unparking(t) == call[t].op \in {"unparkOne", "unparkCount"} /\ pc[t] \in {"table", "bucket", "lock"}
State(t) ==
  IF Queued(t) THEN "parked"
  ELSE IF Parking(t) THEN (IF pc[t] = "didDequeue" THEN "expired" ELSE "unparked")
  ELSE IF Unparking(t) THEN "unparking"
  ELSE IF answer[t] = NoAnswer THEN "running" ELSE "answered"

Abstract == INSTANCE AbstractParkingLot WITH
  queue <- [a \in Addresses |-> ParkedOn(a)],
  state <- [t \in Threads |-> State(t)],
  want  <- [t \in Threads |-> IF Unparking(t) THEN <<call[t].address, call[t].count>> ELSE <<>>],
  token <- [t \in Threads |-> IF Queued(t) \/ Parking(t) THEN token[t] ELSE NoToken]
ImplementsParking == Abstract!Spec
=============================================================================
