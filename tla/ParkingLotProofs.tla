-------------------------- MODULE ParkingLotProofs --------------------------
(***************************************************************************)
(* For any number of threads and addresses, every hash, both factors and   *)
(* all programs: a parked thread is where an unparker looks for it, an     *)
(* unparker clears no address but the one it dequeued the thread for, and  *)
(* the lot implements AbstractParkingLot: whatever the table, the threads  *)
(* parked on an address are one queue.                                     *)
(*                                                                         *)
(* The queues move only in Rehash, and Rehash builds them by sorting: the  *)
(* lemmas of the first part say what the sorting operators list.  All old  *)
(* tables are full, so that an empty slot that somebody fills without a    *)
(* lock is one of the current table (Full).  A thread taken by an unparker *)
(* is taken once (TakenOnce), has found out that it is not queued (Left)   *)
(* or will, and waits with the address of its own call (Mine).             *)
(*                                                                         *)
(* What is parked on an address (ParkedOn) lists the queued threads that   *)
(* have it, each once, in the order of the queues (ParkedOnIs, Lined).     *)
(* There is only one such list, so the abstract lot sees no step that      *)
(* leaves these threads and their order alone, a rehash included.          *)
(***************************************************************************)
EXTENDS ParkingLot, FiniteSetTheorems, WellFoundedInduction, TLAPS

-----------------------------------------------------------------------------
(* Sequences made by sorting *)

\* A set of natural numbers has a least one.
LEMMA Least == ASSUME NEW T \in SUBSET Nat, T # {} PROVE \E m \in T : \A k \in T : m <= k
<1>1. PICK m \in T : \A k \in T : <<k, m>> \notin OpToRel(<, Nat)
  BY NatLessThanWellFounded, WFMin
<1>2. \A k \in T : ~(k < m) BY <1>1 DEF OpToRel
<1> QED BY <1>2

\* Min and Max are what their names say.
LEMMA LeastIsMin ==
  ASSUME NEW T \in SUBSET Nat, T # {}
  PROVE  Min(T) \in T /\ \A k \in T : Min(T) <= k
BY Least DEF Min

\* Max takes the greatest.
LEMMA GreatestIsMax ==
  ASSUME NEW T \in SUBSET Nat, T # {}, NEW n \in Nat, \A k \in T : k <= n
  PROVE  Max(T) \in T /\ \A k \in T : k <= Max(T)
<1> DEFINE D == {n - k : k \in T}
<1>1. D \in SUBSET Nat /\ D # {}
  <2>1. \A k \in T : n - k \in Nat OBVIOUS
  <2>2. PICK k \in T : TRUE OBVIOUS
  <2> QED BY <2>1, <2>2
<1>2. PICK d \in D : \A e \in D : d <= e
  <2> HIDE DEF D
  <2> QED BY <1>1, Least
<1>3. PICK m \in T : d = n - m OBVIOUS
<1>4. \A k \in T : k <= m
  <2> SUFFICES ASSUME NEW k \in T PROVE k <= m OBVIOUS
  <2>1. n - k \in D OBVIOUS
  <2> QED BY <2>1, <1>2, <1>3
<1> QED BY <1>4 DEF Max

\* The pairs order the set: they are irreflexive, transitive and total on it.
IsOrder(S, before) ==
  /\ \A x \in S : <<x, x>> \notin before
  /\ \A x, y, z \in S : <<x, y>> \in before /\ <<y, z>> \in before => <<x, z>> \in before
  /\ \A x, y \in S : x # y => <<x, y>> \in before \/ <<y, x>> \in before

\* What Sorted does: every member of the set gets one place, as the pairs order them.
LEMMA SortedLists ==
  ASSUME NEW S, IsFiniteSet(S), NEW before, IsOrder(S, before)
  PROVE  /\ Cardinality(S) \in Nat /\ Sorted(S, before) \in [1 .. Cardinality(S) -> S]
         /\ \A x \in S : \E k \in 1 .. Cardinality(S) : Sorted(S, before)[k] = x
         /\ \A k, l \in 1 .. Cardinality(S) :
              k < l => <<Sorted(S, before)[k], Sorted(S, before)[l]>> \in before
<1> DEFINE n == Cardinality(S)
           ahead(x) == {y \in S : <<y, x>> \in before}
           rank == [x \in S |-> Cardinality(ahead(x)) + 1]
<1>n. n \in Nat BY FS_CardinalityType
<1>a. \A x \in S : ahead(x) \in SUBSET S /\ IsFiniteSet(ahead(x)) /\ Cardinality(ahead(x)) \in Nat
  BY FS_Subset, FS_CardinalityType
<1>1. \A x, y \in S : <<x, y>> \in before => rank[x] < rank[y]
  <2> SUFFICES ASSUME NEW x \in S, NEW y \in S, <<x, y>> \in before PROVE rank[x] < rank[y]
    OBVIOUS
  <2>1. ahead(x) \in SUBSET ahead(y) BY DEF IsOrder
  <2>2. x \in ahead(y) /\ x \notin ahead(x) BY DEF IsOrder
  <2>3. Cardinality(ahead(x)) <= Cardinality(ahead(y)) /\ Cardinality(ahead(x)) # Cardinality(ahead(y))
    <3> HIDE DEF ahead
    <3> QED BY <1>a, <2>1, <2>2, FS_Subset
  <2> QED BY <2>3, <1>a
<1>2. rank \in [S -> 1 .. n]
  <2> SUFFICES ASSUME NEW x \in S PROVE Cardinality(ahead(x)) + 1 \in 1 .. n OBVIOUS
  <2>1. x \in S /\ x \notin ahead(x) BY DEF IsOrder
  <2>2. Cardinality(ahead(x)) <= n /\ Cardinality(ahead(x)) # n
    <3> HIDE DEF ahead
    <3> QED BY <1>a, <2>1, FS_Subset
  <2> QED BY <2>2, <1>a, <1>n
<1>3. \A x, y \in S : rank[x] = rank[y] => x = y
  <2> SUFFICES ASSUME NEW x \in S, NEW y \in S, x # y PROVE rank[x] # rank[y] OBVIOUS
  <2>1. rank[x] < rank[y] \/ rank[y] < rank[x] BY <1>1 DEF IsOrder
  <2>2. rank[x] \in Int /\ rank[y] \in Int BY <1>2, <1>n
  <2> HIDE DEF rank
  <2> QED BY <2>1, <2>2
<1>4. \A k \in 1 .. n : \E x \in S : rank[x] = k
  <2> HIDE DEF rank, n
  <2>1. rank \in Injection(S, 1 .. n)
    BY <1>2, <1>3 DEF Injection, IsInjective
  <2>2. IsFiniteSet(1 .. n) /\ Cardinality(1 .. n) = n
    BY <1>n, FS_Interval, 1 \in Int, n \in Int
  <2>3. rank \in Surjection(S, 1 .. n)
    BY <2>1, <2>2, FS_Injection DEF n
  <2> QED BY <2>3 DEF Surjection
<1> DEFINE s == Sorted(S, before)
<1>5. \A k \in 1 .. n : s[k] \in S /\ rank[s[k]] = k
  <2> SUFFICES ASSUME NEW k \in 1 .. n PROVE s[k] \in S /\ rank[s[k]] = k OBVIOUS
  <2>1. s[k] = CHOOSE x \in S : Cardinality(ahead(x)) = k - 1
    BY DEF Sorted
  <2>2. \E x \in S : Cardinality(ahead(x)) = k - 1
    <3>1. PICK x \in S : rank[x] = k BY <1>4
    <3>2. Cardinality(ahead(x)) + 1 = k BY <3>1
    <3>3. Cardinality(ahead(x)) = k - 1
      <4> HIDE DEF ahead
      <4> QED BY <3>2, <1>a, <1>n
    <3> QED BY <3>3
  <2>3. s[k] \in S /\ Cardinality(ahead(s[k])) = k - 1
    <3> HIDE DEF s, ahead
    <3> QED BY <2>1, <2>2
  <2> QED BY <2>3, <1>n
<1>6. s \in [1 .. n -> S]
  <2> DEFINE c(k) == CHOOSE x \in S : Cardinality(ahead(x)) = k - 1
  <2>1. s = [k \in 1 .. n |-> c(k)] BY DEF Sorted
  <2> HIDE DEF s, c
  <2>2. \A k \in 1 .. n : s[k] = c(k) BY <2>1
  <2> QED BY <2>1, <2>2, <1>5
<1> HIDE DEF s, rank, n
<1>7. \A x \in S : \E k \in 1 .. n : s[k] = x
  BY <1>2, <1>3, <1>5
<1>8. \A k, l \in 1 .. n : k < l => <<s[k], s[l]>> \in before
  <2> SUFFICES ASSUME NEW k \in 1 .. n, NEW l \in 1 .. n, k < l PROVE <<s[k], s[l]>> \in before
    OBVIOUS
  <2>1. s[k] # s[l] BY <1>5, <1>n
  <2>2. <<s[l], s[k]>> \notin before BY <1>1, <1>5, <1>n
  <2> QED BY <2>1, <2>2, <1>5 DEF IsOrder
<1> QED BY <1>n, <1>6, <1>7, <1>8 DEF s, n

\* No element twice; and what a sequence has of another one is in the same order there.
Distinct(s) == \A i, j \in DOMAIN s : s[i] = s[j] => i = j
InOrder(r, s) == \A k, l \in DOMAIN r : k < l =>
                   \E i, j \in DOMAIN s : i < j /\ r[k] = s[i] /\ r[l] = s[j]

\* What Keep does.
LEMMA KeepKeeps ==
  ASSUME NEW A, NEW s \in Seq(A), NEW S
  PROVE  /\ Keep(s, S) \in Seq(A)
         /\ ToSet(Keep(s, S)) = ToSet(s) \cap S
         /\ InOrder(Keep(s, S), s)
         /\ Distinct(s) => Distinct(Keep(s, S))
<1> DEFINE P == {i \in DOMAIN s : s[i] \in S}
           before == {p \in P \X P : p[1] < p[2]}
           n == Cardinality(P)
           places == Ascending(P)
           r == Keep(s, S)
<1>1. IsFiniteSet(P) /\ P \in SUBSET (1 .. Len(s)) /\ P \in SUBSET Nat /\ DOMAIN s = 1 .. Len(s)
  <2>1. Len(s) \in Nat /\ DOMAIN s = 1 .. Len(s) OBVIOUS
  <2>2. IsFiniteSet(1 .. Len(s)) BY <2>1, FS_Interval
  <2>3. P \in SUBSET (1 .. Len(s)) BY <2>1
  <2>4. IsFiniteSet(P)
    <3> HIDE DEF P
    <3> QED BY <2>2, <2>3, FS_Subset
  <2> QED BY <2>1, <2>3, <2>4
<1>2. IsOrder(P, before)
  <2> HIDE DEF P
  <2> QED BY <1>1 DEF IsOrder
<1>3. places = Sorted(P, before) BY DEF Ascending
<1>4. /\ n \in Nat /\ places \in [1 .. n -> P]
      /\ \A x \in P : \E k \in 1 .. n : places[k] = x
      /\ \A k, l \in 1 .. n : k < l => places[k] < places[l]
  <2>1. /\ n \in Nat /\ places \in [1 .. n -> P]
        /\ \A x \in P : \E k \in 1 .. n : places[k] = x
        /\ \A k, l \in 1 .. n : k < l => <<places[k], places[l]>> \in before
    <3> HIDE DEF P, before, places
    <3> QED BY <1>1, <1>2, <1>3, SortedLists
  <2> HIDE DEF P, places
  <2> QED BY <2>1
<1>5. r = [k \in 1 .. n |-> s[places[k]]]
  <2>1. DOMAIN places = 1 .. n BY <1>4
  <2>2. r = [k \in DOMAIN places |-> s[places[k]]] BY DEF Keep
  <2> HIDE DEF r, places, n
  <2> QED BY <2>1, <2>2
<1>6. \A i \in P : i \in DOMAIN s /\ s[i] \in S OBVIOUS
<1>7. \A i \in DOMAIN s : s[i] \in S => i \in P OBVIOUS
<1> HIDE DEF P, before, n, places, r
<1>8. r \in Seq(A) /\ DOMAIN r = 1 .. n
  <2>1. r \in [1 .. n -> A] BY <1>4, <1>5, <1>6
  <2>2. r \in Seq(A) BY <2>1, <1>4
  <2> QED BY <2>1, <2>2
<1>9. \A k \in 1 .. n : r[k] = s[places[k]] /\ places[k] \in P BY <1>4, <1>5
<1>10. ToSet(r) = ToSet(s) \cap S
  <2>1. \A k \in 1 .. n : r[k] \in ToSet(s) \cap S BY <1>6, <1>9 DEF ToSet
  <2>2. \A i \in DOMAIN s : s[i] \in S => \E k \in 1 .. n : r[k] = s[i] BY <1>4, <1>7, <1>9
  <2>3. ToSet(r) = {r[k] : k \in 1 .. n} BY <1>8 DEF ToSet
  <2>4. \A x \in ToSet(s) \cap S : x \in ToSet(r)
    <3> SUFFICES ASSUME NEW x \in ToSet(s), x \in S PROVE x \in ToSet(r) OBVIOUS
    <3>1. PICK i \in DOMAIN s : x = s[i] BY DEF ToSet
    <3> QED BY <2>2, <2>3, <3>1
  <2> QED BY <2>1, <2>3, <2>4
<1>11. InOrder(r, s)
  BY <1>4, <1>6, <1>8, <1>9 DEF InOrder
<1>12. ASSUME Distinct(s) PROVE Distinct(r)
  <2> SUFFICES ASSUME NEW k \in 1 .. n, NEW l \in 1 .. n, r[k] = r[l] PROVE k = l
    BY <1>8 DEF Distinct
  <2>1. places[k] = places[l] BY <1>6, <1>9, <1>12 DEF Distinct
  <2>2. places[k] \in Nat BY <1>1, <1>9
  <2>3. ~(k < l) /\ ~(l < k) BY <1>4, <2>1, <2>2
  <2> QED BY <2>3, <1>4
<1> QED BY <1>8, <1>10, <1>11, <1>12 DEF r

\* Sequences without duplicates that hold the same in the same order are equal.
LEMMA Unique ==
  ASSUME NEW A, NEW s \in Seq(A), NEW r \in Seq(A), Distinct(s), Distinct(r),
         ToSet(r) = ToSet(s), InOrder(r, s)
  PROVE  r = s
<1>0. /\ Len(s) \in Nat /\ DOMAIN s = 1 .. Len(s) /\ Len(r) \in Nat /\ DOMAIN r = 1 .. Len(r)
  OBVIOUS
<1>1. /\ \A i \in DOMAIN s : \E k \in DOMAIN r : r[k] = s[i]
      /\ \A k \in DOMAIN r : \E i \in DOMAIN s : r[k] = s[i]
  <2>1. \A i \in DOMAIN s : s[i] \in ToSet(r) BY DEF ToSet
  <2>2. \A k \in DOMAIN r : r[k] \in ToSet(s) BY DEF ToSet
  <2> QED BY <2>1, <2>2 DEF ToSet
<1>2. \A k \in DOMAIN r : k \in DOMAIN s => r[k] = s[k]
  <2> DEFINE T == {k \in DOMAIN r : k \in DOMAIN s /\ r[k] # s[k]}
  <2> SUFFICES ASSUME T # {} PROVE FALSE OBVIOUS
  <2>1. T \in SUBSET Nat BY <1>0
  <2>2. PICK m \in T : \A k \in T : m <= k
    <3> HIDE DEF T
    <3> QED BY <2>1, Least
  <2>3. m \in DOMAIN r /\ m \in DOMAIN s /\ r[m] # s[m] OBVIOUS
  <2>4. \A k \in 1 .. m - 1 : k \in DOMAIN r /\ k \in DOMAIN s /\ r[k] = s[k]
    BY <1>0, <2>2, <2>3
  <2>5. PICK k \in DOMAIN r : r[k] = s[m] BY <1>1, <2>3
  <2>6. PICK i \in DOMAIN s : r[m] = s[i] BY <1>1, <2>3
  <2>7. k > m
    <3>1. k # m BY <2>3, <2>5
    <3>2. ASSUME k < m PROVE FALSE
      <4>1. k \in 1 .. m - 1 BY <3>2, <1>0, <2>3
      <4>2. s[k] = s[m] /\ k \in DOMAIN s BY <4>1, <2>4, <2>5
      <4> QED BY <4>2, <3>2, <2>3, <1>0 DEF Distinct
    <3> QED BY <3>1, <3>2, <1>0, <2>3
  <2>8. i > m
    <3>1. i # m BY <2>3, <2>6
    <3>2. ASSUME i < m PROVE FALSE
      <4>1. i \in 1 .. m - 1 BY <3>2, <1>0, <2>3
      <4>2. r[i] = r[m] /\ i \in DOMAIN r BY <4>1, <2>4, <2>6
      <4> QED BY <4>2, <3>2, <2>3, <1>0 DEF Distinct
    <3> QED BY <3>1, <3>2, <1>0, <2>3
  <2>9. PICK a, b \in DOMAIN s : a < b /\ r[m] = s[a] /\ r[k] = s[b]
    BY <2>3, <2>5, <2>7, <1>0 DEF InOrder
  <2>10. a = i /\ b = m BY <2>3, <2>5, <2>6, <2>9 DEF Distinct
  <2> QED BY <2>8, <2>9, <2>10, <1>0
<1>3. Len(r) = Len(s)
  <2>1. ~(Len(r) < Len(s))
    <3> SUFFICES ASSUME Len(r) < Len(s) PROVE FALSE OBVIOUS
    <3>0. Len(r) + 1 \in DOMAIN s /\ DOMAIN r \subseteq DOMAIN s BY <1>0
    <3>1. PICK k \in DOMAIN r : r[k] = s[Len(r) + 1] BY <3>0, <1>1
    <3>2. k \in DOMAIN s /\ s[k] = s[Len(r) + 1] BY <3>0, <3>1, <1>2
    <3> QED BY <3>0, <3>2, <1>0 DEF Distinct
  <2>2. ~(Len(s) < Len(r))
    <3> SUFFICES ASSUME Len(s) < Len(r) PROVE FALSE OBVIOUS
    <3>0. Len(s) + 1 \in DOMAIN r /\ DOMAIN s \subseteq DOMAIN r BY <1>0
    <3>1. PICK i \in DOMAIN s : r[Len(s) + 1] = s[i] BY <3>0, <1>1
    <3>2. i \in DOMAIN r /\ r[i] = r[Len(s) + 1] BY <3>0, <3>1, <1>2
    <3> QED BY <3>0, <3>2, <1>0 DEF Distinct
  <2>3. \A m, n \in Nat : ~(m < n) /\ ~(n < m) => m = n OBVIOUS
  <2> QED BY <2>1, <2>2, <2>3, <1>0
<1> QED BY <1>0, <1>2, <1>3

\* So what is kept of a sequence without duplicates is known by its members and their order.
LEMMA KeepIs ==
  ASSUME NEW A, NEW s \in Seq(A), NEW r \in Seq(A), NEW S, Distinct(s), Distinct(r),
         ToSet(r) = ToSet(s) \cap S, InOrder(r, s)
  PROVE  r = Keep(s, S)
<1> DEFINE q == Keep(s, S)
<1>1. q \in Seq(A) /\ ToSet(q) = ToSet(s) \cap S /\ InOrder(q, s) /\ Distinct(q)
  BY KeepKeeps
<1> HIDE DEF q
<1>0. /\ Len(q) \in Nat /\ DOMAIN q = 1 .. Len(q) /\ Len(r) \in Nat /\ DOMAIN r = 1 .. Len(r)
  BY <1>1
<1>2. InOrder(r, q)
  <2> SUFFICES ASSUME NEW k \in DOMAIN r, NEW l \in DOMAIN r, k < l
               PROVE  \E i, j \in DOMAIN q : i < j /\ r[k] = q[i] /\ r[l] = q[j]
    BY DEF InOrder
  <2>1. r[k] \in ToSet(q) /\ r[l] \in ToSet(q) BY <1>1 DEF ToSet
  <2>2. PICK i, j \in DOMAIN q : r[k] = q[i] /\ r[l] = q[j] BY <2>1 DEF ToSet
  <2>3. PICK a, b \in DOMAIN s : a < b /\ r[k] = s[a] /\ r[l] = s[b] BY DEF InOrder
  <2>4. i # j BY <2>2, <1>0 DEF Distinct
  <2>5. ASSUME j < i PROVE FALSE
    <3>1. PICK c, d \in DOMAIN s : c < d /\ q[j] = s[c] /\ q[i] = s[d] BY <2>5, <1>1 DEF InOrder
    <3>2. c = b /\ d = a BY <3>1, <2>2, <2>3 DEF Distinct
    <3>3. DOMAIN s = 1 .. Len(s) /\ Len(s) \in Nat OBVIOUS
    <3> QED BY <3>1, <3>2, <3>3, <2>3
  <2> QED BY <2>2, <2>4, <2>5, <1>0
<1> QED BY <1>1, <1>2, Unique DEF q

\* No thread has two places in the queues.
Apart ==
  \A b, c \in DOMAIN queue : \A i \in DOMAIN queue[b] : \A j \in DOMAIN queue[c] :
    queue[b][i] = queue[c][j] => b = c /\ i = j

\* What Gathered does: it joins the queues, each in its order.
LEMMA GatheredJoins ==
  ASSUME queue \in Seq(Seq(Threads)), Apart, NEW B \in SUBSET DOMAIN queue
  PROVE  /\ Gathered(B) \in Seq(Threads)
         /\ Distinct(Gathered(B))
         /\ ToSet(Gathered(B)) = UNION {ToSet(queue[b]) : b \in B}
         /\ \A b \in B : \A i, j \in DOMAIN queue[b] : \A k, l \in DOMAIN Gathered(B) :
              Gathered(B)[k] = queue[b][i] /\ Gathered(B)[l] = queue[b][j] /\ k < l => i < j
<1> DEFINE row(b) == {b} \X DOMAIN queue[b]
           P == UNION {row(b) : b \in B}
           before == {p \in P \X P : \/ p[1][1] < p[2][1]
                                     \/ (p[1][1] = p[2][1] /\ p[1][2] < p[2][2])}
           order == Sorted(P, before)
           n == Cardinality(P)
           g == Gathered(B)
<1>0. /\ B \subseteq 1 .. Len(queue) /\ DOMAIN queue = 1 .. Len(queue) /\ Len(queue) \in Nat
      /\ \A b \in B : queue[b] \in Seq(Threads) /\ DOMAIN queue[b] = 1 .. Len(queue[b])
                      /\ Len(queue[b]) \in Nat
  OBVIOUS
<1>1. IsFiniteSet(P)
  <2>1. IsFiniteSet(B)
    <3>1. IsFiniteSet(1 .. Len(queue)) BY <1>0, FS_Interval
    <3> QED BY <1>0, <3>1, FS_Subset
  <2>2. \A b \in B : IsFiniteSet(row(b))
    <3> SUFFICES ASSUME NEW b \in B PROVE IsFiniteSet(row(b)) OBVIOUS
    <3>1. IsFiniteSet(1 .. Len(queue[b])) BY <1>0, FS_Interval
    <3>2. IsFiniteSet({b}) BY FS_Singleton
    <3>3. IsFiniteSet({b} \X (1 .. Len(queue[b]))) BY <3>1, <3>2, FS_Product
    <3> QED BY <3>3, <1>0
  <2> HIDE DEF row
  <2> DEFINE R == {row(b) : b \in B}
  <2>3. [b \in B |-> row(b)] \in Surjection(B, R) BY DEF Surjection
  <2>4. IsFiniteSet(R)
    <3> HIDE DEF R
    <3> QED BY <2>1, <2>3, FS_Surjection
  <2>5. \A T \in R : IsFiniteSet(T) BY <2>2
  <2>6. P = UNION R OBVIOUS
  <2> HIDE DEF R, P
  <2> QED BY <2>4, <2>5, <2>6, FS_UNION
<1>2. /\ \A p \in P : p[1] \in B /\ p[2] \in DOMAIN queue[p[1]] /\ p = <<p[1], p[2]>>
                      /\ p[1] \in Nat /\ p[2] \in Nat
      /\ \A b \in B : \A i \in DOMAIN queue[b] : <<b, i>> \in P
  <2>1. \A p \in P : p[1] \in B /\ p[2] \in DOMAIN queue[p[1]] /\ p = <<p[1], p[2]>> OBVIOUS
  <2>2. \A b \in B : \A i \in DOMAIN queue[b] : <<b, i>> \in P OBVIOUS
  <2>3. \A b \in B : b \in Nat /\ \A i \in DOMAIN queue[b] : i \in Nat BY <1>0
  <2> HIDE DEF P
  <2> QED BY <2>1, <2>2, <2>3
<1> HIDE DEF P
<1>3. IsOrder(P, before)
  <2>1. \A p, q \in P : p # q => p[1] # q[1] \/ p[2] # q[2] BY <1>2
  <2>2. \A p, q \in P : <<p, q>> \in before <=> \/ p[1] < q[1]
                                                \/ (p[1] = q[1] /\ p[2] < q[2])
    OBVIOUS
  <2> HIDE DEF before
  <2>3. \A p \in P : <<p, p>> \notin before
    <3> SUFFICES ASSUME NEW p \in P PROVE <<p, p>> \notin before OBVIOUS
    <3>1. p[1] \in Nat /\ p[2] \in Nat BY <1>2
    <3>2. ~(p[1] < p[1]) /\ ~(p[2] < p[2]) BY <3>1
    <3> QED BY <2>2, <3>2
  <2>4. ASSUME NEW p \in P, NEW q \in P, NEW r \in P, <<p, q>> \in before, <<q, r>> \in before
        PROVE  <<p, r>> \in before
    <3>1. \A a, b, c, i, j, k \in Nat : /\ a < b \/ (a = b /\ i < j)
                                        /\ b < c \/ (b = c /\ j < k)
                                        => a < c \/ (a = c /\ i < k)
      OBVIOUS
    <3>2. p[1] \in Nat /\ q[1] \in Nat /\ r[1] \in Nat /\ p[2] \in Nat /\ q[2] \in Nat /\ r[2] \in Nat
      BY <1>2
    <3>3. p[1] < q[1] \/ (p[1] = q[1] /\ p[2] < q[2]) BY <2>2, <2>4
    <3>4. q[1] < r[1] \/ (q[1] = r[1] /\ q[2] < r[2]) BY <2>2, <2>4
    <3>5. p[1] < r[1] \/ (p[1] = r[1] /\ p[2] < r[2]) BY <3>1, <3>2, <3>3, <3>4
    <3> QED BY <3>5, <2>2
  <2>5. ASSUME NEW p \in P, NEW q \in P, p # q PROVE <<p, q>> \in before \/ <<q, p>> \in before
    <3>1. \A a, b, i, j \in Nat : a # b \/ i # j =>
            a < b \/ (a = b /\ i < j) \/ b < a \/ (b = a /\ j < i)
      OBVIOUS
    <3>2. p[1] \in Nat /\ q[1] \in Nat /\ p[2] \in Nat /\ q[2] \in Nat BY <1>2
    <3>3. p[1] # q[1] \/ p[2] # q[2] BY <2>1, <2>5
    <3>4. p[1] < q[1] \/ (p[1] = q[1] /\ p[2] < q[2]) \/ q[1] < p[1] \/ (q[1] = p[1] /\ q[2] < p[2])
      BY <3>1, <3>2, <3>3
    <3> QED BY <3>4, <2>2
  <2> QED BY <2>3, <2>4, <2>5 DEF IsOrder
<1>4. /\ n \in Nat /\ order \in [1 .. n -> P]
      /\ \A x \in P : \E k \in 1 .. n : order[k] = x
      /\ \A k, l \in 1 .. n : k < l => <<order[k], order[l]>> \in before
  <2> HIDE DEF before
  <2> QED BY <1>1, <1>3, SortedLists
<1>5. g = [k \in 1 .. n |-> queue[order[k][1]][order[k][2]]]
  <2>1. DOMAIN order = 1 .. n BY <1>4
  <2>2. g = [k \in DOMAIN order |-> queue[order[k][1]][order[k][2]]] BY DEF Gathered, P
  <2> HIDE DEF g, order, n
  <2> QED BY <2>1, <2>2
<1>6. \A k, l \in 1 .. n : k < l => \/ order[k][1] < order[l][1]
                                    \/ (order[k][1] = order[l][1] /\ order[k][2] < order[l][2])
  <2> HIDE DEF order, n
  <2> QED BY <1>4
<1> HIDE DEF order, n, g, before
<1>7. \A k \in 1 .. n : /\ g[k] = queue[order[k][1]][order[k][2]]
                        /\ order[k][1] \in B /\ order[k][2] \in DOMAIN queue[order[k][1]]
                        /\ order[k][1] \in Nat /\ order[k][2] \in Nat
  BY <1>2, <1>4, <1>5
<1>8. g \in Seq(Threads) /\ DOMAIN g = 1 .. n
  <2>1. \A k \in 1 .. n : g[k] \in Threads BY <1>0, <1>7
  <2>2. g \in [1 .. n -> Threads] BY <2>1, <1>5
  <2> QED BY <2>2, <1>4
<1>d. \A b, c \in B : \A i \in DOMAIN queue[b] : \A j \in DOMAIN queue[c] :
         queue[b][i] = queue[c][j] => b = c /\ i = j
  BY DEF Apart
<1>9. Distinct(g)
  <2> SUFFICES ASSUME NEW k \in 1 .. n, NEW l \in 1 .. n, g[k] = g[l] PROVE k = l
    BY <1>8 DEF Distinct
  <2>1. order[k][1] = order[l][1] /\ order[k][2] = order[l][2]
    <3>1. queue[order[k][1]][order[k][2]] = queue[order[l][1]][order[l][2]] BY <1>7
    <3>2. /\ order[k][1] \in B /\ order[k][2] \in DOMAIN queue[order[k][1]]
          /\ order[l][1] \in B /\ order[l][2] \in DOMAIN queue[order[l][1]]
      BY <1>7
    <3> DEFINE b == order[k][1]
               c == order[l][1]
               i == order[k][2]
               j == order[l][2]
    <3> HIDE DEF b, c, i, j
    <3>3. b \in B /\ c \in B /\ i \in DOMAIN queue[b] /\ j \in DOMAIN queue[c]
          /\ queue[b][i] = queue[c][j]
      BY <3>1, <3>2 DEF b, c, i, j
    <3>4. b = c /\ i = j BY <3>3, <1>d
    <3> QED BY <3>4 DEF b, c, i, j
  <2>2. order[k][1] \in Nat /\ order[k][2] \in Nat BY <1>7
  <2>3. ~(k < l) BY <2>1, <2>2, <1>6
  <2>4. ~(l < k) BY <2>1, <2>2, <1>6
  <2> QED BY <2>3, <2>4, <1>4
<1>10. ToSet(g) = UNION {ToSet(queue[b]) : b \in B}
  <2>1. ASSUME NEW k \in 1 .. n PROVE \E b \in B : g[k] \in ToSet(queue[b])
    BY <1>7 DEF ToSet
  <2>2. ASSUME NEW b \in B, NEW i \in DOMAIN queue[b] PROVE \E k \in 1 .. n : g[k] = queue[b][i]
    <3>1. PICK k \in 1 .. n : order[k] = <<b, i>> BY <1>2, <1>4
    <3> QED BY <3>1, <1>7
  <2>3. ToSet(g) = {g[k] : k \in 1 .. n} BY <1>8 DEF ToSet
  <2>4. \A u \in ToSet(g) : \E b \in B : u \in ToSet(queue[b]) BY <2>1, <2>3
  <2>5. \A b \in B : \A u \in ToSet(queue[b]) : u \in ToSet(g)
    <3> SUFFICES ASSUME NEW b \in B, NEW u \in ToSet(queue[b]) PROVE u \in ToSet(g) OBVIOUS
    <3>1. PICK i \in DOMAIN queue[b] : u = queue[b][i] BY DEF ToSet
    <3>2. PICK k \in 1 .. n : g[k] = queue[b][i] BY <2>2
    <3> QED BY <2>3, <3>1, <3>2
  <2> QED BY <2>4, <2>5
<1>11. ASSUME NEW b \in B, NEW i \in DOMAIN queue[b], NEW j \in DOMAIN queue[b],
              NEW k \in 1 .. n, NEW l \in 1 .. n, g[k] = queue[b][i], g[l] = queue[b][j], k < l
       PROVE  i < j
  <2>0. ASSUME NEW m \in 1 .. n, NEW h \in DOMAIN queue[b], g[m] = queue[b][h]
        PROVE  order[m][1] = b /\ order[m][2] = h
    <3> DEFINE c == order[m][1]
               e == order[m][2]
    <3>1. c \in B /\ e \in DOMAIN queue[c] /\ g[m] = queue[c][e] BY <1>7
    <3> HIDE DEF c, e
    <3>e. queue[c][e] = queue[b][h] BY <3>1, <2>0
    <3>2. c = b /\ e = h BY <3>1, <3>e, <1>d
    <3> QED BY <3>2 DEF c, e
  <2>1. order[k][1] = b /\ order[k][2] = i BY <2>0, <1>11
  <2>2. order[l][1] = b /\ order[l][2] = j BY <2>0, <1>11
  <2>3. b \in Nat BY <1>0
  <2>4. order[k][1] < order[l][1] \/ (order[k][1] = order[l][1] /\ order[k][2] < order[l][2])
    BY <1>6, <1>11
  <2> QED BY <2>1, <2>2, <2>3, <2>4
<1> QED BY <1>8, <1>9, <1>10, <1>11 DEF g
-----------------------------------------------------------------------------
(* The invariant *)

\* The values of the variables.
Requests == ParkCalls \cup UnparkCalls \cup {ForEach}
Leaving  == [op : {"leave"}, address : Addresses, timed : BOOLEAN]
Labels   == {"idle", "newThread", "size", "collect", "lockAll", "table", "bucket", "lock", "check",
             "asleep", "settle", "didDequeue", "unpark", "signal", "return"}
Unparks  == {"unparkOne", "unparkCount"}
Tables   == UNION {[0 .. n - 1 -> Nat] : n \in Nat \ {0}}
Answers  == ParkAnswers \cup UnparkAnswers \cup {NoAnswer}

\* The types of the variables.
TypeOK ==
  /\ tables \in Seq(Tables) /\ queue \in Seq(Seq(Threads)) /\ holder \in Seq(Threads \cup {NoThread})
  /\ number \in [Threads -> Nat]
  /\ address \in [Threads -> Addresses \cup {NoAddress}] /\ token \in [Threads -> Threads \cup {NoToken}]
  /\ pc \in [Threads -> Labels]
  /\ calls \in [Threads -> Seq(SUBSET Requests)]
  /\ call \in [Threads -> Requests \cup Leaving \cup {NoCall}]
  /\ spine \in [Threads -> Nat] /\ bucket \in [Threads -> Nat]
  /\ threadDatas \in [Threads -> Seq(Threads)]
  /\ answer \in [Threads -> Answers]

\* What the tables name are buckets.  All but the last are full, as is the one all of
\* whose buckets a thread is about to lock: an empty slot is one of the current table.
Named ==
  /\ \A k \in DOMAIN tables : \A i \in DOMAIN tables[k] : tables[k][i] \in 0 .. Len(queue)
  /\ tables = <<>> => queue = <<>>
IsFull(table) == \A i \in DOMAIN table : table[i] # null
Full ==
  /\ \A k \in 1 .. Len(tables) - 1 : IsFull(tables[k])
  /\ \A t \in Threads : pc[t] = "lockAll" => spine[t] \in DOMAIN tables /\ IsFull(tables[spine[t]])

\* The threads that have ThreadData are counted.
Counted == LET counted == {t \in Threads : number[t] # 0}
           IN  IsFiniteSet(counted) /\ numThreads = Cardinality(counted)

\* Which calls get where, and what a thread has with it there.
Way(t) ==
  /\ pc[t] = "idle" <=> call[t].op = "none"
  /\ pc[t] \in {"newThread", "size", "check"} => call[t].op = "park"
  /\ pc[t] \in {"collect", "lockAll"} => call[t].op \in {"park", "forEach"}
  /\ pc[t] \in {"table", "bucket", "lock"} => call[t].op \in {"park", "leave"} \cup Unparks
  /\ pc[t] = "asleep" => call[t].op \in {"park", "leave"}
  /\ pc[t] \in {"settle", "didDequeue"} => call[t].op = "leave"
  /\ pc[t] \in {"unpark", "signal"} => call[t].op \in Unparks
  /\ call[t].op = "park" => (pc[t] = "newThread" <=> number[t] = 0)
  /\ pc[t] \in {"lockAll", "bucket", "lock"} => spine[t] \in DOMAIN tables
  /\ pc[t] = "lock" => bucket[t] \in DOMAIN queue /\ found_(t) = bucket[t]
  /\ pc[t] \notin {"unpark", "signal"} => threadDatas[t] = <<>>
  /\ pc[t] = "signal" => threadDatas[t] # <<>>
Ways == \A t \in Threads : Way(t)

\* A thread waits on the address it was called with, and what it has found out about
\* the queues stays so.
Mine == \A t \in Threads : Parking(t) /\ address[t] # NoAddress => address[t] = call[t].address
Left ==
  /\ \A t \in Threads : pc[t] = "settle" \/ (pc[t] = "asleep" /\ call[t].op = "leave") => ~Queued(t)
  /\ \A t \in Threads : pc[t] = "didDequeue" => ~Queued(t) /\ \A u \in Threads : t \notin Taken(u)

\* Where the threads begin that an unparker has taken and not cleared.
From(t) == IF pc[t] = "signal" THEN 2 ELSE 1
\* No thread is dequeued by two unparkers, or twice by one.
TakenOnce ==
  \A t, u \in Threads : \A i \in From(t) .. Len(threadDatas[t]) : \A j \in From(u) .. Len(threadDatas[u]) :
    threadDatas[t][i] = threadDatas[u][j] => t = u /\ i = j

IInv == TypeOK /\ Named /\ Full /\ Counted /\ Ways /\ QueuesAreWhole /\ Mine /\ Left /\ TakenThreadsStay /\ TakenOnce
-----------------------------------------------------------------------------
(* Tables, calls and queues *)

\* A table has slots 0 .. size - 1, one for every address.
LEMMA TableIs ==
  ASSUME NEW f \in Tables
  PROVE  /\ size(f) \in Nat \ {0} /\ DOMAIN f = 0 .. size(f) - 1 /\ f \in [DOMAIN f -> Nat]
         /\ \A a \in Addresses : index(a, f) \in DOMAIN f
<1>1. PICK n \in Nat \ {0} : f \in [0 .. n - 1 -> Nat] BY DEF Tables
<1>2. Cardinality(0 .. n - 1) = n BY FS_Interval, 0 \in Int, n - 1 \in Int
<1>3. DOMAIN f = 0 .. n - 1 /\ size(f) = n BY <1>1, <1>2 DEF size
<1>4. \A h \in Nat : h % n \in 0 .. n - 1 OBVIOUS
<1> QED BY <1>1, <1>3, <1>4, ParkingLotConstants DEF index

\* Filling slots makes a table of the same size.
LEMMA SameShape ==
  ASSUME NEW f \in Tables, NEW g, g \in [DOMAIN f -> Nat]
  PROVE  g \in Tables /\ DOMAIN g = DOMAIN f /\ \A a \in Addresses : index(a, g) = index(a, f)
<1>1. PICK n \in Nat \ {0} : f \in [0 .. n - 1 -> Nat] BY DEF Tables
<1>2. DOMAIN g = DOMAIN f /\ g \in [0 .. n - 1 -> Nat] BY <1>1
<1> QED BY <1>2 DEF Tables, index, size

\* An empty table is a table.
LEMMA EmptyIsTable == ASSUME NEW n \in Nat \ {0} PROVE EmptyTable(n) \in Tables
<1>1. EmptyTable(n) \in [0 .. n - 1 -> Nat] BY DEF EmptyTable, null
<1> QED BY <1>1 DEF Tables

\* What calls there are.
LEMMA CallIs ==
  ASSUME NEW c \in Requests \cup Leaving \cup {NoCall}
  PROVE  /\ c.op \in {"park", "leave", "forEach", "none"} \cup Unparks
         /\ c.op \in {"park", "leave"} \cup Unparks => c.address \in Addresses
         /\ c.op \in {"park", "leave"} => c.timed \in BOOLEAN
         /\ c.op \in Unparks => c.count \in Nat \ {0}
         /\ c.op = "unparkOne" => c.count = 1 /\ c.token \in {NoToken} \cup Threads
         /\ c.op = "none" => c = NoCall
         /\ c.op = "park" => /\ [c EXCEPT !.op = "leave"] \in Leaving
                             /\ [c EXCEPT !.op = "leave"].op = "leave"
                             /\ [c EXCEPT !.op = "leave"].address = c.address
         /\ c.op \notin {"leave", "none"} => c \in Requests
BY DEF Requests, ParkCalls, UnparkCalls, ForEach, Leaving, NoCall, Unparks

\* What the invariant says of a thread in a queue.
LEMMA InQueue ==
  ASSUME TypeOK, Named, QueuesAreWhole, NEW b \in DOMAIN queue, NEW i \in DOMAIN queue[b]
  PROVE  /\ queue[b][i] \in Threads /\ Queued(queue[b][i]) /\ Parking(queue[b][i])
         /\ address[queue[b][i]] \in Addresses
         /\ tables # <<>> /\ Last(tables) \in Tables
         /\ b = Last(tables)[index(address[queue[b][i]], Last(tables))] /\ b # null
<1>1. queue[b] \in Seq(Threads) BY DEF TypeOK
<1>2. queue[b][i] \in Threads /\ i \in 1 .. Len(queue[b]) BY <1>1
<1>3. Queued(queue[b][i]) BY <1>2 DEF Queued, Contains
<1>4. tables # <<>> BY DEF Named
<1>5. Last(tables) \in Tables BY <1>4 DEF TypeOK, Last
<1>6. b # null BY DEF null, TypeOK
<1> QED BY <1>2, <1>3, <1>4, <1>5, <1>6 DEF QueuesAreWhole

\* A thread is queued where it is found.
LEMMA IsQueued ==
  ASSUME TypeOK, NEW u
  PROVE  Queued(u) <=> \E b \in DOMAIN queue : \E i \in DOMAIN queue[b] : queue[b][i] = u
<1>1. \A b \in DOMAIN queue : DOMAIN queue[b] = 1 .. Len(queue[b]) BY DEF TypeOK
<1> QED BY <1>1 DEF Queued, Contains

\* The queues have no thread twice.
LEMMA QueuesAreApart == ASSUME TypeOK, Named, QueuesAreWhole PROVE Apart
<1> SUFFICES ASSUME NEW b \in DOMAIN queue, NEW c \in DOMAIN queue, NEW i \in DOMAIN queue[b],
                    NEW j \in DOMAIN queue[c], queue[b][i] = queue[c][j]
             PROVE  b = c /\ i = j
  BY DEF Apart
<1>1. b = c BY InQueue
<1>2. DOMAIN queue[b] = 1 .. Len(queue[b]) /\ Len(queue[b]) \in Nat BY DEF TypeOK
<1>3. \A k, l \in 1 .. Len(queue[b]) : l \in 1 .. k - 1 => queue[b][k] # queue[b][l]
  BY DEF QueuesAreWhole
<1>4. i \in 1 .. Len(queue[b]) /\ j \in 1 .. Len(queue[b]) BY <1>1, <1>2
<1>5. ~(j < i) /\ ~(i < j) BY <1>1, <1>2, <1>3, <1>4
<1> QED BY <1>1, <1>4, <1>5, <1>2

\* Each thread is once in the queue where the table sends those who look for its address.
Placed(q, table, where) ==
  \A b \in DOMAIN q : /\ Distinct(q[b])
                      /\ \A u \in ToSet(q[b]) : where[u] \in Addresses /\ table[index(where[u], table)] = b

\* The same, said of places in the sequences as QueuesAreWhole says it.
LEMMA PlacedIs ==
  ASSUME NEW q \in Seq(Seq(Threads)), NEW table, NEW where
  PROVE  /\ Placed(q, table, where) <=>
              \A b \in DOMAIN q : \A i \in 1 .. Len(q[b]) :
                 /\ where[q[b][i]] \in Addresses
                 /\ table[index(where[q[b][i]], table)] = b
                 /\ \A j \in 1 .. i - 1 : q[b][i] # q[b][j]
         /\ \A u : (\E b \in DOMAIN q : Contains(q[b], u)) <=> \E b \in DOMAIN q : u \in ToSet(q[b])
<1>1. \A b \in DOMAIN q : /\ DOMAIN q[b] = 1 .. Len(q[b]) /\ Len(q[b]) \in Nat
                          /\ ToSet(q[b]) = {q[b][i] : i \in 1 .. Len(q[b])}
  BY DEF ToSet
<1>2. ASSUME NEW b \in DOMAIN q
      PROVE  Distinct(q[b]) <=> \A i \in 1 .. Len(q[b]) : \A j \in 1 .. i - 1 : q[b][i] # q[b][j]
  <2> DEFINE s == q[b]
             n == Len(q[b])
  <2>1. DOMAIN s = 1 .. n /\ n \in Nat BY <1>1
  <2> HIDE DEF s, n
  <2>2. ASSUME Distinct(s), NEW i \in 1 .. n, NEW j \in 1 .. i - 1 PROVE s[i] # s[j]
    <3>1. j \in 1 .. n /\ i # j BY <2>1
    <3> QED BY <3>1, <2>1, <2>2 DEF Distinct
  <2>3. ASSUME \A i \in 1 .. n : \A j \in 1 .. i - 1 : s[i] # s[j],
               NEW i \in 1 .. n, NEW j \in 1 .. n, s[i] = s[j]
        PROVE  i = j
    <3>1. ~(j < i) /\ ~(i < j) BY <2>3, <2>1
    <3> QED BY <3>1, <2>1
  <2>4. Distinct(s) <=> \A i \in 1 .. n : \A j \in 1 .. i - 1 : s[i] # s[j]
    BY <2>1, <2>2, <2>3 DEF Distinct
  <2> QED BY <2>4 DEF s, n
<1>3. \A b \in DOMAIN q :
        (\A u \in ToSet(q[b]) : where[u] \in Addresses /\ table[index(where[u], table)] = b)
        <=> \A i \in 1 .. Len(q[b]) : where[q[b][i]] \in Addresses /\ table[index(where[q[b][i]], table)] = b
  <2> SUFFICES ASSUME NEW b \in DOMAIN q
               PROVE  (\A u \in ToSet(q[b]) : where[u] \in Addresses /\ table[index(where[u], table)] = b)
                      <=> \A i \in 1 .. Len(q[b]) :
                            where[q[b][i]] \in Addresses /\ table[index(where[q[b][i]], table)] = b
    OBVIOUS
  <2> DEFINE Good(u) == where[u] \in Addresses /\ table[index(where[u], table)] = b
             s == q[b]
  <2>1. ToSet(s) = {s[i] : i \in 1 .. Len(s)} BY <1>1
  <2> HIDE DEF Good, s
  <2>2. (\A u \in ToSet(s) : Good(u)) <=> \A i \in 1 .. Len(s) : Good(s[i]) BY <2>1
  <2> QED BY <2>2 DEF Good, s
<1>4. \A b \in DOMAIN q : \A u : Contains(q[b], u) <=> u \in ToSet(q[b]) BY <1>1 DEF Contains
<1> QED BY <1>2, <1>3, <1>4 DEF Placed

\* Whole queues place every thread.
LEMMA IsPlaced ==
  ASSUME TypeOK, QueuesAreWhole
  PROVE  /\ Placed(queue, Last(tables), address)
         /\ \A u : Queued(u) <=> \E b \in DOMAIN queue : u \in ToSet(queue[b])
<1>1. queue \in Seq(Seq(Threads)) BY DEF TypeOK
<1> QED BY <1>1, PlacedIs DEF QueuesAreWhole, Queued

\* What a step has to show for the queues to be whole after it.
LEMMA WholeFollows ==
  ASSUME TypeOK', Placed(queue', Last(tables'), address'),
         \A u \in Threads : Queued(u)' => Parking(u)',
         \A u \in Threads : IF Parking(u)'
           THEN address'[u] = NoAddress \/ Queued(u)' \/ pc'[u] = "didDequeue" \/ \E v \in Threads : u \in Taken(v)'
           ELSE address'[u] = NoAddress
  PROVE  QueuesAreWhole'
<1>1. queue' \in Seq(Seq(Threads)) BY DEF TypeOK
<1>2. \A b \in DOMAIN queue' : \A i \in 1 .. Len(queue'[b]) :
         /\ address'[queue'[b][i]] \in Addresses
         /\ Last(tables')[index(address'[queue'[b][i]], Last(tables'))] = b
         /\ \A j \in 1 .. i - 1 : queue'[b][i] # queue'[b][j]
  <2> DEFINE q == queue'
             f == Last(tables')
             w == address'
  <2>1. q \in Seq(Seq(Threads)) /\ Placed(q, f, w) BY <1>1
  <2> HIDE DEF q, f, w
  <2>2. \A b \in DOMAIN q : \A i \in 1 .. Len(q[b]) :
           /\ w[q[b][i]] \in Addresses
           /\ f[index(w[q[b][i]], f)] = b
           /\ \A j \in 1 .. i - 1 : q[b][i] # q[b][j]
    BY <2>1, PlacedIs
  <2> QED BY <2>2 DEF q, f, w
<1> QED BY <1>2 DEF QueuesAreWhole
-----------------------------------------------------------------------------
(* Steps that only fill slots with new buckets *)

\* Empty slots may be filled, with buckets whose queues are empty.
Grown ==
  /\ tables' \in Seq(Tables) /\ queue' \in Seq(Seq(Threads)) /\ Named'
  /\ IF tables = <<>> THEN Len(tables') <= 1 ELSE Len(tables') = Len(tables)
  /\ \A k \in DOMAIN tables : /\ k \in DOMAIN tables' /\ DOMAIN tables'[k] = DOMAIN tables[k]
                              /\ \A a \in Addresses : index(a, tables'[k]) = index(a, tables[k])
                              /\ \A i \in DOMAIN tables[k] : tables[k][i] # null => tables'[k][i] = tables[k][i]
  /\ \A b \in DOMAIN queue : b \in DOMAIN queue' /\ queue'[b] = queue[b]
  /\ \A b \in DOMAIN queue' : b \notin DOMAIN queue => queue'[b] = <<>>

\* So does a step that leaves tables and queues alone.
LEMMA StutterGrows == ASSUME TypeOK, Named, UNCHANGED <<tables, queue>> PROVE Grown
BY DEF TypeOK, Named, Grown, index, size

\* With the first table, if there is none.
LEMMA EnsuredIs ==
  ASSUME TypeOK, Named
  PROVE  /\ ensured \in Seq(Tables) /\ ensured # <<>> /\ Len(ensured) \in Nat \ {0}
         /\ IF tables = <<>> THEN Len(ensured) = 1 ELSE ensured = tables
         /\ \A k \in DOMAIN tables : k \in DOMAIN ensured /\ ensured[k] = tables[k]
         /\ \A k \in DOMAIN ensured : \A i \in DOMAIN ensured[k] : ensured[k][i] \in 0 .. Len(queue)
<1>1. CASE tables = <<>>
  <2>1. ensured = <<EmptyTable(maxLoadFactor)>> /\ EmptyTable(maxLoadFactor) \in Tables
    BY <1>1, EmptyIsTable, ParkingLotConstants DEF ensured
  <2>2. \A i \in DOMAIN EmptyTable(maxLoadFactor) : EmptyTable(maxLoadFactor)[i] = 0
    BY DEF EmptyTable, null
  <2>3. Len(queue) \in Nat BY DEF TypeOK
  <2> HIDE DEF null
  <2> QED BY <1>1, <2>1, <2>2, <2>3
<1>2. CASE tables # <<>>
  BY <1>2 DEF ensured, TypeOK, Named
<1> QED BY <1>1, <1>2

\* FindTable may make the first table.
LEMMA FindTableGrows ==
  ASSUME TypeOK, Named, NEW t \in Threads, FindTable(t)
  PROVE  Grown
<1>1. tables' = ensured /\ queue' = queue BY DEF FindTable
<1>2. queue \in Seq(Seq(Threads)) BY DEF TypeOK
<1> QED BY <1>1, <1>2, EnsuredIs DEF Grown, Named, index, size

\* Collect leaves a table without empty slots.
LEMMA CollectGrows ==
  ASSUME TypeOK, Named, NEW t \in Threads, Collect(t)
  PROVE  Grown /\ Len(ensured) = Len(tables') /\ Len(ensured) \in DOMAIN tables'
         /\ \A i \in DOMAIN tables'[Len(ensured)] : tables'[Len(ensured)][i] # null
<1> DEFINE m == Len(ensured)
           table == Last(ensured)
           empty == {i \in DOMAIN table : table[i] = null}
           place(i) == Cardinality({j \in empty : j >= i})
           full == [i \in DOMAIN table |-> IF i \in empty THEN Len(queue) + place(i) ELSE table[i]]
           n == Cardinality(empty)
<1>1. /\ tables' = [ensured EXCEPT ![m] = full]
      /\ queue' = queue \o [i \in 1 .. n |-> <<>>]
  BY DEF Collect
<1>2. table = ensured[m] /\ m \in DOMAIN ensured /\ table \in Tables /\ m \in Nat \ {0}
      /\ Len(queue) \in Nat /\ queue \in Seq(Seq(Threads))
  <2>1. ensured \in Seq(Tables) /\ m \in Nat \ {0} BY EnsuredIs
  <2>2. table = ensured[m] BY DEF Last
  <2>3. queue \in Seq(Seq(Threads)) BY DEF TypeOK
  <2> QED BY <2>1, <2>2, <2>3
<1>3. \A i \in DOMAIN table : table[i] \in 0 .. Len(queue) BY <1>2, EnsuredIs
<1>4. IsFiniteSet(empty) /\ n \in Nat
  <2>1. DOMAIN table = 0 .. size(table) - 1 /\ size(table) \in Nat \ {0} BY <1>2, TableIs
  <2>2. IsFiniteSet(DOMAIN table) BY <2>1, FS_Interval, 0 \in Int, size(table) - 1 \in Int
  <2>3. empty \in SUBSET DOMAIN table OBVIOUS
  <2> HIDE DEF empty
  <2> QED BY <2>2, <2>3, FS_Subset, FS_CardinalityType
<1>5. \A i \in empty : place(i) \in 1 .. n
  <2> SUFFICES ASSUME NEW i \in empty PROVE place(i) \in 1 .. n OBVIOUS
  <2> DEFINE above == {j \in empty : j >= i}
  <2>1. i \in Int
    <3>1. DOMAIN table = 0 .. size(table) - 1 /\ size(table) \in Nat \ {0} BY <1>2, TableIs
    <3> QED BY <3>1
  <2>2. above \in SUBSET empty /\ i \in above BY <2>1
  <2> HIDE DEF empty, above
  <2>3. IsFiniteSet(above) /\ Cardinality(above) <= n /\ Cardinality(above) \in Nat
    BY <1>4, <2>2, FS_Subset, FS_CardinalityType
  <2>4. Cardinality(above) # 0 BY <2>2, <2>3, FS_EmptySet
  <2>5. Cardinality(above) \in 1 .. n BY <1>4, <2>3, <2>4
  <2> QED BY <2>5 DEF above
<1>6. /\ full \in [DOMAIN table -> 1 .. Len(queue) + n]
      /\ \A i \in DOMAIN table : table[i] # null => full[i] = table[i]
  <2>1. ASSUME NEW i \in DOMAIN table, i \in empty PROVE Len(queue) + place(i) \in 1 .. Len(queue) + n
    <3> HIDE DEF place, empty, n
    <3> QED BY <1>2, <1>4, <1>5, <2>1
  <2>2. ASSUME NEW i \in DOMAIN table, i \notin empty
        PROVE  table[i] \in 1 .. Len(queue) + n
    <3>1. table[i] # 0 BY <2>2 DEF null
    <3> HIDE DEF empty, n
    <3> QED BY <1>2, <1>3, <1>4, <3>1
  <2>3. \A i \in DOMAIN table : table[i] # null => i \notin empty OBVIOUS
  <2> HIDE DEF empty, place, n
  <2> QED BY <2>1, <2>2, <2>3
<1> HIDE DEF full, empty, place, n, table
<1>7. full \in Tables /\ DOMAIN full = DOMAIN table /\ \A a \in Addresses : index(a, full) = index(a, table)
  <2>1. full \in [DOMAIN table -> Nat] BY <1>2, <1>4, <1>6
  <2> QED BY <1>2, <2>1, SameShape
<1>8. /\ queue' \in Seq(Seq(Threads)) /\ Len(queue') = Len(queue) + n
      /\ \A b \in DOMAIN queue : b \in DOMAIN queue' /\ queue'[b] = queue[b]
      /\ \A b \in DOMAIN queue' : b \notin DOMAIN queue => queue'[b] = <<>>
  <2> DEFINE more == [i \in 1 .. n |-> <<>>]
  <2>1. more \in Seq(Seq(Threads)) /\ Len(more) = n /\ \A i \in 1 .. n : more[i] = <<>>
    BY <1>4
  <2>2. queue' = queue \o more BY <1>1
  <2> HIDE DEF more
  <2>3. queue' \in Seq(Seq(Threads)) /\ Len(queue') = Len(queue) + n
    <3> DEFINE Q == Seq(Threads)
    <3>1. queue \in Seq(Q) /\ more \in Seq(Q) BY <1>2, <2>1
    <3>2. Len(more) = n BY <2>1
    <3> HIDE DEF Q
    <3>3. queue \o more \in Seq(Q) BY <3>1
    <3>4. Len(queue \o more) = Len(queue) + n BY <3>1, <3>2
    <3> QED BY <2>2, <3>3, <3>4 DEF Q
  <2>4. DOMAIN queue = 1 .. Len(queue) /\ DOMAIN queue' = 1 .. Len(queue) + n BY <1>2, <2>3
  <2>5. \A b \in 1 .. Len(queue) : queue'[b] = queue[b] BY <1>2, <1>4, <2>1, <2>2
  <2>6. \A b \in 1 .. Len(queue) + n : b \notin 1 .. Len(queue) => queue'[b] = <<>>
    <3> SUFFICES ASSUME NEW b \in 1 .. Len(queue) + n, b \notin 1 .. Len(queue)
                 PROVE  queue'[b] = <<>>
      OBVIOUS
    <3>1. b - Len(queue) \in 1 .. n BY <1>2, <1>4
    <3>2. queue'[b] = more[b - Len(queue)] BY <1>2, <1>4, <2>1, <2>2, <3>1
    <3> QED BY <2>1, <3>1, <3>2
  <2> QED BY <1>2, <1>4, <2>3, <2>4, <2>5, <2>6
<1>9. tables' \in Seq(Tables) /\ Len(tables') = m /\ DOMAIN tables' = DOMAIN ensured
      /\ tables'[m] = full /\ \A k \in DOMAIN ensured : k # m => tables'[k] = ensured[k]
  BY <1>1, <1>2, <1>7, EnsuredIs
<1>10. Named'
  <2>1. \A k \in DOMAIN tables' : \A i \in DOMAIN tables'[k] : tables'[k][i] \in 0 .. Len(queue')
    BY <1>2, <1>4, <1>6, <1>7, <1>8, <1>9, EnsuredIs
  <2>2. tables' # <<>> BY <1>2, <1>9
  <2> QED BY <2>1, <2>2 DEF Named
<1>11. \A k \in DOMAIN tables :
         /\ k \in DOMAIN tables' /\ DOMAIN tables'[k] = DOMAIN tables[k]
         /\ \A a \in Addresses : index(a, tables'[k]) = index(a, tables[k])
         /\ \A i \in DOMAIN tables[k] : tables[k][i] # null => tables'[k][i] = tables[k][i]
  <2> SUFFICES ASSUME NEW k \in DOMAIN tables
               PROVE  /\ k \in DOMAIN tables' /\ DOMAIN tables'[k] = DOMAIN tables[k]
                      /\ \A a \in Addresses : index(a, tables'[k]) = index(a, tables[k])
                      /\ \A i \in DOMAIN tables[k] : tables[k][i] # null => tables'[k][i] = tables[k][i]
    OBVIOUS
  <2>1. k \in DOMAIN ensured /\ ensured[k] = tables[k] BY EnsuredIs
  <2>2. CASE k = m BY <2>1, <2>2, <1>2, <1>6, <1>7, <1>9
  <2>3. CASE k # m BY <2>1, <2>3, <1>9
  <2> QED BY <2>2, <2>3
<1>12. IF tables = <<>> THEN Len(tables') <= 1 ELSE Len(tables') = Len(tables)
  BY <1>9, EnsuredIs
<1>13. Grown BY <1>8, <1>9, <1>10, <1>11, <1>12 DEF Grown
<1>14. \A i \in DOMAIN full : full[i] # null BY <1>2, <1>4, <1>6, <1>7 DEF null
<1> QED BY <1>2, <1>9, <1>13, <1>14

\* FindBucket fills the slot that its call hashes to, where it was empty.
LEMMA FindBucketGrows ==
  ASSUME TypeOK, Named, Ways, NEW t \in Threads, FindBucket(t)
  PROVE  /\ Grown
         /\ bucket'[t] \in DOMAIN queue' /\ slot(t) \in DOMAIN tables[spine[t]]
         /\ tables'[spine[t]][slot(t)] = bucket'[t]
<1> DEFINE f == tables[spine[t]]
           n == Len(queue) + 1
<1>1. /\ spine[t] \in DOMAIN tables /\ f \in Tables /\ call[t].address \in Addresses
      /\ slot(t) \in DOMAIN f /\ queue \in Seq(Seq(Threads)) /\ Len(queue) \in Nat
      /\ tables \in Seq(Tables) /\ bucket \in [Threads -> Nat]
  <2>1. call[t].op \in {"park", "leave"} \cup Unparks /\ spine[t] \in DOMAIN tables
    BY DEF FindBucket, Ways, Way
  <2>2. call[t].address \in Addresses
    <3>1. call[t] \in Requests \cup Leaving \cup {NoCall} BY DEF TypeOK
    <3> QED BY <2>1, <3>1, CallIs
  <2>3. f \in Tables BY <2>1 DEF TypeOK
  <2>4. slot(t) \in DOMAIN f BY <2>2, <2>3, TableIs DEF slot
  <2> QED BY <2>1, <2>2, <2>3, <2>4 DEF TypeOK
<1>2. CASE found_(t) # null
  <2>1. UNCHANGED <<tables, queue>> /\ bucket'[t] = found_(t)
    BY <1>1, <1>2 DEF FindBucket, lot
  <2>2. found_(t) \in 1 .. Len(queue)
    <3>1. found_(t) \in 0 .. Len(queue) BY <1>1 DEF Named, found_
    <3> QED BY <3>1, <1>2, <1>1 DEF null
  <2> QED BY <1>1, <2>1, <2>2, StutterGrows DEF found_
<1>3. CASE found_(t) = null
  <2> DEFINE g == [f EXCEPT ![slot(t)] = n]
  <2>1. queue' = Append(queue, <<>>) /\ tables' = [tables EXCEPT ![spine[t]] = g]
        /\ bucket'[t] = n
    <3>1. Len(queue') = n /\ queue' = Append(queue, <<>>) BY <1>1, <1>3 DEF FindBucket
    <3> QED BY <1>1, <1>3, <3>1 DEF FindBucket
  <2>2. g \in [DOMAIN f -> Nat] /\ g[slot(t)] = n /\ \A i \in DOMAIN f : i # slot(t) => g[i] = f[i]
    <3>1. f \in [DOMAIN f -> Nat] BY <1>1, TableIs
    <3> QED BY <3>1, <1>1
  <2>3. g \in Tables /\ DOMAIN g = DOMAIN f /\ \A a \in Addresses : index(a, g) = index(a, f)
    BY <1>1, <2>2, SameShape
  <2>4. f[slot(t)] = null BY <1>3 DEF found_
  <2> HIDE DEF g
  <2>5. /\ queue' \in Seq(Seq(Threads)) /\ Len(queue') = n /\ n \in DOMAIN queue'
        /\ \A b \in DOMAIN queue : b \in DOMAIN queue' /\ queue'[b] = queue[b]
        /\ \A b \in DOMAIN queue' : b \notin DOMAIN queue => queue'[b] = <<>>
    <3>1. <<>> \in Seq(Threads) OBVIOUS
    <3> QED BY <1>1, <2>1, <3>1
  <2>6. tables' \in Seq(Tables) /\ Len(tables') = Len(tables) /\ DOMAIN tables' = DOMAIN tables
        /\ tables'[spine[t]] = g /\ \A k \in DOMAIN tables : k # spine[t] => tables'[k] = tables[k]
    BY <1>1, <2>1, <2>3
  <2>7. Named'
    <3>1. \A k \in DOMAIN tables : \A i \in DOMAIN tables[k] : tables[k][i] \in 0 .. Len(queue)
      BY DEF Named
    <3>2. ASSUME NEW k \in DOMAIN tables', NEW i \in DOMAIN tables'[k]
          PROVE  tables'[k][i] \in 0 .. Len(queue')
      <4>1. CASE k # spine[t] BY <4>1, <3>1, <3>2, <2>5, <2>6, <1>1
      <4>2. CASE k = spine[t] /\ i # slot(t)
        BY <4>2, <3>1, <3>2, <2>2, <2>3, <2>5, <2>6, <1>1
      <4>3. CASE k = spine[t] /\ i = slot(t) BY <4>3, <2>2, <2>5, <2>6, <1>1
      <4> QED BY <4>1, <4>2, <4>3
    <3>3. tables' # <<>> BY <1>1, <2>6
    <3> QED BY <3>2, <3>3 DEF Named
  <2>8. tables # <<>> BY <1>1
  <2>9. \A k \in DOMAIN tables :
          /\ k \in DOMAIN tables' /\ DOMAIN tables'[k] = DOMAIN tables[k]
          /\ \A a \in Addresses : index(a, tables'[k]) = index(a, tables[k])
          /\ \A i \in DOMAIN tables[k] : tables[k][i] # null => tables'[k][i] = tables[k][i]
    <3> SUFFICES ASSUME NEW k \in DOMAIN tables
                 PROVE  /\ k \in DOMAIN tables' /\ DOMAIN tables'[k] = DOMAIN tables[k]
                        /\ \A a \in Addresses : index(a, tables'[k]) = index(a, tables[k])
                        /\ \A i \in DOMAIN tables[k] : tables[k][i] # null => tables'[k][i] = tables[k][i]
      OBVIOUS
    <3>1. CASE k = spine[t] BY <3>1, <2>2, <2>3, <2>4, <2>6
    <3>2. CASE k # spine[t] BY <3>2, <2>6
    <3> QED BY <3>1, <3>2
  <2>10. Grown BY <2>5, <2>6, <2>7, <2>8, <2>9 DEF Grown
  <2> QED BY <1>1, <2>1, <2>2, <2>5, <2>6, <2>10
<1> QED BY <1>2, <1>3
-----------------------------------------------------------------------------
(* What a step leaves alone *)

\* What has been found stays where it is.
Preserved ==
  /\ \A k \in DOMAIN tables : /\ k \in DOMAIN tables' /\ DOMAIN tables'[k] = DOMAIN tables[k]
                              /\ \A a \in Addresses : index(a, tables'[k]) = index(a, tables[k])
                              /\ \A i \in DOMAIN tables[k] : tables[k][i] # null => tables'[k][i] = tables[k][i]
  /\ \A b \in DOMAIN queue : b \in DOMAIN queue'

\* Filling slots preserves what has been found.
LEMMA GrownPreserves == ASSUME Grown PROVE Preserved
BY DEF Grown, Preserved

\* The step is not one of this thread.
Untouched(u) ==
  /\ pc'[u] = pc[u] /\ call'[u] = call[u] /\ spine'[u] = spine[u] /\ bucket'[u] = bucket[u]
  /\ number'[u] = number[u]

\* The address of a call that has got as far as a table is one.
LEMMA HasAddress ==
  ASSUME TypeOK, Ways, NEW t \in Threads, call[t].op \in {"park", "leave"} \cup Unparks
  PROVE  call[t].address \in Addresses
<1>1. call[t] \in Requests \cup Leaving \cup {NoCall} BY DEF TypeOK
<1> QED BY <1>1, CallIs

\* A thread that the step leaves alone is where it was.
LEMMA WayStays ==
  ASSUME TypeOK, Ways, NEW u \in Threads, Untouched(u), threadDatas'[u] = threadDatas[u], Preserved
  PROVE  Way(u)'
<1>1. Way(u) BY DEF Ways
<1>2. ASSUME pc[u] = "lock" PROVE bucket[u] \in DOMAIN queue' /\ found_(u)' = bucket[u]
  <2>1. /\ spine[u] \in DOMAIN tables /\ bucket[u] \in DOMAIN queue /\ found_(u) = bucket[u]
        /\ call[u].op \in {"park", "leave"} \cup Unparks
    BY <1>1, <1>2 DEF Way
  <2>2. call[u].address \in Addresses BY <2>1, HasAddress
  <2>3. tables[spine[u]] \in Tables BY <2>1 DEF TypeOK
  <2>4. index(call[u].address, tables[spine[u]]) \in DOMAIN tables[spine[u]] BY <2>2, <2>3, TableIs
  <2>5. bucket[u] # null BY <2>1 DEF TypeOK, null
  <2>6. tables[spine[u]][index(call[u].address, tables[spine[u]])] = bucket[u]
    BY <2>1 DEF found_, slot
  <2>7. index(call[u].address, tables'[spine[u]]) = index(call[u].address, tables[spine[u]])
    BY <2>1, <2>2 DEF Preserved
  <2>8. tables'[spine[u]][index(call[u].address, tables[spine[u]])] = bucket[u]
    BY <2>1, <2>4, <2>5, <2>6 DEF Preserved
  <2>9. found_(u)' = tables'[spine[u]][index(call[u].address, tables'[spine[u]])]
    BY DEF Untouched, found_, slot, index, size
  <2> QED BY <2>1, <2>7, <2>8, <2>9 DEF Preserved
<1>3. spine[u] \in DOMAIN tables => spine[u] \in DOMAIN tables' BY DEF Preserved
<1> HIDE DEF found_
<1> QED BY <1>1, <1>2, <1>3 DEF Way, Untouched

\* Tables stay full; of the new ones only the last may have an empty slot.
LEMMA FullStays ==
  ASSUME TypeOK, TypeOK', Full, Preserved, NEW t \in Threads,
         \A u \in Threads \ {t} : Untouched(u),
         pc'[t] = "lockAll" => spine'[t] \in DOMAIN tables' /\ IsFull(tables'[spine'[t]]),
         \A k \in 1 .. Len(tables') - 1 : k \in DOMAIN tables /\ IsFull(tables[k])
  PROVE  Full'
<1>1. ASSUME NEW k \in DOMAIN tables, IsFull(tables[k]) PROVE k \in DOMAIN tables' /\ IsFull(tables'[k])
  BY <1>1 DEF Preserved, IsFull
<1>2. \A k \in 1 .. Len(tables') - 1 : IsFull(tables'[k]) BY <1>1
<1>3. \A u \in Threads : pc'[u] = "lockAll" => spine'[u] \in DOMAIN tables' /\ IsFull(tables'[spine'[u]])
  <2> SUFFICES ASSUME NEW u \in Threads \ {t}, pc'[u] = "lockAll"
               PROVE  spine'[u] \in DOMAIN tables' /\ IsFull(tables'[spine'[u]])
    OBVIOUS
  <2>1. pc[u] = "lockAll" /\ spine'[u] = spine[u] BY DEF Untouched
  <2>2. spine[u] \in DOMAIN tables /\ IsFull(tables[spine[u]]) BY <2>1 DEF Full
  <2> QED BY <1>1, <2>1, <2>2
<1> QED BY <1>2, <1>3 DEF Full

\* Filling slots moves no thread that is queued.
LEMMA GrownQueues ==
  ASSUME TypeOK, TypeOK', Named, QueuesAreWhole, Grown
  PROVE  /\ \A u : Queued(u)' <=> Queued(u)
         /\ \A b \in DOMAIN queue' : \A i \in 1 .. Len(queue'[b]) :
              /\ b \in DOMAIN queue /\ queue'[b] = queue[b] /\ i \in DOMAIN queue[b]
              /\ Last(tables')[index(address[queue[b][i]], Last(tables'))] = b
         /\ Placed(queue', Last(tables'), address)
<1>1. ASSUME NEW b \in DOMAIN queue', NEW i \in 1 .. Len(queue'[b])
      PROVE  b \in DOMAIN queue /\ queue'[b] = queue[b] /\ i \in DOMAIN queue[b]
  <2>1. queue'[b] # <<>> BY DEF TypeOK
  <2>2. b \in DOMAIN queue /\ queue'[b] = queue[b] BY <2>1 DEF Grown
  <2> QED BY <2>2 DEF TypeOK
<1>2. ASSUME NEW b \in DOMAIN queue, NEW i \in DOMAIN queue[b]
      PROVE  Last(tables')[index(address[queue[b][i]], Last(tables'))] = b
  <2> DEFINE a == address[queue[b][i]]
             m == Len(tables)
  <2>1. /\ a \in Addresses /\ tables # <<>> /\ Last(tables) \in Tables
        /\ b = Last(tables)[index(a, Last(tables))] /\ b # null
    BY <1>2, InQueue
  <2>2. m \in DOMAIN tables /\ m = Len(tables') /\ Last(tables) = tables[m] /\ Last(tables') = tables'[m]
    <3>1. tables \in Seq(Tables) BY DEF TypeOK
    <3>2. m \in DOMAIN tables BY <2>1, <3>1
    <3>3. m = Len(tables') BY <2>1 DEF Grown
    <3> QED BY <3>2, <3>3 DEF Last
  <2>3. index(a, tables[m]) \in DOMAIN tables[m] BY <2>1, <2>2, TableIs
  <2> HIDE DEF a, m
  <2>4. index(a, tables'[m]) = index(a, tables[m]) BY <2>1, <2>2 DEF Grown
  <2>5. tables'[m][index(a, tables[m])] = b BY <2>1, <2>2, <2>3 DEF Grown
  <2> QED BY <2>2, <2>4, <2>5 DEF a
<1>3. ASSUME NEW u PROVE Queued(u)' <=> Queued(u)
  <2>1. ASSUME Queued(u)' PROVE Queued(u)
    <3>1. PICK b \in DOMAIN queue' : \E i \in 1 .. Len(queue'[b]) : queue'[b][i] = u
      BY <2>1 DEF Queued, Contains
    <3> QED BY <3>1, <1>1, IsQueued
  <2>2. ASSUME Queued(u) PROVE Queued(u)'
    <3>1. PICK b \in DOMAIN queue : \E i \in 1 .. Len(queue[b]) : queue[b][i] = u
      BY <2>2 DEF Queued, Contains
    <3>2. b \in DOMAIN queue' /\ queue'[b] = queue[b] BY DEF Grown
    <3> QED BY <3>1, <3>2 DEF Queued, Contains
  <2> QED BY <2>1, <2>2
<1>4. Placed(queue', Last(tables'), address)
  <2>1. \A b \in DOMAIN queue' : \A i \in 1 .. Len(queue'[b]) :
          /\ address[queue'[b][i]] \in Addresses
          /\ Last(tables')[index(address[queue'[b][i]], Last(tables'))] = b
          /\ \A j \in 1 .. i - 1 : queue'[b][i] # queue'[b][j]
    <3> SUFFICES ASSUME NEW b \in DOMAIN queue', NEW i \in 1 .. Len(queue'[b])
                 PROVE  /\ address[queue'[b][i]] \in Addresses
                        /\ Last(tables')[index(address[queue'[b][i]], Last(tables'))] = b
                        /\ \A j \in 1 .. i - 1 : queue'[b][i] # queue'[b][j]
      OBVIOUS
    <3>1. b \in DOMAIN queue /\ queue'[b] = queue[b] /\ i \in DOMAIN queue[b] BY <1>1
    <3>2. /\ address[queue[b][i]] \in Addresses
          /\ \A j \in 1 .. i - 1 : queue[b][i] # queue[b][j]
      BY <3>1 DEF QueuesAreWhole
    <3> QED BY <1>2, <3>1, <3>2
  <2>2. queue' \in Seq(Seq(Threads)) BY DEF TypeOK
  <2> QED BY <2>1, <2>2, PlacedIs
<1> QED BY <1>1, <1>2, <1>3, <1>4

\* Only unparkers at work have threads to wake, and those they have are waiting.
LEMMA TakenIs ==
  ASSUME TypeOK, Ways, TakenThreadsStay, NEW t \in Threads, NEW u \in Taken(t)
  PROVE  /\ pc[t] \in {"unpark", "signal"} /\ call[t].address \in Addresses
         /\ u \in Threads /\ Parking(u) /\ ~Queued(u) /\ address[u] = call[t].address
         /\ address[u] # NoAddress
<1>1. threadDatas[t] \in Seq(Threads) BY DEF TypeOK
<1>2. PICK i \in (IF pc[t] = "signal" THEN 2 ELSE 1) .. Len(threadDatas[t]) : u = threadDatas[t][i]
  BY DEF Taken
<1>3. i \in 1 .. Len(threadDatas[t]) BY <1>1, <1>2
<1>4. u \in Threads BY <1>1, <1>2, <1>3
<1>5. threadDatas[t] # <<>> BY <1>1, <1>3
<1>6. pc[t] \in {"unpark", "signal"} /\ call[t].op \in Unparks BY <1>5 DEF Ways, Way
<1>7. call[t].address \in Addresses BY <1>6, HasAddress
<1> QED BY <1>4, <1>6, <1>7, ParkingLotConstants DEF TakenThreadsStay

\* A step of t that wakes, dequeues or enqueues nobody.
Calm(t) ==
  /\ address' = address /\ threadDatas' = threadDatas /\ threadDatas[t] = <<>>
  /\ \A u \in Threads \ {t} : Untouched(u)
  /\ pc[t] # "didDequeue" /\ pc'[t] # "didDequeue"
  /\ \/ address[t] = NoAddress
     \/ (Parking(t)' <=> Parking(t)) /\ (Parking(t) => call'[t].address = call[t].address)
  /\ pc'[t] = "settle" \/ (pc'[t] = "asleep" /\ call'[t].op = "leave") => ~Queued(t)

\* Calm steps keep what is said of parked and of taken threads, if every queued thread
\* stays queued and is placed by the current table.
LEMMA CalmKeeps ==
  ASSUME IInv, TypeOK', NEW t \in Threads, Calm(t),
         \A u : Queued(u)' <=> Queued(u),
         Placed(queue', Last(tables'), address)
  PROVE  QueuesAreWhole' /\ Mine' /\ Left' /\ TakenThreadsStay' /\ TakenOnce'
<1>0. TypeOK /\ Named /\ Ways /\ QueuesAreWhole /\ Mine /\ Left /\ TakenThreadsStay /\ TakenOnce
  BY DEF IInv
<1>1. \A u : Queued(u)' <=> Queued(u) OBVIOUS
<1>2. \A u \in Threads \ {t} : (Parking(u)' <=> Parking(u)) /\ call'[u] = call[u] /\ pc'[u] = pc[u]
  BY DEF Calm, Untouched, Parking
<1>3. address' = address /\ pc[t] # "didDequeue" /\ pc'[t] # "didDequeue" BY DEF Calm
<1>4. \A u \in Threads : Taken(u)' = Taken(u)
  <2>1. Taken(t) = {} /\ Taken(t)' = {} BY DEF Calm, Taken
  <2>2. \A u \in Threads \ {t} : Taken(u)' = Taken(u) BY DEF Calm, Untouched, Taken
  <2> QED BY <2>1, <2>2
<1>5. address[t] = NoAddress => ~Queued(t) /\ \A u \in Threads : t \notin Taken(u)
  <2>1. address[t] = NoAddress /\ Queued(t) => FALSE
    <3> SUFFICES ASSUME address[t] = NoAddress, Queued(t) PROVE FALSE OBVIOUS
    <3>1. PICK b \in DOMAIN queue : \E i \in DOMAIN queue[b] : queue[b][i] = t BY <1>0, IsQueued
    <3>2. PICK i \in DOMAIN queue[b] : queue[b][i] = t BY <3>1
    <3>3. address[t] \in Addresses BY <1>0, <3>2, InQueue
    <3> QED BY <3>3, ParkingLotConstants
  <2>2. \A u \in Threads : t \in Taken(u) => address[t] # NoAddress BY <1>0, TakenIs
  <2> QED BY <2>1, <2>2
<1>6. \/ address[t] = NoAddress
      \/ (Parking(t)' <=> Parking(t)) /\ (Parking(t) => call'[t].address = call[t].address)
  BY DEF Calm
<1> HIDE DEF IInv
<1>7. QueuesAreWhole'
  <2>1. \A u \in Threads : Queued(u)' => Parking(u)'
    BY <1>0, <1>1, <1>2, <1>5, <1>6 DEF QueuesAreWhole
  <2>2. Placed(queue', Last(tables'), address') BY <1>3
  <2>3. \A u \in Threads : IF Parking(u)'
          THEN address'[u] = NoAddress \/ Queued(u)' \/ pc'[u] = "didDequeue"
               \/ \E v \in Threads : u \in Taken(v)'
          ELSE address'[u] = NoAddress
    <3>1. \A u \in Threads : IF Parking(u)
            THEN address[u] = NoAddress \/ Queued(u) \/ pc[u] = "didDequeue"
                 \/ \E v \in Threads : u \in Taken(v)
            ELSE address[u] = NoAddress
      BY <1>0 DEF QueuesAreWhole
    <3> HIDE DEF Taken, Queued, Parking
    <3>2. \A u \in Threads \ {t} : pc'[u] = pc[u] /\ (Parking(u)' <=> Parking(u)) BY <1>2
    <3> QED BY <1>1, <1>3, <1>4, <1>6, <3>1, <3>2
  <2> QED BY <2>1, <2>2, <2>3, WholeFollows
<1>8. Mine' BY <1>0, <1>2, <1>3, <1>6 DEF Mine
<1>9. Left'
  <2>1. ASSUME NEW u \in Threads, pc'[u] = "settle" \/ (pc'[u] = "asleep" /\ call'[u].op = "leave")
        PROVE  ~Queued(u)'
    <3>1. CASE u = t BY <3>1, <2>1, <1>1 DEF Calm
    <3>2. CASE u # t BY <3>2, <2>1, <1>0, <1>1, <1>2 DEF Left
    <3> QED BY <3>1, <3>2
  <2>2. ASSUME NEW u \in Threads, pc'[u] = "didDequeue"
        PROVE  ~Queued(u)' /\ \A v \in Threads : u \notin Taken(v)'
    <3>1. pc[u] = "didDequeue" BY <2>2, <1>2, <1>3
    <3>2. ~Queued(u) /\ \A v \in Threads : u \notin Taken(v) BY <3>1, <1>0 DEF Left
    <3> QED BY <3>2, <1>1, <1>4
  <2> QED BY <2>1, <2>2 DEF Left
<1>10. TakenThreadsStay'
  <2> SUFFICES ASSUME NEW v \in Threads, NEW u \in Taken(v)'
               PROVE  Parking(u)' /\ ~Queued(u)' /\ address'[u] = call'[v].address
    BY DEF TakenThreadsStay
  <2>1. u \in Taken(v) BY <1>4
  <2>2. /\ u \in Threads /\ Parking(u) /\ ~Queued(u) /\ address[u] = call[v].address
        /\ address[u] # NoAddress
    BY <2>1, <1>0, TakenIs
  <2>3. v # t BY <2>1 DEF Calm, Taken
  <2>4. Parking(u)' BY <2>2, <1>2, <1>6
  <2> QED BY <2>2, <2>3, <2>4, <1>1, <1>2, <1>3
<1>11. TakenOnce'
  <2>1. \A u \in Threads : threadDatas'[u] = threadDatas[u]
                           /\ (threadDatas[u] # <<>> => From(u)' = From(u))
    BY DEF Calm, Untouched, From
  <2> SUFFICES ASSUME NEW u \in Threads, NEW v \in Threads,
                      NEW i \in From(u)' .. Len(threadDatas'[u]),
                      NEW j \in From(v)' .. Len(threadDatas'[v]),
                      threadDatas'[u][i] = threadDatas'[v][j]
               PROVE  u = v /\ i = j
    BY DEF TakenOnce
  <2>2. threadDatas[u] # <<>> /\ threadDatas[v] # <<>>
    <3>1. From(u)' \in {1, 2} /\ From(v)' \in {1, 2} BY DEF From
    <3> QED BY <2>1, <3>1
  <2> HIDE DEF From
  <2> QED BY <2>1, <2>2, <1>0 DEF TakenOnce
<1> QED BY <1>7, <1>8, <1>9, <1>10, <1>11

\* The steps that wake, dequeue and enqueue nobody.
LEMMA CalmSteps ==
  ASSUME IInv, NEW t \in Threads,
         \/ Call(t) \/ ThreadExits(t) \/ WaitEnds(t) \/ NewThreadData(t) \/ ensureHashtableSize(t)
         \/ Collect(t) \/ LockBucket(t) \/ LockAgain(t) \/ forEach(t) \/ NoRehash(t) \/ Rehash(t)
         \/ FindTable(t) \/ FindBucket(t) \/ NoBucket(t) \/ LookAgain(t) \/ ValidationFails(t)
         \/ Check(t) \/ TimesOut(t) \/ Settle(t) \/ UnparkEnds(t) \/ Return(t)
  PROVE  Calm(t)
<1>0. /\ TypeOK /\ Named /\ Full /\ Ways /\ QueuesAreWhole /\ Left
      /\ Way(t) /\ pc \in [Threads -> Labels] /\ call[t] \in Requests \cup Leaving \cup {NoCall}
  BY DEF IInv, TypeOK, Ways
<1>c. /\ call[t].op \in {"park", "leave", "forEach", "none"} \cup Unparks
      /\ NoCall.op = "none"
  BY <1>0, CallIs DEF NoCall
<1> HIDE DEF IInv, TypeOK, NoCall
<1> USE DEF Untouched, Parking, Way, Unparks
<1>t. call \in [Threads -> Requests \cup Leaving \cup {NoCall}] /\ spine \in [Threads -> Nat]
      /\ bucket \in [Threads -> Nat] /\ number \in [Threads -> Nat]
  BY <1>0 DEF TypeOK
<1>1. ASSUME Call(t) PROVE Calm(t)
  <2>1. PICK request \in Head(calls[t]) :
          /\ call' = [call EXCEPT ![t] = request]
          /\ pc' = [pc EXCEPT ![t] = IF request.op = "forEach" THEN "collect"
                      ELSE IF request.op = "park" /\ number[t] = 0 THEN "newThread" ELSE "table"]
    BY <1>1 DEF Call, Goto
  <2>2. request \in Requests /\ request.op # "leave"
    <3>1. calls[t] \in Seq(SUBSET Requests) /\ calls[t] # <<>> BY <1>0, <1>1 DEF TypeOK, Call
    <3>2. Head(calls[t]) \in SUBSET Requests BY <3>1
    <3>3. request \in Requests BY <3>2
    <3> QED BY <3>3 DEF Requests, ParkCalls, UnparkCalls, ForEach
  <2>3. UNCHANGED <<address, threadDatas, number, found>> /\ pc[t] = "idle" BY <1>1 DEF Call
  <2>4. pc'[t] \in {"collect", "newThread", "table"} /\ call'[t] = request BY <1>0, <1>t, <2>1
  <2>5. \A u \in Threads \ {t} : Untouched(u) BY <1>0, <1>t, <2>1, <2>3 DEF found
  <2>6. ~Parking(t) /\ ~Parking(t)' BY <1>0, <2>2, <2>3, <2>4
  <2> QED BY <1>0, <2>3, <2>4, <2>5, <2>6 DEF Calm
<1>2. ASSUME ThreadExits(t) PROVE Calm(t)
  BY <1>0, <1>2, <1>t DEF ThreadExits, Calm, found
<1>3. ASSUME WaitEnds(t) PROVE Calm(t)
  BY <1>0, <1>3, <1>t DEF WaitEnds, Calm, Goto, data, found, Left
<1>4. ASSUME NewThreadData(t) PROVE Calm(t)
  BY <1>0, <1>4, <1>t DEF NewThreadData, Calm, Goto, found
<1>5. ASSUME ensureHashtableSize(t) PROVE Calm(t)
  BY <1>0, <1>5, <1>t DEF ensureHashtableSize, Calm, Goto, data, found
<1>6. ASSUME Collect(t) PROVE Calm(t)
  BY <1>0, <1>6, <1>t DEF Collect, Calm, Goto, data
<1>7. ASSUME LockBucket(t) PROVE Calm(t)
  BY <1>0, <1>7, <1>t DEF LockBucket, Calm, data, found
<1>8. ASSUME LockAgain(t) PROVE Calm(t)
  BY <1>0, <1>8, <1>t DEF LockAgain, AllLocked, Calm, Goto, data, found
<1>9. ASSUME forEach(t) PROVE Calm(t)
  BY <1>0, <1>9, <1>t DEF forEach, AllLocked, Finish, Calm, Goto, data, found
<1>10. ASSUME NoRehash(t) PROVE Calm(t)
  BY <1>0, <1>10, <1>t DEF NoRehash, AllLocked, Calm, Goto, data, found
<1>11. ASSUME Rehash(t) PROVE Calm(t)
  BY <1>0, <1>11, <1>t DEF Rehash, AllLocked, Calm, Goto, data, found
<1>12. ASSUME FindTable(t) PROVE Calm(t)
  BY <1>0, <1>12, <1>t DEF FindTable, Calm, Goto, data
<1>13. ASSUME FindBucket(t) PROVE Calm(t)
  <2>1. \A u \in Threads \ {t} : bucket'[u] = bucket[u] BY <1>13, <1>t DEF FindBucket
  <2> QED BY <1>0, <1>13, <1>t, <2>1 DEF FindBucket, Calm, Goto, data
<1>14. ASSUME NoBucket(t) PROVE Calm(t)
  <2>1. CASE call[t].op = "leave"
    <3>1. pc' = [pc EXCEPT ![t] = "settle"] /\ UNCHANGED <<call, found, data, threadDatas>> /\ pc[t] = "bucket"
      BY <1>14, <2>1 DEF NoBucket, Goto
    <3>2. ~Queued(t)
      <4> SUFFICES ASSUME Queued(t) PROVE FALSE OBVIOUS
      <4>1. PICK b \in DOMAIN queue : \E i \in DOMAIN queue[b] : queue[b][i] = t BY <1>0, IsQueued
      <4>2. PICK i \in DOMAIN queue[b] : queue[b][i] = t BY <4>1
      <4>3. /\ address[t] \in Addresses /\ tables # <<>> /\ Parking(t)
            /\ Last(tables)[index(address[t], Last(tables))] # null
        BY <1>0, <4>2, InQueue
      <4>4. address[t] = call[t].address BY <4>3, ParkingLotConstants DEF Mine, IInv
      <4>5. tables[spine[t]][index(address[t], tables[spine[t]])] = null
        BY <1>14, <4>4 DEF NoBucket, found_, slot
      <4>6. spine[t] \in DOMAIN tables BY <1>0, <3>1
      <4>7. tables[spine[t]] \in Tables BY <4>6, <1>0 DEF TypeOK
      <4>8. index(address[t], tables[spine[t]]) \in DOMAIN tables[spine[t]] BY <4>3, <4>7, TableIs
      <4>9. ~IsFull(tables[spine[t]]) BY <4>5, <4>8 DEF IsFull
      <4>10. DOMAIN tables = 1 .. Len(tables) /\ Len(tables) \in Nat BY <1>0 DEF TypeOK
      <4>11. spine[t] = Len(tables) BY <4>6, <4>9, <4>10, <1>0 DEF Full
      <4> QED BY <4>3, <4>5, <4>11 DEF Last
    <3> QED BY <1>0, <1>t, <2>1, <3>1, <3>2 DEF Calm, data, found
  <2>2. CASE call[t].op # "leave"
    BY <1>0, <1>14, <1>t, <2>2 DEF NoBucket, Finish, Calm, Goto, data, found
  <2> QED BY <2>1, <2>2
<1>15. ASSUME LookAgain(t) PROVE Calm(t)
  BY <1>0, <1>15, <1>t DEF LookAgain, Locks, Calm, Goto, data, found
<1>16. ASSUME ValidationFails(t) PROVE Calm(t)
  BY <1>0, <1>16, <1>t DEF ValidationFails, Locks, Finish, Calm, Goto, data, found
<1>17. ASSUME Check(t) PROVE Calm(t)
  BY <1>0, <1>17, <1>t DEF Check, Finish, Calm, Goto, data, found
<1>18. ASSUME TimesOut(t) PROVE Calm(t)
  <2>1. call'[t].op = "leave" /\ call'[t].address = call[t].address
        /\ \A u \in Threads \ {t} : call'[u] = call[u]
    <3>1. call[t].op = "park" BY <1>0, <1>18 DEF TimesOut
    <3>2. call' = [call EXCEPT ![t] = [call[t] EXCEPT !.op = "leave"]] BY <1>18 DEF TimesOut
    <3> QED BY <1>0, <1>t, <3>1, <3>2, CallIs
  <2> QED BY <1>0, <1>18, <1>t, <2>1 DEF TimesOut, Calm, Goto, data, found
<1>19. ASSUME Settle(t) PROVE Calm(t)
  BY <1>0, <1>19, <1>t DEF Settle, Finish, Calm, Goto, data, found, Left
<1>20. ASSUME UnparkEnds(t) PROVE Calm(t)
  BY <1>0, <1>20, <1>t DEF UnparkEnds, Finish, Calm, Goto, data, found
<1>21. ASSUME Return(t) PROVE Calm(t)
  BY <1>0, <1>c, <1>21, <1>t DEF Return, Calm, Goto, data
<1> QED BY <1>1, <1>2, <1>3, <1>4, <1>5, <1>6, <1>7, <1>8, <1>9, <1>10, <1>11, <1>12, <1>13, <1>14,
           <1>15, <1>16, <1>17, <1>18, <1>19, <1>20, <1>21
-----------------------------------------------------------------------------
(* A larger table *)

\* The buckets to use again, the last one first: the order does not matter here.
LEMMA DescendingLists ==
  ASSUME NEW B \in SUBSET Nat, IsFiniteSet(B)
  PROVE  /\ Len(Descending(B)) = Cardinality(B) /\ Cardinality(B) \in Nat
         /\ \A k \in 1 .. Cardinality(B) : Descending(B)[k] \in B
<1> DEFINE before == {p \in B \X B : p[1] > p[2]}
           n == Cardinality(B)
<1>1. IsOrder(B, before) BY DEF IsOrder
<1>2. n \in Nat /\ Sorted(B, before) \in [1 .. n -> B]
  <2> HIDE DEF before
  <2> QED BY <1>1, SortedLists
<1>3. Descending(B) = Sorted(B, before) BY DEF Descending
<1> HIDE DEF n
<1>4. Descending(B) \in [1 .. n -> B] BY <1>2, <1>3
<1>5. Descending(B) \in Seq(B) /\ Len(Descending(B)) = n BY <1>2, <1>4
<1> QED BY <1>2, <1>4, <1>5 DEF n

\* A table of n slots has n slots.
LEMMA SlotsCounted ==
  ASSUME NEW n \in Nat \ {0}
  PROVE  IsFiniteSet(0 .. n - 1) /\ Cardinality(0 .. n - 1) = n
BY FS_Interval, 0 \in Int, n - 1 \in Int

\* What Refilled does: those that wait find a bucket, and there are no others than the
\* ones to use again and new ones.
LEMMA RefilledIs ==
  ASSUME NEW n \in Nat \ {0}, NEW parked \in Seq(Threads), NEW B \in SUBSET Nat, IsFiniteSet(B),
         \A k \in 1 .. Len(parked) : address[parked[k]] \in Addresses,
         Len(queue) \in Nat, B \subseteq 1 .. Len(queue)
  PROVE  LET table == Refilled(n, parked, Descending(B))
         IN  /\ table \in Tables /\ \A i \in DOMAIN table : table[i] \in 0 .. Len(queue) + n
             /\ \A k \in 1 .. Len(parked) :
                  /\ index(address[parked[k]], table) \in DOMAIN table
                  /\ table[index(address[parked[k]], table)] # null
<1> DEFINE slotOf(k) == Hash[address[parked[k]]] % n
           user(i) == {k \in 1 .. Len(parked) : slotOf(k) = i}
           first(i) == IF user(i) = {} THEN Len(parked) + 1 + i ELSE Min(user(i))
           rank(i) == Cardinality({j \in 0 .. n - 1 : first(j) <= first(i)})
           reusable == Descending(B)
           table == Refilled(n, parked, reusable)
           value(i) == IF rank(i) <= Len(reusable) THEN reusable[rank(i)]
                       ELSE IF user(i) # {} THEN Len(queue) + rank(i) - Len(reusable) ELSE null
<1>1. table = [i \in 0 .. n - 1 |-> value(i)] BY DEF Refilled
<1>n. IsFiniteSet(0 .. n - 1) /\ Cardinality(0 .. n - 1) = n BY SlotsCounted
<1>2. \A i \in 0 .. n - 1 : first(i) \in Int
  <2> SUFFICES ASSUME NEW i \in 0 .. n - 1 PROVE first(i) \in Int OBVIOUS
  <2>1. user(i) \in SUBSET Nat OBVIOUS
  <2>2. Len(parked) + 1 + i \in Int OBVIOUS
  <2> HIDE DEF user
  <2>3. user(i) # {} => Min(user(i)) \in Nat BY <2>1, LeastIsMin
  <2> QED BY <2>2, <2>3
<1>3. \A i \in 0 .. n - 1 : rank(i) \in 1 .. n
  <2> SUFFICES ASSUME NEW i \in 0 .. n - 1 PROVE rank(i) \in 1 .. n OBVIOUS
  <2> DEFINE S == {j \in 0 .. n - 1 : first(j) <= first(i)}
  <2>1. S \in SUBSET (0 .. n - 1) OBVIOUS
  <2>2. i \in S
    <3>1. first(i) <= first(i)
      <4>1. first(i) \in Int BY <1>2
      <4> HIDE DEF first
      <4> QED BY <4>1
    <3> HIDE DEF first
    <3> QED BY <3>1
  <2> HIDE DEF S
  <2>3. IsFiniteSet(0 .. n - 1) /\ Cardinality(0 .. n - 1) = n
    BY <1>n
  <2>4. IsFiniteSet(S) /\ Cardinality(S) <= n /\ Cardinality(S) \in Nat
    BY <2>1, <2>3, FS_Subset, FS_CardinalityType
  <2>5. Cardinality(S) # 0 BY <2>2, <2>4, FS_EmptySet
  <2>6. Cardinality(S) \in 1 .. n BY <2>4, <2>5
  <2> QED BY <2>6 DEF S
<1>4. /\ Len(reusable) \in Nat
      /\ \A k \in 1 .. Len(reusable) : reusable[k] \in 1 .. Len(queue)
  <2>1. Len(reusable) = Cardinality(B) /\ Cardinality(B) \in Nat
        /\ \A k \in 1 .. Cardinality(B) : reusable[k] \in B
    BY DescendingLists
  <2> HIDE DEF reusable
  <2> QED BY <2>1
<1>5. \A i \in 0 .. n - 1 : value(i) \in 0 .. Len(queue) + n /\ (user(i) # {} => value(i) # null)
  <2> SUFFICES ASSUME NEW i \in 0 .. n - 1
               PROVE  value(i) \in 0 .. Len(queue) + n /\ (user(i) # {} => value(i) # null)
    OBVIOUS
  <2>1. rank(i) \in 1 .. n BY <1>3
  <2>2. ASSUME rank(i) <= Len(reusable) PROVE reusable[rank(i)] \in 1 .. Len(queue)
    <3> HIDE DEF rank, reusable
    <3> QED BY <1>4, <2>1, <2>2
  <2>3. ASSUME ~(rank(i) <= Len(reusable))
        PROVE  Len(queue) + rank(i) - Len(reusable) \in 1 .. Len(queue) + n
    <3> HIDE DEF rank, reusable
    <3> QED BY <1>4, <2>1, <2>3
  <2> HIDE DEF rank, reusable, user
  <2> QED BY <2>2, <2>3 DEF null
<1> HIDE DEF value, table, reusable
<1>6. table \in [0 .. n - 1 -> Nat] /\ \A i \in 0 .. n - 1 : table[i] = value(i)
  BY <1>1, <1>5
<1>7. table \in Tables /\ DOMAIN table = 0 .. n - 1 BY <1>6 DEF Tables
<1>8. size(table) = n BY <1>7, <1>n DEF size
<1>9. ASSUME NEW k \in 1 .. Len(parked)
      PROVE  /\ index(address[parked[k]], table) \in DOMAIN table
             /\ table[index(address[parked[k]], table)] # null
  <2>1. index(address[parked[k]], table) = slotOf(k) BY <1>8 DEF index
  <2>2. slotOf(k) \in 0 .. n - 1
    <3>1. Hash[address[parked[k]]] \in Nat BY ParkingLotConstants
    <3> QED BY <3>1
  <2>3. k \in user(slotOf(k)) OBVIOUS
  <2> HIDE DEF slotOf, user
  <2> QED BY <1>5, <1>6, <2>1, <2>2, <2>3
<1> QED BY <1>5, <1>6, <1>7, <1>9 DEF table, reusable

\* Everybody who is parked is parked in the new table.
LEMMA RehashMoves ==
  ASSUME TypeOK, Named, Full, Ways, QueuesAreWhole, NEW t \in Threads, Rehash(t)
  PROVE  /\ tables' \in Seq(Tables) /\ queue' \in Seq(Seq(Threads)) /\ Named'
         /\ Len(tables') = Len(tables) + 1 /\ IsFull(tables[Len(tables)])
         /\ \A k \in DOMAIN tables : k \in DOMAIN tables' /\ tables'[k] = tables[k]
         /\ \A b \in DOMAIN queue : b \in DOMAIN queue'
         /\ \A u : Queued(u)' <=> Queued(u)
         /\ Placed(queue', Last(tables'), address)
         /\ holder' = unlockHashtable(t) \o [i \in 1 .. Len(queue') - Len(queue) |-> NoThread]
         /\ \E B \in SUBSET DOMAIN queue :
              /\ \A u : Queued(u) <=> u \in ToSet(Gathered(B))
              /\ \A c \in DOMAIN queue' :
                   queue'[c] = Keep(Gathered(B), {u \in ToSet(Gathered(B)) :
                                                    Last(tables')[index(address[u], Last(tables'))] = c})
<1> DEFINE last == Last(tables)
           B == BucketsOf(last)
           parked == Gathered(B)
           n == number[t] * growthFactor * maxLoadFactor
           table == Refilled(n, parked, Descending(B))
           created == Max(BucketsOf(table) \cup {Len(queue)})
           members(b) == {u \in ToSet(parked) : table[index(address[u], table)] = b}
<1>1. /\ pc[t] = "lockAll" /\ spine[t] = Len(tables) /\ call[t].op = "park"
      /\ tables' = Append(tables, table)
      /\ queue' = [b \in 1 .. created |-> Keep(parked, members(b))]
      /\ holder' = unlockHashtable(t) \o [i \in 1 .. created - Len(queue) |-> NoThread]
  BY ZenonT(60) DEF Rehash, AllLocked, Current
<1>2. /\ Len(tables) \in DOMAIN tables /\ last = tables[Len(tables)] /\ IsFull(last) /\ last \in Tables
      /\ tables \in Seq(Tables) /\ Len(tables) \in Nat /\ queue \in Seq(Seq(Threads))
      /\ Len(queue) \in Nat /\ DOMAIN queue = 1 .. Len(queue)
  BY <1>1 DEF Full, TypeOK, Last
<1>3. n \in Nat \ {0}
  <2>1. number[t] \in Nat /\ number[t] # 0 BY <1>1 DEF Ways, Way, TypeOK
  <2>2. growthFactor \in Nat \ {0} /\ maxLoadFactor \in Nat \ {0} BY ParkingLotConstants
  <2>3. \A x, y \in Nat \ {0} : x * y \in Nat \ {0} OBVIOUS
  <2>4. number[t] * growthFactor \in Nat \ {0} BY <2>1, <2>2, <2>3
  <2> QED BY <2>2, <2>3, <2>4
<1>4. B \in SUBSET DOMAIN queue /\ IsFiniteSet(B) /\ B \in SUBSET Nat
  <2>1. \A i \in DOMAIN last : last[i] \in 0 .. Len(queue) BY <1>2 DEF Named
  <2>2. B \subseteq 1 .. Len(queue) BY <2>1, <1>2 DEF BucketsOf, null
  <2>3. IsFiniteSet(1 .. Len(queue)) BY <1>2, FS_Interval
  <2> HIDE DEF B
  <2>4. IsFiniteSet(B) BY <2>2, <2>3, FS_Subset
  <2>5. B \in SUBSET DOMAIN queue BY <2>2, <1>2
  <2>6. B \in SUBSET Nat BY <2>2, <1>2
  <2> QED BY <2>4, <2>5, <2>6
<1>5. /\ Placed(queue, last, address)
      /\ \A u : Queued(u) <=> \E b \in DOMAIN queue : u \in ToSet(queue[b])
  BY IsPlaced
<1>6. \A b \in DOMAIN queue : \A u \in ToSet(queue[b]) : b \in B /\ address[u] \in Addresses
  <2> SUFFICES ASSUME NEW b \in DOMAIN queue, NEW u \in ToSet(queue[b])
               PROVE  b \in B /\ address[u] \in Addresses
    OBVIOUS
  <2>1. address[u] \in Addresses /\ last[index(address[u], last)] = b BY <1>5 DEF Placed
  <2>2. index(address[u], last) \in DOMAIN last BY <1>2, <2>1, TableIs
  <2>3. b # null BY <1>2 DEF null
  <2> HIDE DEF last
  <2> QED BY <2>1, <2>2, <2>3 DEF BucketsOf
<1>7. /\ parked \in Seq(Threads) /\ Distinct(parked)
      /\ ToSet(parked) = UNION {ToSet(queue[b]) : b \in B}
  <2>1. Apart BY QueuesAreApart
  <2> HIDE DEF B
  <2> QED BY <1>2, <1>4, <2>1, GatheredJoins
<1> HIDE DEF last, B, parked, n, table, created
<1>8. \A u : Queued(u) <=> u \in ToSet(parked) BY <1>4, <1>5, <1>6, <1>7
<1>9. \A u \in ToSet(parked) : address[u] \in Addresses BY <1>4, <1>6, <1>7
<1>10. ToSet(parked) = {parked[k] : k \in 1 .. Len(parked)} BY <1>7 DEF ToSet
<1>11. /\ table \in Tables /\ \A i \in DOMAIN table : table[i] \in 0 .. Len(queue) + n
       /\ \A u \in ToSet(parked) : /\ index(address[u], table) \in DOMAIN table
                                   /\ table[index(address[u], table)] # null
  <2>1. \A k \in 1 .. Len(parked) : address[parked[k]] \in Addresses BY <1>9, <1>10
  <2>2. /\ table \in Tables /\ \A i \in DOMAIN table : table[i] \in 0 .. Len(queue) + n
        /\ \A k \in 1 .. Len(parked) : /\ index(address[parked[k]], table) \in DOMAIN table
                                       /\ table[index(address[parked[k]], table)] # null
    BY <1>2, <1>3, <1>4, <1>7, <2>1, RefilledIs DEF table
  <2> QED BY <2>2, <1>10
<1>12. created \in Nat /\ Len(queue) <= created /\ \A i \in DOMAIN table : table[i] \in 0 .. created
  <2> DEFINE S == BucketsOf(table) \cup {Len(queue)}
  <2>1. S \in SUBSET Nat /\ S # {} /\ \A k \in S : k <= Len(queue) + n
    BY <1>2, <1>3, <1>11 DEF BucketsOf
  <2>2. \A i \in DOMAIN table : table[i] # null => table[i] \in S BY DEF BucketsOf
  <2>3. Len(queue) \in S OBVIOUS
  <2> HIDE DEF S
  <2>4. Max(S) \in S /\ \A k \in S : k <= Max(S)
    <3>1. Len(queue) + n \in Nat BY <1>2, <1>3
    <3> QED BY <2>1, <3>1, GreatestIsMax
  <2>5. created = Max(S) BY DEF created, S
  <2>6. \A i \in DOMAIN table : table[i] \in Nat BY <1>2, <1>3, <1>11
  <2>7. created \in Nat BY <2>1, <2>4, <2>5
  <2>8. Len(queue) <= created BY <2>3, <2>4, <2>5
  <2>9. \A i \in DOMAIN table : table[i] # 0 => table[i] <= created BY <2>2, <2>4, <2>5 DEF null
  <2>10. \A x \in Nat : x = 0 \/ x <= created => x \in 0 .. created BY <2>7
  <2>11. \A i \in DOMAIN table : table[i] \in 0 .. created BY <2>6, <2>9, <2>10
  <2> QED BY <2>7, <2>8, <2>11
<1>13. \A b \in 1 .. created : /\ Keep(parked, members(b)) \in Seq(Threads)
                               /\ ToSet(Keep(parked, members(b))) = members(b)
                               /\ Distinct(Keep(parked, members(b)))
  <2> SUFFICES ASSUME NEW b \in 1 .. created
               PROVE  /\ Keep(parked, members(b)) \in Seq(Threads)
                      /\ ToSet(Keep(parked, members(b))) = members(b)
                      /\ Distinct(Keep(parked, members(b)))
    OBVIOUS
  <2>1. members(b) \subseteq ToSet(parked) OBVIOUS
  <2> HIDE DEF members
  <2>2. /\ Keep(parked, members(b)) \in Seq(Threads)
        /\ ToSet(Keep(parked, members(b))) = ToSet(parked) \cap members(b)
        /\ Distinct(Keep(parked, members(b)))
    BY <1>7, KeepKeeps
  <2> QED BY <2>1, <2>2
<1>14. /\ queue' \in Seq(Seq(Threads)) /\ DOMAIN queue' = 1 .. created /\ Len(queue') = created
       /\ \A b \in 1 .. created : ToSet(queue'[b]) = members(b) /\ Distinct(queue'[b])
  <2> DEFINE Q == Seq(Threads)
             kept(b) == Keep(parked, members(b))
  <2>1. queue' = [b \in 1 .. created |-> kept(b)] /\ \A b \in 1 .. created : kept(b) \in Q
    BY <1>1, <1>13
  <2>2. \A b \in 1 .. created : ToSet(kept(b)) = members(b) /\ Distinct(kept(b)) BY <1>13
  <2> HIDE DEF Q, kept, members
  <2>3. queue' \in [1 .. created -> Q] BY <2>1
  <2>4. queue' \in Seq(Q) /\ DOMAIN queue' = 1 .. created /\ Len(queue') = created
    BY <2>3, <1>12
  <2> QED BY <2>1, <2>2, <2>4 DEF Q
<1>15. /\ tables' \in Seq(Tables) /\ Len(tables') = Len(tables) + 1 /\ Last(tables') = table
       /\ DOMAIN tables' = 1 .. Len(tables) + 1 /\ tables'[Len(tables) + 1] = table
       /\ \A k \in DOMAIN tables : k \in DOMAIN tables' /\ tables'[k] = tables[k]
  <2>1. /\ tables' \in Seq(Tables) /\ Len(tables') = Len(tables) + 1
        /\ DOMAIN tables' = 1 .. Len(tables) + 1 /\ tables'[Len(tables) + 1] = table
        /\ \A k \in DOMAIN tables : k \in DOMAIN tables' /\ tables'[k] = tables[k]
    BY <1>1, <1>2, <1>11
  <2> QED BY <2>1 DEF Last
<1>16. Named'
  <2>1. ASSUME NEW k \in DOMAIN tables', NEW i \in DOMAIN tables'[k]
        PROVE  tables'[k][i] \in 0 .. Len(queue')
    <3>1. CASE k = Len(tables) + 1 BY <3>1, <2>1, <1>12, <1>14, <1>15
    <3>2. CASE k # Len(tables) + 1
      <4>1. k \in DOMAIN tables /\ tables'[k] = tables[k] BY <3>2, <2>1, <1>2, <1>15
      <4>2. tables[k][i] \in 0 .. Len(queue) BY <4>1, <2>1 DEF Named
      <4> QED BY <4>1, <4>2, <1>2, <1>12, <1>14
    <3> QED BY <3>1, <3>2
  <2>2. tables' # <<>> BY <1>2, <1>15
  <2> QED BY <2>1, <2>2 DEF Named
<1>17. \A u \in ToSet(parked) : table[index(address[u], table)] \in 1 .. created
  BY <1>11, <1>12 DEF null
<1>18. \A u : (\E b \in DOMAIN queue' : u \in ToSet(queue'[b])) <=> u \in ToSet(parked)
  BY <1>14, <1>17
<1>19. \A u : Queued(u)' <=> Queued(u)
  <2>1. \A u : (\E b \in DOMAIN queue' : Contains(queue'[b], u)) <=> \E b \in DOMAIN queue' : u \in ToSet(queue'[b])
    BY <1>14, PlacedIs
  <2> QED BY <2>1, <1>8, <1>18 DEF Queued
<1>20. Placed(queue', Last(tables'), address)
  BY <1>9, <1>14, <1>15 DEF Placed
<1>21. \A c \in DOMAIN queue' :
         queue'[c] = Keep(parked, {u \in ToSet(parked) : Last(tables')[index(address[u], Last(tables'))] = c})
  <2>1. \A c \in DOMAIN queue' : queue'[c] = Keep(parked, members(c)) BY <1>1, <1>14
  <2> QED BY <2>1, <1>15
<1>22. \A b \in DOMAIN queue : b \in DOMAIN queue' BY <1>2, <1>12, <1>14
<1>23. IsFull(tables[Len(tables)]) BY <1>2
<1>24. \E C \in SUBSET DOMAIN queue :
         /\ \A u : Queued(u) <=> u \in ToSet(Gathered(C))
         /\ \A c \in DOMAIN queue' :
              queue'[c] = Keep(Gathered(C), {u \in ToSet(Gathered(C)) :
                                               Last(tables')[index(address[u], Last(tables'))] = c})
  <2>1. /\ \A u : Queued(u) <=> u \in ToSet(Gathered(B))
        /\ \A c \in DOMAIN queue' :
             queue'[c] = Keep(Gathered(B), {u \in ToSet(Gathered(B)) :
                                              Last(tables')[index(address[u], Last(tables'))] = c})
    BY <1>8, <1>21 DEF parked
  <2> QED BY <1>4, <2>1
<1>25. holder' = unlockHashtable(t) \o [i \in 1 .. Len(queue') - Len(queue) |-> NoThread] BY <1>1, <1>14
<1> QED BY <1>14, <1>15, <1>16, <1>19, <1>20, <1>22, <1>23, <1>24, <1>25
-----------------------------------------------------------------------------
(* The steps that enqueue, dequeue or wake a thread *)

\* A thread that has locked the current bucket has the one of its address.
LEMMA LockedIs ==
  ASSUME TypeOK, Named, Ways, NEW t \in Threads, Locks(t), Current(t)
  PROVE  /\ pc[t] = "lock" /\ call[t].op \in {"park", "leave"} \cup Unparks
         /\ call[t].address \in Addresses /\ bucket[t] \in DOMAIN queue /\ queue[bucket[t]] \in Seq(Threads)
         /\ Last(tables)[index(call[t].address, Last(tables))] = bucket[t]
         /\ threadDatas[t] = <<>>
<1>1. pc[t] = "lock" /\ Way(t) BY DEF Locks, Ways
<1>2. /\ call[t].op \in {"park", "leave"} \cup Unparks /\ bucket[t] \in DOMAIN queue
      /\ found_(t) = bucket[t] /\ threadDatas[t] = <<>>
  BY <1>1 DEF Way
<1>3. found_(t) = Last(tables)[index(call[t].address, Last(tables))]
  BY DEF Current, found_, slot, Last
<1>4. queue[bucket[t]] \in Seq(Threads) BY <1>2 DEF TypeOK
<1> QED BY <1>1, <1>2, <1>3, <1>4, HasAddress

\* What it means for the queues that some threads are taken out of one.
LEMMA Shrunk ==
  ASSUME TypeOK, QueuesAreWhole, NEW b \in DOMAIN queue, NEW R,
         queue' = [queue EXCEPT ![b] = Keep(@, Threads \ R)], tables' = tables
  PROVE  /\ queue' \in Seq(Seq(Threads)) /\ DOMAIN queue' = DOMAIN queue /\ Len(queue') = Len(queue)
         /\ \A u : Queued(u)' <=> Queued(u) /\ ~(u \in R /\ u \in ToSet(queue[b]))
         /\ Placed(queue', Last(tables'), address)
<1> DEFINE kept == Keep(queue[b], Threads \ R)
           Q == Seq(Threads)
<1>1. /\ queue \in Seq(Q) /\ queue[b] \in Q /\ DOMAIN queue = 1 .. Len(queue) /\ Len(queue) \in Nat
      /\ \A c \in DOMAIN queue : queue[c] \in Q
  BY DEF TypeOK
<1>2. Placed(queue, Last(tables), address) /\ \A u : Queued(u) <=> \E c \in DOMAIN queue : u \in ToSet(queue[c])
  BY IsPlaced
<1>3. /\ kept \in Q /\ ToSet(kept) = ToSet(queue[b]) \cap (Threads \ R)
      /\ Distinct(queue[b]) => Distinct(kept)
  BY <1>1, KeepKeeps
<1>4. queue' = [queue EXCEPT ![b] = kept] OBVIOUS
<1>5. ToSet(kept) = ToSet(queue[b]) \ R
  <2>1. ToSet(queue[b]) \subseteq Threads BY <1>1 DEF ToSet
  <2> QED BY <2>1, <1>3
<1> HIDE DEF kept, Q
<1>6. /\ queue' \in Seq(Q) /\ DOMAIN queue' = DOMAIN queue /\ Len(queue') = Len(queue)
      /\ queue'[b] = kept /\ \A c \in DOMAIN queue : c # b => queue'[c] = queue[c]
  BY <1>1, <1>3, <1>4
<1>7. Placed(queue', Last(tables'), address)
  BY <1>2, <1>3, <1>5, <1>6 DEF Placed
<1>8. \A u : Queued(u)' <=> \E c \in DOMAIN queue' : u \in ToSet(queue'[c])
  <2>1. queue' \in Seq(Seq(Threads)) BY <1>6 DEF Q
  <2>2. \A u : (\E c \in DOMAIN queue' : Contains(queue'[c], u)) <=> \E c \in DOMAIN queue' : u \in ToSet(queue'[c])
    BY <2>1, PlacedIs
  <2> QED BY <2>2 DEF Queued
<1>9. ASSUME NEW u PROVE Queued(u)' <=> Queued(u) /\ ~(u \in R /\ u \in ToSet(queue[b]))
  <2>1. ASSUME NEW c \in DOMAIN queue, u \in ToSet(queue[c]), u \in ToSet(queue[b]) PROVE c = b
    BY <1>2, <2>1 DEF Placed
  <2> QED BY <2>1, <1>2, <1>5, <1>6, <1>8
<1> QED BY <1>6, <1>7, <1>9 DEF Q

\* The thread enters the queue in which its address is looked for.
LEMMA EnqueueKeeps ==
  ASSUME IInv, TypeOK', NEW t \in Threads, Enqueue(t)
  PROVE  QueuesAreWhole' /\ Mine' /\ Left' /\ TakenThreadsStay' /\ TakenOnce'
<1>0. TypeOK /\ Named /\ Ways /\ QueuesAreWhole /\ Mine /\ Left /\ TakenThreadsStay /\ TakenOnce
  BY DEF IInv
<1> DEFINE b == bucket[t]
           a == call[t].address
<1>1. /\ pc[t] = "lock" /\ call[t].op = "park" /\ a \in Addresses /\ b \in DOMAIN queue
      /\ Last(tables)[index(a, Last(tables))] = b /\ threadDatas[t] = <<>>
  BY <1>0, LockedIs DEF Enqueue
<1>2. /\ address' = [address EXCEPT ![t] = a] /\ queue' = [queue EXCEPT ![b] = Append(queue[b], t)]
      /\ pc' = [pc EXCEPT ![t] = "check"] /\ UNCHANGED <<tables, call, threadDatas>>
  BY DEF Enqueue, Goto
<1> HIDE DEF b, a
<1>3. /\ address'[t] = a /\ pc'[t] = "check" /\ call'[t] = call[t]
      /\ \A u \in Threads \ {t} : address'[u] = address[u] /\ pc'[u] = pc[u] /\ call'[u] = call[u]
  BY <1>0, <1>2 DEF TypeOK
<1>4. Parking(t)' /\ ~Parking(t) /\ \A u \in Threads \ {t} : Parking(u)' <=> Parking(u)
  BY <1>1, <1>3 DEF Parking
<1>5. ~Queued(t) /\ \A u \in Threads : t \notin Taken(u)
  BY <1>0, <1>4, TakenIs DEF QueuesAreWhole
<1>6. Placed(queue, Last(tables), address) /\ \A u : Queued(u) <=> \E c \in DOMAIN queue : u \in ToSet(queue[c])
  BY <1>0, IsPlaced
<1>7. /\ DOMAIN queue' = DOMAIN queue /\ ToSet(queue'[b]) = ToSet(queue[b]) \cup {t}
      /\ \A c \in DOMAIN queue : c # b => queue'[c] = queue[c]
      /\ Distinct(queue'[b])
  <2>0. queue \in Seq(Seq(Threads)) /\ b \in DOMAIN queue BY <1>0, <1>1 DEF TypeOK
  <2>1. queue[b] \in Seq(Threads) BY <2>0
  <2>2. /\ DOMAIN queue' = DOMAIN queue /\ queue'[b] = Append(queue[b], t)
        /\ \A c \in DOMAIN queue : c # b => queue'[c] = queue[c]
    BY <2>0, <1>2
  <2> DEFINE s == queue[b]
             r == Append(queue[b], t)
             n == Len(queue[b])
  <2>3. /\ n \in Nat /\ DOMAIN s = 1 .. n /\ DOMAIN r = 1 .. n + 1 /\ r[n + 1] = t
        /\ \A i \in 1 .. n : r[i] = s[i]
    BY <2>1
  <2>4. t \notin ToSet(s) /\ Distinct(s) BY <1>1, <1>5, <1>6 DEF Placed
  <2> HIDE DEF s, r, n
  <2>5. ToSet(r) = ToSet(s) \cup {t} BY <2>3 DEF ToSet
  <2>6. Distinct(r)
    <3> SUFFICES ASSUME NEW i \in 1 .. n + 1, NEW j \in 1 .. n + 1, r[i] = r[j] PROVE i = j
      BY <2>3 DEF Distinct
    <3>1. i \in 1 .. n \/ i = n + 1 BY <2>3
    <3>2. j \in 1 .. n \/ j = n + 1 BY <2>3
    <3> QED BY <3>1, <3>2, <2>3, <2>4 DEF Distinct, ToSet
  <2> QED BY <2>2, <2>5, <2>6 DEF s, r
<1>8. \A u : Queued(u)' <=> Queued(u) \/ u = t
  <2>1. \A u : Queued(u)' <=> \E c \in DOMAIN queue' : u \in ToSet(queue'[c])
    <3>1. queue' \in Seq(Seq(Threads)) BY DEF TypeOK
    <3>2. \A u : (\E c \in DOMAIN queue' : Contains(queue'[c], u)) <=> \E c \in DOMAIN queue' : u \in ToSet(queue'[c])
      BY <3>1, PlacedIs
    <3> QED BY <3>2 DEF Queued
  <2> QED BY <2>1, <1>1, <1>6, <1>7
<1>9. Placed(queue', Last(tables'), address')
  <2> SUFFICES ASSUME NEW c \in DOMAIN queue
               PROVE  /\ Distinct(queue'[c])
                      /\ \A u \in ToSet(queue'[c]) :
                           address'[u] \in Addresses /\ Last(tables)[index(address'[u], Last(tables))] = c
    BY <1>2, <1>7 DEF Placed
  <2>1. /\ Distinct(queue[c])
        /\ \A u \in ToSet(queue[c]) :
             address[u] \in Addresses /\ Last(tables)[index(address[u], Last(tables))] = c
    BY <1>6 DEF Placed
  <2>2. \A u \in ToSet(queue[c]) : u \in Threads \ {t}
    <3>0. queue \in Seq(Seq(Threads)) BY <1>0 DEF TypeOK
    <3>1. queue[c] \in Seq(Threads) BY <3>0
    <3>2. \A u \in ToSet(queue[c]) : u \in Threads BY <3>1 DEF ToSet
    <3> QED BY <3>2, <1>5, <1>6
  <2>3. \A u \in ToSet(queue[c]) :
          address'[u] \in Addresses /\ Last(tables)[index(address'[u], Last(tables))] = c
    BY <2>1, <2>2, <1>3
  <2>4. address'[t] \in Addresses /\ Last(tables)[index(address'[t], Last(tables))] = b
    BY <1>1, <1>3
  <2> QED BY <2>1, <2>3, <2>4, <1>7
<1>10. \A u \in Threads : Taken(u)' = Taken(u)
  <2>1. Taken(t) = {} /\ Taken(t)' = {} BY <1>1, <1>2 DEF Taken
  <2>2. \A u \in Threads \ {t} : Taken(u)' = Taken(u) BY <1>2, <1>3 DEF Taken
  <2> QED BY <2>1, <2>2
<1>11. QueuesAreWhole'
  <2>1. \A u \in Threads : IF Parking(u)
          THEN address[u] = NoAddress \/ Queued(u) \/ pc[u] = "didDequeue" \/ \E v \in Threads : u \in Taken(v)
          ELSE address[u] = NoAddress
    BY <1>0 DEF QueuesAreWhole
  <2>2. \A u \in Threads : Queued(u)' => Parking(u)' BY <1>0, <1>4, <1>8 DEF QueuesAreWhole
  <2> HIDE DEF Taken, Queued, Parking
  <2>3. \A u \in Threads : IF Parking(u)'
          THEN address'[u] = NoAddress \/ Queued(u)' \/ pc'[u] = "didDequeue" \/ \E v \in Threads : u \in Taken(v)'
          ELSE address'[u] = NoAddress
    BY <2>1, <1>3, <1>4, <1>8, <1>10
  <2> QED BY <2>2, <2>3, <1>9, WholeFollows
<1>12. Mine' BY <1>0, <1>3, <1>4 DEF Mine, a
<1>13. Left' BY <1>0, <1>3, <1>8, <1>10 DEF Left
<1>14. TakenThreadsStay'
  <2> SUFFICES ASSUME NEW v \in Threads, NEW u \in Taken(v)'
               PROVE  Parking(u)' /\ ~Queued(u)' /\ address'[u] = call'[v].address
    BY DEF TakenThreadsStay
  <2>1. u \in Taken(v) BY <1>10
  <2>2. u \in Threads /\ Parking(u) /\ ~Queued(u) /\ address[u] = call[v].address BY <2>1, <1>0, TakenIs
  <2> QED BY <2>1, <2>2, <1>3, <1>4, <1>5, <1>8
<1>15. TakenOnce'
  <2>1. \A u \in Threads : threadDatas'[u] = threadDatas[u] /\ From(u)' = From(u)
    BY <1>1, <1>2, <1>3 DEF From
  <2> QED BY <2>1, <1>0 DEF TakenOnce
<1> QED BY <1>11, <1>12, <1>13, <1>14, <1>15

\* A thread that finds itself in the queue leaves it; one that does not has been taken.
LEMMA DequeueMyselfKeeps ==
  ASSUME IInv, TypeOK', NEW t \in Threads, DequeueMyself(t)
  PROVE  QueuesAreWhole' /\ Mine' /\ Left' /\ TakenThreadsStay' /\ TakenOnce'
<1>0. TypeOK /\ Named /\ Ways /\ QueuesAreWhole /\ Mine /\ Left /\ TakenThreadsStay /\ TakenOnce
  BY DEF IInv
<1> DEFINE b == bucket[t]
<1>1. /\ pc[t] = "lock" /\ call[t].op = "leave" /\ b \in DOMAIN queue /\ queue[b] \in Seq(Threads)
      /\ Last(tables)[index(call[t].address, Last(tables))] = b /\ threadDatas[t] = <<>>
  BY <1>0, LockedIs DEF DequeueMyself
<1>2. /\ queue' = [queue EXCEPT ![b] = Keep(@, Threads \ {t})] /\ tables' = tables
      /\ pc' = [pc EXCEPT ![t] = IF Contains(queue[b], t) THEN "didDequeue" ELSE "settle"]
      /\ UNCHANGED <<address, call, threadDatas>>
  BY DEF DequeueMyself, Goto, data
<1>3. /\ Placed(queue', Last(tables'), address)
      /\ \A u : Queued(u)' <=> Queued(u) /\ ~(u \in {t} /\ u \in ToSet(queue[b]))
  BY <1>0, <1>1, <1>2, Shrunk
<1>4. Placed(queue, Last(tables), address) /\ \A u : Queued(u) <=> \E c \in DOMAIN queue : u \in ToSet(queue[c])
  BY <1>0, IsPlaced
<1>5. Contains(queue[b], t) <=> t \in ToSet(queue[b])
  BY <1>1 DEF Contains, ToSet
<1>6. Parking(t) BY <1>1 DEF Parking
<1>7. Queued(t) => t \in ToSet(queue[b])
  <2> SUFFICES ASSUME Queued(t) PROVE t \in ToSet(queue[b]) OBVIOUS
  <2>1. PICK c \in DOMAIN queue : t \in ToSet(queue[c]) BY <1>4
  <2>2. address[t] \in Addresses /\ Last(tables)[index(address[t], Last(tables))] = c
    BY <2>1, <1>4 DEF Placed
  <2>3. address[t] = call[t].address BY <2>2, <1>0, <1>6, ParkingLotConstants DEF Mine
  <2>4. c = b BY <2>2, <2>3, <1>1
  <2> QED BY <2>1, <2>4
<1> HIDE DEF b
<1>8. /\ pc'[t] = (IF Queued(t) THEN "didDequeue" ELSE "settle")
      /\ \A u \in Threads \ {t} : pc'[u] = pc[u]
  <2>1. Contains(queue[b], t) <=> Queued(t) BY <1>1, <1>4, <1>5, <1>7
  <2> QED BY <2>1, <1>0, <1>2 DEF TypeOK
<1>9. ~Queued(t)' /\ \A u \in Threads \ {t} : Queued(u)' <=> Queued(u)
  BY <1>3, <1>7
<1>10. \A u \in Threads : Parking(u)' <=> Parking(u) BY <1>1, <1>2, <1>6, <1>8 DEF Parking
<1>11. \A u \in Threads : Taken(u)' = Taken(u)
  <2>1. Taken(t) = {} /\ Taken(t)' = {} BY <1>1, <1>2 DEF Taken
  <2>2. \A u \in Threads \ {t} : Taken(u)' = Taken(u) BY <1>2, <1>8 DEF Taken
  <2> QED BY <2>1, <2>2
<1>12. Queued(t) => \A u \in Threads : t \notin Taken(u) BY <1>0, TakenIs
<1>13. QueuesAreWhole'
  <2>1. \A u \in Threads : IF Parking(u)
          THEN address[u] = NoAddress \/ Queued(u) \/ pc[u] = "didDequeue" \/ \E v \in Threads : u \in Taken(v)
          ELSE address[u] = NoAddress
    BY <1>0 DEF QueuesAreWhole
  <2>2. \A u \in Threads : Queued(u)' => Parking(u)' BY <1>0, <1>9, <1>10 DEF QueuesAreWhole
  <2>3. Placed(queue', Last(tables'), address') BY <1>2, <1>3
  <2> HIDE DEF Taken, Queued, Parking
  <2>4. ASSUME NEW u \in Threads
        PROVE  IF Parking(u)'
          THEN address'[u] = NoAddress \/ Queued(u)' \/ pc'[u] = "didDequeue" \/ \E v \in Threads : u \in Taken(v)'
          ELSE address'[u] = NoAddress
    <3>1. CASE u # t BY <3>1, <2>1, <1>2, <1>8, <1>9, <1>10, <1>11
    <3>2. CASE u = t BY <3>2, <2>1, <1>1, <1>2, <1>6, <1>8, <1>10, <1>11
    <3> QED BY <3>1, <3>2
  <2> QED BY <2>2, <2>3, <2>4, WholeFollows
<1>14. Mine' BY <1>0, <1>2, <1>10 DEF Mine
<1>15. Left' BY <1>0, <1>2, <1>8, <1>9, <1>11, <1>12 DEF Left
<1>16. TakenThreadsStay' BY <1>0, <1>2, <1>9, <1>10, <1>11, TakenIs DEF TakenThreadsStay
<1>17. TakenOnce'
  <2>1. \A u \in Threads : threadDatas'[u] = threadDatas[u] /\ From(u)' = From(u)
    BY <1>1, <1>2, <1>8 DEF From
  <2> QED BY <2>1, <1>0 DEF TakenOnce
<1> QED BY <1>13, <1>14, <1>15, <1>16, <1>17

\* Nobody has taken the thread that clears its own address.
LEMMA DidDequeueKeeps ==
  ASSUME IInv, TypeOK', NEW t \in Threads, DidDequeue(t)
  PROVE  QueuesAreWhole' /\ Mine' /\ Left' /\ TakenThreadsStay' /\ TakenOnce'
<1>0. TypeOK /\ Named /\ Ways /\ QueuesAreWhole /\ Mine /\ Left /\ TakenThreadsStay /\ TakenOnce
  BY DEF IInv
<1>1. /\ pc[t] = "didDequeue" /\ pc' = [pc EXCEPT ![t] = "return"]
      /\ address' = [address EXCEPT ![t] = NoAddress]
      /\ UNCHANGED <<tables, queue, call, threadDatas>>
  BY DEF DidDequeue, Finish, Goto, lot
<1>2. /\ pc'[t] = "return" /\ address'[t] = NoAddress /\ threadDatas[t] = <<>>
      /\ \A u \in Threads \ {t} : pc'[u] = pc[u] /\ address'[u] = address[u]
  BY <1>0, <1>1 DEF TypeOK, Ways, Way
<1>q. \A c \in DOMAIN queue : queue[c] \in Seq(Threads)
  <2>1. queue \in Seq(Seq(Threads)) BY <1>0 DEF TypeOK
  <2> QED BY <2>1
<1>3. ~Queued(t) /\ \A u \in Threads : t \notin Taken(u) BY <1>0, <1>1 DEF Left
<1>4. \A u : Queued(u)' <=> Queued(u) BY <1>1 DEF Queued
<1>5. ~Parking(t)' /\ \A u \in Threads \ {t} : Parking(u)' <=> Parking(u) BY <1>1, <1>2 DEF Parking
<1>6. \A u \in Threads : Taken(u)' = Taken(u)
  <2>1. Taken(t) = {} /\ Taken(t)' = {} BY <1>1, <1>2 DEF Taken
  <2>2. \A u \in Threads \ {t} : Taken(u)' = Taken(u) BY <1>1, <1>2 DEF Taken
  <2> QED BY <2>1, <2>2
<1>7. QueuesAreWhole'
  <2>1. Placed(queue', Last(tables'), address')
    <3>1. Placed(queue, Last(tables), address) /\ \A u : Queued(u) <=> \E c \in DOMAIN queue : u \in ToSet(queue[c])
      BY <1>0, IsPlaced
    <3>2. ASSUME NEW c \in DOMAIN queue, NEW u \in ToSet(queue[c]) PROVE address'[u] = address[u]
      <4>1. queue[c] \in Seq(Threads) BY <1>q
      <4>2. u \in Threads BY <4>1 DEF ToSet
      <4> QED BY <4>2, <3>1, <1>2, <1>3
    <3> QED BY <3>1, <3>2, <1>1 DEF Placed
  <2>2. \A u \in Threads : Queued(u)' => Parking(u)' BY <1>0, <1>3, <1>4, <1>5 DEF QueuesAreWhole
  <2>3. \A u \in Threads : IF Parking(u)
          THEN address[u] = NoAddress \/ Queued(u) \/ pc[u] = "didDequeue" \/ \E v \in Threads : u \in Taken(v)
          ELSE address[u] = NoAddress
    BY <1>0 DEF QueuesAreWhole
  <2> HIDE DEF Taken, Queued, Parking
  <2>4. \A u \in Threads : IF Parking(u)'
          THEN address'[u] = NoAddress \/ Queued(u)' \/ pc'[u] = "didDequeue" \/ \E v \in Threads : u \in Taken(v)'
          ELSE address'[u] = NoAddress
    BY <2>3, <1>2, <1>4, <1>5, <1>6
  <2> QED BY <2>1, <2>2, <2>4, WholeFollows
<1>8. Mine' BY <1>0, <1>1, <1>2, <1>5 DEF Mine
<1>9. Left' BY <1>0, <1>1, <1>2, <1>4, <1>6 DEF Left
<1>10. TakenThreadsStay'
  <2> SUFFICES ASSUME NEW v \in Threads, NEW u \in Taken(v)'
               PROVE  Parking(u)' /\ ~Queued(u)' /\ address'[u] = call'[v].address
    BY DEF TakenThreadsStay
  <2>1. u \in Taken(v) BY <1>6
  <2>2. u \in Threads /\ Parking(u) /\ ~Queued(u) /\ address[u] = call[v].address BY <2>1, <1>0, TakenIs
  <2>3. u # t BY <2>1, <1>3
  <2> QED BY <2>2, <2>3, <1>1, <1>2, <1>4, <1>5
<1>11. TakenOnce'
  <2>1. \A u \in Threads : threadDatas'[u] = threadDatas[u] /\ From(u)' = From(u)
    BY <1>1, <1>2 DEF From
  <2> QED BY <2>1, <1>0 DEF TakenOnce
<1> QED BY <1>7, <1>8, <1>9, <1>10, <1>11

\* What an unparker takes: threads of its bucket that wait on its address, each once,
\* no more than it asked for, and the first ones.
LEMMA DequeueTakes ==
  ASSUME TypeOK, Named, Ways, QueuesAreWhole, NEW t \in Threads, Dequeue(t)
  PROVE  /\ threadDatas' = [threadDatas EXCEPT ![t] = threadDatas'[t]]
         /\ threadDatas'[t] \in Seq(Threads) /\ Distinct(threadDatas'[t])
         /\ threadDatas'[t] = SubSeq(InBucketFor(t), 1, Len(threadDatas'[t]))
         /\ Len(threadDatas'[t]) =
              IF call[t].count < Len(InBucketFor(t)) THEN call[t].count ELSE Len(InBucketFor(t))
         /\ ToSet(threadDatas'[t]) \subseteq ToSet(queue[bucket[t]])
         /\ \A u \in ToSet(threadDatas'[t]) : address[u] = call[t].address
         /\ queue' = [queue EXCEPT ![bucket[t]] = Keep(@, Threads \ ToSet(threadDatas'[t]))]
         /\ token' = IF call[t].op = "unparkOne" /\ threadDatas'[t] # <<>>
                     THEN [token EXCEPT ![threadDatas'[t][1]] = call[t].token] ELSE token
         /\ answer' = [answer EXCEPT ![t] =
              [unparked |-> Len(threadDatas'[t]),
               mayHaveMoreThreads |-> /\ queue'[bucket[t]] # <<>>
                                      /\ call[t].op = "unparkOne" => threadDatas'[t] # <<>>]]
<1> DEFINE here == InBucketFor(t)
           m == IF call[t].count < Len(here) THEN call[t].count ELSE Len(here)
           taken == SubSeq(here, 1, m)
           S == {u \in Threads : address[u] = call[t].address}
<1>1. /\ threadDatas' = [threadDatas EXCEPT ![t] = taken]
      /\ queue' = [queue EXCEPT ![bucket[t]] = Keep(@, Threads \ ToSet(taken))]
      /\ token' = IF call[t].op = "unparkOne" /\ taken # <<>>
                  THEN [token EXCEPT ![taken[1]] = call[t].token] ELSE token
      /\ answer' = [answer EXCEPT ![t] =
           [unparked |-> Len(taken),
            mayHaveMoreThreads |-> queue'[bucket[t]] # <<>> /\ (call[t].op = "unparkOne" => taken # <<>>)]]
  <2> HIDE DEF here
  <2> QED BY DEF Dequeue, Answer, here
<1>2. /\ queue[bucket[t]] \in Seq(Threads) /\ bucket[t] \in DOMAIN queue
      /\ call[t].op \in Unparks
  BY LockedIs DEF Dequeue, Unparks
<1>3. call[t].count \in Nat \ {0}
  <2>1. call[t] \in Requests \cup Leaving \cup {NoCall} BY DEF TypeOK
  <2> QED BY <1>2, <2>1, CallIs
<1>4. Distinct(queue[bucket[t]]) BY <1>2, IsPlaced DEF Placed
<1>5. here \in Seq(Threads) /\ ToSet(here) = ToSet(queue[bucket[t]]) \cap S /\ Distinct(here)
  <2>1. here = Keep(queue[bucket[t]], S) BY DEF InBucketFor
  <2> HIDE DEF here, S
  <2> QED BY <1>2, <1>4, <2>1, KeepKeeps
<1> HIDE DEF here
<1>6. m \in 0 .. Len(here) /\ Len(here) \in Nat BY <1>3, <1>5
<1> HIDE DEF m
<1>7. taken \in Seq(Threads) /\ Len(taken) = m /\ \A i \in 1 .. m : taken[i] = here[i]
      /\ DOMAIN taken = 1 .. m /\ DOMAIN here = 1 .. Len(here)
  BY <1>5, <1>6
<1> HIDE DEF taken
<1>8. Distinct(taken)
  <2> SUFFICES ASSUME NEW i \in 1 .. m, NEW j \in 1 .. m, taken[i] = taken[j] PROVE i = j
    BY <1>7 DEF Distinct
  <2>1. i \in DOMAIN here /\ j \in DOMAIN here BY <1>6, <1>7
  <2> QED BY <2>1, <1>5, <1>7 DEF Distinct
<1>9. ToSet(taken) \subseteq ToSet(here)
  <2> SUFFICES ASSUME NEW i \in 1 .. m PROVE taken[i] \in ToSet(here) BY <1>7 DEF ToSet
  <2>1. i \in DOMAIN here BY <1>6, <1>7
  <2> QED BY <2>1, <1>7 DEF ToSet
<1>10. threadDatas'[t] = taken BY <1>1 DEF TypeOK
<1>11. taken = SubSeq(here, 1, Len(taken)) BY <1>7 DEF taken
<1> QED BY <1>1, <1>5, <1>7, <1>8, <1>9, <1>10, <1>11 DEF here, m

\* The threads taken were queued, so nobody else has taken them.
LEMMA DequeueKeeps ==
  ASSUME IInv, TypeOK', NEW t \in Threads, Dequeue(t)
  PROVE  QueuesAreWhole' /\ Mine' /\ Left' /\ TakenThreadsStay' /\ TakenOnce'
<1>0. TypeOK /\ Named /\ Ways /\ QueuesAreWhole /\ Mine /\ Left /\ TakenThreadsStay /\ TakenOnce
  BY DEF IInv
<1> DEFINE taken == threadDatas'[t]
           b == bucket[t]
<1>1. /\ threadDatas' = [threadDatas EXCEPT ![t] = taken]
      /\ taken \in Seq(Threads) /\ Distinct(taken)
      /\ ToSet(taken) \subseteq ToSet(queue[b])
      /\ \A u \in ToSet(taken) : address[u] = call[t].address
      /\ queue' = [queue EXCEPT ![b] = Keep(@, Threads \ ToSet(taken))]
  BY <1>0, DequeueTakes
<1>2. /\ pc[t] = "lock" /\ call[t].op \in Unparks /\ pc' = [pc EXCEPT ![t] = "unpark"]
      /\ UNCHANGED <<tables, address, call>> /\ b \in DOMAIN queue /\ threadDatas[t] = <<>>
  BY <1>0, LockedIs DEF Dequeue, Goto, Unparks
<1> HIDE DEF taken, b
<1>3. /\ Placed(queue', Last(tables'), address)
      /\ \A u : Queued(u)' <=> Queued(u) /\ ~(u \in ToSet(taken) /\ u \in ToSet(queue[b]))
  BY <1>0, <1>1, <1>2, Shrunk
<1>4. \A u \in ToSet(taken) : Queued(u) BY <1>0, <1>1, <1>2, IsPlaced
<1>5. \A u : Queued(u)' <=> Queued(u) /\ u \notin ToSet(taken) BY <1>1, <1>3
<1>6. /\ pc'[t] = "unpark" /\ threadDatas'[t] = taken
      /\ \A u \in Threads \ {t} : pc'[u] = pc[u] /\ threadDatas'[u] = threadDatas[u]
  BY <1>0, <1>1, <1>2 DEF TypeOK, taken
<1>7. \A u \in Threads : Parking(u)' <=> Parking(u) BY <1>2, <1>6 DEF Parking, Unparks
<1>8. ToSet(taken) = {taken[i] : i \in 1 .. Len(taken)} BY <1>1 DEF ToSet
<1>9. /\ Taken(t) = {} /\ Taken(t)' = ToSet(taken)
      /\ \A u \in Threads \ {t} : Taken(u)' = Taken(u)
  <2>1. Taken(t) = {} BY <1>2 DEF Taken
  <2>2. Taken(t)' = ToSet(taken) BY <1>6, <1>8 DEF Taken
  <2>3. \A u \in Threads \ {t} : Taken(u)' = Taken(u) BY <1>6 DEF Taken
  <2> QED BY <2>1, <2>2, <2>3
<1>10. QueuesAreWhole'
  <2>1. \A u \in Threads : IF Parking(u)
          THEN address[u] = NoAddress \/ Queued(u) \/ pc[u] = "didDequeue" \/ \E v \in Threads : u \in Taken(v)
          ELSE address[u] = NoAddress
    BY <1>0 DEF QueuesAreWhole
  <2>2. \A u \in Threads : Queued(u)' => Parking(u)' BY <1>0, <1>5, <1>7 DEF QueuesAreWhole
  <2>3. Placed(queue', Last(tables'), address') BY <1>2, <1>3
  <2>p. pc[t] # "didDequeue" BY <1>2
  <2> HIDE DEF Taken, Queued, Parking
  <2>4. ASSUME NEW u \in Threads
        PROVE  IF Parking(u)'
          THEN address'[u] = NoAddress \/ Queued(u)' \/ pc'[u] = "didDequeue" \/ \E v \in Threads : u \in Taken(v)'
          ELSE address'[u] = NoAddress
    <3>1. ASSUME NEW v \in Threads, u \in Taken(v) PROVE u \in Taken(v)' BY <3>1, <1>9
    <3>2. Queued(u) => Queued(u)' \/ u \in Taken(t)' BY <1>5, <1>9
    <3>3. pc[u] = "didDequeue" => pc'[u] = "didDequeue" BY <1>6, <2>p
    <3> QED BY <2>1, <3>1, <3>2, <3>3, <1>2, <1>7
  <2> QED BY <2>2, <2>3, <2>4, WholeFollows
<1>11. Mine' BY <1>0, <1>2, <1>7 DEF Mine
<1>12. Left'
  <2>1. \A u \in Threads : pc'[u] = "settle" \/ (pc'[u] = "asleep" /\ call'[u].op = "leave") => ~Queued(u)'
    BY <1>0, <1>2, <1>5, <1>6 DEF Left
  <2>2. ASSUME NEW u \in Threads, pc'[u] = "didDequeue"
        PROVE  ~Queued(u)' /\ \A v \in Threads : u \notin Taken(v)'
    <3>1. pc[u] = "didDequeue" BY <2>2, <1>6
    <3>2. ~Queued(u) /\ \A v \in Threads : u \notin Taken(v) BY <3>1, <1>0 DEF Left
    <3> QED BY <3>2, <1>4, <1>5, <1>9
  <2> QED BY <2>1, <2>2 DEF Left
<1>13. TakenThreadsStay'
  <2> SUFFICES ASSUME NEW v \in Threads, NEW u \in Taken(v)'
               PROVE  Parking(u)' /\ ~Queued(u)' /\ address'[u] = call'[v].address
    BY DEF TakenThreadsStay
  <2>1. CASE v = t
    <3>1. u \in ToSet(taken) BY <2>1, <1>9
    <3>2. u \in Threads BY <3>1, <1>1, <1>8
    <3>3. Queued(u) /\ Parking(u) BY <3>1, <3>2, <1>0, <1>4 DEF QueuesAreWhole
    <3> QED BY <2>1, <3>1, <3>2, <3>3, <1>1, <1>2, <1>5, <1>7
  <2>2. CASE v # t
    <3>1. u \in Taken(v) BY <2>2, <1>9
    <3>2. u \in Threads /\ Parking(u) /\ ~Queued(u) /\ address[u] = call[v].address BY <3>1, <1>0, TakenIs
    <3> QED BY <3>2, <1>2, <1>5, <1>7
  <2> QED BY <2>1, <2>2
<1>14. TakenOnce'
  <2> SUFFICES ASSUME NEW u \in Threads, NEW v \in Threads,
                      NEW i \in From(u)' .. Len(threadDatas'[u]),
                      NEW j \in From(v)' .. Len(threadDatas'[v]),
                      threadDatas'[u][i] = threadDatas'[v][j]
               PROVE  u = v /\ i = j
    BY DEF TakenOnce
  <2>0. From(t)' = 1 /\ \A w \in Threads \ {t} : From(w)' = From(w) BY <1>6 DEF From
  <2>1. ASSUME NEW w \in Threads \ {t}, NEW k \in From(w) .. Len(threadDatas[w])
        PROVE  threadDatas[w][k] \notin ToSet(taken)
    <3>1. threadDatas[w][k] \in Taken(w) BY DEF Taken, From
    <3>2. ~Queued(threadDatas[w][k]) BY <3>1, <1>0 DEF TakenThreadsStay
    <3> QED BY <3>2, <1>4
  <2> HIDE DEF From
  <2>2. CASE u = t /\ v = t
    <3>1. i \in 1 .. Len(taken) /\ j \in 1 .. Len(taken) /\ taken[i] = taken[j] BY <2>0, <2>2, <1>6
    <3>2. DOMAIN taken = 1 .. Len(taken) BY <1>1
    <3> QED BY <2>2, <3>1, <3>2, <1>1 DEF Distinct
  <2>3. CASE u = t /\ v # t
    <3>1. i \in 1 .. Len(taken) /\ taken[i] = threadDatas[v][j] /\ j \in From(v) .. Len(threadDatas[v])
      BY <2>0, <2>3, <1>6
    <3> QED BY <2>1, <2>3, <3>1, <1>8
  <2>4. CASE u # t /\ v = t
    <3>1. j \in 1 .. Len(taken) /\ taken[j] = threadDatas[u][i] /\ i \in From(u) .. Len(threadDatas[u])
      BY <2>0, <2>4, <1>6
    <3> QED BY <2>1, <2>4, <3>1, <1>8
  <2>5. CASE u # t /\ v # t
    BY <2>0, <2>5, <1>0, <1>6 DEF TakenOnce
  <2> QED BY <2>2, <2>3, <2>4, <2>5
<1> QED BY <1>10, <1>11, <1>12, <1>13, <1>14

\* The first of the taken threads still waits with the address it was taken for.
LEMMA ClearAddressKeeps ==
  ASSUME IInv, TypeOK', NEW t \in Threads, ClearAddress(t)
  PROVE  QueuesAreWhole' /\ Mine' /\ Left' /\ TakenThreadsStay' /\ TakenOnce'
<1>0. TypeOK /\ Named /\ Ways /\ QueuesAreWhole /\ Mine /\ Left /\ TakenThreadsStay /\ TakenOnce
  BY DEF IInv
<1> DEFINE s == threadDatas[t]
           h == Head(s)
<1>1. /\ pc[t] = "unpark" /\ s # <<>> /\ s \in Seq(Threads)
      /\ address' = [address EXCEPT ![h] = NoAddress] /\ pc' = [pc EXCEPT ![t] = "signal"]
      /\ UNCHANGED <<tables, queue, call, threadDatas>>
  BY <1>0 DEF ClearAddress, Goto, lot, TypeOK
<1>2. /\ h = s[1] /\ h \in Threads /\ Len(s) \in Nat \ {0} BY <1>1
<1> HIDE DEF s, h
<1>q. \A c \in DOMAIN queue : queue[c] \in Seq(Threads)
  <2>1. queue \in Seq(Seq(Threads)) BY <1>0 DEF TypeOK
  <2> QED BY <2>1
<1>p. pc \in [Threads -> Labels] /\ address \in [Threads -> Addresses \cup {NoAddress}]
  BY <1>0 DEF TypeOK
<1>3. /\ pc'[t] = "signal" /\ \A u \in Threads \ {t} : pc'[u] = pc[u]
      /\ address'[h] = NoAddress /\ \A u \in Threads \ {h} : address'[u] = address[u]
      /\ threadDatas[t] = s
  BY <1>p, <1>1, <1>2 DEF s
<1>4. \A u : Queued(u)' <=> Queued(u) BY <1>1 DEF Queued
<1>5. \A u \in Threads : Parking(u)' <=> Parking(u)
  BY <1>1, <1>3 DEF Parking
<1>6. \A u \in Threads : threadDatas'[u] = threadDatas[u] /\ (u # t => From(u)' = From(u))
  BY <1>1, <1>3 DEF From
<1>7. From(t) = 1 /\ From(t)' = 2 BY <1>1, <1>3 DEF From
<1>8. \A u \in Threads : Taken(u) = {threadDatas[u][i] : i \in From(u) .. Len(threadDatas[u])}
  BY DEF Taken, From
<1>9. \A u \in Threads : Taken(u)' = {threadDatas'[u][i] : i \in From(u)' .. Len(threadDatas'[u])}
  BY DEF Taken, From
<1>10. h \in Taken(t) BY <1>2, <1>3, <1>7, <1>8
<1>11. Parking(h) /\ ~Queued(h) BY <1>0, <1>10, TakenIs
<1>12. \A u \in Threads : Taken(u)' = Taken(u) \ {h}
  <2> HIDE DEF From
  <2>1. Taken(t)' = Taken(t) \ {h}
    <3>1. Taken(t) = {s[i] : i \in 1 .. Len(s)} BY <1>3, <1>7, <1>8
    <3>2. Taken(t)' = {s[i] : i \in 2 .. Len(s)} BY <1>3, <1>6, <1>7, <1>9
    <3>3. \A i \in 1 .. Len(s) : s[i] = h => i = 1 BY <1>0, <1>2, <1>3, <1>7 DEF TakenOnce
    <3>4. \A i \in 2 .. Len(s) : s[i] # h /\ i \in 1 .. Len(s) BY <1>2, <3>3
    <3>5. \A i \in 1 .. Len(s) : s[i] # h => i \in 2 .. Len(s) BY <1>2
    <3> QED BY <3>1, <3>2, <3>4, <3>5
  <2>2. ASSUME NEW u \in Threads \ {t} PROVE Taken(u)' = Taken(u) \ {h}
    <3>1. Taken(u)' = Taken(u) BY <1>3, <1>6 DEF Taken
    <3>2. ASSUME NEW i \in From(u) .. Len(threadDatas[u]) PROVE threadDatas[u][i] # h
      <4>1. 1 \in From(t) .. Len(threadDatas[t]) /\ threadDatas[t][1] = h BY <1>2, <1>3, <1>7
      <4> QED BY <4>1, <1>0 DEF TakenOnce
    <3>3. h \notin Taken(u) BY <3>2, <1>8
    <3> QED BY <3>1, <3>3
  <2> QED BY <2>1, <2>2
<1>13. QueuesAreWhole'
  <2>1. Placed(queue', Last(tables'), address')
    <3>1. Placed(queue, Last(tables), address) /\ \A u : Queued(u) <=> \E c \in DOMAIN queue : u \in ToSet(queue[c])
      BY <1>0, IsPlaced
    <3>2. ASSUME NEW c \in DOMAIN queue, NEW u \in ToSet(queue[c]) PROVE address'[u] = address[u]
      <4>1. queue[c] \in Seq(Threads) BY <1>q
      <4>2. u \in Threads BY <4>1 DEF ToSet
      <4> QED BY <4>2, <3>1, <1>3, <1>11
    <3> QED BY <3>1, <3>2, <1>1 DEF Placed
  <2>2. \A u \in Threads : Queued(u)' => Parking(u)' BY <1>0, <1>4, <1>5 DEF QueuesAreWhole
  <2>3. \A u \in Threads : IF Parking(u)
          THEN address[u] = NoAddress \/ Queued(u) \/ pc[u] = "didDequeue" \/ \E v \in Threads : u \in Taken(v)
          ELSE address[u] = NoAddress
    BY <1>0 DEF QueuesAreWhole
  <2>4. \A u \in Threads : pc[u] = "didDequeue" => pc'[u] = "didDequeue" BY <1>1, <1>3
  <2> HIDE DEF Taken, Queued, Parking
  <2>5. \A u \in Threads : IF Parking(u)'
          THEN address'[u] = NoAddress \/ Queued(u)' \/ pc'[u] = "didDequeue" \/ \E v \in Threads : u \in Taken(v)'
          ELSE address'[u] = NoAddress
    BY <2>3, <2>4, <1>3, <1>4, <1>5, <1>12
  <2> QED BY <2>1, <2>2, <2>5, WholeFollows
<1>14. Mine' BY <1>0, <1>1, <1>3, <1>5 DEF Mine
<1>15. Left'
  <2>1. \A u \in Threads : pc'[u] = "settle" \/ (pc'[u] = "asleep" /\ call'[u].op = "leave") => ~Queued(u)'
    BY <1>0, <1>1, <1>3, <1>4 DEF Left
  <2>2. \A u \in Threads : pc'[u] = "didDequeue" => ~Queued(u)' /\ \A v \in Threads : u \notin Taken(v)'
    BY <1>0, <1>3, <1>4, <1>12 DEF Left
  <2> QED BY <2>1, <2>2 DEF Left
<1>16. TakenThreadsStay'
  <2> SUFFICES ASSUME NEW v \in Threads, NEW u \in Taken(v)'
               PROVE  Parking(u)' /\ ~Queued(u)' /\ address'[u] = call'[v].address
    BY DEF TakenThreadsStay
  <2>1. u \in Taken(v) /\ u # h BY <1>12
  <2>2. u \in Threads /\ Parking(u) /\ ~Queued(u) /\ address[u] = call[v].address BY <2>1, <1>0, TakenIs
  <2> QED BY <2>1, <2>2, <1>1, <1>3, <1>4, <1>5
<1>17. TakenOnce'
  <2> SUFFICES ASSUME NEW u \in Threads, NEW v \in Threads,
                      NEW i \in From(u)' .. Len(threadDatas[u]),
                      NEW j \in From(v)' .. Len(threadDatas[v]),
                      threadDatas[u][i] = threadDatas[v][j]
               PROVE  u = v /\ i = j
    BY <1>6 DEF TakenOnce
  <2>1. \A w \in Threads : Len(threadDatas[w]) \in Nat BY <1>0 DEF TypeOK
  <2> HIDE DEF From
  <2>2. i \in From(u) .. Len(threadDatas[u])
    <3>1. CASE u = t BY <3>1, <2>1, <1>7
    <3>2. CASE u # t BY <3>2, <1>6
    <3> QED BY <3>1, <3>2
  <2>3. j \in From(v) .. Len(threadDatas[v])
    <3>1. CASE v = t BY <3>1, <2>1, <1>7
    <3>2. CASE v # t BY <3>2, <1>6
    <3> QED BY <3>1, <3>2
  <2> QED BY <2>2, <2>3, <1>0 DEF TakenOnce
<1> QED BY <1>13, <1>14, <1>15, <1>16, <1>17

\* Whom Signal wakes, it sends where its call goes on.
LEMMA Wakes ==
  ASSUME IInv, NEW t \in Threads, Signal(t)
  PROVE  /\ pc[t] = "signal" /\ pc'[t] = "unpark" /\ call[t].op \in Unparks
         /\ \A u \in Threads \ {t} :
              \/ pc'[u] = pc[u]
              \/ pc[u] = "asleep" /\ pc'[u] = (IF call[u].op = "leave" THEN "settle" ELSE "check")
<1> DEFINE s == threadDatas[t]
           h == Head(s)
           leaves == call[h].op = "leave"
           woken == IF pc[h] # "asleep" THEN pc[h] ELSE IF leaves THEN "settle" ELSE "check"
<1>1. /\ pc[t] = "signal" /\ s # <<>> /\ s \in Seq(Threads) /\ call[t].op \in Unparks
      /\ pc' = [pc EXCEPT ![t] = "unpark",
                  ![h] = IF @ # "asleep" THEN @ ELSE IF leaves THEN "settle" ELSE "check"]
  BY DEF IInv, Signal, TypeOK, Ways, Way
<1>2. h \in Threads BY <1>1
<1>3. pc \in [Threads -> Labels] BY DEF IInv, TypeOK
<1>4. woken = IF pc[h] # "asleep" THEN pc[h] ELSE IF leaves THEN "settle" ELSE "check" OBVIOUS
<1>5. \A u \in Threads : leaves /\ h = u => call[u].op = "leave" OBVIOUS
<1>6. \A u \in Threads : ~leaves /\ h = u => call[u].op # "leave" OBVIOUS
<1> HIDE DEF h, woken, leaves
<1>7. CASE h = t BY <1>1, <1>3, <1>7
<1>8. CASE h # t
  <2>1. pc'[t] = "unpark" /\ \A u \in Threads \ {t} : pc'[u] = IF u = h THEN woken ELSE pc[u]
    BY <1>1, <1>2, <1>3, <1>4, <1>8
  <2> QED BY <1>1, <1>4, <1>5, <1>6, <2>1
<1> QED BY <1>7, <1>8

\* Only a thread that sleeps is woken, and its own call says where it goes on.
LEMMA SignalKeeps ==
  ASSUME IInv, TypeOK', NEW t \in Threads, Signal(t)
  PROVE  QueuesAreWhole' /\ Mine' /\ Left' /\ TakenThreadsStay' /\ TakenOnce'
<1>0. TypeOK /\ Named /\ Ways /\ QueuesAreWhole /\ Mine /\ Left /\ TakenThreadsStay /\ TakenOnce
  BY DEF IInv
<1> DEFINE s == threadDatas[t]
<1>1. /\ pc[t] = "signal" /\ s # <<>> /\ s \in Seq(Threads)
      /\ threadDatas' = [threadDatas EXCEPT ![t] = Tail(@)]
      /\ UNCHANGED <<tables, queue, address, call>>
  BY <1>0 DEF Signal, lot, data, TypeOK, Ways, Way
<1>2. Len(s) \in Nat \ {0} BY <1>1
<1>3. pc'[t] = "unpark" BY Wakes
<1>4. threadDatas'[t] = Tail(s) /\ \A u \in Threads \ {t} : threadDatas'[u] = threadDatas[u]
  BY <1>0, <1>1 DEF TypeOK
<1>5. /\ Tail(s) \in Seq(Threads) /\ Len(Tail(s)) = Len(s) - 1
      /\ \A i \in 1 .. Len(s) - 1 : Tail(s)[i] = s[i + 1]
  BY <1>1
<1>6. \A u \in Threads \ {t} : \/ pc'[u] = pc[u]
                               \/ pc[u] = "asleep" /\ pc'[u] = (IF call[u].op = "leave" THEN "settle" ELSE "check")
  BY Wakes
<1> HIDE DEF s
<1>7. \A u : Queued(u)' <=> Queued(u) BY <1>1 DEF Queued
<1>8. \A u \in Threads : Parking(u)' <=> Parking(u)
  <2>1. \A u \in Threads \ {t} : Parking(u)' <=> Parking(u) BY <1>1, <1>6 DEF Parking
  <2>2. Parking(t)' <=> Parking(t) BY <1>1, <1>3 DEF Parking
  <2> QED BY <2>1, <2>2
<1>p. \A u \in Threads \ {t} : (pc'[u] = "signal" <=> pc[u] = "signal")
                               /\ (pc'[u] = "didDequeue" <=> pc[u] = "didDequeue")
  <2> SUFFICES ASSUME NEW u \in Threads \ {t}
               PROVE  (pc'[u] = "signal" <=> pc[u] = "signal")
                      /\ (pc'[u] = "didDequeue" <=> pc[u] = "didDequeue")
    OBVIOUS
  <2>1. CASE pc'[u] = pc[u] BY <2>1
  <2>2. CASE pc'[u] # pc[u]
    <3>1. pc[u] = "asleep" /\ pc'[u] \in {"settle", "check"} BY <2>2, <1>6
    <3> QED BY <3>1
  <2> QED BY <2>1, <2>2
<1>9. From(t) = 2 /\ From(t)' = 1 /\ \A u \in Threads \ {t} : From(u)' = From(u)
  BY <1>1, <1>3, <1>p DEF From
<1>10. \A u \in Threads : Taken(u) = {threadDatas[u][i] : i \in From(u) .. Len(threadDatas[u])}
  BY DEF Taken, From
<1>11. \A u \in Threads : Taken(u)' = {threadDatas'[u][i] : i \in From(u)' .. Len(threadDatas'[u])}
  BY DEF Taken, From
<1>12. \A u \in Threads : Taken(u)' = Taken(u)
  <2> HIDE DEF From
  <2>1. Taken(t)' = Taken(t)
    <3>1. Taken(t) = {s[i] : i \in 2 .. Len(s)} BY <1>9, <1>10 DEF s
    <3>2. Taken(t)' = {Tail(s)[i] : i \in 1 .. Len(s) - 1}
      <4>1. Taken(t)' = {threadDatas'[t][i] : i \in 1 .. Len(threadDatas'[t])} BY <1>3 DEF Taken
      <4> QED BY <4>1, <1>4, <1>5
    <3>3. \A i \in 1 .. Len(s) - 1 : i + 1 \in 2 .. Len(s) /\ Tail(s)[i] = s[i + 1] BY <1>2, <1>5
    <3>4. \A i \in 2 .. Len(s) : i - 1 \in 1 .. Len(s) - 1 /\ Tail(s)[i - 1] = s[i] BY <1>2, <1>5
    <3> QED BY <3>1, <3>2, <3>3, <3>4
  <2>2. \A u \in Threads \ {t} : Taken(u)' = Taken(u) BY <1>4, <1>p DEF Taken
  <2> QED BY <2>1, <2>2
<1>13. \A u \in Threads : pc'[u] = "didDequeue" <=> pc[u] = "didDequeue" BY <1>1, <1>3, <1>p
<1>14. QueuesAreWhole'
  <2>1. Placed(queue', Last(tables'), address') BY <1>0, <1>1, IsPlaced
  <2>2. \A u \in Threads : Queued(u)' => Parking(u)' BY <1>0, <1>7, <1>8 DEF QueuesAreWhole
  <2>3. \A u \in Threads : IF Parking(u)
          THEN address[u] = NoAddress \/ Queued(u) \/ pc[u] = "didDequeue" \/ \E v \in Threads : u \in Taken(v)
          ELSE address[u] = NoAddress
    BY <1>0 DEF QueuesAreWhole
  <2> HIDE DEF Taken, Queued, Parking
  <2>4. \A u \in Threads : IF Parking(u)'
          THEN address'[u] = NoAddress \/ Queued(u)' \/ pc'[u] = "didDequeue" \/ \E v \in Threads : u \in Taken(v)'
          ELSE address'[u] = NoAddress
    BY <2>3, <1>1, <1>7, <1>8, <1>12, <1>13
  <2> QED BY <2>1, <2>2, <2>4, WholeFollows
<1>15. Mine' BY <1>0, <1>1, <1>8 DEF Mine
<1>16. Left'
  <2>1. ASSUME NEW u \in Threads, pc'[u] = "settle" \/ (pc'[u] = "asleep" /\ call'[u].op = "leave")
        PROVE  ~Queued(u)'
    <3>1. u # t BY <2>1, <1>3
    <3>2. pc[u] = "settle" \/ (pc[u] = "asleep" /\ call[u].op = "leave")
      <4>1. CASE pc'[u] = pc[u] BY <2>1, <4>1, <1>1
      <4>2. CASE pc'[u] # pc[u]
        <5>1. pc[u] = "asleep" /\ pc'[u] = (IF call[u].op = "leave" THEN "settle" ELSE "check")
          BY <3>1, <4>2, <1>6
        <5> QED BY <2>1, <5>1
      <4> QED BY <4>1, <4>2
    <3> QED BY <3>2, <1>0, <1>7 DEF Left
  <2>2. \A u \in Threads : pc'[u] = "didDequeue" => ~Queued(u)' /\ \A v \in Threads : u \notin Taken(v)'
    BY <1>0, <1>7, <1>12, <1>13 DEF Left
  <2> QED BY <2>1, <2>2 DEF Left
<1>17. TakenThreadsStay' BY <1>0, <1>1, <1>7, <1>8, <1>12, TakenIs DEF TakenThreadsStay
<1>18. TakenOnce'
  <2> SUFFICES ASSUME NEW u \in Threads, NEW v \in Threads,
                      NEW i \in From(u)' .. Len(threadDatas'[u]),
                      NEW j \in From(v)' .. Len(threadDatas'[v]),
                      threadDatas'[u][i] = threadDatas'[v][j]
               PROVE  u = v /\ i = j
    BY DEF TakenOnce
  <2> DEFINE at(w, k) == IF w = t THEN k + 1 ELSE k
  <2> HIDE DEF From
  <2>1. ASSUME NEW w \in Threads, NEW k \in From(w)' .. Len(threadDatas'[w])
        PROVE  /\ at(w, k) \in From(w) .. Len(threadDatas[w]) /\ k \in Int
               /\ threadDatas'[w][k] = threadDatas[w][at(w, k)]
    <3>1. CASE w = t
      <4>1. k \in 1 .. Len(s) - 1 BY <3>1, <2>1, <1>4, <1>5, <1>9
      <4>2. Tail(s)[k] = s[k + 1] /\ k + 1 \in 2 .. Len(s) BY <4>1, <1>2, <1>5
      <4> QED BY <3>1, <4>1, <4>2, <1>4, <1>9 DEF s
    <3>2. CASE w # t BY <3>2, <2>1, <1>4, <1>9
    <3> QED BY <3>1, <3>2
  <2>2. threadDatas[u][at(u, i)] = threadDatas[v][at(v, j)] BY <2>1
  <2>3. u = v /\ at(u, i) = at(v, j)
    <3> HIDE DEF at
    <3> QED BY <2>1, <2>2, <1>0 DEF TakenOnce
  <2>4. i \in Int /\ j \in Int BY <2>1
  <2> QED BY <2>3, <2>4
<1> QED BY <1>14, <1>15, <1>16, <1>17, <1>18
-----------------------------------------------------------------------------
(* What every step does *)

\* Everything that one thread does.
Move(t) == Call(t) \/ ThreadExits(t) \/ WaitEnds(t) \/ Step(t)

\* The tables and the queues that a step leaves.
LEMMA TablesKeep ==
  ASSUME IInv, NEW t \in Threads, Move(t)
  PROVE  /\ tables' \in Seq(Tables) /\ queue' \in Seq(Seq(Threads)) /\ Named' /\ Preserved
         /\ \A k \in 1 .. Len(tables') - 1 : k \in DOMAIN tables /\ IsFull(tables[k])
<1>0. TypeOK /\ Named /\ Full /\ Ways /\ QueuesAreWhole BY DEF IInv
<1>t. /\ tables \in Seq(Tables) /\ queue \in Seq(Seq(Threads))
      /\ Len(tables) \in Nat /\ DOMAIN tables = 1 .. Len(tables)
  BY <1>0 DEF TypeOK
<1>1. ASSUME Grown
      PROVE  /\ tables' \in Seq(Tables) /\ queue' \in Seq(Seq(Threads)) /\ Named' /\ Preserved
             /\ \A k \in 1 .. Len(tables') - 1 : k \in DOMAIN tables /\ IsFull(tables[k])
  <2>1. tables' \in Seq(Tables) /\ queue' \in Seq(Seq(Threads)) /\ Named' /\ Preserved
    BY <1>1, GrownPreserves DEF Grown
  <2>2. ASSUME NEW k \in 1 .. Len(tables') - 1 PROVE k \in DOMAIN tables /\ IsFull(tables[k])
    <3>1. Len(tables') \in Nat BY <2>1
    <3>2. tables # <<>> /\ Len(tables') = Len(tables) BY <2>2, <3>1, <1>1 DEF Grown
    <3> QED BY <3>2, <2>2, <1>0, <1>t DEF Full
  <2> QED BY <2>1, <2>2
<1>2. ASSUME UNCHANGED <<tables, queue>> PROVE Grown BY <1>0, <1>2, StutterGrows
<1>3. ASSUME Rehash(t)
      PROVE  /\ tables' \in Seq(Tables) /\ queue' \in Seq(Seq(Threads)) /\ Named' /\ Preserved
             /\ \A k \in 1 .. Len(tables') - 1 : k \in DOMAIN tables /\ IsFull(tables[k])
  <2>1. /\ tables' \in Seq(Tables) /\ queue' \in Seq(Seq(Threads)) /\ Named'
        /\ Len(tables') = Len(tables) + 1 /\ IsFull(tables[Len(tables)])
        /\ \A k \in DOMAIN tables : k \in DOMAIN tables' /\ tables'[k] = tables[k]
        /\ \A b \in DOMAIN queue : b \in DOMAIN queue'
    BY <1>0, <1>3, RehashMoves
  <2>2. Preserved BY <2>1 DEF Preserved
  <2>3. ASSUME NEW k \in 1 .. Len(tables') - 1 PROVE k \in DOMAIN tables /\ IsFull(tables[k])
    <3>1. k \in 1 .. Len(tables) BY <2>1, <1>t
    <3>2. k = Len(tables) \/ k \in 1 .. Len(tables) - 1
      <4>1. \A n \in Nat : \A i \in 1 .. n : i = n \/ i \in 1 .. n - 1 OBVIOUS
      <4> QED BY <3>1, <4>1, <1>t
    <3> QED BY <3>1, <3>2, <2>1, <1>0, <1>t DEF Full
  <2> QED BY <2>1, <2>2, <2>3
<1>4. ASSUME tables' = tables, queue' \in Seq(Seq(Threads)), Len(queue') = Len(queue)
      PROVE  /\ tables' \in Seq(Tables) /\ queue' \in Seq(Seq(Threads)) /\ Named' /\ Preserved
             /\ \A k \in 1 .. Len(tables') - 1 : k \in DOMAIN tables /\ IsFull(tables[k])
  <2>1. DOMAIN queue' = DOMAIN queue BY <1>4, <1>t
  <2>2. Preserved BY <1>4, <2>1 DEF Preserved
  <2>3. Named'
    <3>1. tables' = <<>> => queue' = <<>>
      <4>1. queue = <<>> => Len(queue') = 0 BY <1>4
      <4>2. Len(queue') = 0 => queue' = <<>> BY <1>4
      <4> QED BY <4>1, <4>2, <1>0, <1>4 DEF Named
    <3> QED BY <3>1, <1>0, <1>4 DEF Named
  <2> QED BY <1>0, <1>4, <1>t, <2>2, <2>3 DEF Full
<1>5. ASSUME Enqueue(t) PROVE tables' = tables /\ queue' \in Seq(Seq(Threads)) /\ Len(queue') = Len(queue)
  <2>1. bucket[t] \in DOMAIN queue /\ queue[bucket[t]] \in Seq(Threads) BY <1>0, <1>5, LockedIs DEF Enqueue
  <2>2. Append(queue[bucket[t]], t) \in Seq(Threads) BY <2>1
  <2>3. queue' = [queue EXCEPT ![bucket[t]] = Append(queue[bucket[t]], t)] /\ tables' = tables
    BY <1>5 DEF Enqueue
  <2> DEFINE Q == Seq(Threads)
             r == Append(queue[bucket[t]], t)
  <2>4. r \in Q /\ queue \in Seq(Q) /\ queue' = [queue EXCEPT ![bucket[t]] = r] BY <1>t, <2>2, <2>3
  <2> HIDE DEF Q, r
  <2>5. queue' \in Seq(Q) /\ Len(queue') = Len(queue) BY <2>1, <2>4
  <2> QED BY <2>3, <2>5 DEF Q
<1>6. ASSUME DequeueMyself(t) PROVE tables' = tables /\ queue' \in Seq(Seq(Threads)) /\ Len(queue') = Len(queue)
  <2>1. bucket[t] \in DOMAIN queue BY <1>0, <1>6, LockedIs DEF DequeueMyself
  <2>2. queue' = [queue EXCEPT ![bucket[t]] = Keep(@, Threads \ {t})] /\ tables' = tables
    BY <1>6 DEF DequeueMyself
  <2> QED BY <2>1, <2>2, <1>0, Shrunk
<1>7. ASSUME Dequeue(t) PROVE tables' = tables /\ queue' \in Seq(Seq(Threads)) /\ Len(queue') = Len(queue)
  <2>1. bucket[t] \in DOMAIN queue BY <1>0, <1>7, LockedIs DEF Dequeue
  <2>2. queue' = [queue EXCEPT ![bucket[t]] = Keep(@, Threads \ ToSet(threadDatas'[t]))]
    BY <1>0, <1>7, DequeueTakes
  <2>3. tables' = tables BY <1>7 DEF Dequeue
  <2> QED BY <2>1, <2>2, <2>3, <1>0, Shrunk
<1>8. \/ Grown \/ Rehash(t) \/ Enqueue(t) \/ DequeueMyself(t) \/ Dequeue(t)
  <2>1. ASSUME Collect(t) PROVE Grown BY <1>0, <2>1, CollectGrows
  <2>2. ASSUME FindTable(t) PROVE Grown BY <1>0, <2>2, FindTableGrows
  <2>3. ASSUME FindBucket(t) PROVE Grown BY <1>0, <2>3, FindBucketGrows
  <2>4. ASSUME \/ Call(t) \/ ThreadExits(t) \/ WaitEnds(t) \/ NewThreadData(t) \/ ensureHashtableSize(t)
               \/ NoBucket(t) \/ LookAgain(t) \/ ValidationFails(t) \/ Check(t) \/ TimesOut(t)
        PROVE  UNCHANGED <<tables, queue>>
    BY <2>4 DEF Call, ThreadExits, WaitEnds, NewThreadData, ensureHashtableSize, NoBucket, LookAgain,
                ValidationFails, Check, TimesOut, lot
  <2>5. ASSUME \/ LockBucket(t) \/ LockAgain(t) \/ forEach(t) \/ NoRehash(t)
        PROVE  UNCHANGED <<tables, queue>>
    BY <2>5 DEF LockBucket, LockAgain, forEach, NoRehash
  <2>6. ASSUME DidDequeue(t) \/ Settle(t) \/ ClearAddress(t) \/ Signal(t) \/ UnparkEnds(t) \/ Return(t)
        PROVE  UNCHANGED <<tables, queue>>
    BY <2>6 DEF DidDequeue, Settle, ClearAddress, Signal, UnparkEnds, Return, lot
  <2> QED BY <2>1, <2>2, <2>3, <2>4, <2>5, <2>6, <1>2 DEF Move, Step
<1> QED BY <1>1, <1>3, <1>4, <1>5, <1>6, <1>7, <1>8

\* The variables keep their types.
LEMMA TypesKeep == ASSUME IInv, NEW t \in Threads, Move(t) PROVE TypeOK'
<1>0. /\ TypeOK /\ Named /\ Ways /\ QueuesAreWhole /\ Way(t) /\ numThreads \in Nat
      /\ tables' \in Seq(Tables) /\ queue' \in Seq(Seq(Threads))
  <2>1. numThreads \in Nat BY FS_CardinalityType DEF IInv, Counted
  <2> QED BY <2>1, TablesKeep DEF IInv, Ways
<1>t. /\ holder \in Seq(Threads \cup {NoThread}) /\ number \in [Threads -> Nat]
      /\ address \in [Threads -> Addresses \cup {NoAddress}] /\ token \in [Threads -> Threads \cup {NoToken}]
      /\ pc \in [Threads -> Labels]
      /\ calls \in [Threads -> Seq(SUBSET Requests)]
      /\ call \in [Threads -> Requests \cup Leaving \cup {NoCall}]
      /\ spine \in [Threads -> Nat] /\ bucket \in [Threads -> Nat]
      /\ threadDatas \in [Threads -> Seq(Threads)] /\ answer \in [Threads -> Answers]
  BY <1>0 DEF TypeOK
<1>c. call[t] \in Requests \cup Leaving \cup {NoCall} BY <1>t
<1> DEFINE NewPc == pc' \in [Threads -> Labels]
           Others == /\ holder' \in Seq(Threads \cup {NoThread}) /\ number' \in [Threads -> Nat]
                     /\ address' \in [Threads -> Addresses \cup {NoAddress}]
                     /\ token' \in [Threads -> Threads \cup {NoToken}]
                     /\ calls' \in [Threads -> Seq(SUBSET Requests)]
                     /\ call' \in [Threads -> Requests \cup Leaving \cup {NoCall}]
                     /\ spine' \in [Threads -> Nat] /\ bucket' \in [Threads -> Nat]
                     /\ threadDatas' \in [Threads -> Seq(Threads)] /\ answer' \in [Threads -> Answers]
<1> SUFFICES NewPc /\ Others BY <1>0 DEF TypeOK
<1>h. unlockHashtable(t) \in Seq(Threads \cup {NoThread})
  <2>1. DOMAIN holder = 1 .. Len(holder) /\ Len(holder) \in Nat
        /\ \A b \in DOMAIN holder : holder[b] \in Threads \cup {NoThread}
    BY <1>t
  <2>2. unlockHashtable(t) \in [1 .. Len(holder) -> Threads \cup {NoThread}] BY <2>1 DEF unlockHashtable
  <2> QED BY <2>1, <2>2
<1>m. \A n \in Int : [i \in 1 .. n |-> NoThread] \in Seq(Threads \cup {NoThread})
  <2> SUFFICES ASSUME NEW n \in Int PROVE [i \in 1 .. n |-> NoThread] \in Seq(Threads \cup {NoThread})
    OBVIOUS
  <2>1. CASE n \in Nat BY <2>1
  <2>2. CASE n \notin Nat
    <3>1. 1 .. n = 1 .. 0 BY <2>2
    <3> QED BY <3>1
  <2> QED BY <2>1, <2>2
<1>a. /\ \A v \in Threads \cup {NoToken}, b \in BOOLEAN : [wasUnparked |-> b, token |-> v] \in Answers
      /\ \A m \in Nat, b \in BOOLEAN : [unparked |-> m, mayHaveMoreThreads |-> b] \in Answers
      /\ NoAnswer \in Answers
  BY DEF Answers, ParkAnswers, UnparkAnswers
<1> USE DEF Labels
<1>1. ASSUME Call(t) PROVE NewPc /\ Others
  <2>1. PICK request \in Head(calls[t]) :
          /\ call' = [call EXCEPT ![t] = request]
          /\ token' = [token EXCEPT ![t] = IF request.op = "park" THEN NoToken ELSE @]
          /\ pc' = [pc EXCEPT ![t] = IF request.op = "forEach" THEN "collect"
                      ELSE IF request.op = "park" /\ number[t] = 0 THEN "newThread" ELSE "table"]
    BY <1>1 DEF Call, Goto
  <2>2. calls[t] \in Seq(SUBSET Requests) /\ calls[t] # <<>> BY <1>t, <1>1 DEF Call
  <2>3. Head(calls[t]) \in SUBSET Requests /\ Tail(calls[t]) \in Seq(SUBSET Requests) BY <2>2
  <2>4. request \in Requests BY <2>3
  <2>5. /\ UNCHANGED <<holder, number, address, spine, bucket, threadDatas, answer>>
        /\ calls' = [calls EXCEPT ![t] = Tail(calls[t])]
    BY <1>1 DEF Call, lot, found
  <2>6. NewPc BY <1>t, <2>1
  <2>7. call' \in [Threads -> Requests \cup Leaving \cup {NoCall}] BY <1>t, <2>1, <2>4
  <2>8. token' \in [Threads -> Threads \cup {NoToken}] BY <1>t, <2>1
  <2>9. calls' \in [Threads -> Seq(SUBSET Requests)] BY <1>t, <2>3, <2>5
  <2> QED BY <1>t, <2>5, <2>6, <2>7, <2>8, <2>9
<1>2. ASSUME ThreadExits(t) PROVE NewPc /\ Others
  BY <1>t, <1>2 DEF ThreadExits, lot, found
<1>3. ASSUME WaitEnds(t) \/ ensureHashtableSize(t) \/ LookAgain(t) PROVE NewPc /\ Others
  BY <1>t, <1>3 DEF WaitEnds, ensureHashtableSize, LookAgain, Goto, lot, data, found
<1>4. ASSUME NewThreadData(t) PROVE NewPc /\ Others
  BY <1>0, <1>t, <1>4, SMTT(30) DEF NewThreadData, Goto, lot, found
<1>5. ASSUME Collect(t) PROVE NewPc /\ Others
  <2> DEFINE empty == {i \in DOMAIN Last(ensured) : Last(ensured)[i] = null}
             n == Cardinality(empty)
  <2>1. holder' = holder \o [i \in 1 .. n |-> NoThread] /\ spine' = [spine EXCEPT ![t] = Len(ensured)]
    BY <1>5 DEF Collect
  <2>2. n \in Nat
    <3>1. ensured \in Seq(Tables) /\ Len(ensured) \in Nat \ {0} BY <1>0, EnsuredIs
    <3>2. Last(ensured) \in Tables BY <3>1 DEF Last
    <3>3. DOMAIN Last(ensured) = 0 .. size(Last(ensured)) - 1 /\ size(Last(ensured)) \in Nat \ {0}
      BY <3>2, TableIs
    <3>4. IsFiniteSet(DOMAIN Last(ensured)) BY <3>3, SlotsCounted
    <3>5. empty \in SUBSET DOMAIN Last(ensured) OBVIOUS
    <3> HIDE DEF empty
    <3> QED BY <3>4, <3>5, FS_Subset, FS_CardinalityType
  <2> HIDE DEF n
  <2>3. holder' \in Seq(Threads \cup {NoThread}) BY <2>1, <2>2, <1>t, <1>m
  <2>4. spine' \in [Threads -> Nat] BY <2>1, <1>0, <1>t, EnsuredIs
  <2> QED BY <1>t, <1>5, <2>3, <2>4 DEF Collect, Goto, data
<1>6. ASSUME LockBucket(t) PROVE NewPc /\ Others
  <2> DEFINE b == Lowest(Unlocked(t))
             T == Threads \cup {NoThread}
  <2>0. holder' = [holder EXCEPT ![b] = t] /\ t \in T /\ holder \in Seq(T) BY <1>t, <1>6 DEF LockBucket
  <2> HIDE DEF b, T
  <2>1. holder' \in Seq(Threads \cup {NoThread})
    <3>1. holder \in [1 .. Len(holder) -> T] /\ Len(holder) \in Nat BY <2>0
    <3>2. holder' \in [1 .. Len(holder) -> T] BY <2>0, <3>1
    <3>3. holder' \in Seq(T) BY <3>1, <3>2
    <3> QED BY <3>3 DEF T
  <2> QED BY <1>t, <1>6, <2>1 DEF LockBucket, data, found
<1>7. ASSUME LockAgain(t) \/ NoRehash(t) \/ forEach(t) PROVE NewPc /\ Others
  BY <1>t, <1>h, <1>7 DEF LockAgain, NoRehash, forEach, Finish, Goto, data, found
<1>8. ASSUME Rehash(t) PROVE NewPc /\ Others
  <2>1. holder' = unlockHashtable(t) \o [i \in 1 .. Len(queue') - Len(queue) |-> NoThread]
    BY <1>0, <1>8, RehashMoves DEF IInv
  <2>2. Len(queue') - Len(queue) \in Int BY <1>0 DEF TypeOK
  <2>3. [i \in 1 .. Len(queue') - Len(queue) |-> NoThread] \in Seq(Threads \cup {NoThread}) BY <1>m, <2>2
  <2>4. holder' \in Seq(Threads \cup {NoThread}) BY <1>h, <2>1, <2>3
  <2> QED BY <1>t, <1>8, <2>4 DEF Rehash, Goto, data, found
<1>9. ASSUME FindTable(t) PROVE NewPc /\ Others
  <2>1. Len(ensured) \in Nat BY <1>0, EnsuredIs
  <2> QED BY <1>t, <1>9, <2>1 DEF FindTable, Goto, data
<1>10. ASSUME FindBucket(t) PROVE NewPc /\ Others
  <2>1. bucket'[t] \in Nat
    <3>1. bucket'[t] \in DOMAIN queue' BY <1>0, <1>10, FindBucketGrows
    <3> QED BY <3>1, <1>0
  <2>2. bucket' = [bucket EXCEPT ![t] = bucket'[t]] BY <1>10, <1>t DEF FindBucket
  <2>3. bucket' \in [Threads -> Nat] BY <2>1, <2>2, <1>t
  <2>4. holder' \in Seq(Threads \cup {NoThread})
    <3> DEFINE T == Threads \cup {NoThread}
    <3>1. holder' = holder \/ holder' = Append(holder, NoThread) BY <1>10 DEF FindBucket, lot
    <3>2. holder \in Seq(T) /\ NoThread \in T BY <1>t
    <3> HIDE DEF T
    <3>3. holder' \in Seq(T) BY <3>1, <3>2
    <3> QED BY <3>3 DEF T
  <2> QED BY <1>t, <1>10, <2>3, <2>4 DEF FindBucket, Goto, data
<1>11. ASSUME NoBucket(t) PROVE NewPc /\ Others
  <2>1. [unparked |-> 0, mayHaveMoreThreads |-> FALSE] \in Answers BY <1>a
  <2>2. NewPc BY <1>t, <1>11, ZenonT(60) DEF NoBucket, Finish, Goto
  <2>3. answer' = answer \/ answer' = [answer EXCEPT ![t] = [unparked |-> 0, mayHaveMoreThreads |-> FALSE]]
    BY <1>11 DEF NoBucket, Answer
  <2>4. answer' \in [Threads -> Answers] BY <1>t, <2>1, <2>3
  <2>5. UNCHANGED <<lot, data, calls, threadDatas, call, found>> BY <1>11 DEF NoBucket, Finish
  <2> QED BY <1>t, <2>2, <2>4, <2>5 DEF lot, data, found
<1>12. ASSUME Enqueue(t) PROVE NewPc /\ Others
  <2>1. call[t].address \in Addresses BY <1>0, <1>12, LockedIs DEF Enqueue
  <2> QED BY <1>t, <1>12, <2>1 DEF Enqueue, Goto, lot, found
<1>13. ASSUME ValidationFails(t) PROVE NewPc /\ Others
  BY <1>a, <1>t, <1>13 DEF ValidationFails, NotUnparked, Finish, Answer, Goto, lot, data, found
<1>14. ASSUME Check(t) \/ Settle(t) PROVE NewPc /\ Others
  <2>1. [wasUnparked |-> TRUE, token |-> token[t]] \in Answers
    <3>1. token[t] \in Threads \cup {NoToken} BY <1>t
    <3> QED BY <3>1, <1>a
  <2>2. NewPc BY <1>t, <1>14, ZenonT(60) DEF Check, Settle, Finish, Goto
  <2>3. answer' = answer \/ answer' = [answer EXCEPT ![t] = [wasUnparked |-> TRUE, token |-> token[t]]]
    BY <1>14 DEF Check, Settle, WasUnparked, Answer
  <2>4. answer' \in [Threads -> Answers] BY <1>t, <2>1, <2>3
  <2>5. UNCHANGED <<lot, data, calls, threadDatas, call, found>> BY <1>14 DEF Check, Settle, Finish
  <2> QED BY <1>t, <2>2, <2>4, <2>5 DEF lot, data, found
<1>15. ASSUME TimesOut(t) PROVE NewPc /\ Others
  <2>1. call' = [call EXCEPT ![t] = [call[t] EXCEPT !.op = "leave"]] /\ call[t].op = "park"
    BY <1>0, <1>15 DEF TimesOut, Way
  <2>2. [call[t] EXCEPT !.op = "leave"] \in Leaving BY <1>c, <2>1, CallIs
  <2>3. call' \in [Threads -> Requests \cup Leaving \cup {NoCall}] BY <1>t, <2>1, <2>2
  <2> QED BY <1>t, <1>15, <2>3 DEF TimesOut, Goto, lot, data, found
<1>16. ASSUME DequeueMyself(t) PROVE NewPc /\ Others
  BY <1>t, <1>16 DEF DequeueMyself, Goto, data, found
<1>17. ASSUME DidDequeue(t) PROVE NewPc /\ Others
  BY <1>a, <1>t, <1>17 DEF DidDequeue, NotUnparked, Finish, Answer, Goto, lot, found
<1>18. ASSUME Dequeue(t) PROVE NewPc /\ Others
  <2> DEFINE taken == threadDatas'[t]
  <2>1. /\ threadDatas' = [threadDatas EXCEPT ![t] = taken] /\ taken \in Seq(Threads)
        /\ token' = IF call[t].op = "unparkOne" /\ taken # <<>>
                    THEN [token EXCEPT ![taken[1]] = call[t].token] ELSE token
        /\ answer' = [answer EXCEPT ![t] =
             [unparked |-> Len(taken),
              mayHaveMoreThreads |-> /\ queue'[bucket[t]] # <<>>
                                     /\ call[t].op = "unparkOne" => taken # <<>>]]
    BY <1>0, <1>18, DequeueTakes
  <2>2. call[t].op = "unparkOne" => call[t].token \in {NoToken} \cup Threads BY <1>c, CallIs
  <2> HIDE DEF taken
  <2>3. token' \in [Threads -> Threads \cup {NoToken}] BY <2>1, <2>2, <1>t
  <2>4. answer' \in [Threads -> Answers]
    <3> DEFINE more == /\ queue'[bucket[t]] # <<>>
                       /\ call[t].op = "unparkOne" => taken # <<>>
    <3>1. Len(taken) \in Nat /\ more \in BOOLEAN BY <2>1
    <3>2. answer' = [answer EXCEPT ![t] = [unparked |-> Len(taken), mayHaveMoreThreads |-> more]] BY <2>1
    <3> HIDE DEF more
    <3> QED BY <3>1, <3>2, <1>a, <1>t
  <2>5. threadDatas' \in [Threads -> Seq(Threads)] BY <2>1, <1>t
  <2> QED BY <1>t, <1>18, <2>3, <2>4, <2>5 DEF Dequeue, Goto, found
<1>19. ASSUME ClearAddress(t) PROVE NewPc /\ Others
  <2>1. Head(threadDatas[t]) \in Threads BY <1>t, <1>19 DEF ClearAddress
  <2> QED BY <1>t, <1>19, <2>1 DEF ClearAddress, Goto, lot, found
<1>20. ASSUME Signal(t) PROVE NewPc /\ Others
  <2>1. threadDatas[t] # <<>> /\ threadDatas[t] \in Seq(Threads) BY <1>0, <1>t, <1>20 DEF Signal, Way
  <2>2. Tail(threadDatas[t]) \in Seq(Threads) /\ Head(threadDatas[t]) \in Threads BY <2>1
  <2>3. threadDatas' = [threadDatas EXCEPT ![t] = Tail(threadDatas[t])] BY <1>20 DEF Signal
  <2>4. threadDatas' \in [Threads -> Seq(Threads)] BY <2>2, <2>3, <1>t
  <2>5. NewPc BY <1>t, <1>20, <2>2 DEF Signal
  <2> QED BY <1>t, <1>20, <2>4, <2>5 DEF Signal, lot, data, found
<1>21. ASSUME UnparkEnds(t) PROVE NewPc /\ Others
  BY <1>t, <1>21 DEF UnparkEnds, Finish, Goto, lot, data, found
<1>22. ASSUME Return(t) PROVE NewPc /\ Others
  BY <1>a, <1>t, <1>22 DEF Return, Goto, Answer, lot, data, null
<1> HIDE DEF NewPc, Others
<1> QED BY <1>1, <1>2, <1>3, <1>4, <1>5, <1>6, <1>7, <1>8, <1>9, <1>10, <1>11, <1>12, <1>13, <1>14,
           <1>15, <1>16, <1>17, <1>18, <1>19, <1>20, <1>21, <1>22 DEF Move, Step

\* A step touches the thread that makes it; only Signal wakes another one.
LEMMA OthersKeep ==
  ASSUME IInv, NEW t \in Threads, Move(t), ~Signal(t), NEW u \in Threads \ {t}
  PROVE  Untouched(u) /\ threadDatas'[u] = threadDatas[u]
<1>0. /\ TypeOK /\ Named /\ Ways /\ QueuesAreWhole
      /\ pc \in [Threads -> Labels] /\ threadDatas \in [Threads -> Seq(Threads)]
  BY DEF IInv, TypeOK
<1>1. ASSUME Calm(t) PROVE Untouched(u) /\ threadDatas'[u] = threadDatas[u] BY <1>1 DEF Calm
<1>2. ASSUME Enqueue(t) PROVE Untouched(u) /\ threadDatas'[u] = threadDatas[u]
  BY <1>0, <1>2 DEF Enqueue, Goto, found, Untouched
<1>3. ASSUME DequeueMyself(t) PROVE Untouched(u) /\ threadDatas'[u] = threadDatas[u]
  BY <1>0, <1>3 DEF DequeueMyself, Goto, found, data, Untouched
<1>4. ASSUME DidDequeue(t) PROVE Untouched(u) /\ threadDatas'[u] = threadDatas[u]
  BY <1>0, <1>4 DEF DidDequeue, Finish, Goto, found, Untouched
<1>5. ASSUME Dequeue(t) PROVE Untouched(u) /\ threadDatas'[u] = threadDatas[u]
  <2>1. threadDatas' = [threadDatas EXCEPT ![t] = threadDatas'[t]] BY <1>0, <1>5, DequeueTakes
  <2>2. Untouched(u) BY <1>0, <1>5 DEF Dequeue, Goto, found, Untouched
  <2> QED BY <2>1, <2>2, <1>0
<1>6. ASSUME ClearAddress(t) PROVE Untouched(u) /\ threadDatas'[u] = threadDatas[u]
  BY <1>0, <1>6 DEF ClearAddress, Goto, found, Untouched
<1> QED BY <1>1, <1>2, <1>3, <1>4, <1>5, <1>6, CalmSteps DEF Move, Step

\* A thread is told to go on only after it has found out how its call goes on.
LEMMA WayOn ==
  ASSUME IInv, NEW t \in Threads, Move(t), TypeOK'
  PROVE  Way(t)'
<1>0. /\ TypeOK /\ Named /\ Ways /\ QueuesAreWhole /\ Way(t) /\ numThreads \in Nat
  <2>1. numThreads \in Nat BY FS_CardinalityType DEF IInv, Counted
  <2> QED BY <2>1 DEF IInv, Ways
<1>t. /\ number \in [Threads -> Nat] /\ pc \in [Threads -> Labels]
      /\ calls \in [Threads -> Seq(SUBSET Requests)]
      /\ call \in [Threads -> Requests \cup Leaving \cup {NoCall}] /\ spine \in [Threads -> Nat]
      /\ threadDatas \in [Threads -> Seq(Threads)]
  BY <1>0 DEF TypeOK
<1>c. /\ call[t] \in Requests \cup Leaving \cup {NoCall} /\ NoCall.op = "none"
      /\ call[t].op \in {"park", "leave", "forEach", "none"} \cup Unparks
  BY <1>t, CallIs DEF NoCall
<1> HIDE DEF TypeOK, IInv, NoCall
<1> USE DEF Way, Unparks
<1>1. ASSUME Call(t) PROVE Way(t)'
  <2>1. PICK request \in Head(calls[t]) :
          /\ call' = [call EXCEPT ![t] = request]
          /\ pc' = [pc EXCEPT ![t] = IF request.op = "forEach" THEN "collect"
                      ELSE IF request.op = "park" /\ number[t] = 0 THEN "newThread" ELSE "table"]
    BY <1>1 DEF Call, Goto
  <2>2. calls[t] \in Seq(SUBSET Requests) /\ calls[t] # <<>> BY <1>t, <1>1 DEF Call
  <2>3. request \in Requests BY <2>2
  <2>4. request.op \in {"park", "forEach"} \cup Unparks
    BY <2>3 DEF Requests, ParkCalls, UnparkCalls, ForEach
  <2>5. call'[t] = request /\ threadDatas'[t] = <<>> /\ number'[t] = number[t]
    BY <1>0, <1>1, <1>t, <2>1 DEF Call
  <2>6. pc'[t] = IF request.op = "forEach" THEN "collect"
                 ELSE IF request.op = "park" /\ number[t] = 0 THEN "newThread" ELSE "table"
    BY <1>t, <2>1
  <2> QED BY <2>4, <2>5, <2>6
<1>2. ASSUME ThreadExits(t) PROVE Way(t)'
  BY <1>0, <1>t, <1>2 DEF ThreadExits, lot, found
<1>3. ASSUME WaitEnds(t) PROVE Way(t)'
  BY <1>0, <1>t, <1>3 DEF WaitEnds, Goto, lot, data, found
<1>4. ASSUME ensureHashtableSize(t) PROVE Way(t)'
  BY <1>0, <1>t, <1>4 DEF ensureHashtableSize, Goto, lot, data, found
<1>5. ASSUME LookAgain(t) PROVE Way(t)'
  BY <1>0, <1>t, <1>5 DEF LookAgain, Locks, Goto, lot, data, found
<1>6. ASSUME NewThreadData(t) PROVE Way(t)'
  BY <1>0, <1>t, <1>6 DEF NewThreadData, Goto, lot, found
<1>7. ASSUME Collect(t) PROVE Way(t)'
  <2>1. spine'[t] \in DOMAIN tables'
    <3>1. Len(ensured) \in DOMAIN tables' BY <1>0, <1>7, CollectGrows
    <3>2. spine' = [spine EXCEPT ![t] = Len(ensured)] BY <1>7 DEF Collect
    <3> QED BY <3>1, <3>2, <1>t
  <2> QED BY <1>0, <1>t, <1>7, <2>1 DEF Collect, Goto, data
<1>8. ASSUME LockBucket(t) PROVE Way(t)'
  BY <1>0, <1>t, <1>8 DEF LockBucket, data, found
<1>9. ASSUME LockAgain(t) PROVE Way(t)'
  BY <1>0, <1>t, <1>9 DEF LockAgain, AllLocked, Goto, data, found
<1>10. ASSUME NoRehash(t) PROVE Way(t)'
  BY <1>0, <1>t, <1>10 DEF NoRehash, AllLocked, Goto, data, found
<1>11. ASSUME forEach(t) PROVE Way(t)'
  BY <1>0, <1>t, <1>11 DEF forEach, AllLocked, Finish, Goto, data, found
<1>12. ASSUME Rehash(t) PROVE Way(t)'
  BY <1>0, <1>t, <1>12 DEF Rehash, AllLocked, Goto, data, found
<1>13. ASSUME FindTable(t) PROVE Way(t)'
  <2>1. spine'[t] \in DOMAIN tables'
    <3>1. ensured \in Seq(Tables) /\ Len(ensured) \in Nat \ {0} BY <1>0, EnsuredIs
    <3>2. spine' = [spine EXCEPT ![t] = Len(ensured)] /\ tables' = ensured BY <1>13 DEF FindTable
    <3> QED BY <3>1, <3>2, <1>t
  <2> QED BY <1>0, <1>t, <1>13, <2>1 DEF FindTable, Goto, data
<1>14. ASSUME FindBucket(t) PROVE Way(t)'
  <2>1. /\ Grown /\ bucket'[t] \in DOMAIN queue' /\ tables'[spine[t]][slot(t)] = bucket'[t]
    BY <1>0, <1>14, FindBucketGrows
  <2>2. /\ pc[t] = "bucket" /\ pc'[t] = "lock" /\ UNCHANGED <<data, call, spine, threadDatas>>
    BY <1>t, <1>14 DEF FindBucket, Goto
  <2>3. spine[t] \in DOMAIN tables /\ spine[t] \in DOMAIN tables' BY <1>0, <2>1, <2>2 DEF Grown
  <2>4. found_(t)' = bucket'[t]
    <3>1. call[t].address \in Addresses BY <1>0, <2>2, HasAddress
    <3>2. index(call[t].address, tables'[spine[t]]) = index(call[t].address, tables[spine[t]])
      BY <2>1, <2>3, <3>1 DEF Grown
    <3>3. found_(t)' = tables'[spine[t]][index(call[t].address, tables'[spine[t]])]
      BY <2>2 DEF found_, slot, index, size
    <3>4. slot(t) = index(call[t].address, tables[spine[t]]) BY DEF slot
    <3> QED BY <2>1, <3>2, <3>3, <3>4
  <2> QED BY <1>0, <2>1, <2>2, <2>3, <2>4 DEF data
<1>15. ASSUME NoBucket(t) PROVE Way(t)'
  BY <1>0, <1>t, <1>15 DEF NoBucket, Finish, Goto, lot, data, found
<1>16. ASSUME Enqueue(t) PROVE Way(t)'
  BY <1>0, <1>t, <1>16 DEF Enqueue, Locks, Goto, found
<1>17. ASSUME ValidationFails(t) PROVE Way(t)'
  BY <1>0, <1>t, <1>17 DEF ValidationFails, Locks, Finish, Goto, lot, data, found
<1>18. ASSUME Check(t) PROVE Way(t)'
  BY <1>0, <1>t, <1>18 DEF Check, Finish, Goto, lot, data, found
<1>19. ASSUME TimesOut(t) PROVE Way(t)'
  <2>1. call'[t].op = "leave"
    <3>1. call[t].op = "park" BY <1>0, <1>19 DEF TimesOut
    <3>2. call' = [call EXCEPT ![t] = [call[t] EXCEPT !.op = "leave"]] BY <1>19 DEF TimesOut
    <3> QED BY <1>c, <1>t, <3>1, <3>2, CallIs
  <2> QED BY <1>0, <1>t, <1>19, <2>1 DEF TimesOut, Goto, lot, data, found
<1>20. ASSUME DequeueMyself(t) PROVE Way(t)'
  BY <1>0, <1>t, <1>20 DEF DequeueMyself, Locks, Goto, data, found
<1>21. ASSUME DidDequeue(t) PROVE Way(t)'
  BY <1>0, <1>t, <1>21 DEF DidDequeue, Finish, Goto, lot, found
<1>22. ASSUME Settle(t) PROVE Way(t)'
  BY <1>0, <1>t, <1>22 DEF Settle, Finish, Goto, lot, data, found
<1>23. ASSUME Dequeue(t) PROVE Way(t)'
  BY <1>0, <1>t, <1>23 DEF Dequeue, Locks, Goto, found
<1>24. ASSUME ClearAddress(t) PROVE Way(t)'
  BY <1>0, <1>t, <1>24 DEF ClearAddress, Goto, lot, found
<1>25. ASSUME Signal(t) PROVE Way(t)'
  <2>1. pc[t] = "signal" /\ pc'[t] = "unpark"
    <3>1. Head(threadDatas[t]) \in Threads BY <1>0, <1>t, <1>25 DEF Signal
    <3> QED BY <3>1, <1>t, <1>25 DEF Signal
  <2> QED BY <1>0, <1>t, <1>25, <2>1 DEF Signal, lot, data, found
<1>26. ASSUME UnparkEnds(t) PROVE Way(t)'
  BY <1>0, <1>t, <1>26 DEF UnparkEnds, Finish, Goto, lot, data, found
<1>27. ASSUME Return(t) PROVE Way(t)'
  BY <1>0, <1>c, <1>t, <1>27 DEF Return, Goto, Answer, lot, data
<1> HIDE DEF Way
<1> QED BY <1>1, <1>2, <1>3, <1>4, <1>5, <1>6, <1>7, <1>8, <1>9, <1>10, <1>11, <1>12, <1>13, <1>14,
           <1>15, <1>16, <1>17, <1>18, <1>19, <1>20, <1>21, <1>22, <1>23, <1>24, <1>25, <1>26, <1>27
        DEF Move, Step

\* Every thread stays on the way its call takes.
LEMMA WaysKeep == ASSUME IInv, NEW t \in Threads, Move(t), TypeOK' PROVE Ways'
<1>0. TypeOK /\ Ways /\ Preserved BY TablesKeep DEF IInv
<1>1. Way(t)' BY WayOn
<1>2. ASSUME NEW u \in Threads \ {t}, ~Signal(t) PROVE Way(u)'
  <2>1. Untouched(u) /\ threadDatas'[u] = threadDatas[u] BY <1>2, OthersKeep
  <2> QED BY <2>1, <1>0, WayStays
<1>3. ASSUME NEW u \in Threads \ {t}, Signal(t) PROVE Way(u)'
  <2>1. UNCHANGED <<tables, queue, call, spine, bucket, number>> /\ threadDatas'[u] = threadDatas[u]
    BY <1>0, <1>3 DEF Signal, lot, data, found, TypeOK
  <2>2. Head(threadDatas[t]) \in Threads
    <3>1. threadDatas[t] \in Seq(Threads) /\ threadDatas[t] # <<>>
      BY <1>0, <1>3 DEF Signal, Ways, Way, TypeOK
    <3> QED BY <3>1
  <2>3. CASE pc'[u] = pc[u]
    <3>1. Untouched(u) BY <2>1, <2>3 DEF Untouched
    <3> QED BY <3>1, <2>1, <1>0, WayStays
  <2>4. CASE pc'[u] # pc[u]
    <3> DEFINE h == Head(threadDatas[t])
               leaves == call[h].op = "leave"
    <3>0. pc' = [pc EXCEPT ![t] = "unpark",
                   ![h] = IF @ # "asleep" THEN @ ELSE IF leaves THEN "settle" ELSE "check"]
      BY <1>3 DEF Signal
    <3>1. pc \in [Threads -> Labels] BY <1>0 DEF TypeOK
    <3> HIDE DEF h, leaves
    <3>2. u = h /\ pc[u] = "asleep" /\ pc'[u] = IF leaves THEN "settle" ELSE "check"
      BY <2>4, <3>0, <3>1
    <3>3. /\ pc[u] = "asleep" /\ pc'[u] \in {"settle", "check"}
          /\ pc'[u] = "settle" <=> call[u].op = "leave"
      BY <3>2 DEF leaves
    <3>4. Way(u) BY <1>0 DEF Ways
    <3> QED BY <2>1, <3>3, <3>4 DEF Way
  <2> QED BY <2>3, <2>4
<1> QED BY <1>1, <1>2, <1>3 DEF Ways

\* Only the current table has empty slots.
LEMMA FullKeeps == ASSUME IInv, NEW t \in Threads, Move(t), TypeOK' PROVE Full'
<1>0. /\ TypeOK /\ Named /\ Ways /\ Full /\ Preserved
      /\ \A k \in 1 .. Len(tables') - 1 : k \in DOMAIN tables /\ IsFull(tables[k])
  BY TablesKeep DEF IInv
<1>t. pc \in [Threads -> Labels] /\ spine \in [Threads -> Nat] BY <1>0 DEF TypeOK
<1>1. ASSUME ~Signal(t), pc'[t] = "lockAll" PROVE spine'[t] \in DOMAIN tables' /\ IsFull(tables'[spine'[t]])
  <2>1. ASSUME Collect(t) PROVE spine'[t] \in DOMAIN tables' /\ IsFull(tables'[spine'[t]])
    <3>1. spine'[t] = Len(ensured) BY <2>1, <1>t DEF Collect
    <3> QED BY <2>1, <3>1, <1>0, CollectGrows DEF IsFull
  <2>2. ASSUME LockBucket(t) PROVE spine'[t] \in DOMAIN tables' /\ IsFull(tables'[spine'[t]])
    <3>1. pc[t] = "lockAll" /\ UNCHANGED <<tables, spine>> BY <2>2 DEF LockBucket, found
    <3> QED BY <3>1, <1>0 DEF Full
  <2>3. ASSUME \/ Call(t) \/ ThreadExits(t) \/ WaitEnds(t) \/ NewThreadData(t) \/ ensureHashtableSize(t)
               \/ LockAgain(t) \/ forEach(t) \/ NoRehash(t) \/ Rehash(t)
        PROVE  pc'[t] # "lockAll"
    <3>1. Call(t) => pc'[t] # "lockAll"
      <4>1. ASSUME Call(t) PROVE pc'[t] \in {"collect", "newThread", "table"}
        BY <4>1, <1>t DEF Call, Goto
      <4> QED BY <4>1
    <3>2. ThreadExits(t) => pc'[t] # "lockAll" BY <1>t DEF ThreadExits
    <3> QED BY <2>3, <3>1, <3>2, <1>t DEF WaitEnds, NewThreadData, ensureHashtableSize,
             LockAgain, forEach, NoRehash, Rehash, Finish, Goto
  <2>4. ASSUME \/ FindTable(t) \/ FindBucket(t) \/ NoBucket(t) \/ LookAgain(t) \/ Enqueue(t)
               \/ ValidationFails(t) \/ Check(t) \/ TimesOut(t) \/ DequeueMyself(t)
        PROVE  pc'[t] # "lockAll"
    BY <2>4, <1>t DEF FindTable, FindBucket, NoBucket, LookAgain, Enqueue, ValidationFails, Check, TimesOut,
         DequeueMyself, Finish, Goto
  <2>5. ASSUME \/ DidDequeue(t) \/ Settle(t) \/ Dequeue(t) \/ ClearAddress(t) \/ UnparkEnds(t) \/ Return(t)
        PROVE  pc'[t] # "lockAll"
    BY <2>5, <1>t DEF DidDequeue, Settle, Dequeue, ClearAddress, UnparkEnds, Return, Finish, Goto
  <2> QED BY <1>1, <2>1, <2>2, <2>3, <2>4, <2>5 DEF Move, Step
<1>2. CASE ~Signal(t)
  <2>1. \A u \in Threads \ {t} : Untouched(u) BY <1>2, OthersKeep
  <2> QED BY <1>0, <1>1, <1>2, <2>1, FullStays
<1>3. CASE Signal(t)
  <2>1. UNCHANGED <<tables, spine>> BY <1>3 DEF Signal, lot, found
  <2>2. \A u \in Threads : pc'[u] = "lockAll" => pc[u] = "lockAll"
    <3> DEFINE h == Head(threadDatas[t])
               leaves == call[h].op = "leave"
    <3>0. pc' = [pc EXCEPT ![t] = "unpark",
                   ![h] = IF @ # "asleep" THEN @ ELSE IF leaves THEN "settle" ELSE "check"]
      BY <1>3 DEF Signal
    <3> HIDE DEF h, leaves
    <3> QED BY <3>0, <1>t
  <2> QED BY <2>1, <2>2, <1>0 DEF Full
<1> QED BY <1>2, <1>3

\* numThreads counts the threads that have ThreadData.
LEMMA CountedKeeps == ASSUME IInv, NEW t \in Threads, Move(t) PROVE Counted'
<1> DEFINE counted == {u \in Threads : number[u] # 0}
           after == {u \in Threads : number'[u] # 0}
<1>0. /\ IsFiniteSet(counted) /\ numThreads = Cardinality(counted) /\ numThreads \in Nat
      /\ number \in [Threads -> Nat] /\ Way(t)
  <2>1. IsFiniteSet(counted) /\ numThreads = Cardinality(counted) BY DEF IInv, Counted
  <2>2. number \in [Threads -> Nat] /\ Way(t) BY DEF IInv, TypeOK, Ways
  <2> HIDE DEF counted
  <2> QED BY <2>1, <2>2, FS_CardinalityType
<1> SUFFICES IsFiniteSet(after) /\ numThreads' = Cardinality(after) BY DEF Counted
<1>1. CASE NewThreadData(t)
  <2>1. number' = [number EXCEPT ![t] = numThreads + 1] /\ numThreads' = numThreads + 1
    BY <1>1 DEF NewThreadData
  <2>2. CASE number[t] = 0
    <3>1. after = counted \cup {t} BY <2>1, <1>0
    <3>2. t \notin counted BY <2>2
    <3> HIDE DEF after, counted
    <3> QED BY <1>0, <2>1, <3>1, <3>2, FS_AddElement
  <2>3. CASE number[t] # 0
    <3> QED BY <2>3, <1>1, <1>0 DEF NewThreadData, Way
  <2> QED BY <2>2, <2>3
<1>2. CASE ThreadExits(t)
  <2>1. number' = [number EXCEPT ![t] = 0] /\ numThreads' = numThreads - 1 /\ number[t] # 0
    BY <1>2 DEF ThreadExits
  <2>2. after = counted \ {t} /\ t \in counted BY <2>1, <1>0
  <2> HIDE DEF after, counted
  <2> QED BY <1>0, <2>1, <2>2, FS_RemoveElement
<1>3. CASE ~NewThreadData(t) /\ ~ThreadExits(t)
  <2>1. UNCHANGED <<number, numThreads>>
    <3>1. ASSUME Call(t) \/ WaitEnds(t) \/ ensureHashtableSize(t) \/ Collect(t) \/ LockBucket(t) \/ LockAgain(t)
                 \/ forEach(t) \/ NoRehash(t) \/ Rehash(t) \/ FindTable(t) \/ FindBucket(t) \/ NoBucket(t)
          PROVE  UNCHANGED <<number, numThreads>>
      BY <3>1 DEF Call, WaitEnds, ensureHashtableSize, Collect, LockBucket, LockAgain, forEach, NoRehash, Rehash,
           FindTable, FindBucket, NoBucket, data
    <3>2. ASSUME LookAgain(t) \/ Enqueue(t) \/ ValidationFails(t) \/ Check(t) \/ TimesOut(t) \/ DequeueMyself(t)
                 \/ DidDequeue(t) \/ Settle(t) \/ Dequeue(t) \/ ClearAddress(t) \/ Signal(t) \/ UnparkEnds(t)
                 \/ Return(t)
          PROVE  UNCHANGED <<number, numThreads>>
      BY <3>2 DEF LookAgain, Enqueue, ValidationFails, Check, TimesOut, DequeueMyself, DidDequeue, Settle,
           Dequeue, ClearAddress, Signal, UnparkEnds, Return, data
    <3> QED BY <1>3, <3>1, <3>2 DEF Move, Step
  <2> QED BY <2>1, <1>0
<1> QED BY <1>1, <1>2, <1>3
-----------------------------------------------------------------------------
(* The theorems *)

\* The invariant holds initially.
LEMMA InitHolds == Init => IInv
<1> SUFFICES ASSUME Init PROVE IInv OBVIOUS
<1> USE DEF Init
<1>1. TypeOK
  <2>1. calls \in [Threads -> Seq(SUBSET Requests)]
    BY ParkingLotConstants DEF Requests
  <2>2. <<>> \in Seq(Tables) /\ <<>> \in Seq(Seq(Threads)) /\ <<>> \in Seq(Threads) OBVIOUS
  <2>3. number \in [Threads -> Nat] /\ address \in [Threads -> Addresses \cup {NoAddress}]
        /\ token \in [Threads -> Threads \cup {NoToken}] /\ pc \in [Threads -> Labels]
        /\ spine \in [Threads -> Nat] /\ bucket \in [Threads -> Nat]
    BY DEF Labels, null
  <2>4. call \in [Threads -> Requests \cup Leaving \cup {NoCall}] /\ answer \in [Threads -> Answers]
        /\ threadDatas \in [Threads -> Seq(Threads)]
    BY <2>2 DEF Answers
  <2> QED BY <2>1, <2>2, <2>3, <2>4 DEF TypeOK
<1>2. Named BY DEF Named
<1>3. Full BY DEF Full
<1>4. Counted
  <2>1. {t \in Threads : number[t] # 0} = {} OBVIOUS
  <2> QED BY <2>1, FS_EmptySet DEF Counted
<1>5. Ways BY DEF Ways, Way, NoCall, Unparks
<1>6. \A t \in Threads : ~Queued(t) /\ ~Parking(t) /\ Taken(t) = {}
  BY DEF Queued, Parking, Taken, NoCall
<1>7. QueuesAreWhole /\ Mine /\ Left /\ TakenThreadsStay
  BY <1>6 DEF QueuesAreWhole, Mine, Left, TakenThreadsStay
<1>8. TakenOnce
  <2> SUFFICES ASSUME NEW t \in Threads, NEW i \in From(t) .. Len(threadDatas[t]) PROVE FALSE
    BY DEF TakenOnce
  <2>1. From(t) = 1 /\ Len(threadDatas[t]) = 0 BY DEF From
  <2> QED BY <2>1
<1> QED BY <1>1, <1>2, <1>3, <1>4, <1>5, <1>7, <1>8 DEF IInv

\* A step that enqueues, dequeues and wakes nobody fills slots or replaces the table.
LEMMA CalmTables ==
  ASSUME IInv, NEW t \in Threads, Move(t),
         ~Enqueue(t), ~DequeueMyself(t), ~DidDequeue(t), ~Dequeue(t), ~ClearAddress(t), ~Signal(t)
  PROVE  Grown \/ Rehash(t)
<1>0. TypeOK /\ Named /\ Full /\ Ways /\ QueuesAreWhole BY DEF IInv
<1>3. ASSUME UNCHANGED <<tables, queue>> PROVE Grown BY <1>0, <1>3, StutterGrows
<1>4. Grown \/ Rehash(t)
  <2>1. ASSUME Collect(t) PROVE Grown BY <1>0, <2>1, CollectGrows
  <2>2. ASSUME FindTable(t) PROVE Grown BY <1>0, <2>2, FindTableGrows
  <2>3. ASSUME FindBucket(t) PROVE Grown BY <1>0, <2>3, FindBucketGrows
  <2>4. ASSUME \/ Call(t) \/ ThreadExits(t) \/ WaitEnds(t) \/ NewThreadData(t) \/ ensureHashtableSize(t)
               \/ NoBucket(t) \/ LookAgain(t) \/ ValidationFails(t) \/ Check(t) \/ TimesOut(t)
        PROVE  UNCHANGED <<tables, queue>>
    BY <2>4 DEF Call, ThreadExits, WaitEnds, NewThreadData, ensureHashtableSize, NoBucket, LookAgain,
                ValidationFails, Check, TimesOut, lot
  <2>5. ASSUME \/ LockBucket(t) \/ LockAgain(t) \/ forEach(t) \/ NoRehash(t)
               \/ Settle(t) \/ UnparkEnds(t) \/ Return(t)
        PROVE  UNCHANGED <<tables, queue>>
    BY <2>5 DEF LockBucket, LockAgain, forEach, NoRehash, Settle, UnparkEnds, Return, lot
  <2> QED BY <2>1, <2>2, <2>3, <2>4, <2>5, <1>3 DEF Move, Step
<1> QED BY <1>4

\* The steps that enqueue, dequeue and wake nobody.
LEMMA CalmQueues ==
  ASSUME IInv, TypeOK', NEW t \in Threads, Move(t),
         ~Enqueue(t), ~DequeueMyself(t), ~DidDequeue(t), ~Dequeue(t), ~ClearAddress(t), ~Signal(t)
  PROVE  QueuesAreWhole' /\ Mine' /\ Left' /\ TakenThreadsStay' /\ TakenOnce'
<1>0. TypeOK /\ Named /\ Full /\ Ways /\ QueuesAreWhole BY DEF IInv
<1>1. Calm(t) BY CalmSteps DEF Move, Step
<1>2. ASSUME Grown PROVE (\A u : Queued(u)' <=> Queued(u)) /\ Placed(queue', Last(tables'), address)
  BY <1>0, <1>2, GrownQueues
<1>4. Grown \/ Rehash(t) BY CalmTables
<1>5. ASSUME Rehash(t) PROVE (\A u : Queued(u)' <=> Queued(u)) /\ Placed(queue', Last(tables'), address)
  BY <1>0, <1>5, RehashMoves
<1> QED BY <1>1, <1>2, <1>4, <1>5, CalmKeeps

\* Every step keeps the invariant.
LEMMA StepHolds == IInv /\ [Next]_vars => IInv'
<1> SUFFICES ASSUME IInv, [Next]_vars PROVE IInv' OBVIOUS
<1>1. ASSUME NEW t \in Threads, Move(t) PROVE IInv'
  <2>1. TypeOK' BY <1>1, TypesKeep
  <2>2. Named' BY <1>1, TablesKeep
  <2>3. Full' /\ Counted' /\ Ways' BY <1>1, <2>1, FullKeeps, CountedKeeps, WaysKeep
  <2>4. QueuesAreWhole' /\ Mine' /\ Left' /\ TakenThreadsStay' /\ TakenOnce'
    BY <1>1, <2>1, CalmQueues, EnqueueKeeps, DequeueMyselfKeeps, DidDequeueKeeps, DequeueKeeps,
       ClearAddressKeeps, SignalKeeps
  <2> QED BY <2>1, <2>2, <2>3, <2>4 DEF IInv
<1>2. ASSUME UNCHANGED vars PROVE IInv'
  <2>1. TypeOK' /\ Named' /\ Full' /\ Counted'
    BY <1>2 DEF IInv, TypeOK, Named, Full, Counted, vars, lot, data, found
  <2>2. Ways' BY <1>2 DEF IInv, Ways, Way, found_, slot, index, size, vars, lot, data, found
  <2>v. UNCHANGED <<tables, queue, address, pc, call, threadDatas>> BY <1>2 DEF vars, lot, data
  <2>3. \A u : Queued(u)' <=> Queued(u) BY <2>v DEF Queued
  <2>p. \A u : Parking(u)' <=> Parking(u) BY <2>v DEF Parking
  <2>t. \A u : Taken(u)' = Taken(u) BY <2>v DEF Taken
  <2>4. QueuesAreWhole'
    <3>1. /\ Placed(queue', Last(tables'), address')
          /\ \A u \in Threads : Queued(u)' => Parking(u)'
      BY <2>v, <2>3, <2>p, IsPlaced DEF IInv, QueuesAreWhole
    <3>2. \A u \in Threads : IF Parking(u)
            THEN address[u] = NoAddress \/ Queued(u) \/ pc[u] = "didDequeue" \/ \E v \in Threads : u \in Taken(v)
            ELSE address[u] = NoAddress
      BY DEF IInv, QueuesAreWhole
    <3> HIDE DEF Taken, Queued, Parking
    <3>3. \A u \in Threads : IF Parking(u)'
            THEN address'[u] = NoAddress \/ Queued(u)' \/ pc'[u] = "didDequeue" \/ \E v \in Threads : u \in Taken(v)'
            ELSE address'[u] = NoAddress
      BY <3>2, <2>v, <2>3, <2>p, <2>t
    <3> QED BY <3>1, <3>3, <2>1, WholeFollows
  <2>5. Mine' /\ Left' /\ TakenThreadsStay' /\ TakenOnce'
    <3>1. Mine' BY <2>v, <2>p DEF IInv, Mine
    <3>2. Left' BY <2>v, <2>3, <2>t DEF IInv, Left
    <3>3. TakenThreadsStay' BY <2>v, <2>3, <2>p, <2>t DEF IInv, TakenThreadsStay
    <3>4. TakenOnce' BY <2>v DEF IInv, TakenOnce, From
    <3> QED BY <3>1, <3>2, <3>3, <3>4
  <2> QED BY <2>1, <2>2, <2>4, <2>5 DEF IInv
<1> QED BY <1>1, <1>2 DEF Next, Move

\* The invariant holds in every state of ParkingLot.
THEOREM ParkingLotInvariant == Spec => []IInv
BY InitHolds, StepHolds, PTL DEF Spec

\* The variables have their types.
THEOREM TypeCorrect == Spec => []TypeOK
<1>1. IInv => TypeOK BY DEF IInv
<1> QED BY <1>1, ParkingLotInvariant, PTL

\* However often the table is replaced, whoever is parked is in the one queue in which an
\* unparker looks for its address, or somebody who has dequeued it is about to wake it.
THEOREM ParkedThreadsAreFound == Spec => []QueuesAreWhole
<1>1. IInv => QueuesAreWhole BY DEF IInv
<1> QED BY <1>1, ParkingLotInvariant, PTL

\* An unparker clears the address of the call that it has dequeued, never of a later one.
THEOREM NoAddressIsClearedLate == Spec => []TakenThreadsStay
<1>1. IInv => TakenThreadsStay BY DEF IInv
<1> QED BY <1>1, ParkingLotInvariant, PTL

-----------------------------------------------------------------------------
(* Whom an unparker finds: the threads parked on an address, in their order *)

\* One thread is in front of another one in a queue; a sequence is in that order.
Before(q, u, v) == \E b \in DOMAIN q : \E i, j \in DOMAIN q[b] : i < j /\ q[b][i] = u /\ q[b][j] = v
Lined(s, q) == \A k, l \in DOMAIN s : k < l => Before(q, s[k], s[l])

\* Of two threads one is in front.
LEMMA OneIsBefore ==
  ASSUME NEW q \in Seq(Seq(Threads)), NEW table, NEW where, Placed(q, table, where),
         NEW u, NEW v, Before(q, u, v), Before(q, v, u)
  PROVE  FALSE
<1>1. PICK b \in DOMAIN q : \E i, j \in DOMAIN q[b] : i < j /\ q[b][i] = u /\ q[b][j] = v BY DEF Before
<1>2. PICK i, j \in DOMAIN q[b] : i < j /\ q[b][i] = u /\ q[b][j] = v BY <1>1
<1>3. PICK c \in DOMAIN q : \E k, l \in DOMAIN q[c] : k < l /\ q[c][k] = v /\ q[c][l] = u BY DEF Before
<1>4. PICK k, l \in DOMAIN q[c] : k < l /\ q[c][k] = v /\ q[c][l] = u BY <1>3
<1>5. u \in ToSet(q[b]) /\ u \in ToSet(q[c]) BY <1>2, <1>4 DEF ToSet
<1>6. b = c BY <1>5 DEF Placed
<1>7. Distinct(q[b]) BY DEF Placed
<1>8. i = l /\ j = k BY <1>2, <1>4, <1>6, <1>7 DEF Distinct
<1>9. q[b] \in Seq(Threads) OBVIOUS
<1>10. i \in Int /\ j \in Int BY <1>9
<1> QED BY <1>2, <1>4, <1>8, <1>10

\* Of two sequences in the order of the queues the shorter one is in the order of the longer one.
LEMMA LinedUp ==
  ASSUME NEW q \in Seq(Seq(Threads)), NEW table, NEW where, Placed(q, table, where),
         NEW r \in Seq(Threads), NEW s \in Seq(Threads), Distinct(r), ToSet(r) \subseteq ToSet(s),
         Lined(r, q), Lined(s, q)
  PROVE  InOrder(r, s)
<1> SUFFICES ASSUME NEW k \in DOMAIN r, NEW l \in DOMAIN r, k < l
             PROVE  \E i, j \in DOMAIN s : i < j /\ r[k] = s[i] /\ r[l] = s[j]
  BY DEF InOrder
<1>1. r[k] \in ToSet(s) /\ r[l] \in ToSet(s) BY DEF ToSet
<1>2. PICK i \in DOMAIN s : r[k] = s[i] BY <1>1 DEF ToSet
<1>3. PICK j \in DOMAIN s : r[l] = s[j] BY <1>1 DEF ToSet
<1>4. i \in Int /\ j \in Int /\ k \in Int /\ l \in Int OBVIOUS
<1>5. i # j BY <1>2, <1>3, <1>4 DEF Distinct
<1>6. Before(q, r[k], r[l]) BY DEF Lined
<1>7. ASSUME j < i PROVE FALSE
  <2>1. Before(q, s[j], s[i]) BY <1>7 DEF Lined
  <2>2. Before(q, r[l], r[k]) BY <2>1, <1>2, <1>3
  <2> QED BY <2>2, <1>6, OneIsBefore
<1> QED BY <1>2, <1>3, <1>4, <1>5, <1>7

\* ParkedOn, of other tables, queues and addresses.
ParkedIn(tb, q, where, a) ==
  IF tb = <<>> THEN <<>>
  ELSE LET b == Last(tb)[index(a, Last(tb))]
       IN  IF b = null THEN <<>> ELSE Keep(q[b], {u \in Threads : where[u] = a})

\* It lists the queued threads that have the address, each once, in the order of the queues.
LEMMA ParkedInIs ==
  ASSUME NEW tb \in Seq(Tables), NEW q \in Seq(Seq(Threads)), NEW where, NEW a \in Addresses,
         tb = <<>> => q = <<>>,
         \A k \in DOMAIN tb : \A i \in DOMAIN tb[k] : tb[k][i] \in 0 .. Len(q),
         Placed(q, Last(tb), where)
  PROVE  /\ ParkedIn(tb, q, where, a) \in Seq(Threads)
         /\ Distinct(ParkedIn(tb, q, where, a))
         /\ Lined(ParkedIn(tb, q, where, a), q)
         /\ \A u : u \in ToSet(ParkedIn(tb, q, where, a)) <=>
                     where[u] = a /\ \E b \in DOMAIN q : u \in ToSet(q[b])
<1> DEFINE s == ParkedIn(tb, q, where, a)
<1>e. ASSUME s = <<>>, \A b \in DOMAIN q : \A u \in ToSet(q[b]) : where[u] # a
      PROVE  /\ s \in Seq(Threads) /\ Distinct(s) /\ Lined(s, q)
             /\ \A u : u \in ToSet(s) <=> where[u] = a /\ \E b \in DOMAIN q : u \in ToSet(q[b])
  <2>1. \A r : r = <<>> => r \in Seq(Threads) /\ DOMAIN r = {} OBVIOUS
  <2> HIDE DEF s
  <2>2. s \in Seq(Threads) /\ DOMAIN s = {} BY <2>1, <1>e
  <2>3. Distinct(s) /\ Lined(s, q) BY <2>2 DEF Distinct, Lined
  <2>4. \A u : u \notin ToSet(s) BY <2>2 DEF ToSet
  <2> QED BY <2>2, <2>3, <2>4, <1>e
<1>1. CASE tb = <<>>
  <2>1. s = <<>> /\ DOMAIN q = {} BY <1>1 DEF ParkedIn
  <2> QED BY <2>1, <1>e
<1>2. CASE tb # <<>>
  <2> DEFINE f == Last(tb)
             b == f[index(a, f)]
  <2>1. Len(tb) \in DOMAIN tb /\ f = tb[Len(tb)] BY <1>2 DEF Last
  <2>2. f \in Tables /\ \A i \in DOMAIN f : f[i] \in 0 .. Len(q) BY <2>1
  <2>3. b \in 0 .. Len(q) BY <2>2, TableIs
  <2>4. DOMAIN q = 1 .. Len(q) /\ Len(q) \in Nat OBVIOUS
  <2>5. \A c \in DOMAIN q : \A u \in ToSet(q[c]) : where[u] = a => c = b BY DEF Placed
  <2>6. CASE b = null
    <3>1. s = <<>> BY <1>2, <2>6 DEF ParkedIn
    <3>2. b \notin DOMAIN q BY <2>4, <2>6 DEF null
    <3> HIDE DEF b
    <3>3. \A c \in DOMAIN q : \A u \in ToSet(q[c]) : where[u] # a BY <3>2, <2>5
    <3> HIDE DEF s
    <3> QED BY <3>1, <3>3, <1>e DEF s
  <2>7. CASE b # null
    <3> DEFINE S == {u \in Threads : where[u] = a}
    <3>1. s = Keep(q[b], S) BY <1>2, <2>7 DEF ParkedIn
    <3>2. b \in DOMAIN q BY <2>3, <2>4, <2>7 DEF null
    <3> HIDE DEF s, b, f, S
    <3>3. q[b] \in Seq(Threads) /\ Distinct(q[b]) BY <3>2 DEF Placed
    <3>4. /\ s \in Seq(Threads) /\ ToSet(s) = ToSet(q[b]) \cap S /\ InOrder(s, q[b]) /\ Distinct(s)
      BY <3>1, <3>3, KeepKeeps
    <3>5. Lined(s, q) BY <3>2, <3>4 DEF Lined, InOrder, Before
    <3>6. ToSet(q[b]) \subseteq Threads BY <3>3 DEF ToSet
    <3>7. \A u : u \in ToSet(s) <=> where[u] = a /\ \E c \in DOMAIN q : u \in ToSet(q[c])
      BY <2>5, <3>2, <3>4, <3>6 DEF S
    <3> QED BY <3>4, <3>5, <3>7 DEF s
  <2> QED BY <2>6, <2>7
<1> QED BY <1>1, <1>2

\* What ParkedOn lists, before a step and after it.
LEMMA ParkedOnIs ==
  ASSUME IInv, NEW a \in Addresses
  PROVE  /\ ParkedOn(a) \in Seq(Threads) /\ Distinct(ParkedOn(a)) /\ Lined(ParkedOn(a), queue)
         /\ \A u : u \in ToSet(ParkedOn(a)) <=> Queued(u) /\ address[u] = a
<1>1. TypeOK /\ Named /\ QueuesAreWhole BY DEF IInv
<1>2. tables \in Seq(Tables) /\ queue \in Seq(Seq(Threads)) BY <1>1 DEF TypeOK
<1>3. Placed(queue, Last(tables), address) /\ \A u : Queued(u) <=> \E b \in DOMAIN queue : u \in ToSet(queue[b])
  BY <1>1, IsPlaced
<1>4. /\ tables = <<>> => queue = <<>>
      /\ \A k \in DOMAIN tables : \A i \in DOMAIN tables[k] : tables[k][i] \in 0 .. Len(queue)
  BY <1>1 DEF Named
<1>5. ParkedOn(a) = ParkedIn(tables, queue, address, a) BY DEF ParkedOn, ParkedIn
<1>6. /\ ParkedIn(tables, queue, address, a) \in Seq(Threads)
      /\ Distinct(ParkedIn(tables, queue, address, a))
      /\ Lined(ParkedIn(tables, queue, address, a), queue)
      /\ \A u : u \in ToSet(ParkedIn(tables, queue, address, a)) <=>
                  address[u] = a /\ \E b \in DOMAIN queue : u \in ToSet(queue[b])
  BY <1>2, <1>3, <1>4, ParkedInIs
<1> QED BY <1>3, <1>5, <1>6

\* The same after a step.
LEMMA ParkedOnThen ==
  ASSUME IInv', NEW a \in Addresses
  PROVE  /\ ParkedOn(a)' \in Seq(Threads) /\ Distinct(ParkedOn(a)') /\ Lined(ParkedOn(a)', queue')
         /\ \A u : u \in ToSet(ParkedOn(a)') <=> Queued(u)' /\ address'[u] = a
<1>1. TypeOK' /\ Named' /\ QueuesAreWhole' BY DEF IInv
<1>2. tables' \in Seq(Tables) /\ queue' \in Seq(Seq(Threads)) BY <1>1 DEF TypeOK
<1>3. /\ Placed(queue', Last(tables'), address')
      /\ \A u : Queued(u)' <=> \E b \in DOMAIN queue' : u \in ToSet(queue'[b])
  BY <1>1, <1>2, PlacedIs DEF QueuesAreWhole, Queued
<1>4. /\ tables' = <<>> => queue' = <<>>
      /\ \A k \in DOMAIN tables' : \A i \in DOMAIN tables'[k] : tables'[k][i] \in 0 .. Len(queue')
  BY <1>1 DEF Named
<1>5. ParkedOn(a)' = ParkedIn(tables', queue', address', a) BY DEF ParkedOn, ParkedIn
<1>6. /\ ParkedIn(tables', queue', address', a) \in Seq(Threads)
      /\ Distinct(ParkedIn(tables', queue', address', a))
      /\ Lined(ParkedIn(tables', queue', address', a), queue')
      /\ \A u : u \in ToSet(ParkedIn(tables', queue', address', a)) <=>
                  address'[u] = a /\ \E b \in DOMAIN queue' : u \in ToSet(queue'[b])
  BY <1>2, <1>3, <1>4, ParkedInIs
<1> QED BY <1>3, <1>5, <1>6

\* If threads leave and the others keep their order, those are left that have not left.
LEMMA ParkedShrinks ==
  ASSUME IInv, IInv', NEW a \in Addresses, NEW S,
         ToSet(ParkedOn(a)') = ToSet(ParkedOn(a)) \cap S,
         \A u, v \in ToSet(ParkedOn(a)') : Before(queue', u, v) => Before(queue, u, v)
  PROVE  ParkedOn(a)' = Keep(ParkedOn(a), S)
<1> DEFINE s == ParkedOn(a)
           r == ParkedOn(a)'
<1>1. s \in Seq(Threads) /\ Distinct(s) /\ Lined(s, queue) BY ParkedOnIs
<1>2. r \in Seq(Threads) /\ Distinct(r) /\ Lined(r, queue') BY ParkedOnThen
<1>3. Placed(queue, Last(tables), address) /\ queue \in Seq(Seq(Threads)) BY IsPlaced DEF IInv, TypeOK
<1>4. ToSet(r) = ToSet(s) \cap S /\ \A u, v \in ToSet(r) : Before(queue', u, v) => Before(queue, u, v)
  OBVIOUS
<1> HIDE DEF s, r
<1>5. Lined(r, queue)
  <2> SUFFICES ASSUME NEW k \in DOMAIN r, NEW l \in DOMAIN r, k < l PROVE Before(queue, r[k], r[l])
    BY DEF Lined
  <2>1. r[k] \in ToSet(r) /\ r[l] \in ToSet(r) BY DEF ToSet
  <2>2. Before(queue', r[k], r[l]) BY <1>2 DEF Lined
  <2> QED BY <2>1, <2>2, <1>4
<1>6. InOrder(r, s) BY <1>1, <1>2, <1>3, <1>4, <1>5, LinedUp
<1>7. r = Keep(s, S) BY <1>1, <1>2, <1>4, <1>6, KeepIs
<1> QED BY <1>7 DEF r, s

\* If nobody leaves, all are left.
LEMMA KeepAll ==
  ASSUME NEW s \in Seq(Threads), NEW S, Distinct(s), ToSet(s) \subseteq S
  PROVE  Keep(s, S) = s
<1>1. InOrder(s, s) BY DEF InOrder
<1>2. ToSet(s) = ToSet(s) \cap S OBVIOUS
<1> QED BY <1>1, <1>2, KeepIs

\* The threads parked on an address stay, in their order.
LEMMA ParkedStays ==
  ASSUME IInv, IInv', NEW a \in Addresses,
         \A u : Queued(u)' /\ address'[u] = a <=> Queued(u) /\ address[u] = a,
         \A u, v \in ToSet(ParkedOn(a)') : Before(queue', u, v) => Before(queue, u, v)
  PROVE  ParkedOn(a)' = ParkedOn(a)
<1>1. ToSet(ParkedOn(a)') = ToSet(ParkedOn(a)) BY ParkedOnIs, ParkedOnThen
<1>2. ToSet(ParkedOn(a)') = ToSet(ParkedOn(a)) \cap ToSet(ParkedOn(a)) BY <1>1
<1>3. ParkedOn(a)' = Keep(ParkedOn(a), ToSet(ParkedOn(a))) BY <1>2, ParkedShrinks
<1>4. Keep(ParkedOn(a), ToSet(ParkedOn(a))) = ParkedOn(a) BY ParkedOnIs, KeepAll
<1> QED BY <1>3, <1>4

\* Filling slots changes no order.
LEMMA GrownBefore ==
  ASSUME Grown, queue \in Seq(Seq(Threads)), NEW u, NEW v, Before(queue', u, v)
  PROVE  Before(queue, u, v)
<1>1. PICK b \in DOMAIN queue' : \E i, j \in DOMAIN queue'[b] : i < j /\ queue'[b][i] = u /\ queue'[b][j] = v
  BY DEF Before
<1>2. queue'[b] # <<>> BY <1>1
<1>3. b \in DOMAIN queue /\ queue'[b] = queue[b] BY <1>2 DEF Grown
<1> QED BY <1>1, <1>3 DEF Before

\* A rehash leaves the threads of one address in their order.
LEMMA RehashBefore ==
  ASSUME IInv, NEW t \in Threads, Rehash(t), NEW u, NEW v, Before(queue', u, v), address[u] = address[v]
  PROVE  Before(queue, u, v)
<1>0. TypeOK /\ Named /\ Full /\ Ways /\ QueuesAreWhole BY DEF IInv
<1>1. PICK B \in SUBSET DOMAIN queue :
        /\ \A w : Queued(w) <=> w \in ToSet(Gathered(B))
        /\ \A c \in DOMAIN queue' :
             queue'[c] = Keep(Gathered(B), {w \in ToSet(Gathered(B)) :
                                              Last(tables')[index(address[w], Last(tables'))] = c})
  BY <1>0, RehashMoves
<1> DEFINE G == Gathered(B)
<1>2. /\ G \in Seq(Threads) /\ ToSet(G) = UNION {ToSet(queue[b]) : b \in B}
      /\ \A b \in B : \A i, j \in DOMAIN queue[b] : \A k, l \in DOMAIN G :
           G[k] = queue[b][i] /\ G[l] = queue[b][j] /\ k < l => i < j
  <2>1. queue \in Seq(Seq(Threads)) /\ Apart BY <1>0, QueuesAreApart DEF TypeOK
  <2> QED BY <2>1, GatheredJoins
<1> HIDE DEF G
<1>3. PICK c \in DOMAIN queue' : \E i, j \in DOMAIN queue'[c] : i < j /\ queue'[c][i] = u /\ queue'[c][j] = v
  BY DEF Before
<1>4. InOrder(queue'[c], G)
  <2> DEFINE S == {w \in ToSet(G) : Last(tables')[index(address[w], Last(tables'))] = c}
  <2>1. queue'[c] = Keep(G, S) BY <1>1 DEF G
  <2> HIDE DEF S
  <2> QED BY <2>1, <1>2, KeepKeeps
<1>5. PICK k, l \in DOMAIN G : k < l /\ u = G[k] /\ v = G[l] BY <1>3, <1>4 DEF InOrder
<1>6. u \in ToSet(G) /\ v \in ToSet(G) BY <1>5 DEF ToSet
<1>7. PICK b \in B : u \in ToSet(queue[b]) BY <1>2, <1>6
<1>8. PICK d \in B : v \in ToSet(queue[d]) BY <1>2, <1>6
<1>9. b = d
  <2>1. Placed(queue, Last(tables), address) BY <1>0, IsPlaced
  <2> QED BY <2>1, <1>7, <1>8 DEF Placed
<1>10. PICK i \in DOMAIN queue[b] : u = queue[b][i] BY <1>7 DEF ToSet
<1>11. PICK j \in DOMAIN queue[b] : v = queue[b][j] BY <1>8, <1>9 DEF ToSet
<1>12. i < j BY <1>2, <1>5, <1>10, <1>11
<1> QED BY <1>10, <1>11, <1>12 DEF Before

\* So it leaves what is parked on each address.
LEMMA CalmParked ==
  ASSUME IInv, IInv', NEW t \in Threads, Move(t), NEW a \in Addresses,
         ~Enqueue(t), ~DequeueMyself(t), ~DidDequeue(t), ~Dequeue(t), ~ClearAddress(t), ~Signal(t)
  PROVE  ParkedOn(a)' = ParkedOn(a) /\ \A u : Queued(u)' <=> Queued(u)
<1>0. TypeOK /\ TypeOK' /\ Named /\ Full /\ Ways /\ QueuesAreWhole BY DEF IInv
<1>1. address' = address BY CalmSteps DEF Move, Step, Calm
<1>2. Grown \/ Rehash(t) BY CalmTables
<1>3. \A u : Queued(u)' <=> Queued(u)
  <2>1. CASE Grown BY <2>1, <1>0, GrownQueues
  <2>2. CASE Rehash(t) BY <2>2, <1>0, RehashMoves
  <2> QED BY <1>2, <2>1, <2>2
<1>4. ASSUME NEW u \in ToSet(ParkedOn(a)'), NEW v \in ToSet(ParkedOn(a)'), Before(queue', u, v)
      PROVE  Before(queue, u, v)
  <2>1. address[u] = a /\ address[v] = a BY <1>1, ParkedOnThen
  <2>2. CASE Grown BY <2>2, <1>0, <1>4, GrownBefore DEF TypeOK
  <2>3. CASE Rehash(t) BY <2>1, <2>3, <1>4, RehashBefore
  <2> QED BY <1>2, <2>2, <2>3
<1>5. ParkedOn(a)' = ParkedOn(a) BY <1>1, <1>3, <1>4, ParkedStays
<1> QED BY <1>3, <1>5

-----------------------------------------------------------------------------
(* The steps that enqueue, dequeue or wake a thread, and what is parked *)

\* Without its first members a sequence is a suffix of it.
LEMMA KeepRest ==
  ASSUME NEW s \in Seq(Threads), Distinct(s), NEW n \in 0 .. Len(s)
  PROVE  Keep(s, Threads \ ToSet(SubSeq(s, 1, n))) = SubSeq(s, n + 1, Len(s))
<1> DEFINE taken == SubSeq(s, 1, n)
           r == SubSeq(s, n + 1, Len(s))
           m == Len(s)
<1>1. /\ m \in Nat /\ n \in 0 .. m /\ DOMAIN s = 1 .. m
      /\ r \in Seq(Threads) /\ DOMAIN r = 1 .. m - n /\ \A k \in 1 .. m - n : r[k] = s[n + k]
      /\ DOMAIN taken = 1 .. n /\ \A k \in 1 .. n : taken[k] = s[k]
  OBVIOUS
<1>t. \A k \in 1 .. m : s[k] \in Threads OBVIOUS
<1> HIDE DEF taken, r, m
<1>2. Distinct(r)
  <2> SUFFICES ASSUME NEW k \in 1 .. m - n, NEW l \in 1 .. m - n, r[k] = r[l] PROVE k = l BY <1>1 DEF Distinct
  <2>1. n + k \in 1 .. m /\ n + l \in 1 .. m /\ s[n + k] = s[n + l] BY <1>1
  <2>2. n + k = n + l BY <2>1, <1>1 DEF Distinct
  <2> QED BY <2>2, <1>1
<1>3. InOrder(r, s)
  <2> SUFFICES ASSUME NEW k \in 1 .. m - n, NEW l \in 1 .. m - n, k < l
               PROVE  \E i, j \in DOMAIN s : i < j /\ r[k] = s[i] /\ r[l] = s[j]
    <3>1. DOMAIN r = 1 .. m - n BY <1>1
    <3> QED BY <3>1 DEF InOrder
  <2>1. n + k \in 1 .. m /\ n + l \in 1 .. m /\ n + k < n + l BY <1>1
  <2> QED BY <2>1, <1>1
<1>4. ToSet(r) = ToSet(s) \cap (Threads \ ToSet(taken))
  <2>1. ASSUME NEW k \in 1 .. m - n PROVE r[k] \in ToSet(s) /\ r[k] \in Threads /\ r[k] \notin ToSet(taken)
    <3>1. n + k \in 1 .. m /\ r[k] = s[n + k] BY <1>1
    <3>2. ASSUME NEW i \in 1 .. n, taken[i] = r[k] PROVE FALSE
      <4>1. i \in 1 .. m /\ s[i] = s[n + k] BY <3>1, <3>2, <1>1
      <4>2. i = n + k BY <4>1, <3>1, <1>1 DEF Distinct
      <4> QED BY <4>2, <1>1
    <3> QED BY <3>1, <3>2, <1>1, <1>t DEF ToSet
  <2>2. ASSUME NEW i \in 1 .. m, s[i] \notin ToSet(taken) PROVE s[i] \in ToSet(r)
    <3>1. i \notin 1 .. n BY <2>2, <1>1 DEF ToSet
    <3>2. i - n \in 1 .. m - n /\ n + (i - n) = i BY <3>1, <1>1
    <3> QED BY <3>2, <1>1 DEF ToSet
  <2>3. ToSet(r) = {r[k] : k \in 1 .. m - n} /\ ToSet(s) = {s[i] : i \in 1 .. m} BY <1>1 DEF ToSet
  <2> QED BY <2>1, <2>2, <2>3
<1>5. r = Keep(s, Threads \ ToSet(taken)) BY <1>1, <1>2, <1>3, <1>4, KeepIs
<1> QED BY <1>5 DEF r, taken, m

\* Without one of its members it is the sequence with that one removed.
LEMMA KeepOthers ==
  ASSUME NEW s \in Seq(Threads), Distinct(s), NEW p \in DOMAIN s
  PROVE  Keep(s, Threads \ {s[p]}) = RemoveAt(s, p)
<1> DEFINE r == RemoveAt(s, p)
           m == Len(s)
           at(k) == IF k < p THEN k ELSE k + 1
<1>1. /\ m \in Nat /\ p \in 1 .. m /\ DOMAIN s = 1 .. m
      /\ r \in Seq(Threads) /\ DOMAIN r = 1 .. m - 1
      /\ \A k \in 1 .. m - 1 : r[k] = s[at(k)]
  <2> DEFINE x == SubSeq(s, 1, p - 1)
             y == SubSeq(s, p + 1, m)
  <2>1. m \in Nat /\ DOMAIN s = 1 .. m /\ p \in 1 .. m OBVIOUS
  <2>2. /\ x \in Seq(Threads) /\ Len(x) = p - 1 /\ \A k \in 1 .. p - 1 : x[k] = s[k]
        /\ y \in Seq(Threads) /\ Len(y) = m - p /\ \A k \in 1 .. m - p : y[k] = s[p + k]
    <3> HIDE DEF m
    <3>0. m = Len(s) BY DEF m
    <3>1. x \in Seq(Threads) /\ Len(x) = p - 1 /\ \A k \in 1 .. p - 1 : x[k] = s[k] BY <2>1, <3>0
    <3>2. y \in Seq(Threads) /\ Len(y) = m - p BY <2>1, <3>0
    <3>3. \A k \in 1 .. m - p : y[k] = s[p + k] BY <2>1, <3>0
    <3> QED BY <3>1, <3>2, <3>3
  <2>3. r = x \o y BY DEF RemoveAt
  <2> HIDE DEF x, y, r, m
  <2>4. /\ r \in Seq(Threads) /\ Len(r) = m - 1 /\ DOMAIN r = 1 .. m - 1
        /\ \A k \in 1 .. m - 1 : r[k] = IF k <= p - 1 THEN x[k] ELSE y[k - (p - 1)]
    BY <2>1, <2>2, <2>3
  <2>5. ASSUME NEW k \in 1 .. m - 1 PROVE r[k] = s[at(k)]
    <3>1. CASE k < p
      <4>1. k \in 1 .. p - 1 /\ k <= p - 1 BY <2>1, <3>1
      <4> QED BY <4>1, <3>1, <2>2, <2>4
    <3>2. CASE ~(k < p)
      <4>1. k - (p - 1) \in 1 .. m - p /\ ~(k <= p - 1) /\ p + (k - (p - 1)) = k + 1 BY <2>1, <3>2
      <4>2. r[k] = y[k - (p - 1)] BY <4>1, <2>4
      <4> QED BY <4>1, <4>2, <3>2, <2>2
    <3> QED BY <3>1, <3>2
  <2> QED BY <2>1, <2>4, <2>5
<1>t. \A k \in 1 .. m : s[k] \in Threads OBVIOUS
<1>a. /\ \A k \in 1 .. m - 1 : at(k) \in 1 .. m /\ at(k) # p
      /\ \A k, l \in 1 .. m - 1 : k < l => at(k) < at(l)
  BY <1>1
<1> HIDE DEF r, m
<1>2. Distinct(r)
  <2> SUFFICES ASSUME NEW k \in 1 .. m - 1, NEW l \in 1 .. m - 1, r[k] = r[l] PROVE k = l BY <1>1 DEF Distinct
  <2>1. at(k) \in 1 .. m /\ at(l) \in 1 .. m /\ s[at(k)] = s[at(l)] BY <1>1, <1>a
  <2> HIDE DEF at
  <2>2. at(k) = at(l) BY <2>1, <1>1 DEF Distinct
  <2> QED BY <2>2, <2>1, <1>1, <1>a DEF at
<1>i. \A i \in 1 .. m : i # p => \E k \in 1 .. m - 1 : at(k) = i
  <2> SUFFICES ASSUME NEW i \in 1 .. m, i # p PROVE \E k \in 1 .. m - 1 : at(k) = i OBVIOUS
  <2>1. CASE i < p BY <2>1, <1>1
  <2>2. CASE i > p
    <3>1. i - 1 \in 1 .. m - 1 /\ at(i - 1) = i BY <2>2, <1>1
    <3> QED BY <3>1
  <2> QED BY <2>1, <2>2, <1>1
<1> HIDE DEF at
<1>3. InOrder(r, s) BY <1>1, <1>a DEF InOrder
<1>4. ToSet(r) = ToSet(s) \cap (Threads \ {s[p]})
  <2>1. ASSUME NEW k \in 1 .. m - 1 PROVE r[k] \in ToSet(s) /\ r[k] \in Threads /\ r[k] # s[p]
    <3>1. at(k) \in 1 .. m /\ at(k) # p /\ r[k] = s[at(k)] BY <1>1, <1>a
    <3> QED BY <3>1, <1>1, <1>t DEF ToSet, Distinct
  <2>2. ASSUME NEW i \in 1 .. m, s[i] # s[p] PROVE s[i] \in ToSet(r)
    <3>1. PICK k \in 1 .. m - 1 : at(k) = i BY <2>2, <1>i
    <3> QED BY <3>1, <1>1 DEF ToSet
  <2>3. ToSet(r) = {r[k] : k \in 1 .. m - 1} /\ ToSet(s) = {s[i] : i \in 1 .. m} BY <1>1 DEF ToSet
  <2> QED BY <2>1, <2>2, <2>3
<1>5. r = Keep(s, Threads \ {s[p]}) BY <1>1, <1>2, <1>3, <1>4, KeepIs
<1> QED BY <1>5 DEF r

\* If the queues stay and only threads that are in none of them change their address.
LEMMA QueuesStay ==
  ASSUME IInv, IInv', NEW a \in Addresses, queue' = queue, \A u : Queued(u) => address'[u] = address[u]
  PROVE  ParkedOn(a)' = ParkedOn(a) /\ \A u : Queued(u)' <=> Queued(u)
<1>1. \A u : Queued(u)' <=> Queued(u) BY DEF Queued
<1>2. \A u : Queued(u)' /\ address'[u] = a <=> Queued(u) /\ address[u] = a BY <1>1
<1>3. \A u, v \in ToSet(ParkedOn(a)') : Before(queue', u, v) => Before(queue, u, v) OBVIOUS
<1> QED BY <1>1, <1>2, <1>3, ParkedStays

\* So a step that clears an address or wakes a thread leaves what is parked.
LEMMA WakingParked ==
  ASSUME IInv, IInv', NEW a \in Addresses, NEW t \in Threads, DidDequeue(t) \/ ClearAddress(t) \/ Signal(t)
  PROVE  ParkedOn(a)' = ParkedOn(a) /\ \A u : Queued(u)' <=> Queued(u)
<1>0. TypeOK /\ Ways /\ Left /\ TakenThreadsStay BY DEF IInv
<1>t. address \in [Threads -> Addresses \cup {NoAddress}] BY <1>0 DEF TypeOK
<1>1. queue' = queue BY DEF DidDequeue, ClearAddress, Signal, lot
<1>2. ASSUME NEW u, Queued(u) PROVE u \in Threads
  <2>1. PICK b \in DOMAIN queue : \E i \in DOMAIN queue[b] : queue[b][i] = u BY <1>0, <1>2, IsQueued
  <2>2. queue[b] \in Seq(Threads) BY <1>0 DEF TypeOK
  <2> QED BY <2>1, <2>2
<1>3. ASSUME NEW u, Queued(u) PROVE address'[u] = address[u]
  <2>0. u \in Threads BY <1>2, <1>3
  <2>1. CASE DidDequeue(t)
    <3>1. u # t BY <2>1, <1>0, <1>3 DEF Left, DidDequeue
    <3> QED BY <3>1, <2>0, <2>1, <1>t DEF DidDequeue
  <2>2. CASE ClearAddress(t)
    <3>1. pc[t] = "unpark" /\ threadDatas[t] # <<>> /\ threadDatas[t] \in Seq(Threads)
      BY <2>2, <1>0 DEF ClearAddress, TypeOK
    <3>2. Head(threadDatas[t]) \in Taken(t) BY <3>1 DEF Taken
    <3>3. u # Head(threadDatas[t]) BY <3>2, <1>0, <1>3 DEF TakenThreadsStay
    <3> QED BY <3>3, <2>0, <2>2, <1>t DEF ClearAddress
  <2>3. CASE Signal(t) BY <2>3 DEF Signal, data
  <2> QED BY <2>1, <2>2, <2>3
<1> QED BY <1>1, <1>3, QueuesStay

\* Taking threads out of a queue changes no order.
LEMMA ShrunkBefore ==
  ASSUME queue \in Seq(Seq(Threads)), NEW b \in DOMAIN queue, NEW R,
         queue' = [queue EXCEPT ![b] = Keep(@, Threads \ R)], NEW u, NEW v, Before(queue', u, v)
  PROVE  Before(queue, u, v)
<1> DEFINE kept == Keep(queue[b], Threads \ R)
<1>1. queue[b] \in Seq(Threads) OBVIOUS
<1>2. InOrder(kept, queue[b]) BY <1>1, KeepKeeps
<1> HIDE DEF kept
<1>3. /\ DOMAIN queue' = DOMAIN queue /\ queue'[b] = kept
      /\ \A c \in DOMAIN queue : c # b => queue'[c] = queue[c]
  BY DEF kept
<1>4. PICK c \in DOMAIN queue' : \E i, j \in DOMAIN queue'[c] : i < j /\ queue'[c][i] = u /\ queue'[c][j] = v
  BY DEF Before
<1>5. CASE c = b
  <2>1. PICK k, l \in DOMAIN kept : k < l /\ kept[k] = u /\ kept[l] = v BY <1>3, <1>4, <1>5
  <2>2. \E i, j \in DOMAIN queue[b] : i < j /\ kept[k] = queue[b][i] /\ kept[l] = queue[b][j]
    BY <2>1, <1>2 DEF InOrder
  <2> QED BY <2>1, <2>2 DEF Before
<1>6. CASE c # b BY <1>3, <1>4, <1>6 DEF Before
<1> QED BY <1>5, <1>6

\* If threads are taken out of a queue, the others stay parked as they were.
LEMMA ShrunkParked ==
  ASSUME IInv, IInv', NEW a \in Addresses, NEW b \in DOMAIN queue, NEW R,
         queue' = [queue EXCEPT ![b] = Keep(@, Threads \ R)], UNCHANGED <<tables, address>>,
         R \subseteq ToSet(queue[b])
  PROVE  /\ ParkedOn(a)' = Keep(ParkedOn(a), Threads \ R)
         /\ \A u : Queued(u)' <=> Queued(u) /\ u \notin R
         /\ (\A u \in R : address[u] # a) => ParkedOn(a)' = ParkedOn(a)
<1>0. TypeOK /\ QueuesAreWhole /\ queue \in Seq(Seq(Threads)) BY DEF IInv, TypeOK
<1>1. \A u : Queued(u)' <=> Queued(u) /\ ~(u \in R /\ u \in ToSet(queue[b])) BY <1>0, Shrunk
<1>2. \A u : Queued(u)' <=> Queued(u) /\ u \notin R BY <1>1
<1>3. \A u, v : Before(queue', u, v) => Before(queue, u, v) BY <1>0, ShrunkBefore
<1>4. ToSet(ParkedOn(a)) \subseteq Threads
  <2>1. ParkedOn(a) \in Seq(Threads) BY ParkedOnIs
  <2> QED BY <2>1 DEF ToSet
<1>5. ToSet(ParkedOn(a)') = ToSet(ParkedOn(a)) \cap (Threads \ R)
  <2>1. \A u : u \in ToSet(ParkedOn(a)) <=> Queued(u) /\ address[u] = a BY ParkedOnIs
  <2>2. \A u : u \in ToSet(ParkedOn(a)') <=> Queued(u)' /\ address'[u] = a BY ParkedOnThen
  <2> QED BY <2>1, <2>2, <1>2, <1>4
<1>6. ParkedOn(a)' = Keep(ParkedOn(a), Threads \ R) BY <1>3, <1>5, ParkedShrinks
<1>7. ASSUME \A u \in R : address[u] # a PROVE ParkedOn(a)' = ParkedOn(a)
  <2>1. \A u : Queued(u)' /\ address'[u] = a <=> Queued(u) /\ address[u] = a BY <1>2, <1>7
  <2> QED BY <2>1, <1>3, ParkedStays
<1> QED BY <1>2, <1>6, <1>7

\* A thread that leaves its queue is no longer parked; the others are.
LEMMA LeftParked ==
  ASSUME IInv, IInv', NEW t \in Threads, DequeueMyself(t), NEW a \in Addresses
  PROVE  /\ \A u : Queued(u)' <=> Queued(u) /\ u # t
         /\ pc' = [pc EXCEPT ![t] = IF Queued(t) THEN "didDequeue" ELSE "settle"]
         /\ ~Queued(t) \/ address[t] # a => ParkedOn(a)' = ParkedOn(a)
         /\ Queued(t) /\ address[t] = a =>
              \E i \in DOMAIN ParkedOn(a) : ParkedOn(a)[i] = t /\ ParkedOn(a)' = RemoveAt(ParkedOn(a), i)
<1> DEFINE b == bucket[t]
<1>0. TypeOK /\ Named /\ Ways /\ QueuesAreWhole /\ Mine /\ queue \in Seq(Seq(Threads)) BY DEF IInv, TypeOK
<1>1. /\ pc[t] = "lock" /\ call[t].op = "leave" /\ b \in DOMAIN queue /\ queue[b] \in Seq(Threads)
      /\ Last(tables)[index(call[t].address, Last(tables))] = b
  BY <1>0, LockedIs DEF DequeueMyself
<1>2. /\ queue' = [queue EXCEPT ![b] = Keep(@, Threads \ {t})] /\ UNCHANGED <<tables, address>>
      /\ pc' = [pc EXCEPT ![t] = IF Contains(queue[b], t) THEN "didDequeue" ELSE "settle"]
  BY DEF DequeueMyself, Goto, data
<1>4. Placed(queue, Last(tables), address) /\ \A u : Queued(u) <=> \E c \in DOMAIN queue : u \in ToSet(queue[c])
  BY <1>0, IsPlaced
<1>5. Contains(queue[b], t) <=> t \in ToSet(queue[b])
  BY <1>1 DEF Contains, ToSet
<1>6. Parking(t) BY <1>1 DEF Parking
<1>7. Queued(t) => t \in ToSet(queue[b])
  <2> SUFFICES ASSUME Queued(t) PROVE t \in ToSet(queue[b]) OBVIOUS
  <2>1. PICK c \in DOMAIN queue : t \in ToSet(queue[c]) BY <1>4
  <2>2. address[t] \in Addresses /\ Last(tables)[index(address[t], Last(tables))] = c
    BY <2>1, <1>4 DEF Placed
  <2>3. address[t] = call[t].address BY <2>2, <1>0, <1>6, ParkingLotConstants DEF Mine
  <2>4. c = b BY <2>2, <2>3, <1>1
  <2> QED BY <2>1, <2>4
<1>8. Queued(t) <=> Contains(queue[b], t) BY <1>1, <1>4, <1>5, <1>7
<1> HIDE DEF b
<1>9. CASE Queued(t)
  <2> DEFINE R == {t}
  <2>1. R \subseteq ToSet(queue[b]) /\ queue' = [queue EXCEPT ![b] = Keep(@, Threads \ R)]
    BY <1>2, <1>7, <1>9
  <2> HIDE DEF R
  <2>2. /\ ParkedOn(a)' = Keep(ParkedOn(a), Threads \ R)
        /\ \A u : Queued(u)' <=> Queued(u) /\ u \notin R
        /\ (\A u \in R : address[u] # a) => ParkedOn(a)' = ParkedOn(a)
    BY <2>1, <1>1, <1>2, ShrunkParked
  <2> USE DEF R
  <2>3. ASSUME address[t] = a
        PROVE  \E i \in DOMAIN ParkedOn(a) : ParkedOn(a)[i] = t /\ ParkedOn(a)' = RemoveAt(ParkedOn(a), i)
    <3>1. ParkedOn(a) \in Seq(Threads) /\ Distinct(ParkedOn(a)) /\ t \in ToSet(ParkedOn(a))
      BY <1>9, <2>3, ParkedOnIs
    <3>2. PICK i \in DOMAIN ParkedOn(a) : ParkedOn(a)[i] = t BY <3>1 DEF ToSet
    <3>3. Keep(ParkedOn(a), Threads \ {ParkedOn(a)[i]}) = RemoveAt(ParkedOn(a), i) BY <3>1, KeepOthers
    <3> QED BY <3>2, <3>3, <2>2
  <2> QED BY <2>2, <2>3, <1>2, <1>8, <1>9
<1>10. CASE ~Queued(t)
  <2>1. \A u : Queued(u)' <=> Queued(u) /\ ~(u \in {t} /\ u \in ToSet(queue[b])) BY <1>0, <1>1, <1>2, Shrunk
  <2>2. \A u : Queued(u)' <=> Queued(u) BY <2>1, <1>10
  <2>3. \A u, v : Before(queue', u, v) => Before(queue, u, v) BY <1>0, <1>1, <1>2, ShrunkBefore
  <2>4. ParkedOn(a)' = ParkedOn(a) BY <1>2, <2>2, <2>3, ParkedStays
  <2> QED BY <2>2, <2>4, <1>2, <1>8, <1>10
<1> QED BY <1>9, <1>10

\* An unparker takes the first of those that are parked on its address.
LEMMA TakenParked ==
  ASSUME IInv, IInv', NEW t \in Threads, Dequeue(t), NEW c \in Addresses, c = call[t].address,
         NEW a \in Addresses
  PROVE  LET s == ParkedOn(c)
             n == IF call[t].count < Len(s) THEN call[t].count ELSE Len(s)
         IN  /\ threadDatas'[t] = SubSeq(s, 1, n) /\ n \in 0 .. Len(s) /\ s \in Seq(Threads)
             /\ ParkedOn(c)' = SubSeq(s, n + 1, Len(s))
             /\ a # c => ParkedOn(a)' = ParkedOn(a)
             /\ \A u : Queued(u)' <=> Queued(u) /\ u \notin ToSet(SubSeq(s, 1, n))
             /\ \A u \in ToSet(SubSeq(s, 1, n)) : Queued(u) /\ u \in Threads
             /\ \A u \in ToSet(s) : u \in ToSet(queue[bucket[t]])
             /\ Len(SubSeq(s, 1, n)) = n
             /\ call[t].count \in Nat \ {0}
<1> DEFINE b == bucket[t]
           s == ParkedOn(c)
           n == IF call[t].count < Len(s) THEN call[t].count ELSE Len(s)
           taken == threadDatas'[t]
<1>0. TypeOK /\ Named /\ Ways /\ QueuesAreWhole /\ queue \in Seq(Seq(Threads)) BY DEF IInv, TypeOK
<1>1. /\ pc[t] = "lock" /\ call[t].op \in Unparks /\ b \in DOMAIN queue /\ queue[b] \in Seq(Threads)
      /\ Last(tables)[index(c, Last(tables))] = b
  BY <1>0, LockedIs DEF Dequeue, Unparks
<1>2. s = InBucketFor(t)
  <2>1. tables # <<>> BY <1>0, <1>1 DEF Named
  <2>2. b # null BY <1>0, <1>1 DEF null
  <2> QED BY <1>1, <2>1, <2>2 DEF ParkedOn, InBucketFor
<1>3. /\ taken = SubSeq(s, 1, Len(taken)) /\ Len(taken) = n
      /\ ToSet(taken) \subseteq ToSet(queue[b])
      /\ \A u \in ToSet(taken) : address[u] = c
      /\ queue' = [queue EXCEPT ![b] = Keep(@, Threads \ ToSet(taken))]
  BY <1>0, <1>2, DequeueTakes
<1>4. UNCHANGED <<tables, address>> BY DEF Dequeue
<1>5. call[t].count \in Nat \ {0}
  <2>1. call[t] \in Requests \cup Leaving \cup {NoCall} BY <1>0 DEF TypeOK
  <2> QED BY <1>1, <2>1, CallIs
<1>6. /\ s \in Seq(Threads) /\ Distinct(s) /\ \A u : u \in ToSet(s) <=> Queued(u) /\ address[u] = c
  BY <1>1, ParkedOnIs
<1> HIDE DEF b, s, taken
<1>7. n \in 0 .. Len(s) /\ Len(s) \in Nat BY <1>5, <1>6
<1> HIDE DEF n
<1>8. taken = SubSeq(s, 1, n) BY <1>3
<1>9. \A e \in Addresses :
        /\ ParkedOn(e)' = Keep(ParkedOn(e), Threads \ ToSet(taken))
        /\ \A u : Queued(u)' <=> Queued(u) /\ u \notin ToSet(taken)
        /\ (\A u \in ToSet(taken) : address[u] # e) => ParkedOn(e)' = ParkedOn(e)
  BY <1>1, <1>3, <1>4, ShrunkParked
<1>10. ParkedOn(c)' = SubSeq(s, n + 1, Len(s))
  <2>1. ParkedOn(c)' = Keep(ParkedOn(c), Threads \ ToSet(taken)) BY <1>1, <1>9
  <2>2. ParkedOn(c)' = Keep(s, Threads \ ToSet(taken)) BY <2>1 DEF s
  <2> QED BY <2>2, <1>6, <1>7, <1>8, KeepRest
<1>11. a # c => ParkedOn(a)' = ParkedOn(a) BY <1>3, <1>9
<1>12. \A u \in ToSet(taken) : Queued(u) /\ u \in Threads
  <2>1. \A u \in ToSet(queue[b]) : u \in Threads BY <1>1 DEF ToSet
  <2>2. \A u : Queued(u) <=> \E e \in DOMAIN queue : u \in ToSet(queue[e]) BY <1>0, IsPlaced
  <2> QED BY <2>1, <2>2, <1>1, <1>3
<1>13. \A u \in ToSet(s) : u \in ToSet(queue[b])
  <2>1. s = Keep(queue[b], {u \in Threads : address[u] = c}) BY <1>2 DEF InBucketFor, b
  <2>2. ToSet(s) = ToSet(queue[b]) \cap {u \in Threads : address[u] = c} BY <1>1, <2>1, KeepKeeps
  <2> QED BY <2>2
<1>14. \A u : Queued(u)' <=> Queued(u) /\ u \notin ToSet(taken) BY <1>9, <1>1
<1> QED BY <1>1, <1>3, <1>5, <1>6, <1>7, <1>8, <1>10, <1>11, <1>12, <1>13, <1>14 DEF s, n, taken, b

\* A thread that parks is the last one on its address; on the others nothing changes.
LEMMA EnqueuedParked ==
  ASSUME IInv, IInv', NEW t \in Threads, Enqueue(t), NEW c \in Addresses, c = call[t].address,
         NEW a \in Addresses
  PROVE  /\ \A u : Queued(u)' <=> Queued(u) \/ u = t
         /\ ParkedOn(c)' = Append(ParkedOn(c), t)
         /\ a # c => ParkedOn(a)' = ParkedOn(a)
         /\ ~Queued(t) /\ ~Parking(t)
<1> DEFINE b == bucket[t]
<1>0. TypeOK /\ TypeOK' /\ Named /\ Ways /\ QueuesAreWhole /\ QueuesAreWhole' /\ queue \in Seq(Seq(Threads))
      /\ queue' \in Seq(Seq(Threads)) /\ address \in [Threads -> Addresses \cup {NoAddress}]
  BY DEF IInv, TypeOK
<1>1. /\ pc[t] = "lock" /\ call[t].op = "park" /\ b \in DOMAIN queue /\ queue[b] \in Seq(Threads)
      /\ Last(tables)[index(c, Last(tables))] = b
  BY <1>0, LockedIs DEF Enqueue
<1>2. /\ address' = [address EXCEPT ![t] = c] /\ queue' = [queue EXCEPT ![b] = Append(queue[b], t)]
      /\ UNCHANGED tables
  BY DEF Enqueue
<1> HIDE DEF b
<1>3. ~Parking(t) /\ ~Queued(t) BY <1>0, <1>1 DEF Parking, QueuesAreWhole
<1>q. ASSUME NEW u, Queued(u) PROVE u \in Threads
  <2>1. PICK d \in DOMAIN queue : \E i \in DOMAIN queue[d] : queue[d][i] = u BY <1>0, <1>q, IsQueued
  <2> QED BY <2>1, <1>0
<1>4. Placed(queue, Last(tables), address) /\ \A u : Queued(u) <=> \E d \in DOMAIN queue : u \in ToSet(queue[d])
  BY <1>0, IsPlaced
<1>5. /\ Placed(queue', Last(tables'), address')
      /\ \A u : Queued(u)' <=> \E d \in DOMAIN queue' : u \in ToSet(queue'[d])
  BY <1>0, PlacedIs DEF QueuesAreWhole, Queued
<1> DEFINE m == Len(queue[b])
<1>6. /\ DOMAIN queue' = DOMAIN queue /\ \A d \in DOMAIN queue : d # b => queue'[d] = queue[d]
      /\ m \in Nat /\ DOMAIN queue[b] = 1 .. m /\ DOMAIN queue'[b] = 1 .. m + 1
      /\ queue'[b][m + 1] = t /\ \A i \in 1 .. m : queue'[b][i] = queue[b][i]
  <2>1. /\ DOMAIN queue' = DOMAIN queue /\ queue'[b] = Append(queue[b], t)
        /\ \A d \in DOMAIN queue : d # b => queue'[d] = queue[d]
    BY <1>0, <1>1, <1>2
  <2>2. /\ m \in Nat /\ DOMAIN queue[b] = 1 .. m /\ DOMAIN Append(queue[b], t) = 1 .. m + 1
        /\ Append(queue[b], t)[m + 1] = t /\ \A i \in 1 .. m : Append(queue[b], t)[i] = queue[b][i]
    BY <1>1
  <2> QED BY <2>1, <2>2
<1> HIDE DEF m
<1>7. ToSet(queue'[b]) = ToSet(queue[b]) \cup {t}
  <2> DEFINE s == queue[b]
             r == queue'[b]
  <2>1. /\ m \in Nat /\ DOMAIN s = 1 .. m /\ DOMAIN r = 1 .. m + 1
        /\ r[m + 1] = t /\ \A i \in 1 .. m : r[i] = s[i]
    BY <1>6
  <2> HIDE DEF s, r
  <2>2. ToSet(r) = ToSet(s) \cup {t} BY <2>1 DEF ToSet
  <2> QED BY <2>2 DEF s, r
<1>8. \A u : Queued(u)' <=> Queued(u) \/ u = t BY <1>1, <1>4, <1>5, <1>6, <1>7
<1>9. ASSUME NEW u, NEW v, Before(queue', u, v), v # t PROVE Before(queue, u, v)
  <2>1. PICK d \in DOMAIN queue' : \E i, j \in DOMAIN queue'[d] : i < j /\ queue'[d][i] = u /\ queue'[d][j] = v
    BY <1>9 DEF Before
  <2>2. CASE d # b BY <1>6, <2>1, <2>2 DEF Before
  <2>3. CASE d = b
    <3>1. PICK i, j \in 1 .. m + 1 : i < j /\ queue'[b][i] = u /\ queue'[b][j] = v BY <1>6, <2>1, <2>3
    <3>2. i \in 1 .. m /\ j \in 1 .. m BY <1>6, <1>9, <3>1
    <3> QED BY <1>1, <1>6, <3>1, <3>2 DEF Before
  <2> QED BY <2>2, <2>3
<1>10. ASSUME NEW u, NEW v, Before(queue, u, v) PROVE Before(queue', u, v)
  <2>1. PICK d \in DOMAIN queue : \E i, j \in DOMAIN queue[d] : i < j /\ queue[d][i] = u /\ queue[d][j] = v
    BY <1>10 DEF Before
  <2>2. CASE d # b BY <1>6, <2>1, <2>2 DEF Before
  <2>3. CASE d = b
    <3>1. PICK i, j \in 1 .. m : i < j /\ queue[b][i] = u /\ queue[b][j] = v BY <1>6, <2>1, <2>3
    <3>2. i \in 1 .. m + 1 /\ j \in 1 .. m + 1 /\ queue'[b][i] = u /\ queue'[b][j] = v BY <1>6, <3>1
    <3> QED BY <1>1, <1>6, <3>1, <3>2 DEF Before
  <2> QED BY <2>2, <2>3
<1>11. ASSUME NEW u, Queued(u), address[u] = c PROVE Before(queue', u, t)
  <2>1. PICK d \in DOMAIN queue : u \in ToSet(queue[d]) BY <1>4, <1>11
  <2>2. d = b BY <2>1, <1>1, <1>4, <1>11 DEF Placed
  <2>3. PICK i \in 1 .. m : queue[b][i] = u BY <2>1, <2>2, <1>6 DEF ToSet
  <2>4. /\ i \in DOMAIN queue'[b] /\ m + 1 \in DOMAIN queue'[b] /\ i < m + 1
        /\ queue'[b][i] = u /\ queue'[b][m + 1] = t
    BY <1>6, <2>3
  <2> QED BY <2>4, <1>1, <1>6 DEF Before
<1>12. ASSUME a # c PROVE ParkedOn(a)' = ParkedOn(a)
  <2>1. \A u : Queued(u) => u \in Threads BY <1>q
  <2>2. \A u \in Threads : address'[u] = (IF u = t THEN c ELSE address[u]) BY <1>0, <1>2
  <2>3. \A u : Queued(u)' /\ address'[u] = a <=> Queued(u) /\ address[u] = a
    BY <1>3, <1>8, <1>12, <2>1, <2>2
  <2>4. \A u \in ToSet(ParkedOn(a)') : u # t BY <1>12, <2>2, ParkedOnThen
  <2>5. \A u, v \in ToSet(ParkedOn(a)') : Before(queue', u, v) => Before(queue, u, v) BY <1>9, <2>4
  <2> QED BY <2>3, <2>5, ParkedStays
<1>13. ParkedOn(c)' = Append(ParkedOn(c), t)
  <2> DEFINE s == ParkedOn(c)
             n == Len(s)
             r == ParkedOn(c)'
             e == Append(s, t)
  <2>1. /\ s \in Seq(Threads) /\ Distinct(s) /\ Lined(s, queue)
        /\ \A u : u \in ToSet(s) <=> Queued(u) /\ address[u] = c
    BY ParkedOnIs
  <2>2. /\ r \in Seq(Threads) /\ Distinct(r) /\ Lined(r, queue')
        /\ \A u : u \in ToSet(r) <=> Queued(u)' /\ address'[u] = c
    BY ParkedOnThen
  <2>3. /\ n \in Nat /\ DOMAIN s = 1 .. n /\ e \in Seq(Threads) /\ DOMAIN e = 1 .. n + 1
        /\ e[n + 1] = t /\ \A i \in 1 .. n : e[i] = s[i]
    BY <2>1
  <2> HIDE DEF s, n, r, e
  <2>4. ToSet(e) = ToSet(s) \cup {t} BY <2>3 DEF ToSet
  <2>5. t \notin ToSet(s) BY <1>3, <2>1
  <2>6. Distinct(e)
    <3> SUFFICES ASSUME NEW i \in 1 .. n + 1, NEW j \in 1 .. n + 1, e[i] = e[j] PROVE i = j
      BY <2>3 DEF Distinct
    <3>1. i \in 1 .. n \/ i = n + 1 BY <2>3
    <3>2. j \in 1 .. n \/ j = n + 1 BY <2>3
    <3> QED BY <3>1, <3>2, <2>1, <2>3, <2>5 DEF Distinct, ToSet
  <2>7. ToSet(r) = ToSet(e)
    <3>1. \A u : Queued(u) => u \in Threads BY <1>q
    <3>2. \A u \in Threads : address'[u] = (IF u = t THEN c ELSE address[u]) BY <1>0, <1>2
    <3> QED BY <3>1, <3>2, <1>8, <2>1, <2>2, <2>4
  <2>8. Lined(e, queue')
    <3> SUFFICES ASSUME NEW k \in 1 .. n + 1, NEW l \in 1 .. n + 1, k < l PROVE Before(queue', e[k], e[l])
      BY <2>3 DEF Lined
    <3>1. k \in 1 .. n /\ e[k] = s[k] BY <2>3
    <3>2. CASE l \in 1 .. n
      <4>1. Before(queue, s[k], s[l]) BY <2>1, <2>3, <3>1, <3>2 DEF Lined
      <4> QED BY <4>1, <1>10, <2>3, <3>1, <3>2
    <3>3. CASE l = n + 1
      <4>1. s[k] \in ToSet(s) BY <2>3, <3>1 DEF ToSet
      <4> QED BY <4>1, <1>11, <2>1, <2>3, <3>1, <3>3
    <3> QED BY <3>2, <3>3, <2>3
  <2>9. InOrder(r, e) BY <1>0, <1>5, <2>2, <2>3, <2>7, <2>8, LinedUp
  <2>10. r = e BY <2>2, <2>3, <2>6, <2>7, <2>9, Unique
  <2> QED BY <2>10 DEF r, e, s
<1> QED BY <1>3, <1>8, <1>12, <1>13

-----------------------------------------------------------------------------
(* Answers and tokens *)

\* A call that has an answer is over or about to be, and whoever parks or is parked has
\* not been left a token yet.
Unanswered(t) == answer[t] # NoAnswer => pc[t] \in {"unpark", "signal", "return"}
Arriving(t)   == call[t].op = "park" /\ pc[t] \notin {"check", "asleep", "return"}
Fresh(t)      == Queued(t) \/ Arriving(t) => token[t] = NoToken
RInv          == \A t \in Threads : Unanswered(t) /\ Fresh(t)

\* Only Enqueue makes a thread queued.
LEMMA WhoIsQueued ==
  ASSUME IInv, IInv', NEW t \in Threads, Move(t), NEW u, Queued(u)'
  PROVE  Queued(u) \/ (Enqueue(t) /\ u = t)
<1>1. Addresses # {}
  <2>1. QueuesAreWhole' BY DEF IInv
  <2>2. PICK b \in DOMAIN queue' : Contains(queue'[b], u) BY DEF Queued
  <2>3. PICK i \in 1 .. Len(queue'[b]) : queue'[b][i] = u BY <2>2 DEF Contains
  <2> QED BY <2>1, <2>3 DEF QueuesAreWhole
<1>2. PICK a \in Addresses : TRUE BY <1>1
<1>3. CASE Enqueue(t)
  <2>1. PICK c \in Addresses : c = call[t].address
    BY <1>3, LockedIs DEF Enqueue, IInv
  <2> QED BY <1>3, <2>1, EnqueuedParked
<1>4. CASE Dequeue(t)
  <2>1. PICK c \in Addresses : c = call[t].address
    BY <1>4, LockedIs DEF Dequeue, IInv
  <2> QED BY <1>4, <2>1, TakenParked
<1>5. CASE DequeueMyself(t) BY <1>2, <1>5, LeftParked
<1>6. CASE DidDequeue(t) \/ ClearAddress(t) \/ Signal(t) BY <1>2, <1>6, WakingParked
<1> QED BY <1>2, <1>3, <1>4, <1>5, <1>6, CalmParked

\* Nobody else's answer or token changes, but the token of a thread that is dequeued.
LEMMA OthersToo ==
  ASSUME IInv, NEW t \in Threads, Move(t), NEW u \in Threads \ {t}
  PROVE  answer'[u] = answer[u] /\ (~Dequeue(t) => token'[u] = token[u])
<1>0. /\ TypeOK /\ Named /\ Ways /\ QueuesAreWhole
      /\ answer \in [Threads -> Answers] /\ token \in [Threads -> Threads \cup {NoToken}]
  BY DEF IInv, TypeOK
<1>1. CASE Dequeue(t)
  <2>1. \E new : answer' = [answer EXCEPT ![t] = new] BY <1>0, <1>1, DequeueTakes
  <2> QED BY <1>0, <1>1, <2>1
<1>2. CASE Call(t) BY <1>0, <1>2 DEF Call
<1>3. CASE ThreadExits(t) \/ WaitEnds(t) \/ NewThreadData(t) \/ ensureHashtableSize(t) \/ Collect(t)
           \/ LockBucket(t) \/ LockAgain(t) \/ forEach(t) \/ NoRehash(t) \/ Rehash(t)
  BY <1>3 DEF ThreadExits, WaitEnds, NewThreadData, ensureHashtableSize, Collect, LockBucket, LockAgain,
              forEach, NoRehash, Rehash, data
<1>4. CASE FindTable(t) \/ FindBucket(t) \/ LookAgain(t) \/ Enqueue(t) \/ TimesOut(t)
           \/ DequeueMyself(t) \/ ClearAddress(t) \/ Signal(t) \/ UnparkEnds(t)
  BY <1>4 DEF FindTable, FindBucket, LookAgain, Enqueue, TimesOut, DequeueMyself, ClearAddress, Signal,
              UnparkEnds, data
<1>5. CASE NoBucket(t) \/ ValidationFails(t) \/ Check(t) \/ DidDequeue(t) \/ Settle(t) \/ Return(t)
  BY <1>0, <1>5 DEF NoBucket, ValidationFails, Check, DidDequeue, Settle, Return, data, Answer,
                    WasUnparked, NotUnparked
<1> QED BY <1>1, <1>2, <1>3, <1>4, <1>5 DEF Move, Step

\* What a step does to the answer and the token of the thread that makes it.
LEMMA OwnAnswer ==
  ASSUME IInv, RInv, NEW t \in Threads, Move(t)
  PROVE  /\ Unanswered(t)'
         /\ ~Call(t) /\ Arriving(t)' => Arriving(t)
         /\ ~Call(t) /\ ~Dequeue(t) => token'[t] = token[t]
<1>0. /\ TypeOK /\ Named /\ Ways /\ QueuesAreWhole /\ Way(t) /\ Unanswered(t) BY DEF IInv, Ways, RInv
<1>t. /\ pc \in [Threads -> Labels] /\ call \in [Threads -> Requests \cup Leaving \cup {NoCall}]
      /\ answer \in [Threads -> Answers] /\ token \in [Threads -> Threads \cup {NoToken}]
      /\ NoCall.op = "none"
  BY <1>0 DEF TypeOK, NoCall
<1> HIDE DEF NoCall
<1> USE DEF Unanswered, Arriving, Goto, Finish, Answer, WasUnparked, NotUnparked, data, found, lot
<1>1. CASE Call(t)
  <2>1. pc[t] = "idle" /\ pc'[t] \in Labels /\ answer' = answer BY <1>1, <1>t DEF Call, Labels
  <2>2. answer[t] = NoAnswer BY <1>0, <2>1
  <2> QED BY <1>1, <2>1, <2>2 DEF Dequeue
<1>2. CASE Dequeue(t)
  <2>1. pc'[t] = "unpark" /\ call' = call /\ call[t].op \in Unparks BY <1>2, <1>t DEF Dequeue, Unparks
  <2> QED BY <1>2, <2>1 DEF Unparks
<1>3. CASE Signal(t)
  <2>1. call' = call /\ answer' = answer /\ token' = token BY <1>3 DEF Signal
  <2>2. pc[t] = "signal" /\ pc'[t] = "unpark" /\ call[t].op \in Unparks BY <1>3, Wakes
  <2> QED BY <1>3, <2>1, <2>2 DEF Unparks
<1>4. CASE ThreadExits(t) BY <1>0, <1>t, <1>4 DEF ThreadExits
<1>5. CASE WaitEnds(t) BY <1>0, <1>t, <1>5 DEF WaitEnds, Way
<1>6. CASE NewThreadData(t) \/ ensureHashtableSize(t) \/ Collect(t)
  BY <1>0, <1>t, <1>6 DEF NewThreadData, ensureHashtableSize, Collect, Way
<1>7. CASE LockBucket(t) \/ LockAgain(t) \/ forEach(t) \/ NoRehash(t) \/ Rehash(t)
  BY <1>0, <1>t, <1>7 DEF LockBucket, LockAgain, forEach, NoRehash, Rehash, AllLocked
<1>8. CASE FindTable(t) \/ FindBucket(t) \/ LookAgain(t)
  BY <1>0, <1>t, <1>8 DEF FindTable, FindBucket, LookAgain, Locks
<1>9. CASE NoBucket(t) BY <1>0, <1>t, <1>9 DEF NoBucket, IgnoreEmpty
<1>10. CASE Enqueue(t) \/ ValidationFails(t) BY <1>0, <1>t, <1>10 DEF Enqueue, ValidationFails, Locks
<1>11. CASE Check(t) BY <1>0, <1>t, <1>11 DEF Check
<1>12. CASE TimesOut(t)
  <2>1. call'[t].op = "leave" /\ answer' = answer /\ token' = token /\ pc[t] = "check"
    BY <1>t, <1>12, <1>0, CallIs DEF TimesOut, Way
  <2> QED BY <1>0, <2>1
<1>13. CASE DequeueMyself(t) \/ DidDequeue(t) BY <1>0, <1>t, <1>13 DEF DequeueMyself, DidDequeue, Locks
<1>14. CASE Settle(t) BY <1>0, <1>t, <1>14 DEF Settle, Way
<1>15. CASE ClearAddress(t) \/ UnparkEnds(t) BY <1>0, <1>t, <1>15 DEF ClearAddress, UnparkEnds, Way
<1>16. CASE Return(t) BY <1>0, <1>t, <1>16 DEF Return
<1> QED BY <1>1, <1>2, <1>3, <1>4, <1>5, <1>6, <1>7, <1>8, <1>9, <1>10, <1>11, <1>12, <1>13, <1>14, <1>15, <1>16
        DEF Move, Step

\* Initially nobody has an answer or a token.
LEMMA InitAnswers == Init => RInv
BY DEF Init, RInv, Unanswered, Fresh

\* Nobody is left a token before it has been dequeued.
LEMMA AnswersKeep ==
  ASSUME IInv, IInv', RInv, NEW t \in Threads, Move(t)
  PROVE  RInv'
<1>0. /\ TypeOK /\ Named /\ Ways /\ QueuesAreWhole
      /\ token \in [Threads -> Threads \cup {NoToken}] /\ pc \in [Threads -> Labels]
      /\ call \in [Threads -> Requests \cup Leaving \cup {NoCall}]
  BY DEF IInv, TypeOK
<1>1. ASSUME NEW u \in Threads \ {t} PROVE Unanswered(u)' /\ (Arriving(u)' => Arriving(u))
  <2>1. answer'[u] = answer[u] BY OthersToo
  <2>2. Unanswered(u) BY DEF RInv
  <2>3. CASE Signal(t)
    <3>1. call' = call BY <2>3 DEF Signal
    <3>2. \/ pc'[u] = pc[u]
          \/ pc[u] = "asleep" /\ pc'[u] = (IF call[u].op = "leave" THEN "settle" ELSE "check")
      BY <2>3, Wakes
    <3> QED BY <2>1, <2>2, <3>1, <3>2 DEF Unanswered, Arriving
  <2>4. CASE ~Signal(t)
    <3>1. pc'[u] = pc[u] /\ call'[u] = call[u] BY <2>4, OthersKeep DEF Untouched
    <3> QED BY <2>1, <2>2, <3>1 DEF Unanswered, Arriving
  <2> QED BY <2>3, <2>4
<1>2. ASSUME NEW u \in Threads PROVE Fresh(u)'
  <2>1. Queued(u)' => Queued(u) \/ (Enqueue(t) /\ u = t) BY WhoIsQueued
  <2>2. Fresh(u) BY DEF RInv
  <2>3. CASE Call(t) /\ u = t
    <3>1. pc[t] = "idle" /\ ~Queued(t)
      <4>1. pc[t] = "idle" /\ call[t].op = "none" BY <1>0, <2>3 DEF Call, Ways, Way
      <4> QED BY <1>0, <4>1 DEF QueuesAreWhole, Parking
    <3>2. ~Enqueue(t) BY <3>1 DEF Enqueue, Locks
    <3>3. call'[t].op = "park" => token'[t] = NoToken
      <4>1. PICK request \in Head(calls[t]) :
              /\ call' = [call EXCEPT ![t] = request]
              /\ token' = [token EXCEPT ![t] = IF request.op = "park" THEN NoToken ELSE @]
        BY <2>3 DEF Call
      <4> QED BY <1>0, <4>1
    <3> QED BY <2>1, <2>3, <3>1, <3>2, <3>3 DEF Fresh, Arriving
  <2>4. CASE Enqueue(t) /\ u = t
    <3>1. pc[t] = "lock" /\ call[t].op = "park" /\ token' = token BY <2>4 DEF Enqueue, Locks
    <3>2. token'[t] = NoToken BY <2>2, <2>4, <3>1 DEF Fresh, Arriving
    <3> QED BY <2>4, <3>2 DEF Fresh
  <2>5. CASE Dequeue(t)
    <3> DEFINE taken == threadDatas'[t]
    <3>0. PICK c \in Addresses : c = call[t].address BY <1>0, <2>5, LockedIs DEF Dequeue
    <3>1. /\ \A v : Queued(v)' <=> Queued(v) /\ v \notin ToSet(taken)
          /\ \A v \in ToSet(taken) : Queued(v) /\ v \in Threads
          /\ taken \in Seq(Threads)
      <4>1. TypeOK' BY DEF IInv
      <4> QED BY <2>5, <3>0, <4>1, TakenParked DEF TypeOK
    <3>2. token' = IF call[t].op = "unparkOne" /\ taken # <<>>
                   THEN [token EXCEPT ![taken[1]] = call[t].token] ELSE token
      BY <1>0, <2>5, DequeueTakes
    <3> HIDE DEF taken
    <3>3. u \notin ToSet(taken) => token'[u] = token[u]
      <4>1. taken # <<>> => taken[1] \in ToSet(taken) BY <3>1 DEF ToSet
      <4> QED BY <1>0, <3>2, <4>1
    <3>4. u \in ToSet(taken) => ~Queued(u)' /\ ~Arriving(u)'
      <4> SUFFICES ASSUME u \in ToSet(taken) PROVE ~Queued(u)' /\ ~Arriving(u)' OBVIOUS
      <4>1. ~Queued(u)' /\ Queued(u) BY <3>1
      <4>2. Parking(u) /\ Way(u) BY <1>0, <4>1 DEF QueuesAreWhole, Ways
      <4>3. u # t
        <5>1. pc[t] = "lock" /\ call[t].op \in Unparks BY <1>0, <2>5, LockedIs DEF Dequeue, Unparks
        <5> QED BY <4>2, <5>1 DEF Parking, Unparks
      <4>4. ~Arriving(u) BY <4>2 DEF Arriving, Parking, Way
      <4> QED BY <4>1, <4>3, <4>4, <1>1
    <3>5. Arriving(u)' => Arriving(u)
      <4>1. ~Call(t) BY <2>5 DEF Dequeue, Locks, Call
      <4> QED BY <4>1, <1>1, OwnAnswer
    <3>6. ~Enqueue(t) BY <2>5 DEF Dequeue, Enqueue
    <3> QED BY <2>1, <2>2, <3>3, <3>4, <3>5, <3>6 DEF Fresh
  <2>6. CASE ~Dequeue(t) /\ ~(Call(t) /\ u = t) /\ ~(Enqueue(t) /\ u = t)
    <3>1. token'[u] = token[u] /\ (Arriving(u)' => Arriving(u))
      BY <1>1, <2>6, OthersToo, OwnAnswer
    <3> QED BY <2>1, <2>2, <2>6, <3>1 DEF Fresh
  <2> QED BY <2>3, <2>4, <2>5, <2>6
<1> QED BY <1>1, <1>2, OwnAnswer DEF RInv

-----------------------------------------------------------------------------
(* What the abstract lot sees *)

\* Whom the abstract unparker wants, and the token that the abstract thread has.
Want(t)  == IF Unparking(t) THEN <<call[t].address, call[t].count>> ELSE <<>>
Token(t) == IF Queued(t) \/ Parking(t) THEN token[t] ELSE NoToken
\* What the refinement mapping of ParkingLot gives the abstract variables.
Queues == [a \in Addresses |-> ParkedOn(a)]
States == [t \in Threads |-> State(t)]
Wants  == [t \in Threads |-> Want(t)]
Tokens == [t \in Threads |-> Token(t)]

\* It sees no difference in the thread.
Same(t) == State(t)' = State(t) /\ Want(t)' = Want(t) /\ Token(t)' = Token(t) /\ answer'[t] = answer[t]
\* So it is if the thread is as far in its call as it was.
Alike(t) ==
  /\ Parking(t)' <=> Parking(t)
  /\ Unparking(t)' <=> Unparking(t)
  /\ Unparking(t) => call'[t].address = call[t].address /\ call'[t].count = call[t].count
  /\ pc'[t] = "didDequeue" <=> pc[t] = "didDequeue"
  /\ answer'[t] = answer[t] /\ token'[t] = token[t]

\* What is said of all threads is said of the functions.
LEMMA Seen ==
  /\ (\A a \in Addresses : ParkedOn(a)' = ParkedOn(a)) => Queues' = Queues
  /\ (\A t \in Threads : Same(t)) => States' = States /\ Wants' = Wants /\ Tokens' = Tokens
  /\ \A t \in Threads : (\A u \in Threads \ {t} : Same(u)) =>
       /\ States' = [States EXCEPT ![t] = State(t)']
       /\ Wants' = [Wants EXCEPT ![t] = Want(t)']
       /\ Tokens' = [Tokens EXCEPT ![t] = Token(t)']
  /\ \A c \in Addresses : (\A a \in Addresses \ {c} : ParkedOn(a)' = ParkedOn(a)) =>
       Queues' = [Queues EXCEPT ![c] = ParkedOn(c)']
BY DEF Queues, States, Wants, Tokens, Same

\* A thread that is alike and stays queued, or stays out of the queues, looks the same.
LEMMA AlikeIsSame ==
  ASSUME NEW t, Alike(t), Queued(t)' <=> Queued(t)
  PROVE  Same(t)
BY DEF Alike, Same, State, Want, Token

\* A thread that only another one's step could change is alike.
LEMMA OthersAlike ==
  ASSUME IInv, NEW t \in Threads, Move(t), ~Dequeue(t), NEW u \in Threads \ {t}
  PROVE  Alike(u)
<1>1. answer'[u] = answer[u] /\ token'[u] = token[u] BY OthersToo
<1>2. CASE ~Signal(t)
  <2>1. pc'[u] = pc[u] /\ call'[u] = call[u] BY <1>2, OthersKeep DEF Untouched
  <2> QED BY <1>1, <2>1 DEF Alike, Parking, Unparking
<1>3. CASE Signal(t)
  <2>1. call' = call BY <1>3 DEF Signal
  <2>2. \/ pc'[u] = pc[u]
        \/ pc[u] = "asleep" /\ pc'[u] = (IF call[u].op = "leave" THEN "settle" ELSE "check")
    BY <1>3, Wakes
  <2> QED BY <1>1, <2>1, <2>2 DEF Alike, Parking, Unparking
<1> QED BY <1>2, <1>3

\* The steps that the thread takes within one stage of its call.
Inside(t) ==
  \/ ThreadExits(t) \/ WaitEnds(t) \/ NewThreadData(t) \/ ensureHashtableSize(t) \/ Collect(t)
  \/ LockBucket(t) \/ LockAgain(t) \/ forEach(t) \/ NoRehash(t) \/ Rehash(t)
  \/ FindTable(t) \/ FindBucket(t) \/ LookAgain(t) \/ TimesOut(t)
  \/ ClearAddress(t) \/ Signal(t) \/ UnparkEnds(t)
  \/ NoBucket(t) /\ call[t].op = "leave"
  \/ (Check(t) \/ Settle(t)) /\ address[t] # NoAddress
  \/ Return(t) /\ answer[t] = NoAnswer
  \/ DequeueMyself(t) /\ ~Queued(t)

\* After them the thread is alike.
LEMMA InsideAlike ==
  ASSUME IInv, IInv', NEW t \in Threads, Inside(t)
  PROVE  Alike(t)
<1>0. /\ TypeOK /\ Named /\ Ways /\ QueuesAreWhole /\ Way(t) BY DEF IInv, Ways
<1>t. /\ pc \in [Threads -> Labels] /\ call \in [Threads -> Requests \cup Leaving \cup {NoCall}]
      /\ answer \in [Threads -> Answers] /\ token \in [Threads -> Threads \cup {NoToken}]
      /\ number \in [Threads -> Nat] /\ NoCall.op = "none"
  BY <1>0 DEF TypeOK, NoCall
<1>w. /\ pc[t] = "idle" <=> call[t].op = "none"
      /\ pc[t] \in {"newThread", "size", "check"} => call[t].op = "park"
      /\ pc[t] \in {"collect", "lockAll"} => call[t].op \in {"park", "forEach"}
      /\ pc[t] \in {"table", "bucket", "lock"} => call[t].op \in {"park", "leave"} \cup Unparks
      /\ pc[t] = "asleep" => call[t].op \in {"park", "leave"}
      /\ pc[t] \in {"settle", "didDequeue"} => call[t].op = "leave"
      /\ pc[t] \in {"unpark", "signal"} => call[t].op \in Unparks
  BY <1>0 DEF Way
<1> HIDE DEF NoCall
<1> USE DEF Alike, Parking, Unparking, Unparks, Goto, Finish, Answer, data, found, lot
<1>1. CASE Signal(t)
  <2>1. call' = call /\ answer' = answer /\ token' = token BY <1>1 DEF Signal
  <2>2. pc[t] = "signal" /\ pc'[t] = "unpark" /\ call[t].op \in Unparks BY <1>1, Wakes
  <2> QED BY <2>1, <2>2
<1>2. CASE DequeueMyself(t) /\ ~Queued(t)
  <2>1. \E a \in Addresses : TRUE BY <1>0, <1>2, LockedIs DEF DequeueMyself
  <2>2. pc' = [pc EXCEPT ![t] = IF Queued(t) THEN "didDequeue" ELSE "settle"] BY <1>2, <2>1, LeftParked
  <2>3. pc[t] = "lock" /\ call[t].op = "leave" /\ UNCHANGED <<call, answer, token>>
    BY <1>2 DEF DequeueMyself, Locks
  <2>4. pc'[t] = "settle" BY <1>t, <1>2, <2>2
  <2> QED BY <2>3, <2>4
<1>3. CASE TimesOut(t)
  <2>1. call[t].op = "park" /\ pc[t] = "check" /\ pc'[t] = "table" /\ UNCHANGED <<answer, token>>
    BY <1>t, <1>w, <1>3 DEF TimesOut
  <2>2. call'[t].op = "leave"
    <3>1. call[t] \in Requests \cup Leaving \cup {NoCall} /\ call'[t] = [call[t] EXCEPT !.op = "leave"]
      BY <1>t, <1>3 DEF TimesOut
    <3> QED BY <2>1, <3>1, CallIs
  <2> QED BY <2>1, <2>2
<1>4. CASE ThreadExits(t) BY <1>4 DEF ThreadExits
<1>5. CASE WaitEnds(t) BY <1>t, <1>w, <1>5 DEF WaitEnds
<1>6. CASE NewThreadData(t) \/ ensureHashtableSize(t) \/ Collect(t)
  BY <1>t, <1>w, <1>6 DEF NewThreadData, ensureHashtableSize, Collect
<1>7. CASE LockBucket(t) \/ LockAgain(t) \/ forEach(t) \/ NoRehash(t) \/ Rehash(t)
  BY <1>t, <1>w, <1>7 DEF LockBucket, LockAgain, forEach, NoRehash, Rehash, AllLocked
<1>8. CASE FindTable(t) \/ FindBucket(t) \/ LookAgain(t)
  BY <1>t, <1>w, <1>8 DEF FindTable, FindBucket, LookAgain, Locks
<1>9. CASE NoBucket(t) /\ call[t].op = "leave" BY <1>t, <1>9 DEF NoBucket
<1>10. CASE (Check(t) \/ Settle(t)) /\ address[t] # NoAddress BY <1>t, <1>w, <1>10 DEF Check, Settle
<1>11. CASE ClearAddress(t) \/ UnparkEnds(t) BY <1>t, <1>w, <1>11 DEF ClearAddress, UnparkEnds
<1>12. CASE Return(t) /\ answer[t] = NoAnswer BY <1>t, <1>w, <1>12 DEF Return
<1> QED BY <1>1, <1>2, <1>3, <1>4, <1>5, <1>6, <1>7, <1>8, <1>9, <1>10, <1>11, <1>12 DEF Inside

-----------------------------------------------------------------------------
(* The steps of the abstract lot *)

\* But for three steps, what is parked on each address stays.
LEMMA QueuesUnseen ==
  ASSUME IInv, IInv', NEW t \in Threads, Move(t), ~Enqueue(t), ~Dequeue(t), ~(DequeueMyself(t) /\ Queued(t))
  PROVE  Queues' = Queues /\ \A u : Queued(u)' <=> Queued(u)
<1>1. ASSUME NEW a \in Addresses PROVE ParkedOn(a)' = ParkedOn(a) /\ \A u : Queued(u)' <=> Queued(u)
  <2>1. CASE DequeueMyself(t)
    <3>1. /\ \A u : Queued(u)' <=> Queued(u) /\ u # t
          /\ ~Queued(t) \/ address[t] # a => ParkedOn(a)' = ParkedOn(a)
      BY <2>1, LeftParked
    <3> QED BY <2>1, <3>1
  <2>2. CASE DidDequeue(t) \/ ClearAddress(t) \/ Signal(t) BY <2>2, WakingParked
  <2> QED BY <2>1, <2>2, CalmParked
<1>2. CASE Addresses = {}
  <2>1. QueuesAreWhole /\ QueuesAreWhole' BY DEF IInv
  <2>2. \A u : ~Queued(u) BY <1>2, <2>1 DEF QueuesAreWhole, Queued, Contains
  <2>3. \A u : ~Queued(u)' BY <1>2, <2>1 DEF QueuesAreWhole, Queued, Contains
  <2> QED BY <1>1, <2>2, <2>3, Seen
<1> QED BY <1>1, <1>2, Seen

\* A thread that takes another step is the only one that looks different.
LEMMA OneIsSeen ==
  ASSUME IInv, IInv', NEW t \in Threads, Move(t), ~Enqueue(t), ~Dequeue(t), ~(DequeueMyself(t) /\ Queued(t))
  PROVE  /\ Queues' = Queues
         /\ States' = [States EXCEPT ![t] = State(t)']
         /\ Wants' = [Wants EXCEPT ![t] = Want(t)']
         /\ Tokens' = [Tokens EXCEPT ![t] = Token(t)']
<1>1. Queues' = Queues /\ \A u : Queued(u)' <=> Queued(u) BY QueuesUnseen
<1>2. \A u \in Threads \ {t} : Same(u) BY <1>1, OthersAlike, AlikeIsSame
<1> QED BY <1>1, <1>2, Seen

\* The steps within a stage of a call are not seen.
LEMMA InsideUnseen ==
  ASSUME IInv, IInv', NEW t \in Threads, Inside(t)
  PROVE  Queues' = Queues /\ States' = States /\ Wants' = Wants /\ Tokens' = Tokens /\ answer' = answer
<1>1. Move(t) /\ ~Enqueue(t) /\ ~Dequeue(t) /\ ~(DequeueMyself(t) /\ Queued(t))
  <2>1. Move(t) BY DEF Inside, Move, Step
  <2>2. CASE pc[t] # "lock" \/ ~Current(t)
    BY <2>1, <2>2 DEF Enqueue, Dequeue, DequeueMyself, Locks
  <2>3. CASE DequeueMyself(t) /\ ~Queued(t)
    BY <2>1, <2>3 DEF Enqueue, Dequeue, DequeueMyself
  <2>4. ASSUME pc[t] = "lock", Current(t), ~(DequeueMyself(t) /\ ~Queued(t)) PROVE FALSE
    BY <2>4 DEF Inside, ThreadExits, WaitEnds, NewThreadData, ensureHashtableSize, Collect, LockBucket,
                LockAgain, forEach, NoRehash, Rehash, AllLocked, FindTable, FindBucket, LookAgain, TimesOut,
                ClearAddress, Signal, UnparkEnds, NoBucket, Check, Settle, Return
  <2> QED BY <2>2, <2>3, <2>4
<1>2. Queues' = Queues /\ \A u : Queued(u)' <=> Queued(u) BY <1>1, QueuesUnseen
<1>3. \A u \in Threads : Alike(u) BY <1>1, InsideAlike, OthersAlike
<1>4. \A u \in Threads : Same(u) BY <1>2, <1>3, AlikeIsSame
<1>5. answer' = answer
  <2>1. answer \in [Threads -> Answers] /\ answer' \in [Threads -> Answers] BY DEF IInv, TypeOK
  <2> QED BY <2>1, <1>4 DEF Same
<1> QED BY <1>2, <1>4, <1>5, Seen

\* Call: an unparker comes with the address and the number of threads it wants.
LEMMA CallSeen ==
  ASSUME IInv, IInv', RInv, NEW t \in Threads, Call(t)
  PROVE  Abstract!BeginUnpark(t) \/ (UNCHANGED <<Queues, States, Wants, Tokens, answer>>)
<1>0. /\ TypeOK /\ Named /\ Ways /\ QueuesAreWhole /\ Way(t) /\ Unanswered(t) /\ TypeOK'
  BY DEF IInv, Ways, RInv
<1>t. /\ pc \in [Threads -> Labels] /\ call \in [Threads -> Requests \cup Leaving \cup {NoCall}]
      /\ calls[t] \in Seq(SUBSET Requests) /\ token \in [Threads -> Threads \cup {NoToken}]
  BY <1>0 DEF TypeOK
<1>1. PICK request \in Head(calls[t]) :
        /\ call' = [call EXCEPT ![t] = request]
        /\ pc' = [pc EXCEPT ![t] = IF request.op = "forEach" THEN "collect"
                   ELSE IF request.op = "park" /\ number[t] = 0 THEN "newThread" ELSE "table"]
  BY DEF Call, Goto
<1>2. pc[t] = "idle" /\ calls[t] # <<>> /\ answer' = answer BY DEF Call
<1>3. request \in Requests
  <2>1. Head(calls[t]) \in SUBSET Requests BY <1>t, <1>2
  <2> QED BY <2>1
<1>4. call[t].op = "none" /\ answer[t] = NoAnswer BY <1>0, <1>2 DEF Way, Unanswered
<1>5. /\ request.op \in {"park", "forEach"} \cup Unparks
      /\ request.op \in Unparks => request.address \in Addresses /\ request.count \in Nat \ {0}
  BY <1>3 DEF Requests, ParkCalls, UnparkCalls, ForEach, Unparks
<1>6. /\ call'[t] = request
      /\ pc'[t] = IF request.op = "forEach" THEN "collect"
                  ELSE IF request.op = "park" /\ number[t] = 0 THEN "newThread" ELSE "table"
  BY <1>t, <1>1
<1>7. ~Parking(t) /\ ~Queued(t) /\ ~Unparking(t) /\ ~Parking(t)'
  BY <1>0, <1>2, <1>4, <1>5, <1>6 DEF Parking, Unparking, QueuesAreWhole, Unparks
<1>8. ~Enqueue(t) /\ ~Dequeue(t) /\ ~DequeueMyself(t)
  BY <1>2 DEF Enqueue, Dequeue, DequeueMyself, Locks
<1>9. Move(t) BY DEF Move
<1>10. ~Queued(t)' BY <1>7, <1>8, <1>9, QueuesUnseen
<1>11. /\ Queues' = Queues
       /\ States' = [States EXCEPT ![t] = State(t)']
       /\ Wants' = [Wants EXCEPT ![t] = Want(t)']
       /\ Tokens' = [Tokens EXCEPT ![t] = Token(t)']
  BY <1>8, <1>9, OneIsSeen
<1>12. /\ State(t) = "running" /\ Token(t) = NoToken /\ Token(t)' = NoToken /\ Want(t) = <<>>
       /\ State(t)' = IF Unparking(t)' THEN "unparking" ELSE "running"
       /\ answer'[t] = NoAnswer
  BY <1>2, <1>4, <1>7, <1>10 DEF State, Token, Want
<1>13. States[t] = State(t) /\ Tokens[t] = Token(t) /\ Wants[t] = Want(t) BY DEF States, Tokens, Wants
<1>14. Tokens' = Tokens
  <2>1. Tokens = [Tokens EXCEPT ![t] = Tokens[t]] BY DEF Tokens
  <2> QED BY <2>1, <1>11, <1>12, <1>13
<1>15. CASE Unparking(t)'
  <2>1. State(t)' = "unparking" BY <1>12, <1>15
  <2>2. Want(t)' = <<request.address, request.count>> BY <1>6, <1>15 DEF Want
  <2>3. request.op \in Unparks BY <1>6, <1>15 DEF Unparking, Unparks
  <2>4. Want(t)' \in Addresses \X (Nat \ {0}) BY <2>2, <2>3, <1>5
  <2>5. Wants'[t] = Want(t)' BY DEF Wants
  <2>6. /\ States[t] = "running" /\ States' = [States EXCEPT ![t] = "unparking"]
        /\ Wants' = [Wants EXCEPT ![t] = Wants'[t]] /\ Wants'[t] \in Addresses \X (Nat \ {0})
        /\ UNCHANGED <<Queues, Tokens, answer>>
    BY <2>1, <2>4, <2>5, <1>2, <1>11, <1>12, <1>13, <1>14
  <2> QED BY <2>6 DEF Abstract!BeginUnpark, Queues, States, Wants, Tokens, Want, Token
<1>16. CASE ~Unparking(t)'
  <2>1. State(t)' = State(t) /\ Want(t)' = Want(t) BY <1>12, <1>16 DEF Want
  <2>2. States = [States EXCEPT ![t] = States[t]] /\ Wants = [Wants EXCEPT ![t] = Wants[t]]
    BY DEF States, Wants
  <2> QED BY <2>1, <2>2, <1>2, <1>11, <1>13, <1>14
<1> QED BY <1>15, <1>16

\* What an answer is, it is not that there is none.
LEMMA IsAnswer ==
  /\ \A was \in BOOLEAN : \A left \in {NoToken} \cup Threads : [wasUnparked |-> was, token |-> left] # NoAnswer
  /\ \A n \in Nat : \A more \in BOOLEAN : [unparked |-> n, mayHaveMoreThreads |-> more] # NoAnswer
BY ParkingLotConstants DEF ParkAnswers, UnparkAnswers

\* ValidationFails: the call is refused.
LEMMA RefusalSeen ==
  ASSUME IInv, IInv', RInv, NEW t \in Threads, ValidationFails(t)
  PROVE  Abstract!Refuse(t)
<1>0. /\ TypeOK /\ Named /\ Ways /\ QueuesAreWhole /\ Unanswered(t)
      /\ pc \in [Threads -> Labels] /\ answer \in [Threads -> Answers]
  BY DEF IInv, TypeOK, RInv
<1>1. /\ pc[t] = "lock" /\ call[t].op = "park" /\ call' = call /\ pc'[t] = "return"
      /\ answer' = [answer EXCEPT ![t] = [wasUnparked |-> FALSE, token |-> NoToken]]
  BY <1>0 DEF ValidationFails, Locks, NotUnparked, Answer, Finish, Goto
<1>2. Move(t) /\ ~Enqueue(t) /\ ~Dequeue(t) /\ ~DequeueMyself(t)
  <2>1. Move(t) BY DEF Move, Step
  <2>2. ~Enqueue(t) BY <1>0, <1>1 DEF Enqueue, Goto
  <2> QED BY <2>1, <2>2, <1>1 DEF Dequeue, DequeueMyself
<1>3. answer[t] = NoAnswer /\ answer'[t] # NoAnswer
  <2>1. answer'[t] = [wasUnparked |-> FALSE, token |-> NoToken] BY <1>0, <1>1
  <2> QED BY <2>1, <1>0, <1>1, IsAnswer DEF Unanswered
<1>4. ~Parking(t) /\ ~Parking(t)' /\ ~Unparking(t) /\ ~Unparking(t)' /\ ~Queued(t)
  BY <1>0, <1>1 DEF Parking, Unparking, QueuesAreWhole
<1>5. ~Queued(t)' BY <1>2, <1>4, QueuesUnseen
<1>6. /\ Queues' = Queues
      /\ States' = [States EXCEPT ![t] = State(t)']
      /\ Wants' = [Wants EXCEPT ![t] = Want(t)']
      /\ Tokens' = [Tokens EXCEPT ![t] = Token(t)']
  BY <1>2, OneIsSeen
<1>7. /\ State(t) = "running" /\ State(t)' = "answered" /\ Token(t) = NoToken /\ Token(t)' = NoToken
      /\ Want(t) = <<>> /\ Want(t)' = <<>>
  BY <1>3, <1>4, <1>5 DEF State, Token, Want
<1>8. /\ States[t] = "running" /\ States' = [States EXCEPT ![t] = "answered"]
      /\ Wants' = Wants /\ Tokens' = Tokens
  <2>1. /\ States[t] = State(t) /\ Wants = [Wants EXCEPT ![t] = Want(t)]
        /\ Tokens = [Tokens EXCEPT ![t] = Token(t)]
    BY DEF States, Wants, Tokens
  <2> QED BY <2>1, <1>6, <1>7
<1> QED BY <1>1, <1>6, <1>8 DEF Abstract!Refuse, Abstract!Answer, Queues, States, Wants, Tokens, Want, Token

\* A parked thread comes back and is told why.
LEMMA AnswerSeen ==
  ASSUME IInv, IInv', NEW t \in Threads,
         DidDequeue(t) \/ ((Check(t) \/ Settle(t)) /\ address[t] = NoAddress)
  PROVE  Abstract!Answered(t)
<1>0. /\ TypeOK /\ Named /\ Ways /\ QueuesAreWhole /\ Left /\ Way(t)
      /\ pc \in [Threads -> Labels] /\ answer \in [Threads -> Answers]
      /\ token \in [Threads -> Threads \cup {NoToken}]
  BY DEF IInv, TypeOK, Ways
<1> DEFINE was == pc[t] # "didDequeue"
           result == [wasUnparked |-> was, token |-> IF was THEN token[t] ELSE NoToken]
<1>1. /\ pc[t] \in {"check", "settle", "didDequeue"} /\ call' = call /\ pc'[t] = "return"
      /\ answer' = [answer EXCEPT ![t] = result]
  <2>1. CASE DidDequeue(t) BY <1>0, <2>1 DEF DidDequeue, NotUnparked, Answer, Finish, Goto
  <2>2. CASE Check(t) /\ address[t] = NoAddress BY <1>0, <2>2 DEF Check, WasUnparked, Answer, Finish, Goto
  <2>3. CASE Settle(t) /\ address[t] = NoAddress BY <1>0, <2>3 DEF Settle, WasUnparked, Answer, Finish, Goto
  <2> QED BY <2>1, <2>2, <2>3
<1>2. Move(t) /\ ~Enqueue(t) /\ ~Dequeue(t) /\ ~DequeueMyself(t)
  BY <1>1 DEF Move, Step, Enqueue, Dequeue, DequeueMyself, Locks
<1>3. answer'[t] = result /\ result # NoAnswer
  <2>1. answer'[t] = result BY <1>0, <1>1
  <2> QED BY <2>1, <1>0, IsAnswer
<1>4. ~Queued(t)
  <2>1. CASE DidDequeue(t) BY <2>1, <1>0 DEF DidDequeue, Left
  <2>2. CASE address[t] = NoAddress
    <3> SUFFICES ASSUME Queued(t) PROVE FALSE OBVIOUS
    <3>1. PICK b \in DOMAIN queue : \E i \in DOMAIN queue[b] : queue[b][i] = t BY <1>0, IsQueued
    <3>2. address[t] \in Addresses BY <1>0, <3>1, InQueue
    <3> QED BY <2>2, <3>2, ParkingLotConstants
  <2> QED BY <2>1, <2>2
<1>5. Parking(t) /\ ~Parking(t)' /\ ~Unparking(t) /\ ~Unparking(t)'
  <2>1. call[t].op \in {"park", "leave"} BY <1>0, <1>1 DEF Way
  <2> QED BY <2>1, <1>1 DEF Parking, Unparking
<1>6. ~Queued(t)' BY <1>2, <1>4, QueuesUnseen
<1>7. /\ Queues' = Queues
      /\ States' = [States EXCEPT ![t] = State(t)']
      /\ Wants' = [Wants EXCEPT ![t] = Want(t)']
      /\ Tokens' = [Tokens EXCEPT ![t] = Token(t)']
  BY <1>2, OneIsSeen
<1> HIDE DEF result
<1>8. /\ State(t) = (IF was THEN "unparked" ELSE "expired") /\ State(t)' = "answered"
      /\ Token(t) = token[t] /\ Token(t)' = NoToken /\ Want(t) = <<>> /\ Want(t)' = <<>>
  BY <1>3, <1>4, <1>5, <1>6 DEF State, Token, Want
<1>9. /\ States[t] \in {"unparked", "expired"} /\ (States[t] = "unparked" <=> was)
      /\ Tokens[t] = token[t]
      /\ States' = [States EXCEPT ![t] = "answered"] /\ Tokens' = [Tokens EXCEPT ![t] = NoToken]
      /\ Wants' = Wants
  <2>1. States[t] = State(t) /\ Wants = [Wants EXCEPT ![t] = Want(t)] /\ Tokens[t] = Token(t)
    BY DEF States, Wants, Tokens
  <2> QED BY <2>1, <1>7, <1>8
<1>10. result = [wasUnparked |-> States[t] = "unparked",
                 token |-> IF States[t] = "unparked" THEN Tokens[t] ELSE NoToken]
  <2>1. (States[t] = "unparked") = was BY <1>9
  <2> QED BY <2>1, <1>9 DEF result
<1>11. answer' = [answer EXCEPT ![t] = [wasUnparked |-> States[t] = "unparked",
                    token |-> IF States[t] = "unparked" THEN Tokens[t] ELSE NoToken]]
  BY <1>1, <1>10
<1> HIDE DEF was
<1> QED BY <1>7, <1>9, <1>11 DEF Abstract!Answered, Abstract!Answer, Queues, States, Wants, Tokens, Want, Token

\* Return: the thread runs again.
LEMMA ReturnSeen ==
  ASSUME IInv, IInv', NEW t \in Threads, Return(t), answer[t] # NoAnswer
  PROVE  Abstract!Return(t)
<1>0. /\ TypeOK /\ QueuesAreWhole /\ pc \in [Threads -> Labels] /\ answer \in [Threads -> Answers]
      /\ call \in [Threads -> Requests \cup Leaving \cup {NoCall}] /\ NoCall.op = "none"
  BY DEF IInv, TypeOK, NoCall
<1>1. /\ pc[t] = "return" /\ call'[t] = NoCall /\ pc'[t] = "idle" /\ answer' = [answer EXCEPT ![t] = NoAnswer]
  BY <1>0 DEF Return, Goto, Answer
<1>2. Move(t) /\ ~Enqueue(t) /\ ~Dequeue(t) /\ ~DequeueMyself(t)
  BY <1>1 DEF Move, Step, Enqueue, Dequeue, DequeueMyself, Locks
<1>3. answer'[t] = NoAnswer BY <1>0, <1>1
<1>4. ~Parking(t) /\ ~Parking(t)' /\ ~Unparking(t) /\ ~Unparking(t)' /\ ~Queued(t)
  BY <1>0, <1>1 DEF Parking, Unparking, QueuesAreWhole
<1>5. ~Queued(t)' BY <1>2, <1>4, QueuesUnseen
<1>6. /\ Queues' = Queues
      /\ States' = [States EXCEPT ![t] = State(t)']
      /\ Wants' = [Wants EXCEPT ![t] = Want(t)']
      /\ Tokens' = [Tokens EXCEPT ![t] = Token(t)']
  BY <1>2, OneIsSeen
<1>7. /\ State(t) = "answered" /\ State(t)' = "running" /\ Token(t) = NoToken /\ Token(t)' = NoToken
      /\ Want(t) = <<>> /\ Want(t)' = <<>>
  BY <1>3, <1>4, <1>5 DEF State, Token, Want
<1>8. /\ States[t] = "answered" /\ States' = [States EXCEPT ![t] = "running"]
      /\ Wants' = Wants /\ Tokens' = Tokens
  <2>1. /\ States[t] = State(t) /\ Wants = [Wants EXCEPT ![t] = Want(t)]
        /\ Tokens = [Tokens EXCEPT ![t] = Token(t)]
    BY DEF States, Wants, Tokens
  <2> QED BY <2>1, <1>6, <1>7
<1> QED BY <1>1, <1>6, <1>8 DEF Abstract!Return, Abstract!Answer, Queues, States, Wants, Tokens, Want, Token

\* Enqueue: the thread is parked.
LEMMA ParkSeen ==
  ASSUME IInv, IInv', RInv, NEW t \in Threads, Enqueue(t)
  PROVE  Abstract!Park(t)
<1>0. /\ TypeOK /\ Named /\ Ways /\ Unanswered(t) /\ Fresh(t)
      /\ pc \in [Threads -> Labels]
  BY DEF IInv, TypeOK, RInv
<1>1. PICK c \in Addresses : c = call[t].address BY <1>0, LockedIs DEF Enqueue
<1>2. /\ pc[t] = "lock" /\ call[t].op = "park" /\ call' = call /\ pc'[t] = "check"
      /\ answer' = answer /\ token' = token
  BY <1>0 DEF Enqueue, Locks, Goto
<1>3. /\ \A u : Queued(u)' <=> Queued(u) \/ u = t
      /\ ParkedOn(c)' = Append(ParkedOn(c), t)
      /\ \A a \in Addresses : a # c => ParkedOn(a)' = ParkedOn(a)
      /\ ~Queued(t) /\ ~Parking(t)
  BY <1>1, EnqueuedParked
<1>4. Move(t) /\ ~Dequeue(t) BY <1>2 DEF Move, Step, Dequeue
<1>5. \A u \in Threads \ {t} : Same(u) BY <1>3, <1>4, OthersAlike, AlikeIsSame
<1>6. /\ States' = [States EXCEPT ![t] = State(t)']
      /\ Wants' = [Wants EXCEPT ![t] = Want(t)']
      /\ Tokens' = [Tokens EXCEPT ![t] = Token(t)']
      /\ Queues' = [Queues EXCEPT ![c] = ParkedOn(c)']
  BY <1>3, <1>5, Seen
<1>7. answer[t] = NoAnswer /\ token[t] = NoToken BY <1>0, <1>2 DEF Unanswered, Fresh, Arriving
<1>8. ~Unparking(t) /\ ~Unparking(t)' BY <1>2 DEF Unparking
<1>9. /\ State(t) = "running" /\ State(t)' = "parked" /\ Token(t)' = NoToken
      /\ Want(t) = <<>> /\ Want(t)' = <<>>
  BY <1>2, <1>3, <1>7, <1>8 DEF State, Token, Want
<1>10. /\ States[t] = "running" /\ States' = [States EXCEPT ![t] = "parked"]
       /\ Tokens' = [Tokens EXCEPT ![t] = NoToken] /\ Wants' = Wants
       /\ Queues' = [Queues EXCEPT ![c] = Append(@, t)]
  <2>1. /\ States[t] = State(t) /\ Wants = [Wants EXCEPT ![t] = Want(t)] /\ Queues[c] = ParkedOn(c)
    BY DEF States, Wants, Queues
  <2> QED BY <2>1, <1>3, <1>6, <1>9
<1> QED BY <1>2, <1>10 DEF Abstract!Park, Queues, States, Wants, Tokens, Want, Token

\* DequeueMyself: the time of a thread that is still parked has run out.
LEMMA ExpirySeen ==
  ASSUME IInv, IInv', NEW t \in Threads, DequeueMyself(t), Queued(t)
  PROVE  Abstract!Expire(t)
<1>0. /\ TypeOK /\ Named /\ QueuesAreWhole /\ pc \in [Threads -> Labels] BY DEF IInv, TypeOK
<1>1. PICK c \in Addresses : c = address[t]
  <2>1. PICK b \in DOMAIN queue : \E i \in DOMAIN queue[b] : queue[b][i] = t BY <1>0, IsQueued
  <2> QED BY <1>0, <2>1, InQueue
<1>2. /\ pc[t] = "lock" /\ call[t].op = "leave" /\ call' = call /\ answer' = answer /\ token' = token
  BY DEF DequeueMyself, Locks, data
<1>3. /\ \A u : Queued(u)' <=> Queued(u) /\ u # t
      /\ pc' = [pc EXCEPT ![t] = IF Queued(t) THEN "didDequeue" ELSE "settle"]
      /\ \A a \in Addresses : a # c => ParkedOn(a)' = ParkedOn(a)
  BY <1>1, LeftParked
<1>4. PICK i \in DOMAIN ParkedOn(c) : ParkedOn(c)[i] = t /\ ParkedOn(c)' = RemoveAt(ParkedOn(c), i)
  BY <1>1, LeftParked
<1>5. Move(t) /\ ~Dequeue(t) BY <1>2 DEF Move, Step, Dequeue
<1>6. \A u \in Threads \ {t} : Same(u) BY <1>3, <1>5, OthersAlike, AlikeIsSame
<1>7. /\ States' = [States EXCEPT ![t] = State(t)']
      /\ Wants' = [Wants EXCEPT ![t] = Want(t)']
      /\ Tokens' = [Tokens EXCEPT ![t] = Token(t)']
      /\ Queues' = [Queues EXCEPT ![c] = ParkedOn(c)']
  BY <1>3, <1>6, Seen
<1>8. pc'[t] = "didDequeue" BY <1>0, <1>3
<1>9. Parking(t)' /\ ~Unparking(t) /\ ~Unparking(t)' BY <1>2, <1>8 DEF Parking, Unparking
<1>10. /\ State(t) = "parked" /\ State(t)' = "expired" /\ Token(t) = token[t] /\ Token(t)' = token[t]
       /\ Want(t) = <<>> /\ Want(t)' = <<>>
  BY <1>2, <1>3, <1>8, <1>9 DEF State, Token, Want
<1>11. /\ States[t] = "parked" /\ States' = [States EXCEPT ![t] = "expired"]
       /\ Tokens' = Tokens /\ Wants' = Wants
       /\ i \in DOMAIN Queues[c] /\ Queues[c][i] = t
       /\ Queues' = [Queues EXCEPT ![c] = RemoveAt(@, i)]
  <2>1. /\ States[t] = State(t) /\ Wants = [Wants EXCEPT ![t] = Want(t)] /\ Queues[c] = ParkedOn(c)
        /\ Tokens = [Tokens EXCEPT ![t] = Token(t)]
    BY DEF States, Wants, Queues, Tokens
  <2> QED BY <2>1, <1>4, <1>7, <1>10
<1>12. \E a \in Addresses : \E j \in DOMAIN Queues[a] :
         Queues[a][j] = t /\ Queues' = [Queues EXCEPT ![a] = Abstract!RemoveAt(@, j)]
  BY <1>11 DEF RemoveAt, Abstract!RemoveAt
<1> QED BY <1>2, <1>11, <1>12 DEF Abstract!Expire, Queues, States, Wants, Tokens, Want, Token

\* An unparker of c that wants k threads takes the first n of s, T, and leaves them a token.
Unparked(t, c, k, s, n, T, left, more) ==
  /\ State(t) = "unparking" /\ Want(t) = <<c, k>> /\ ParkedOn(c) = s
  /\ n = (IF k < Len(s) THEN k ELSE Len(s)) /\ T = ToSet(SubSeq(s, 1, n))
  /\ \A a \in Addresses : ParkedOn(a)' = IF a = c THEN SubSeq(s, n + 1, Len(s)) ELSE ParkedOn(a)
  /\ \A u \in Threads : State(u)' = IF u \in T THEN "unparked" ELSE IF u = t THEN "answered" ELSE State(u)
  /\ \A u \in Threads : Token(u)' = IF u \in T THEN left ELSE Token(u)
  /\ \A u \in Threads : Want(u)' = IF u = t THEN <<>> ELSE Want(u)
  /\ ~more => n = Len(s)
  /\ answer' = [answer EXCEPT ![t] = [unparked |-> n, mayHaveMoreThreads |-> more]]

\* Then it unparks as the abstract lot says.
LEMMA IsUnpark ==
  ASSUME NEW t \in Threads, NEW c \in Addresses, NEW k, NEW s, NEW n, NEW T,
         NEW left \in {NoToken} \cup Threads, NEW more \in BOOLEAN,
         Unparked(t, c, k, s, n, T, left, more)
  PROVE  Abstract!Unpark(t)
<1>1. /\ States[t] = "unparking"
      /\ LET a     == Wants[t][1]
             m     == IF Wants[t][2] < Len(Queues[a]) THEN Wants[t][2] ELSE Len(Queues[a])
             those == Abstract!ToSet(SubSeq(Queues[a], 1, m))
         IN  /\ Queues' = [Queues EXCEPT ![a] = SubSeq(@, m + 1, Len(@))]
             /\ States' = [u \in Threads |-> IF u \in those THEN "unparked"
                                             ELSE IF u = t THEN "answered" ELSE States[u]]
             /\ \E token_ \in {NoToken} \cup Threads :
                  Tokens' = [u \in Threads |-> IF u \in those THEN token_ ELSE Tokens[u]]
             /\ \E more_ \in BOOLEAN :
                  /\ ~more_ => m = Len(Queues[a])
                  /\ answer' = [answer EXCEPT ![t] = [unparked |-> m, mayHaveMoreThreads |-> more_]]
      /\ Wants' = [Wants EXCEPT ![t] = <<>>]
  <2> DEFINE a     == Wants[t][1]
             m     == IF Wants[t][2] < Len(Queues[a]) THEN Wants[t][2] ELSE Len(Queues[a])
             those == Abstract!ToSet(SubSeq(Queues[a], 1, m))
  <2>0. States[t] = "unparking" /\ Wants[t] = <<c, k>> /\ Queues[c] = s
    BY DEF Unparked, States, Wants, Queues
  <2>1. a = c /\ Queues[a] = s /\ m = n BY <2>0 DEF Unparked
  <2>2. those = T BY <2>1 DEF Unparked, ToSet, Abstract!ToSet
  <2>q. Queues' = [Queues EXCEPT ![c] = SubSeq(s, n + 1, Len(s))] BY DEF Unparked, Queues
  <2>3. Queues' = [Queues EXCEPT ![a] = SubSeq(@, m + 1, Len(@))] BY <2>q, <2>1
  <2>w. Wants' = [Wants EXCEPT ![t] = <<>>] BY DEF Unparked, Wants
  <2> HIDE DEF a, m, those
  <2>4. States' = [u \in Threads |-> IF u \in those THEN "unparked" ELSE IF u = t THEN "answered" ELSE States[u]]
        /\ Tokens' = [u \in Threads |-> IF u \in those THEN left ELSE Tokens[u]]
    BY <2>2 DEF Unparked, States, Tokens
  <2>5. ~more => m = Len(Queues[a]) BY <2>1 DEF Unparked
  <2>6. answer' = [answer EXCEPT ![t] = [unparked |-> m, mayHaveMoreThreads |-> more]] BY <2>1 DEF Unparked
  <2>7. \E token_ \in {NoToken} \cup Threads :
          Tokens' = [u \in Threads |-> IF u \in those THEN token_ ELSE Tokens[u]]
    BY <2>4
  <2>8. \E more_ \in BOOLEAN :
          /\ ~more_ => m = Len(Queues[a])
          /\ answer' = [answer EXCEPT ![t] = [unparked |-> m, mayHaveMoreThreads |-> more_]]
    BY <2>5, <2>6
  <2> QED BY <2>0, <2>3, <2>4, <2>7, <2>8, <2>w DEF a, m, those
<1> QED BY <1>1 DEF Abstract!Unpark, Abstract!Answer, Abstract!NoWant, Queues, States, Wants, Tokens, Want, Token

\* Dequeue: those that have waited longest are unparked, with the token left for them.
LEMMA UnparkSeen ==
  ASSUME IInv, IInv', RInv, NEW t \in Threads, Dequeue(t)
  PROVE  Abstract!Unpark(t)
<1>0. /\ TypeOK /\ Named /\ Ways /\ QueuesAreWhole /\ Left /\ RInv
      /\ pc \in [Threads -> Labels] /\ answer \in [Threads -> Answers]
      /\ token \in [Threads -> Threads \cup {NoToken}]
      /\ call[t] \in Requests \cup Leaving \cup {NoCall}
  BY DEF IInv, TypeOK
<1>1. PICK c \in Addresses : c = call[t].address BY <1>0, LockedIs DEF Dequeue
<1>2. /\ pc[t] = "lock" /\ call[t].op \in Unparks /\ call' = call /\ pc'[t] = "unpark"
      /\ bucket[t] \in DOMAIN queue /\ queue[bucket[t]] \in Seq(Threads)
  BY <1>0, LockedIs DEF Dequeue, Goto, Unparks
<1> DEFINE s == ParkedOn(c)
           n == IF call[t].count < Len(s) THEN call[t].count ELSE Len(s)
           taken == SubSeq(s, 1, n)
           T == ToSet(taken)
           one == call[t].op = "unparkOne"
           left == IF one /\ taken # <<>> THEN call[t].token ELSE NoToken
           more == queue'[bucket[t]] # <<>> /\ (one => taken # <<>>)
<1>3. /\ threadDatas'[t] = taken /\ n \in 0 .. Len(s) /\ s \in Seq(Threads) /\ Len(taken) = n
      /\ ParkedOn(c)' = SubSeq(s, n + 1, Len(s))
      /\ \A a \in Addresses : a # c => ParkedOn(a)' = ParkedOn(a)
      /\ \A u : Queued(u)' <=> Queued(u) /\ u \notin T
      /\ \A u \in T : Queued(u) /\ u \in Threads
      /\ \A u \in ToSet(s) : u \in ToSet(queue[bucket[t]])
      /\ call[t].count \in Nat \ {0}
  <2>1. ASSUME NEW a \in Addresses, a # c PROVE ParkedOn(a)' = ParkedOn(a) BY <1>1, <2>1, TakenParked
  <2>2. /\ threadDatas'[t] = taken /\ n \in 0 .. Len(s) /\ s \in Seq(Threads) /\ Len(taken) = n
        /\ ParkedOn(c)' = SubSeq(s, n + 1, Len(s))
        /\ \A u : Queued(u)' <=> Queued(u) /\ u \notin T
        /\ \A u \in T : Queued(u) /\ u \in Threads
        /\ \A u \in ToSet(s) : u \in ToSet(queue[bucket[t]])
        /\ call[t].count \in Nat \ {0}
    BY <1>1, TakenParked
  <2> QED BY <2>1, <2>2
<1>4. /\ queue' = [queue EXCEPT ![bucket[t]] = Keep(@, Threads \ T)]
      /\ token' = IF one /\ taken # <<>> THEN [token EXCEPT ![taken[1]] = call[t].token] ELSE token
      /\ answer' = [answer EXCEPT ![t] = [unparked |-> n, mayHaveMoreThreads |-> more]]
  <2> DEFINE td == threadDatas'[t]
  <2>1. /\ queue' = [queue EXCEPT ![bucket[t]] = Keep(@, Threads \ ToSet(td))]
        /\ token' = IF one /\ td # <<>> THEN [token EXCEPT ![td[1]] = call[t].token] ELSE token
        /\ answer' = [answer EXCEPT ![t] =
             [unparked |-> Len(td), mayHaveMoreThreads |-> queue'[bucket[t]] # <<>> /\ (one => td # <<>>)]]
    BY <1>0, DequeueTakes
  <2>2. td = taken /\ Len(taken) = n BY <1>3
  <2> HIDE DEF td, taken, n, s, one
  <2> QED BY <2>1, <2>2
<1>5. Distinct(s) BY ParkedOnIs
<1>6. one => call[t].count = 1 /\ call[t].token \in {NoToken} \cup Threads BY <1>0, CallIs
<1> HIDE DEF s, n, T, one, left, more
<1>7. taken \in Seq(Threads) /\ DOMAIN taken = 1 .. n /\ \A k \in 1 .. n : taken[k] = s[k]
      /\ DOMAIN s = 1 .. Len(s) /\ Len(s) \in Nat
  BY <1>3
<1>n. n = IF call[t].count < Len(s) THEN call[t].count ELSE Len(s) BY DEF n
<1>8. ~more => n = Len(s)
  <2> SUFFICES ASSUME n # Len(s) PROVE more OBVIOUS
  <2>1. n + 1 \in 1 .. Len(s) /\ n # 0 BY <1>3, <1>7, <1>n
  <2>2. s[n + 1] \in ToSet(s) BY <2>1, <1>7 DEF ToSet
  <2>3. s[n + 1] \notin T
    <3> SUFFICES ASSUME NEW k \in 1 .. n, taken[k] = s[n + 1] PROVE FALSE BY <1>7 DEF T, ToSet
    <3>1. k \in 1 .. Len(s) /\ s[k] = s[n + 1] BY <1>3, <1>7
    <3>2. k = n + 1 BY <3>1, <2>1, <1>5, <1>7 DEF Distinct
    <3> QED BY <3>2, <1>3
  <2>4. queue'[bucket[t]] = Keep(queue[bucket[t]], Threads \ T) BY <1>2, <1>4
  <2>5. ToSet(queue'[bucket[t]]) = ToSet(queue[bucket[t]]) \cap (Threads \ T) BY <1>2, <2>4, KeepKeeps
  <2>6. s[n + 1] \in ToSet(queue'[bucket[t]])
    <3>1. s[n + 1] \in Threads BY <1>3, <2>1
    <3> QED BY <1>3, <2>2, <2>3, <2>5, <3>1
  <2>7. queue'[bucket[t]] # <<>> BY <2>6 DEF ToSet
  <2>8. taken # <<>> BY <1>7, <2>1, <1>3
  <2> QED BY <2>7, <2>8 DEF more
<1>9. ASSUME NEW u \in T PROVE u \in Threads /\ u # t /\ State(u)' = "unparked" /\ Token(u)' = left
                               /\ Want(u)' = Want(u) /\ answer'[u] = answer[u]
  <2>1. Queued(u) /\ u \in Threads /\ ~Queued(u)' BY <1>3, <1>9
  <2>2. Parking(u) BY <1>0, <2>1 DEF QueuesAreWhole
  <2>3. u # t BY <1>2, <2>2 DEF Parking, Unparks
  <2>4. Move(t) /\ ~Signal(t) BY <1>2 DEF Move, Step, Signal
  <2>5. pc'[u] = pc[u] /\ call'[u] = call[u] BY <2>1, <2>3, <2>4, OthersKeep DEF Untouched
  <2>6. Parking(u)' /\ (Unparking(u)' <=> Unparking(u)) BY <2>2, <2>5 DEF Parking, Unparking
  <2>7. pc'[u] # "didDequeue" BY <1>0, <2>1, <2>5 DEF Left
  <2>8. token'[u] = left
    <3>1. PICK k \in 1 .. n : taken[k] = u BY <1>7, <1>9 DEF T, ToSet
    <3>2. CASE one
      <4>1. k = 1 /\ taken # <<>> BY <3>1, <3>2, <1>3, <1>6, <1>7, <1>n
      <4> QED BY <4>1, <3>1, <3>2, <1>0, <1>4, <2>1 DEF left
    <3>3. CASE ~one
      <4>1. token[u] = NoToken BY <1>0, <2>1 DEF RInv, Fresh
      <4> QED BY <4>1, <3>3, <1>4 DEF left
    <3> QED BY <3>2, <3>3
  <2>9. answer'[u] = answer[u] BY <2>1, <2>3, <2>4, OthersToo
  <2> QED BY <2>1, <2>3, <2>5, <2>6, <2>7, <2>8, <2>9 DEF State, Token, Want
<1>10. ASSUME NEW u \in Threads \ {t}, u \notin T PROVE Same(u)
  <2>1. Move(t) /\ ~Signal(t) BY <1>2 DEF Move, Step, Signal
  <2>2. pc'[u] = pc[u] /\ call'[u] = call[u] /\ answer'[u] = answer[u]
    BY <1>10, <2>1, OthersKeep, OthersToo DEF Untouched
  <2>3. token'[u] = token[u]
    <3>1. taken # <<>> => taken[1] \in T
      <4>1. taken # <<>> => 1 \in DOMAIN taken BY <1>7
      <4> QED BY <4>1 DEF T, ToSet
    <3> QED BY <3>1, <1>0, <1>4, <1>10
  <2>4. Alike(u) BY <2>2, <2>3 DEF Alike, Parking, Unparking
  <2>5. Queued(u)' <=> Queued(u) BY <1>3, <1>10
  <2> QED BY <2>4, <2>5, AlikeIsSame
<1>11. /\ State(t) = "unparking" /\ State(t)' = "answered" /\ Token(t) = NoToken /\ Token(t)' = NoToken
       /\ Want(t) = <<c, call[t].count>> /\ Want(t)' = <<>> /\ t \notin T
  <2>1. /\ ~Parking(t) /\ ~Parking(t)' /\ Unparking(t) /\ ~Unparking(t)'
    BY <1>2 DEF Parking, Unparking, Unparks
  <2>2. ~Queued(t) /\ ~Queued(t)' BY <1>0, <1>3, <2>1 DEF QueuesAreWhole
  <2>3. answer'[t] # NoAnswer
    <3>1. answer'[t] = [unparked |-> n, mayHaveMoreThreads |-> more] BY <1>0, <1>4
    <3>2. n \in Nat /\ more \in BOOLEAN BY <1>3 DEF more
    <3> QED BY <3>1, <3>2, IsAnswer
  <2> QED BY <1>1, <1>9, <2>1, <2>2, <2>3 DEF State, Token, Want
<1>12. \A a \in Addresses : ParkedOn(a)' = IF a = c THEN SubSeq(s, n + 1, Len(s)) ELSE ParkedOn(a)
  BY <1>3
<1>13. \A u \in Threads : State(u)' = IF u \in T THEN "unparked" ELSE IF u = t THEN "answered" ELSE State(u)
  BY <1>9, <1>10, <1>11 DEF Same
<1>14. \A u \in Threads : Token(u)' = IF u \in T THEN left ELSE Token(u)
  BY <1>9, <1>10, <1>11 DEF Same
<1>15. \A u \in Threads : Want(u)' = IF u = t THEN <<>> ELSE Want(u)
  BY <1>9, <1>10, <1>11 DEF Same
<1>16. ParkedOn(c) = s /\ T = ToSet(SubSeq(s, 1, n)) BY DEF s, T, taken
<1> HIDE DEF taken
<1>17. Unparked(t, c, call[t].count, s, n, T, left, more)
  BY <1>n, <1>4, <1>8, <1>11, <1>12, <1>13, <1>14, <1>15, <1>16 DEF Unparked
<1>18. left \in {NoToken} \cup Threads /\ more \in BOOLEAN BY <1>6 DEF left, more
<1> QED BY <1>17, <1>18, IsUnpark

\* NoBucket: nobody is parked where the current table has no bucket.
LEMMA NobodySeen ==
  ASSUME IInv, IInv', NEW t \in Threads, NoBucket(t), call[t].op # "leave"
  PROVE  Abstract!Unpark(t)
<1>0. /\ TypeOK /\ Named /\ Full /\ Ways /\ Way(t) /\ QueuesAreWhole
      /\ pc \in [Threads -> Labels] /\ answer \in [Threads -> Answers]
      /\ call[t] \in Requests \cup Leaving \cup {NoCall} /\ tables \in Seq(Tables)
  BY DEF IInv, TypeOK, Ways
<1>1. /\ pc[t] = "bucket" /\ found_(t) = null /\ call[t].op = "unparkCount" /\ call' = call
      /\ pc'[t] = "return"
      /\ answer' = [answer EXCEPT ![t] = [unparked |-> 0, mayHaveMoreThreads |-> FALSE]]
  BY <1>0 DEF NoBucket, IgnoreEmpty, Finish, Goto, Answer
<1>2. /\ call[t].address \in Addresses /\ call[t].count \in Nat \ {0} BY <1>0, <1>1, CallIs DEF Unparks
<1>3. PICK c \in Addresses : c = call[t].address BY <1>2
<1>4. ParkedOn(c) = <<>>
  <2>1. spine[t] \in DOMAIN tables BY <1>0, <1>1 DEF Way
  <2>2. tables[spine[t]] \in Tables BY <1>0, <2>1
  <2>3. slot(t) \in DOMAIN tables[spine[t]] BY <1>2, <2>2, TableIs DEF slot
  <2>4. ~IsFull(tables[spine[t]]) BY <1>1, <2>3 DEF IsFull, found_
  <2>5. spine[t] = Len(tables) BY <1>0, <2>1, <2>4 DEF Full
  <2>6. tables # <<>> /\ Last(tables)[index(c, Last(tables))] = null
    BY <1>1, <1>3, <2>1, <2>5 DEF found_, slot, Last
  <2> QED BY <2>6 DEF ParkedOn
<1>5. Move(t) /\ ~Enqueue(t) /\ ~Dequeue(t) /\ ~DequeueMyself(t)
  BY <1>1 DEF Move, Step, Enqueue, Dequeue, DequeueMyself, Locks
<1>6. ~Parking(t) /\ ~Parking(t)' /\ Unparking(t) /\ ~Unparking(t)' /\ ~Queued(t)
  BY <1>0, <1>1 DEF Parking, Unparking, QueuesAreWhole
<1>7. ~Queued(t)' BY <1>5, <1>6, QueuesUnseen
<1>8. answer'[t] # NoAnswer
  <2>1. answer'[t] = [unparked |-> 0, mayHaveMoreThreads |-> FALSE] BY <1>0, <1>1
  <2> QED BY <2>1, IsAnswer
<1>9. /\ State(t) = "unparking" /\ State(t)' = "answered" /\ Token(t) = NoToken /\ Token(t)' = NoToken
      /\ Want(t) = <<c, call[t].count>> /\ Want(t)' = <<>>
  BY <1>3, <1>6, <1>7, <1>8 DEF State, Token, Want
<1>10. \A u \in Threads \ {t} : Same(u) BY <1>5, QueuesUnseen, OthersAlike, AlikeIsSame
<1>11. \A e : e = <<>> => /\ Len(e) = 0 /\ SubSeq(e, 1, 0) = <<>> /\ DOMAIN e = {}
                          /\ SubSeq(e, 0 + 1, Len(e)) = <<>>
  OBVIOUS
<1>12. {} = ToSet(SubSeq(<<>>, 1, 0)) BY <1>11 DEF ToSet
<1>13. \A a \in Addresses : ParkedOn(a)' = IF a = c THEN SubSeq(<<>>, 0 + 1, Len(<<>>)) ELSE ParkedOn(a)
  <2>1. \A a \in Addresses : ParkedOn(a)' = ParkedOn(a)
    <3>1. Queues' = Queues BY <1>5, QueuesUnseen
    <3>2. \A a \in Addresses : Queues[a] = ParkedOn(a) /\ Queues'[a] = ParkedOn(a)' BY DEF Queues
    <3> QED BY <3>1, <3>2
  <2> QED BY <2>1, <1>4, <1>11
<1>14. 0 = IF call[t].count < Len(<<>>) THEN call[t].count ELSE Len(<<>>) BY <1>2, <1>11
<1>15. /\ \A u \in Threads : State(u)' = IF u \in {} THEN "unparked" ELSE IF u = t THEN "answered" ELSE State(u)
       /\ \A u \in Threads : Token(u)' = IF u \in {} THEN NoToken ELSE Token(u)
       /\ \A u \in Threads : Want(u)' = IF u = t THEN <<>> ELSE Want(u)
  BY <1>9, <1>10 DEF Same
<1>16. Unparked(t, c, call[t].count, <<>>, 0, {}, NoToken, FALSE)
  BY <1>1, <1>4, <1>9, <1>11, <1>12, <1>13, <1>14, <1>15 DEF Unparked
<1> QED BY <1>16, IsUnpark

\* Initially the lot is empty, and so is the abstract one.
LEMMA InitSeen == Init => Abstract!Init
<1> SUFFICES ASSUME Init PROVE Abstract!Init OBVIOUS
<1>1. \A a \in Addresses : ParkedOn(a) = <<>> BY DEF Init, ParkedOn
<1>2. \A t \in Threads : ~Queued(t) /\ ~Parking(t) /\ ~Unparking(t) /\ answer[t] = NoAnswer
  BY DEF Init, Queued, Parking, Unparking, NoCall
<1>3. \A t \in Threads : State(t) = "running" /\ Want(t) = <<>> /\ Token(t) = NoToken
  BY <1>2 DEF State, Want, Token
<1>4. /\ Queues = [a \in Addresses |-> <<>>] /\ States = [t \in Threads |-> "running"]
      /\ Wants = [t \in Threads |-> <<>>] /\ Tokens = [t \in Threads |-> NoToken]
  BY <1>1, <1>3 DEF Queues, States, Wants, Tokens
<1>5. answer = [t \in Threads |-> NoAnswer] BY DEF Init
<1> QED BY <1>4, <1>5 DEF Abstract!Init, Abstract!NoWant, Queues, States, Wants, Tokens, Want, Token

\* Every step is one of the abstract lot, or is not seen.
LEMMA StepSeen ==
  ASSUME IInv, IInv', RInv, NEW t \in Threads, Move(t)
  PROVE  Abstract!Next \/ UNCHANGED <<Queues, States, Wants, Tokens, answer>>
<1>1. ASSUME Inside(t) PROVE UNCHANGED <<Queues, States, Wants, Tokens, answer>> BY <1>1, InsideUnseen
<1>2. \/ Inside(t) \/ Call(t) \/ ValidationFails(t) \/ Enqueue(t) \/ Dequeue(t)
      \/ NoBucket(t) /\ call[t].op # "leave"
      \/ DequeueMyself(t) /\ Queued(t)
      \/ DidDequeue(t) \/ ((Check(t) \/ Settle(t)) /\ address[t] = NoAddress)
      \/ Return(t) /\ answer[t] # NoAnswer
  BY DEF Move, Step, Inside
<1>3. ASSUME Call(t) PROVE Abstract!BeginUnpark(t) \/ UNCHANGED <<Queues, States, Wants, Tokens, answer>>
  BY <1>3, CallSeen
<1>4. ASSUME ValidationFails(t) PROVE Abstract!Refuse(t) BY <1>4, RefusalSeen
<1>5. ASSUME Enqueue(t) PROVE Abstract!Park(t) BY <1>5, ParkSeen
<1>6. ASSUME Dequeue(t) PROVE Abstract!Unpark(t) BY <1>6, UnparkSeen
<1>7. ASSUME NoBucket(t), call[t].op # "leave" PROVE Abstract!Unpark(t) BY <1>7, NobodySeen
<1>8. ASSUME DequeueMyself(t), Queued(t) PROVE Abstract!Expire(t) BY <1>8, ExpirySeen
<1>9. ASSUME DidDequeue(t) \/ ((Check(t) \/ Settle(t)) /\ address[t] = NoAddress) PROVE Abstract!Answered(t)
  BY <1>9, AnswerSeen
<1>10. ASSUME Return(t), answer[t] # NoAnswer PROVE Abstract!Return(t) BY <1>10, ReturnSeen
<1> QED BY <1>1, <1>2, <1>3, <1>4, <1>5, <1>6, <1>7, <1>8, <1>9, <1>10 DEF Abstract!Next

\* ParkingLot keeps its promises: every behaviour of it is one of AbstractParkingLot.
THEOREM Implements == Spec => ImplementsParking
<1>1. Init => RInv BY InitAnswers
<1>2. IInv /\ IInv' /\ RInv /\ [Next]_vars => RInv'
  <2> SUFFICES ASSUME IInv, IInv', RInv, [Next]_vars PROVE RInv' OBVIOUS
  <2>1. CASE UNCHANGED vars
    BY <2>1 DEF RInv, Unanswered, Fresh, Arriving, Queued, vars, lot, data
  <2>2. ASSUME NEW t \in Threads, Move(t) PROVE RInv' BY <2>2, AnswersKeep
  <2> QED BY <2>1, <2>2 DEF Next, Move
<1>3. IInv /\ IInv' /\ RInv /\ [Next]_vars => [Abstract!Next]_(Abstract!vars)
  <2> SUFFICES ASSUME IInv, IInv', RInv, [Next]_vars PROVE Abstract!Next \/ UNCHANGED Abstract!vars OBVIOUS
  <2>1. ASSUME UNCHANGED <<Queues, States, Wants, Tokens, answer>> PROVE UNCHANGED Abstract!vars
    BY <2>1 DEF Abstract!vars, Queues, States, Wants, Tokens, Want, Token
  <2>2. CASE UNCHANGED vars
    <3>1. UNCHANGED <<tables, queue, address, token, pc, call, answer>> BY <2>2 DEF vars, lot, data
    <3>2. \A a \in Addresses : ParkedOn(a)' = ParkedOn(a) BY <3>1 DEF ParkedOn
    <3>3. \A t \in Threads : Alike(t) /\ (Queued(t)' <=> Queued(t))
      BY <3>1 DEF Alike, Parking, Unparking, Queued
    <3>4. UNCHANGED <<Queues, States, Wants, Tokens, answer>> BY <3>1, <3>2, <3>3, AlikeIsSame, Seen
    <3> QED BY <2>1, <3>4
  <2>3. ASSUME NEW t \in Threads, Move(t)
        PROVE  Abstract!Next \/ UNCHANGED <<Queues, States, Wants, Tokens, answer>>
    BY <2>3, StepSeen
  <2> QED BY <2>1, <2>2, <2>3 DEF Next, Move
<1> QED BY <1>1, <1>2, <1>3, InitSeen, InitHolds, StepHolds, PTL DEF Spec, ImplementsParking, Abstract!Spec
=============================================================================
