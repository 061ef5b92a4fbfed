-------------------------- MODULE Desktop_proofs --------------------------
(***************************************************************************)
(* Proofs about the compositor and the input queue beside it: first the    *)
(* queue of Input.tla, for every capacity, every stream of bytes and keys  *)
(* and every way of polling, then the windows.                             *)
(*                                                                         *)
(* The argument for the queue.  The ring always holds the last events that *)
(* were pushed, so the serial number of a queued event follows from its    *)
(* place, and what was taken, dropped or lost are all the others.  As for  *)
(* the buttons, the changes told by a list of events are those of its      *)
(* parts together, so polling moves them from the queue to the programs,   *)
(* and a push adds its own.                                                *)
(***************************************************************************)
EXTENDS Desktop, FiniteSetTheorems, NaturalsInduction, WellFoundedInduction, TLAPS

-----------------------------------------------------------------------------
(* Numbers of the ring *)

C == QUEUE_CAPACITY

(* The ring has room. *)
LEMMA Capacity == C \in Nat \ {0}
BY InputAssumption DEF C

(* An index that ran past the end of the ring at most once. *)
LEMMA Wraps ==
  ASSUME NEW a \in 0 .. 2 * C - 1
  PROVE  /\ a % C = IF a < C THEN a ELSE a - C
         /\ a % C \in 0 .. C - 1
BY Capacity

-----------------------------------------------------------------------------
(* The ring *)

(* The slot of the i-th oldest event of a queue q, and the events in order. *)
Slot(q, i) == (q.head + i - 1) % C
Contents(q) == [i \in 1 .. q.len |-> q.ring[Slot(q, i)]]

(* The queue holds the last q.len events of those pushed. *)
QueueOK(q) ==
  /\ q.ring = [i \in 0 .. C - 1 |-> q.ring[i]]
  /\ q.head \in 0 .. C - 1
  /\ q.len \in 0 .. C
  /\ q.pushed \in Nat /\ q.dropped \in Nat /\ q.len <= q.pushed
  /\ \A i \in 1 .. q.len : q.ring[Slot(q, i)].serial = q.pushed - q.len + i

(* Two places of the ring are two slots. *)
LEMMA SlotsDiffer ==
  ASSUME NEW q, q.head \in 0 .. C - 1, NEW i \in 1 .. C, NEW j \in 1 .. C
  PROVE  Slot(q, i) \in 0 .. C - 1 /\ (Slot(q, i) = Slot(q, j) => i = j)
<1> DEFINE a == q.head + i - 1
           b == q.head + j - 1
<1>1. a \in 0 .. 2 * C - 1 /\ b \in 0 .. 2 * C - 1 /\ a - b = i - j
  BY Capacity
<1>2. /\ Slot(q, i) = IF a < C THEN a ELSE a - C
      /\ Slot(q, j) = IF b < C THEN b ELSE b - C
      /\ Slot(q, i) \in 0 .. C - 1
  BY <1>1, Wraps DEF Slot
<1>3. a - b < C /\ b - a < C
  BY <1>1, Capacity
<1> HIDE DEF a, b
<1> QED
  BY <1>1, <1>2, <1>3, Capacity

(* Stepping past n events, and then on. *)
LEMMA SkipSlots ==
  ASSUME NEW h \in 0 .. C - 1, NEW n \in 0 .. C, NEW i \in 1 .. C, n + i <= C
  PROVE  /\ (h + n) % C \in 0 .. C - 1
         /\ (((h + n) % C) + i - 1) % C = (h + (n + i) - 1) % C
<1> DEFINE a == (h + n) % C
           b == (h + (n + i) - 1) % C
           c == (a + i - 1) % C
           g == h + (n + i) - 1
<1>1. h + n \in 0 .. 2 * C - 1 /\ g \in 0 .. 2 * C - 1
  BY Capacity
<1>2. /\ a = IF h + n < C THEN h + n ELSE (h + n) - C
      /\ b = IF g < C THEN g ELSE g - C
      /\ a \in 0 .. C - 1
  BY <1>1, Wraps
<1> HIDE DEF a, b
<1>3. a + i - 1 \in 0 .. 2 * C - 1
  BY <1>2, Capacity
<1>4. c = IF a + i - 1 < C THEN a + i - 1 ELSE (a + i - 1) - C
  BY <1>3, Wraps
<1> HIDE DEF c
<1>5. c = b
  BY <1>2, <1>4, Capacity
<1> QED
  BY <1>2, <1>5 DEF a, b, c

(* push: the newest event goes behind the others, and a full ring loses its
   oldest. *)
LEMMA PushKeeps ==
  ASSUME NEW q, QueueOK(q), NEW code
  PROVE  LET r == Push(q, code)
         IN /\ QueueOK(r)
            /\ r.pushed = q.pushed + 1 /\ r.len > 0
            /\ r.len + r.dropped = q.len + q.dropped + 1
            /\ r.pushed - r.len >= q.pushed - q.len
            /\ r.dropped >= q.dropped
            /\ r.dropped = q.dropped =>
                 /\ r.len = q.len + 1
                 /\ \A i \in 1 .. q.len : Contents(r)[i] = Contents(q)[i]
                 /\ Contents(r)[q.len + 1] = Event(q.pushed + 1, code)
<1> DEFINE full == q.len = C
           start == IF full THEN (q.head + 1) % C ELSE q.head
           size == IF full THEN q.len - 1 ELSE q.len
           at == (start + size) % C
           new == Event(q.pushed + 1, code)
           k == IF full THEN 1 ELSE 0
           r == Push(q, code)
<1>1. /\ r.ring = [q.ring EXCEPT ![at] = new]
      /\ r.head = start /\ r.len = size + 1 /\ r.pushed = q.pushed + 1
      /\ r.dropped = IF full THEN q.dropped + 1 ELSE q.dropped
  BY DEF Push, C
<1>2. /\ q.head \in 0 .. C - 1 /\ q.len \in 0 .. C /\ q.pushed \in Nat /\ q.dropped \in Nat
      /\ q.len <= q.pushed /\ q.ring = [i \in 0 .. C - 1 |-> q.ring[i]]
      /\ \A i \in 1 .. q.len : q.ring[Slot(q, i)].serial = q.pushed - q.len + i
  BY DEF QueueOK
<1>3. /\ size \in 0 .. C - 1 /\ size + k = q.len /\ k \in {0, 1}
      /\ size + 1 \in 1 .. C
  BY <1>2, Capacity
<1>4. start \in 0 .. C - 1
  <2>1. q.head + 1 \in 0 .. 2 * C - 1
    BY <1>2, Capacity
  <2>2. (q.head + 1) % C \in 0 .. C - 1
    BY <2>1, Wraps
  <2> QED  BY <1>2, <2>2
<1>5. at = Slot(r, size + 1)
  <2>1. r.head + (size + 1) - 1 = start + size
    BY <1>1, <1>3, <1>4, Capacity
  <2> QED  BY <2>1 DEF Slot
<1>6. \A i \in 1 .. size : i \in 1 .. C /\ i + k \in 1 .. q.len /\ Slot(r, i) = Slot(q, i + k)
  <2> SUFFICES ASSUME NEW i \in 1 .. size
               PROVE  i \in 1 .. C /\ i + k \in 1 .. q.len /\ Slot(r, i) = Slot(q, i + k)
    OBVIOUS
  <2>1. i \in 1 .. C /\ i + k \in 1 .. q.len
    BY <1>2, <1>3, Capacity
  <2>2. CASE ~full
    <3>1. start = q.head /\ k = 0 /\ i + 0 = i
      BY <2>1, <2>2
    <3> QED  BY <1>1, <2>1, <3>1 DEF Slot
  <2>3. CASE full
    <3>6. k = 1 /\ i \in 1 .. C - 1
      BY <1>2, <1>3, <2>1, <2>3, Capacity
    <3>7. (start + i - 1) % C = (q.head + i) % C
      <4>1. (q.head + (1 + i) - 1) = q.head + i /\ 1 \in 0 .. C /\ i \in 1 .. C /\ 1 + i <= C
        BY <1>2, <3>6, Capacity
      <4>2. (((q.head + 1) % C) + i - 1) % C = (q.head + (1 + i) - 1) % C
        BY <1>2, <4>1, SkipSlots
      <4>3. start = (q.head + 1) % C
        BY <2>3
      <4> HIDE DEF start
      <4> QED  BY <4>1, <4>2, <4>3
    <3>8. Slot(q, i + k) = (q.head + i) % C
      <4>1. q.head + (i + k) - 1 = q.head + i
        BY <1>2, <2>1, <3>6
      <4> QED  BY <4>1 DEF Slot
    <3>9. Slot(r, i) = (start + i - 1) % C
      BY <1>1 DEF Slot
    <3> QED  BY <2>1, <3>7, <3>8, <3>9
  <2> QED  BY <2>2, <2>3
<1> HIDE DEF r, start, at, new
<1>a. /\ r.len = size + 1 /\ r.pushed = q.pushed + 1
      /\ r.dropped = IF full THEN q.dropped + 1 ELSE q.dropped
  BY <1>1
<1>b. q.len \in 0 .. C /\ q.pushed \in Nat /\ q.dropped \in Nat
  BY <1>2
<1>7. /\ at \in 0 .. C - 1
      /\ \A i \in 1 .. size : Slot(r, i) \in 0 .. C - 1 /\ Slot(r, i) # at
  <2>1. at \in 0 .. C - 1
    BY <1>1, <1>3, <1>4, <1>5, SlotsDiffer
  <2>2. \A i \in 1 .. size : i # size + 1
    BY <1>3
  <2>3. \A i \in 1 .. size : Slot(r, i) \in 0 .. C - 1 /\ Slot(r, i) # at
    BY <1>1, <1>3, <1>4, <1>5, <1>6, <2>2, SlotsDiffer
  <2> QED  BY <2>1, <2>3
<1>8. /\ r.ring[at] = new
      /\ \A i \in 0 .. C - 1 : i # at => r.ring[i] = q.ring[i]
      /\ r.ring = [i \in 0 .. C - 1 |-> r.ring[i]]
  BY <1>1, <1>2, <1>7
<1>9. new.serial = q.pushed + 1
  BY DEF new, Event
<1>10. \A i \in 1 .. r.len : r.ring[Slot(r, i)].serial = r.pushed - r.len + i
  <2> SUFFICES ASSUME NEW i \in 1 .. r.len PROVE r.ring[Slot(r, i)].serial = r.pushed - r.len + i
    OBVIOUS
  <2>1. CASE i = size + 1
    BY <1>1, <1>2, <1>3, <1>5, <1>8, <1>9, <2>1
  <2>2. CASE i # size + 1
    <3>1. i \in 1 .. size
      BY <1>1, <1>3, <2>2
    <3>2. r.ring[Slot(r, i)] = q.ring[Slot(q, i + k)]
      BY <1>6, <1>7, <1>8, <3>1
    <3>3. q.ring[Slot(q, i + k)].serial = q.pushed - q.len + (i + k)
      BY <1>2, <1>6, <3>1
    <3>4. q.pushed - q.len + (i + k) = r.pushed - r.len + i
      BY <1>a, <1>b, <1>3, <3>1, Capacity
    <3> QED  BY <3>2, <3>3, <3>4
  <2> QED  BY <2>1, <2>2
<1>11. QueueOK(r)
  <2>1. r.pushed \in Nat /\ r.dropped \in Nat /\ r.len <= r.pushed /\ r.len \in 0 .. C /\ r.head \in 0 .. C - 1
    BY <1>1, <1>2, <1>3, <1>4, Capacity
  <2> QED  BY <1>8, <1>10, <2>1 DEF QueueOK
<1>12. /\ r.pushed = q.pushed + 1 /\ r.len > 0
       /\ r.len + r.dropped = q.len + q.dropped + 1
       /\ r.pushed - r.len >= q.pushed - q.len
       /\ r.dropped >= q.dropped
  BY <1>a, <1>b, <1>3, Capacity
<1>13. ASSUME r.dropped = q.dropped
       PROVE  /\ r.len = q.len + 1
              /\ \A i \in 1 .. q.len : Contents(r)[i] = Contents(q)[i]
              /\ Contents(r)[q.len + 1] = new
  <2>1. ~full /\ k = 0 /\ size = q.len /\ r.len = q.len + 1
    BY <1>1, <1>2, <1>13
  <2>2. q.len + 1 \in 1 .. r.len /\ \A i \in 1 .. q.len : i \in 1 .. r.len /\ i + 0 = i
    BY <1>2, <2>1
  <2>3. Contents(r)[q.len + 1] = new
    BY <1>5, <1>8, <2>1, <2>2 DEF Contents
  <2>4. \A i \in 1 .. q.len : r.ring[Slot(r, i)] = q.ring[Slot(q, i)]
    BY <1>6, <1>7, <1>8, <2>1, <2>2
  <2> QED  BY <2>1, <2>2, <2>3, <2>4 DEF Contents
<1> QED
  BY <1>11, <1>12, <1>13 DEF r, new

-----------------------------------------------------------------------------
(* What a list of events tells of the buttons *)

(* The events of f that change button b. *)
Changes(f, b) == {i \in DOMAIN f : b \in f[i].code}
Odd(n) == n % 2 = 1

(* Parity of a sum. *)
LEMMA OddSum == \A m, n \in Nat : Odd(m + n) <=> (Odd(m) <=> ~Odd(n))
BY DEF Odd

(* A part of 1 .. n is finite. *)
LEMMA PartFinite ==
  ASSUME NEW n \in Nat, NEW S \in SUBSET (1 .. n)
  PROVE  IsFiniteSet(S) /\ Cardinality(S) \in Nat
<1>1. IsFiniteSet(1 .. n)
  BY FS_Interval
<1> QED
  BY <1>1, FS_Subset, FS_CardinalityType

(* A button is told changed when an odd number of events change it. *)
LEMMA CodesMember ==
  ASSUME NEW f, NEW n \in Nat, DOMAIN f = 1 .. n, NEW b
  PROVE  /\ b \in Codes(f) <=> Odd(Cardinality(Changes(f, b)))
         /\ Changes(f, b) \in SUBSET (1 .. n)
         /\ IsFiniteSet(Changes(f, b)) /\ Cardinality(Changes(f, b)) \in Nat
<1>1. Changes(f, b) \in SUBSET (1 .. n)
  BY DEF Changes
<1>2. IsFiniteSet(Changes(f, b)) /\ Cardinality(Changes(f, b)) \in Nat
  BY <1>1, PartFinite
<1>3. Odd(Cardinality(Changes(f, b))) => Changes(f, b) # {}
  BY FS_EmptySet DEF Odd
<1>4. Changes(f, b) # {} => b \in UNION {f[i].code : i \in DOMAIN f}
  BY DEF Changes
<1>5. b \in Codes(f) <=> b \in UNION {f[i].code : i \in DOMAIN f} /\ Odd(Cardinality(Changes(f, b)))
  BY DEF Codes, Changes, Odd
<1> QED
  BY <1>1, <1>2, <1>3, <1>4, <1>5

(* The list f is u followed by v. *)
Joins(f, u, v, m, n) ==
  /\ DOMAIN f = 1 .. m + n /\ DOMAIN u = 1 .. m /\ DOMAIN v = 1 .. n
  /\ \A i \in 1 .. m : f[i].code = u[i].code
  /\ \A i \in 1 .. n : f[m + i].code = v[i].code

(* Two parts tell together what the whole tells. *)
LEMMA CodesJoin ==
  ASSUME NEW f, NEW u, NEW v, NEW m \in Nat, NEW n \in Nat, Joins(f, u, v, m, n)
  PROVE  Codes(f) = SymDiff(Codes(u), Codes(v))
<1> SUFFICES ASSUME NEW b PROVE b \in Codes(f) <=> (b \in Codes(u) <=> b \notin Codes(v))
  BY DEF SymDiff
<1> DEFINE F == Changes(f, b)
           U == Changes(u, b)
           V == Changes(v, b)
           W == {m + i : i \in V}
<1>0. DOMAIN f = 1 .. m + n /\ DOMAIN u = 1 .. m /\ DOMAIN v = 1 .. n /\ m + n \in Nat
  BY DEF Joins
<1>1. /\ b \in Codes(f) <=> Odd(Cardinality(F))
      /\ b \in Codes(u) <=> Odd(Cardinality(U))
      /\ b \in Codes(v) <=> Odd(Cardinality(V))
      /\ U \in SUBSET (1 .. m) /\ V \in SUBSET (1 .. n)
      /\ IsFiniteSet(U) /\ IsFiniteSet(V) /\ Cardinality(U) \in Nat /\ Cardinality(V) \in Nat
  BY <1>0, CodesMember
<1>2. \A i : i \in F <=> i \in U \/ i \in W
  <2>1. ASSUME NEW i \in U PROVE i \in F
    <3>1. i \in 1 .. m /\ i \in 1 .. m + n
      BY <1>1
    <3> QED  BY <1>0, <3>1, <2>1 DEF Changes, Joins
  <2>2. ASSUME NEW i \in V PROVE m + i \in F
    <3>1. i \in 1 .. n /\ m + i \in 1 .. m + n
      BY <1>1
    <3> QED  BY <1>0, <3>1, <2>2 DEF Changes, Joins
  <2>3. ASSUME NEW i \in F PROVE i \in U \/ i \in W
    <3>1. i \in 1 .. m + n /\ b \in f[i].code
      BY <1>0, <2>3 DEF Changes
    <3>2. CASE i \in 1 .. m
      BY <1>0, <3>1, <3>2 DEF Changes, Joins
    <3>3. CASE i \notin 1 .. m
      <4>1. i - m \in 1 .. n /\ m + (i - m) = i
        BY <3>1, <3>3
      <4>2. i - m \in V
        BY <1>0, <3>1, <4>1 DEF Changes, Joins
      <4> QED  BY <4>1, <4>2
    <3> QED  BY <3>2, <3>3
  <2> HIDE DEF F, U, V
  <2>4. \A i \in W : i \in F
    BY <2>2
  <2> QED  BY <2>1, <2>3, <2>4
<1> HIDE DEF F, U, V
<1>3. IsFiniteSet(W) /\ Cardinality(W) = Cardinality(V)
  <2> DEFINE g == [i \in V |-> m + i]
  <2>1. g \in Bijection(V, W)
    <3>1. \A i \in V : i \in Int
      BY <1>1
    <3>2a. g \in [V -> W]
      OBVIOUS
    <3>2b. ASSUME NEW i \in V, NEW j \in V, g[i] = g[j] PROVE i = j
      <4>1. m + i = m + j /\ i \in Int /\ j \in Int
        BY <3>1, <3>2b
      <4> QED  BY <4>1
    <3>2. g \in [V -> W] /\ \A i, j \in V : g[i] = g[j] => i = j
      BY <3>2a, <3>2b
    <3>3. \A k \in W : \E i \in V : g[i] = k
      OBVIOUS
    <3> HIDE DEF g, W
    <3> QED  BY <3>2, <3>3 DEF Bijection, Injection, Surjection, IsInjective
  <2>2. ExistsBijection(V, W)
    BY <2>1 DEF ExistsBijection
  <2> QED  BY <1>1, <2>2, FS_Bijection
<1>4. F = U \cup W /\ U \cap W = {}
  <2>1. \A i \in W : i \notin U
    BY <1>1
  <2> HIDE DEF W
  <2> QED  BY <1>2, <2>1
<1> HIDE DEF W
<1>5. Cardinality(F) = Cardinality(U) + Cardinality(V)
  <2>1. Cardinality(F) = Cardinality(U) + Cardinality(W) - Cardinality(U \cap W)
    BY <1>1, <1>3, <1>4, FS_Union
  <2> QED  BY <1>1, <1>3, <1>4, <2>1, FS_EmptySet
<1>6. Odd(Cardinality(F)) <=> (Odd(Cardinality(U)) <=> ~Odd(Cardinality(V)))
  <2>1. Cardinality(U) \in Nat /\ Cardinality(V) \in Nat
    BY <1>1
  <2> DEFINE x == Cardinality(U)
             y == Cardinality(V)
  <2>2. Odd(x + y) <=> (Odd(x) <=> ~Odd(y))
    BY <2>1, OddSum
  <2>3. Cardinality(F) = x + y
    BY <1>5
  <2> HIDE DEF x, y
  <2>4. Odd(Cardinality(F)) <=> (Odd(x) <=> ~Odd(y))
    BY <2>2, <2>3 DEF Odd
  <2> QED  BY <2>4 DEF x, y
<1>7. /\ b \in Codes(f) <=> Odd(Cardinality(F))
      /\ b \in Codes(u) <=> Odd(Cardinality(U))
      /\ b \in Codes(v) <=> Odd(Cardinality(V))
  BY <1>1
<1> QED
  BY <1>6, <1>7, Zenon

(* One event tells its own code. *)
LEMMA CodesOne ==
  ASSUME NEW e
  PROVE  Codes([i \in 1 .. 1 |-> e]) = e.code
<1> DEFINE f == [i \in 1 .. 1 |-> e]
<1> SUFFICES ASSUME NEW b PROVE b \in Codes(f) <=> b \in e.code
  OBVIOUS
<1>1. b \in Codes(f) <=> Odd(Cardinality(Changes(f, b)))
  BY CodesMember
<1>2. CASE b \in e.code
  <2>1. Changes(f, b) = {1}
    BY <1>2 DEF Changes
  <2>2. Cardinality(Changes(f, b)) = 1
    BY <2>1, FS_Singleton
  <2> QED  BY <1>1, <1>2, <2>2 DEF Odd
<1>3. CASE b \notin e.code
  <2>1. Changes(f, b) = {}
    BY <1>3 DEF Changes
  <2>2. Cardinality(Changes(f, b)) = 0
    BY <2>1, FS_EmptySet
  <2> QED  BY <1>1, <1>3, <2>2 DEF Odd
<1> QED
  BY <1>2, <1>3

(* A pushed event adds its code, as long as none is dropped. *)
LEMMA PushTells ==
  ASSUME NEW q, QueueOK(q), NEW code, Push(q, code).dropped = q.dropped
  PROVE  Codes(Contents(Push(q, code))) = SymDiff(Codes(Contents(q)), code)
<1> DEFINE r == Push(q, code)
           e == Event(q.pushed + 1, code)
           v == [i \in 1 .. 1 |-> e]
<1>1. /\ r.len = q.len + 1
      /\ \A i \in 1 .. q.len : Contents(r)[i] = Contents(q)[i]
      /\ Contents(r)[q.len + 1] = e
  BY PushKeeps
<1>2. q.len \in Nat
  BY Capacity DEF QueueOK
<1>3. DOMAIN Contents(r) = 1 .. q.len + 1 /\ DOMAIN Contents(q) = 1 .. q.len
  BY <1>1 DEF Contents
<1> HIDE DEF r, e
<1>4. Joins(Contents(r), Contents(q), v, q.len, 1)
  BY <1>1, <1>2, <1>3 DEF Joins
<1>5. Codes(Contents(r)) = SymDiff(Codes(Contents(q)), Codes(v))
  BY <1>2, <1>4, CodesJoin
<1>6. Codes(v) = e.code
  BY CodesOne
<1>7. e.code = code
  BY DEF e, Event
<1> QED
  BY <1>5, <1>6, <1>7 DEF r

-----------------------------------------------------------------------------
(* The invariant of the input state *)

(* What programs took came in order and before everything that is queued. *)
TakenOK ==
  /\ taken \in Seq(Nat) /\ lost \in Nat
  /\ \A i, j \in 1 .. Len(taken) : i < j => taken[i] < taken[j]
  /\ \A i \in 1 .. Len(taken) : taken[i] <= pushed - len
  /\ Len(taken) + len + dropped + lost = pushed

InputInv == QueueOK(Queue) /\ TakenOK /\ EdgesComplete

(* The events the model calls oldest are the contents of the queue. *)
LEMMA OldestAre == Oldest(len) = Contents(Queue)
BY DEF Oldest, Contents, Queue, Slot, C

(* The fields of the queue, as variables. *)
LEMMA QueueFields ==
  /\ Queue.ring = ring /\ Queue.head = head /\ Queue.len = len
  /\ Queue.dropped = dropped /\ Queue.pushed = pushed
BY DEF Queue

(* The types the proofs use. *)
LEMMA InputTypes ==
  ASSUME InputInv
  PROVE  /\ head \in 0 .. C - 1 /\ len \in 0 .. C /\ len \in Nat
         /\ pushed \in Nat /\ dropped \in Nat /\ lost \in Nat /\ taken \in Seq(Nat)
         /\ Len(taken) \in Nat
BY QueueFields, Capacity DEF InputInv, QueueOK, TakenOK

(* Two lists of integers, one after the other. *)
LEMMA JoinedInts ==
  ASSUME NEW s \in Seq(Int), NEW t \in Seq(Int)
  PROVE  /\ Len(s \o t) = Len(s) + Len(t)
         /\ \A i \in 1 .. Len(s) : (s \o t)[i] = s[i]
         /\ \A i \in 1 .. Len(t) : (s \o t)[Len(s) + i] = t[i]
OBVIOUS

(* The invariant says what EventsInOrder says. *)
LEMMA InputInvOrders == InputInv => EventsInOrder
<1> SUFFICES ASSUME InputInv PROVE EventsInOrder
  OBVIOUS
<1> DEFINE queued == [i \in 1 .. len |-> Oldest(len)[i].serial]
           seen == taken \o queued
           n == Len(taken)
<1>1. len \in Nat /\ pushed \in Nat /\ dropped \in Nat /\ lost \in Nat /\ taken \in Seq(Nat) /\ n \in Nat
  BY InputTypes
<1>2. \A i \in 1 .. len : queued[i] = pushed - len + i
  <2>1. \A i \in 1 .. len : queued[i] = Contents(Queue)[i].serial
    BY OldestAre
  <2>2. \A i \in 1 .. len : Contents(Queue)[i].serial = pushed - len + i
    BY QueueFields DEF InputInv, QueueOK, Contents
  <2> QED  BY <2>1, <2>2
<1>3. queued \in Seq(Int) /\ Len(queued) = len
  <2>1. \A i \in 1 .. len : queued[i] \in Int
    BY <1>1, <1>2
  <2>2. queued \in [1 .. len -> Int]
    BY <2>1
  <2> HIDE DEF queued
  <2> QED  BY <1>1, <2>2
<1> HIDE DEF queued
<1>4. /\ Len(seen) = n + len
      /\ \A i \in 1 .. n : seen[i] = taken[i]
      /\ \A i \in 1 .. len : seen[n + i] = queued[i]
  <2>1. taken \in Seq(Int)
    BY <1>1
  <2>2. /\ Len(seen) = n + Len(queued)
        /\ \A i \in 1 .. n : seen[i] = taken[i]
        /\ \A i \in 1 .. Len(queued) : seen[n + i] = queued[i]
    BY <1>3, <2>1, JoinedInts, Zenon
  <2> HIDE DEF seen
  <2> QED  BY <1>3, <2>2
<1> HIDE DEF seen
<1>5. ASSUME NEW i \in 1 .. Len(seen) - 1 PROVE seen[i] < seen[i + 1]
  <2>1. CASE i + 1 <= n
    <3>1. i \in 1 .. n /\ i + 1 \in 1 .. n /\ i < i + 1
      BY <1>1, <1>4, <2>1
    <3>2. taken[i] < taken[i + 1]
      BY <3>1 DEF InputInv, TakenOK
    <3> QED  BY <1>4, <3>1, <3>2
  <2>2. CASE i = n
    <3>1. i \in 1 .. n /\ 1 \in 1 .. len
      BY <1>1, <1>4, <2>2
    <3>2. taken[i] <= pushed - len /\ taken[i] \in Nat
      BY <1>1, <3>1 DEF InputInv, TakenOK
    <3>3. seen[i + 1] = pushed - len + 1 /\ seen[i] = taken[i]
      BY <1>2, <1>4, <2>2, <3>1
    <3> QED  BY <1>1, <3>2, <3>3
  <2>3. CASE i > n
    <3> DEFINE j == i - n
    <3>1. j \in 1 .. len /\ j + 1 \in 1 .. len /\ n + j = i /\ n + (j + 1) = i + 1
      BY <1>1, <1>4, <2>3
    <3>2. seen[i] = pushed - len + j /\ seen[i + 1] = pushed - len + (j + 1)
      BY <1>2, <1>4, <3>1
    <3> QED  BY <1>1, <3>1, <3>2
  <2> QED  BY <1>1, <1>4, <2>1, <2>2, <2>3
<1>6. Len(seen) + dropped + lost = pushed
  BY <1>1, <1>4 DEF InputInv, TakenOK
<1>7. len > 0 => seen[Len(seen)] = pushed
  <2> SUFFICES ASSUME len > 0 PROVE seen[Len(seen)] = pushed
    OBVIOUS
  <2>1. len \in 1 .. len
    BY <1>1
  <2>2. seen[n + len] = pushed - len + len
    BY <1>2, <1>4, <2>1
  <2> QED  BY <1>1, <1>4, <2>2
<1> QED
  BY <1>5, <1>6, <1>7 DEF EventsInOrder, seen, queued

(* Nothing but the queue moves on by pushes, to r. *)
LEMMA PushesKeepTaken ==
  ASSUME InputInv, NEW r, QueueOK(r), Becomes(r), UNCHANGED <<taken, lost>>,
         r.len + r.dropped - r.pushed = len + dropped - pushed,
         r.pushed - r.len >= pushed - len
  PROVE  QueueOK(Queue') /\ TakenOK'
<1>1. QueueOK(Queue')
  <2>1. /\ Queue'.ring = r.ring /\ Queue'.head = r.head /\ Queue'.len = r.len
        /\ Queue'.dropped = r.dropped /\ Queue'.pushed = r.pushed
    BY DEF Queue, Becomes
  <2> QED  BY <2>1 DEF QueueOK, Slot
<1>2. /\ len \in Nat /\ pushed \in Nat /\ dropped \in Nat /\ lost \in Nat
      /\ taken \in Seq(Nat) /\ Len(taken) \in Nat
  BY InputTypes
<1>3. r.len \in Nat /\ r.pushed \in Nat /\ r.dropped \in Nat
  BY Capacity DEF QueueOK
<1>4. len' = r.len /\ pushed' = r.pushed /\ dropped' = r.dropped /\ taken' = taken /\ lost' = lost
  BY DEF Becomes
<1>5. \A i \in 1 .. Len(taken) : taken[i] <= r.pushed - r.len
  <2>1. \A i \in 1 .. Len(taken) : taken[i] \in Nat /\ taken[i] <= pushed - len
    BY <1>2 DEF InputInv, TakenOK
  <2> QED  BY <1>2, <1>3, <2>1
<1>6. Len(taken) + r.len + r.dropped + lost = r.pushed
  <2>1. Len(taken) + len + dropped + lost = pushed
    BY DEF InputInv, TakenOK
  <2>2. r.len + r.dropped - r.pushed = len + dropped - pushed
    OBVIOUS
  <2> DEFINE a == Len(taken)
             x == r.len
             y == r.dropped
             z == r.pushed
  <2>3. /\ a \in Int /\ x \in Int /\ y \in Int /\ z \in Int
        /\ len \in Int /\ dropped \in Int /\ lost \in Int /\ pushed \in Int
    BY <1>2, <1>3
  <2>4. a + len + dropped + lost = pushed /\ x + y - z = len + dropped - pushed
    BY <2>1, <2>2
  <2> HIDE DEF a, x, y, z
  <2>5. a + x + y + lost = z
    BY <2>3, <2>4
  <2> QED  BY <2>5 DEF a, x, y, z
<1>7. TakenOK'
  BY <1>4, <1>5, <1>6 DEF InputInv, TakenOK
<1> QED
  BY <1>1, <1>7

(* The buttons, when the pushes that lead to r told the changes X. *)
LEMMA PushesKeepEdges ==
  ASSUME InputInv, NEW r, QueueOK(r), Becomes(r), UNCHANGED <<heard, lost>>, r.dropped >= dropped,
         NEW X, r.dropped = dropped => Codes(Contents(r)) = SymDiff(Codes(Contents(Queue)), X),
         previous' = SymDiff(previous, X)
  PROVE  EdgesComplete'
<1> SUFFICES ASSUME dropped' = 0, lost' = 0
             PROVE  SymDiff(heard', Codes(Oldest(len)')) = previous'
  BY DEF EdgesComplete
<1>1. r.dropped = 0 /\ dropped = 0 /\ lost = 0
  BY InputTypes DEF Becomes
<1>2. Oldest(len)' = Contents(r)
  BY DEF Becomes, Oldest, Contents, Slot, C
<1>3. SymDiff(heard, Codes(Contents(Queue))) = previous
  BY <1>1, OldestAre DEF InputInv, EdgesComplete
<1>4. Codes(Contents(r)) = SymDiff(Codes(Contents(Queue)), X)
  BY <1>1
<1>5. \A A, B : SymDiff(A, SymDiff(B, X)) = SymDiff(SymDiff(A, B), X)
  BY DEF SymDiff
<1> QED
  BY <1>2, <1>3, <1>4, <1>5

(* How the counts of a queue, n long with d dropped of p pushed, move on by
   a push. *)
PushedOnce(n, d, p, n1, d1, p1) ==
  /\ n \in Int /\ d \in Int /\ p \in Int /\ n1 \in Int /\ d1 \in Int
  /\ p1 = p + 1 /\ n1 + d1 = n + d + 1 /\ p1 - n1 >= p - n /\ d1 >= d

(* What one push keeps. *)
LEMMA PushedCounts ==
  ASSUME NEW n, NEW d, NEW p, NEW n1, NEW d1, NEW p1, PushedOnce(n, d, p, n1, d1, p1)
  PROVE  n1 + d1 - p1 = n + d - p
BY DEF PushedOnce

(* What two pushes keep. *)
LEMMA PushedTwiceCounts ==
  ASSUME NEW n, NEW d, NEW p, NEW n1, NEW d1, NEW p1, NEW n2, NEW d2, NEW p2,
         PushedOnce(n, d, p, n1, d1, p1), PushedOnce(n1, d1, p1, n2, d2, p2)
  PROVE  /\ n2 + d2 - p2 = n + d - p
         /\ p2 - n2 >= p - n
         /\ d2 >= d
         /\ d2 = d => d1 = d /\ d2 = d1
BY DEF PushedOnce

(* The counts of a queue are numbers. *)
LEMMA QueueCounts ==
  ASSUME NEW q, QueueOK(q)
  PROVE  q.len \in Int /\ q.dropped \in Int /\ q.pushed \in Int
BY Capacity DEF QueueOK

(* One push, of a key or a motion. *)
LEMMA OnePush ==
  ASSUME InputInv, NEW code, Becomes(Push(Queue, code)), UNCHANGED <<heard, lost, taken>>,
         previous' = SymDiff(previous, code)
  PROVE  InputInv'
<1> DEFINE r == Push(Queue, code)
<1>1. QueueOK(Queue)
  BY DEF InputInv
<1>2. /\ QueueOK(r) /\ r.pushed = pushed + 1
      /\ r.len + r.dropped = len + dropped + 1
      /\ r.pushed - r.len >= pushed - len
      /\ r.dropped >= dropped
  BY <1>1, PushKeeps, QueueFields
<1>3. r.dropped = dropped => Codes(Contents(r)) = SymDiff(Codes(Contents(Queue)), code)
  BY <1>1, PushTells, QueueFields
<1> HIDE DEF r
<1>4. r.len + r.dropped - r.pushed = len + dropped - pushed
  <2>1. len \in Int /\ dropped \in Int /\ pushed \in Int /\ r.len \in Int /\ r.dropped \in Int
    BY <1>2, InputTypes, QueueCounts
  <2>2. PushedOnce(len, dropped, pushed, r.len, r.dropped, r.pushed)
    BY <1>2, <2>1 DEF PushedOnce
  <2> QED  BY <2>2, PushedCounts
<1>5. Becomes(r)
  BY DEF r
<1>6. QueueOK(Queue') /\ TakenOK'
  BY <1>2, <1>4, <1>5, PushesKeepTaken
<1>7. EdgesComplete'
  BY <1>2, <1>3, <1>5, PushesKeepEdges
<1> QED
  BY <1>6, <1>7 DEF InputInv

(* Two, of a packet that moved the pointer and changed buttons. *)
LEMMA TwoPushes ==
  ASSUME InputInv, NEW code, Becomes(Push(Push(Queue, {}), code)), UNCHANGED <<heard, lost, taken>>,
         previous' = SymDiff(previous, code)
  PROVE  InputInv'
<1> DEFINE m == Push(Queue, {})
           r == Push(m, code)
<1>1. QueueOK(Queue)
  BY DEF InputInv
<1>2. /\ QueueOK(m) /\ m.pushed = pushed + 1
      /\ m.len + m.dropped = len + dropped + 1
      /\ m.pushed - m.len >= pushed - len
      /\ m.dropped >= dropped
      /\ m.dropped = dropped => Codes(Contents(m)) = SymDiff(Codes(Contents(Queue)), {})
  BY <1>1, PushKeeps, PushTells, QueueFields
<1> HIDE DEF m
<1>3. /\ QueueOK(r) /\ r.pushed = m.pushed + 1
      /\ r.len + r.dropped = m.len + m.dropped + 1
      /\ r.pushed - r.len >= m.pushed - m.len
      /\ r.dropped >= m.dropped
      /\ r.dropped = m.dropped => Codes(Contents(r)) = SymDiff(Codes(Contents(m)), code)
  BY <1>2, PushKeeps, PushTells
<1> HIDE DEF r
<1>4. /\ len \in Int /\ dropped \in Int /\ pushed \in Int
      /\ m.len \in Int /\ m.dropped \in Int /\ m.pushed \in Int
      /\ r.len \in Int /\ r.dropped \in Int /\ r.pushed \in Int
  BY <1>2, <1>3, InputTypes, QueueCounts
<1>5. /\ r.len + r.dropped - r.pushed = len + dropped - pushed
      /\ r.pushed - r.len >= pushed - len
      /\ r.dropped >= dropped
      /\ r.dropped = dropped => m.dropped = dropped /\ r.dropped = m.dropped
  <2>1. PushedOnce(len, dropped, pushed, m.len, m.dropped, m.pushed)
    BY <1>2, <1>4 DEF PushedOnce
  <2>2. PushedOnce(m.len, m.dropped, m.pushed, r.len, r.dropped, r.pushed)
    BY <1>3, <1>4 DEF PushedOnce
  <2> QED  BY <2>1, <2>2, PushedTwiceCounts
<1>6. r.dropped = dropped => Codes(Contents(r)) = SymDiff(Codes(Contents(Queue)), code)
  <2> SUFFICES ASSUME r.dropped = dropped
               PROVE  Codes(Contents(r)) = SymDiff(Codes(Contents(Queue)), code)
    OBVIOUS
  <2>1. m.dropped = dropped /\ r.dropped = m.dropped
    BY <1>5
  <2>2. \A A : SymDiff(A, {}) = A
    BY DEF SymDiff
  <2> QED  BY <1>2, <1>3, <2>1, <2>2
<1>7. Becomes(r)
  BY DEF m, r
<1>8. QueueOK(Queue') /\ TakenOK'
  BY <1>3, <1>5, <1>7, PushesKeepTaken
<1>9. EdgesComplete'
  BY <1>3, <1>5, <1>6, <1>7, PushesKeepEdges
<1> QED
  BY <1>8, <1>9 DEF InputInv

(* No event comes or goes. *)
LEMMA InputQuiet ==
  ASSUME InputInv, UNCHANGED <<queueVars, previous, taken, heard, lost>>
  PROVE  InputInv'
<1>1. UNCHANGED Queue /\ Oldest(len)' = Oldest(len)
  BY DEF queueVars, Queue, Oldest
<1>2. QueueOK(Queue')
  BY <1>1 DEF InputInv
<1>3. TakenOK'
  BY DEF queueVars, InputInv, TakenOK
<1>4. EdgesComplete'
  BY <1>1 DEF queueVars, InputInv, EdgesComplete
<1> QED
  BY <1>2, <1>3, <1>4 DEF InputInv

(* The interrupt handlers. *)
LEMMA InterruptKeeps == InputInv /\ InputInterrupt => InputInv'
<1> SUFFICES ASSUME InputInv, InputInterrupt PROVE InputInv'
  OBVIOUS
<1>0. \A A : SymDiff(A, {}) = A
  BY DEF SymDiff
<1>1. ASSUME NEW f1, NEW released, OnScancode(f1, released) PROVE InputInv'
  <2>1. UNCHANGED <<previous, taken, heard, lost>>
    BY <1>1 DEF OnScancode
  <2>2. CASE UNCHANGED queueVars
    BY <2>1, <2>2, InputQuiet
  <2>3. CASE Becomes(Push(Queue, {}))
    BY <1>0, <2>1, <2>3, OnePush
  <2> QED  BY <1>1, <2>2, <2>3 DEF OnScancode
<1>2. ASSUME NEW byte, OnMouseByteKept(byte) PROVE InputInv'
  BY <1>2, InputQuiet DEF OnMouseByteKept
<1>3. ASSUME NEW byte, OnMousePacket(byte) PROVE InputInv'
  <2> DEFINE flags == packet[1]
             moved == packet[2].moved \/ byte.moved
             changed == SymDiff(flags.buttons, previous)
             afterMotion == IF moved THEN Push(Queue, {}) ELSE Queue
  <2>1. UNCHANGED <<taken, heard, lost>>
    BY <1>3 DEF OnMousePacket
  <2>2. CASE flags.overflow
    BY <1>3, <2>1, <2>2, InputQuiet DEF OnMousePacket
  <2>3. CASE ~flags.overflow
    <3>1. /\ Becomes(IF changed # {} THEN Push(afterMotion, changed) ELSE afterMotion)
          /\ previous' = flags.buttons
      BY <1>3, <2>3 DEF OnMousePacket
    <3>2. previous' = SymDiff(previous, changed)
      BY <3>1 DEF SymDiff
    <3> HIDE DEF changed
    <3>3. CASE moved /\ changed # {}
      BY <2>1, <3>1, <3>2, <3>3, TwoPushes
    <3>4. CASE moved /\ changed = {}
      BY <2>1, <3>1, <3>2, <3>4, OnePush
    <3>5. CASE ~moved /\ changed # {}
      BY <2>1, <3>1, <3>2, <3>5, OnePush
    <3>6. CASE ~moved /\ changed = {}
      <4>1. Becomes(Queue) /\ previous' = previous
        BY <1>0, <3>1, <3>2, <3>6
      <4>2. UNCHANGED queueVars
        BY <4>1 DEF Becomes, Queue, queueVars
      <4> QED  BY <2>1, <4>1, <4>2, InputQuiet
    <3> QED  BY <3>3, <3>4, <3>5, <3>6
  <2> QED  BY <2>2, <2>3
<1> QED
  BY <1>1, <1>2, <1>3 DEF InputInterrupt

(* Two lists of numbers, one after the other. *)
LEMMA Joined ==
  ASSUME NEW s \in Seq(Nat), NEW t \in Seq(Nat)
  PROVE  /\ s \o t \in Seq(Nat) /\ Len(s \o t) = Len(s) + Len(t)
         /\ \A i \in 1 .. Len(s) : (s \o t)[i] = s[i]
         /\ \A i \in 1 .. Len(t) : (s \o t)[Len(s) + i] = t[i]
OBVIOUS

(* poll takes the oldest events; a copy that fails loses them. *)
LEMMA PollKeeps ==
  ASSUME InputInv, NEW k \in PollSizes, NEW copied, Poll(k, copied)
  PROVE  InputInv'
<1> DEFINE n == IF k < len THEN k ELSE len
           told == [i \in 1 .. n |-> Oldest(n)[i].serial]
           q == Queue
           r == Queue'
<1>0. /\ head \in 0 .. C - 1 /\ len \in 0 .. C /\ len \in Nat
      /\ pushed \in Nat /\ dropped \in Nat /\ lost \in Nat /\ taken \in Seq(Nat)
      /\ Len(taken) \in Nat
  BY InputTypes
<1>1. k \in Nat /\ n \in 1 .. len /\ n \in 0 .. C
  BY <1>0, Capacity, InputAssumption DEF Poll
<1>2. /\ head' = (head + n) % C /\ len' = len - n
      /\ UNCHANGED <<ring, dropped, pushed, previous>>
      /\ \/ /\ taken' = taken \o told /\ lost' = lost
            /\ heard' = SymDiff(heard, Codes(Oldest(n)))
         \/ lost' = lost + n /\ UNCHANGED <<taken, heard>>
  BY DEF Poll, C
<1> HIDE DEF n
<1>3. len' \in 0 .. C /\ len' \in Nat /\ head' \in 0 .. C - 1
  <2>1. head + n \in 0 .. 2 * C - 1
    BY <1>0, <1>1, Capacity
  <2>2. (head + n) % C \in 0 .. C - 1
    BY <2>1, Wraps
  <2> QED  BY <1>0, <1>1, <1>2, <2>2, Capacity
<1>4. ASSUME NEW i \in 1 .. len' PROVE n + i \in 1 .. len /\ Slot(r, i) = Slot(q, n + i)
  <2>1. n + i \in 1 .. len /\ i \in 1 .. C /\ n + i <= C
    BY <1>0, <1>1, <1>2, <1>4, Capacity
  <2>2. (((head + n) % C) + i - 1) % C = (head + (n + i) - 1) % C
    BY <1>0, <1>1, <2>1, SkipSlots
  <2>3. r.head = (head + n) % C /\ q.head = head
    BY <1>2 DEF Queue
  <2> QED  BY <2>1, <2>2, <2>3 DEF Slot
<1>5. /\ q.ring = ring /\ r.ring = ring /\ q.len = len /\ r.len = len' /\ q.pushed = pushed /\ r.pushed = pushed
      /\ r.dropped = dropped /\ r.head = head' /\ q.head = head
  BY <1>2 DEF Queue
<1>6. ring = [i \in 0 .. C - 1 |-> ring[i]] /\ len <= pushed
      /\ \A i \in 1 .. len : ring[Slot(q, i)].serial = pushed - len + i
  BY <1>5 DEF InputInv, QueueOK
<1> HIDE DEF q, r
<1>7. QueueOK(r)
  <2>1. \A i \in 1 .. len' : ring[Slot(r, i)].serial = pushed - len' + i
    <3> SUFFICES ASSUME NEW i \in 1 .. len' PROVE ring[Slot(r, i)].serial = pushed - len' + i
      OBVIOUS
    <3>1. ring[Slot(r, i)].serial = pushed - len + (n + i)
      BY <1>4, <1>6
    <3> QED  BY <1>0, <1>1, <1>2, <3>1
  <2>2. len' <= pushed
    BY <1>0, <1>1, <1>2, <1>6
  <2> QED  BY <1>0, <1>3, <1>5, <1>6, <2>1, <2>2 DEF QueueOK
<1>8. /\ \A i \in 1 .. n : Oldest(n)[i] = ring[Slot(q, i)] /\ i \in 1 .. len
      /\ DOMAIN Oldest(n) = 1 .. n
  <2>1. \A i \in 1 .. n : i \in 1 .. len
    BY <1>0, <1>1
  <2> QED  BY <2>1, <1>5 DEF Oldest, Slot, C
<1>9. TakenOK'
  <2> USE <1>0, <1>1
  <2>0. /\ \A i, j \in 1 .. Len(taken) : i < j => taken[i] < taken[j]
        /\ \A i \in 1 .. Len(taken) : taken[i] <= pushed - len
        /\ Len(taken) + len + dropped + lost = pushed
    BY DEF InputInv, TakenOK
  <2>1. pushed - len' = pushed - len + n
    BY <1>2
  <2>2. CASE lost' = lost + n /\ UNCHANGED <<taken, heard>>
    <3>1. \A i \in 1 .. Len(taken) : taken[i] <= pushed - len'
      <4>1. \A i \in 1 .. Len(taken) : taken[i] \in Nat
        OBVIOUS
      <4> QED  BY <2>0, <2>1, <4>1
    <3>2. Len(taken) + len' + dropped + lost' = pushed /\ lost' \in Nat
      BY <1>2, <2>0, <2>2
    <3> QED  BY <1>2, <2>0, <2>2, <3>1, <3>2 DEF TakenOK
  <2>3. CASE taken' = taken \o told /\ lost' = lost
    <3>1. \A i \in 1 .. n : told[i] = pushed - len + i
      BY <1>6, <1>8
    <3>2. told \in Seq(Nat) /\ Len(told) = n
      <4>1. \A i \in 1 .. n : told[i] \in Nat
        BY <1>6, <3>1
      <4>2. told \in [1 .. n -> Nat]
        BY <4>1
      <4> HIDE DEF told
      <4> QED  BY <4>2
    <3> HIDE DEF told
    <3>3. /\ taken' \in Seq(Nat) /\ Len(taken') = Len(taken) + n
          /\ \A i \in 1 .. Len(taken) : taken'[i] = taken[i]
          /\ \A i \in 1 .. n : taken'[Len(taken) + i] = told[i]
      BY <2>3, <3>2, Joined
    <3> DEFINE m == Len(taken)
    <3>4. ASSUME NEW i \in 1 .. Len(taken')
          PROVE  \/ i \in 1 .. m /\ taken'[i] = taken[i]
                 \/ i - m \in 1 .. n /\ taken'[i] = pushed - len + (i - m)
      <4>1. CASE i \in 1 .. m
        BY <3>3, <4>1
      <4>2. CASE i \notin 1 .. m
        <5>1. i - m \in 1 .. n /\ m + (i - m) = i
          BY <3>3, <4>2
        <5> QED  BY <3>1, <3>3, <5>1
      <4> QED  BY <4>1, <4>2
    <3>5. \A i \in 1 .. m : taken[i] <= pushed - len /\ taken[i] \in Nat
      BY <2>0
    <3>6. \A i \in 1 .. Len(taken') : taken'[i] <= pushed - len'
      <4> SUFFICES ASSUME NEW i \in 1 .. Len(taken') PROVE taken'[i] <= pushed - len'
        OBVIOUS
      <4>1. pushed \in Int /\ len \in Int /\ n \in Int /\ n > 0
        OBVIOUS
      <4>2. CASE i \in 1 .. m /\ taken'[i] = taken[i]
        <5>1. taken[i] <= pushed - len /\ taken[i] \in Int
          BY <3>5, <4>2
        <5> QED  BY <2>1, <4>1, <4>2, <5>1
      <4>3. CASE i - m \in 1 .. n /\ taken'[i] = pushed - len + (i - m)
        BY <2>1, <4>1, <4>3
      <4> QED  BY <3>4, <4>2, <4>3
    <3>7. \A i, j \in 1 .. Len(taken') : i < j => taken'[i] < taken'[j]
      <4> SUFFICES ASSUME NEW i \in 1 .. Len(taken'), NEW j \in 1 .. Len(taken'), i < j
                   PROVE  taken'[i] < taken'[j]
        OBVIOUS
      <4>1. CASE i \in 1 .. m /\ taken'[i] = taken[i] /\ j \in 1 .. m /\ taken'[j] = taken[j]
        BY <2>0, <4>1
      <4>2. CASE i \in 1 .. m /\ taken'[i] = taken[i] /\ j - m \in 1 .. n /\ taken'[j] = pushed - len + (j - m)
        BY <3>5, <4>2
      <4>3. CASE /\ i - m \in 1 .. n /\ taken'[i] = pushed - len + (i - m)
                 /\ j - m \in 1 .. n /\ taken'[j] = pushed - len + (j - m)
        BY <4>3
      <4>4. ~(i - m \in 1 .. n /\ j \in 1 .. m)
        OBVIOUS
      <4> QED  BY <3>4, <4>1, <4>2, <4>3, <4>4
    <3>8. Len(taken') + len' + dropped + lost' = pushed /\ lost' \in Nat
      <4>1. Len(taken') = m + n /\ m \in Int /\ n \in Int /\ len \in Int /\ m + len + dropped + lost = pushed
        BY <2>0, <3>3
      <4>2. len' = len - n /\ lost' = lost /\ dropped \in Int
        BY <1>2, <2>3
      <4> HIDE DEF m
      <4> QED  BY <4>1, <4>2
    <3> QED  BY <1>2, <3>3, <3>6, <3>7, <3>8 DEF TakenOK
  <2> QED  BY <1>2, <2>2, <2>3
<1>10. EdgesComplete'
  <2> SUFFICES ASSUME dropped' = 0, lost' = 0
               PROVE  SymDiff(heard', Codes(Oldest(len)')) = previous'
    BY DEF EdgesComplete
  <2>1. lost = 0 /\ dropped = 0 /\ heard' = SymDiff(heard, Codes(Oldest(n)))
    BY <1>0, <1>1, <1>2
  <2>2. SymDiff(heard, Codes(Contents(q))) = previous
    BY <2>1, OldestAre DEF InputInv, EdgesComplete, q
  <2>3. Oldest(len)' = Contents(r)
    BY <1>2, <1>5 DEF Oldest, Contents, Slot, C
  <2>4. Joins(Contents(q), Oldest(n), Contents(r), n, len')
    <3>1. DOMAIN Contents(q) = 1 .. n + len' /\ DOMAIN Contents(r) = 1 .. len'
      <4>1. n + len' = len
        BY <1>0, <1>1, <1>2
      <4> QED  BY <1>5, <4>1 DEF Contents
    <3>2. \A i \in 1 .. n : Contents(q)[i] = Oldest(n)[i]
      BY <1>5, <1>8 DEF Contents
    <3>3. \A i \in 1 .. len' : Contents(q)[n + i] = Contents(r)[i]
      BY <1>4, <1>5 DEF Contents
    <3> QED  BY <1>8, <3>1, <3>2, <3>3 DEF Joins
  <2>5. Codes(Contents(q)) = SymDiff(Codes(Oldest(n)), Codes(Contents(r)))
    BY <1>1, <1>3, <2>4, CodesJoin
  <2>6. \A A, B, D : SymDiff(SymDiff(A, B), D) = SymDiff(A, SymDiff(B, D))
    BY DEF SymDiff
  <2> QED  BY <1>2, <2>1, <2>2, <2>3, <2>5, <2>6
<1> QED
  BY <1>7, <1>9, <1>10 DEF InputInv, r

(* The queue is empty at boot. *)
LEMMA InputInitInv == InputInit => InputInv
<1> SUFFICES ASSUME InputInit PROVE InputInv
  OBVIOUS
<1>1. /\ ring = [i \in 0 .. C - 1 |-> Event(0, {})] /\ head = 0 /\ len = 0 /\ dropped = 0
      /\ previous = {} /\ pushed = 0 /\ taken = <<>> /\ heard = {} /\ lost = 0
  BY DEF InputInit, C
<1>2. QueueOK(Queue)
  <2>1. head \in 0 .. C - 1 /\ len \in 0 .. C
    BY <1>1, Capacity
  <2>2. ring = [i \in 0 .. C - 1 |-> ring[i]]
    BY <1>1
  <2>3. \A i \in 1 .. len : FALSE
    BY <1>1
  <2> QED  BY <1>1, <2>1, <2>2, <2>3, QueueFields DEF QueueOK
<1>3. TakenOK
  BY <1>1 DEF TakenOK
<1>4. EdgesComplete
  <2>1. DOMAIN Oldest(len) = {}
    BY <1>1 DEF Oldest
  <2>2. Codes(Oldest(len)) = {}
    BY <2>1 DEF Codes
  <2> QED  BY <1>1, <2>2 DEF EdgesComplete, SymDiff
<1> QED
  BY <1>2, <1>3, <1>4 DEF InputInv

-----------------------------------------------------------------------------
(* Numbers *)

(* A nonempty set of naturals has a least member. *)
LEMMA LeastNumber ==
  ASSUME NEW T \in SUBSET Nat, T # {}
  PROVE  \E x \in T : \A y \in T : x <= y
<1> DEFINE R == {ss \in Nat \X Nat : ss[1] < ss[2]}
<1>1. IsWellFoundedOn(R, Nat)
  BY NatLessThanWellFounded, Zenon DEF OpToRel
<1>2. \E x \in T : \A y \in T : ~(<<y, x>> \in R)
  <2> HIDE DEF R
  <2> QED  BY <1>1, WFMin, Zenon
<1>3. PICK x \in T : \A y \in T : ~(<<y, x>> \in R)
  BY <1>2
<1>4. \A y \in T : x <= y
  <2> TAKE y \in T
  <2> DEFINE e == <<y, x>>
  <2>1. e \in Nat \X Nat /\ e[1] = y /\ e[2] = x
    OBVIOUS
  <2>2. ~(e \in R)
    BY <1>3
  <2> HIDE DEF e
  <2> QED  BY <2>1, <2>2
<1> QED
  BY <1>4

(* Induction up to a bound: a set that holds 0, and with each number below n
   the next one, holds them all. *)
LEMMA CountUp ==
  ASSUME NEW n \in Nat, NEW S, 0 \in S, \A k \in 0 .. n - 1 : k \in S => k + 1 \in S
  PROVE  \A k \in 0 .. n : k \in S
<1> SUFFICES ASSUME NEW k \in 0 .. n, k \notin S
             PROVE  FALSE
  OBVIOUS
<1> DEFINE T == {j \in 0 .. n : j \notin S}
<1>1. T \in SUBSET Nat /\ T # {}
  OBVIOUS
<1>2. PICK x \in T : \A y \in T : x <= y
  <2> HIDE DEF T
  <2> QED  BY <1>1, LeastNumber
<1>3. x \in 1 .. n /\ x - 1 \in 0 .. n - 1
  OBVIOUS
<1>4. x - 1 \in S
  BY <1>2, <1>3
<1>5. (x - 1) + 1 = x
  BY <1>3
<1> QED
  BY <1>3, <1>4, <1>5

-----------------------------------------------------------------------------
(* The areas that relayout cuts up *)

Area == [x : Int, y : Int, w : Int, h : Int]

WholeArea == [x |-> Content.x + TILE_GAP, y |-> Content.y + TILE_GAP,
              w |-> Monus(Content.w, 2 * TILE_GAP), h |-> Monus(Content.h, 2 * TILE_GAP)]

(* f lists the areas left after 0 .. m cuts. *)
Cuts(f, m) == f = [k \in 0 .. m |-> IF k = 0 THEN WholeArea ELSE Rest(f[k - 1])]

(* Such a list exists, however many cuts there are. *)
LEMMA CutsExist ==
  ASSUME NEW n \in Nat
  PROVE  \E f : Cuts(f, n)
<1> DEFINE S == {m \in Nat : \E f : Cuts(f, m)}
<1>1. 0 \in S
  <2> DEFINE f == [k \in 0 .. 0 |-> WholeArea]
  <2>1. f = [k \in 0 .. 0 |-> IF k = 0 THEN WholeArea ELSE Rest(f[k - 1])]
    OBVIOUS
  <2>2. Cuts(f, 0)
    BY <2>1 DEF Cuts
  <2> QED  BY <2>2
<1>2. \A m \in 0 .. n - 1 : m \in S => m + 1 \in S
  <2> SUFFICES ASSUME NEW m \in 0 .. n - 1, NEW f, Cuts(f, m)
               PROVE  \E g : Cuts(g, m + 1)
    OBVIOUS
  <2> DEFINE g == [k \in 0 .. m + 1 |-> IF k = m + 1 THEN Rest(f[m]) ELSE f[k]]
             new == [k \in 0 .. m + 1 |-> IF k = 0 THEN WholeArea ELSE Rest(g[k - 1])]
  <2>1. \A k \in 0 .. m : f[k] = IF k = 0 THEN WholeArea ELSE Rest(f[k - 1])
    BY Zenon DEF Cuts
  <2>2. ASSUME NEW k \in 0 .. m + 1
        PROVE  g[k] = IF k = 0 THEN WholeArea ELSE Rest(g[k - 1])
    <3>1. CASE k = m + 1
      <4>1. k # 0 /\ k - 1 = m /\ m \in 0 .. m + 1 /\ m # m + 1
        BY <3>1
      <4>2. g[k] = Rest(f[m]) /\ g[m] = f[m]
        BY <3>1, <4>1
      <4> HIDE DEF g
      <4> QED  BY <4>1, <4>2
    <3>2. CASE k # m + 1
      <4>1. k \in 0 .. m
        BY <3>2
      <4>2. g[k] = f[k]
        BY <3>2
      <4>3. k # 0 => k - 1 \in 0 .. m /\ k - 1 # m + 1 /\ k - 1 \in 0 .. m + 1
        BY <4>1
      <4>4. k # 0 => g[k - 1] = f[k - 1]
        BY <4>3
      <4> HIDE DEF g
      <4> QED  BY <2>1, <4>1, <4>2, <4>4
    <3> QED  BY <3>1, <3>2
  <2>3. g = new
    <3>1. \A k \in 0 .. m + 1 : g[k] = new[k]
      BY <2>2, Zenon
    <3> QED  BY <3>1, Zenon
  <2>4. Cuts(g, m + 1)
    BY <2>3, Zenon DEF Cuts
  <2> QED  BY <2>4
<1>3. n \in 0 .. n
  OBVIOUS
<1>4. n \in S
  <2> HIDE DEF S
  <2> QED  BY <1>1, <1>2, <1>3, CountUp
<1> QED
  BY <1>4

(* The areas left, one after the other. *)
LEMMA LeftCuts ==
  ASSUME NEW n \in Nat
  PROVE  /\ Left(n)[0] = WholeArea
         /\ \A k \in 1 .. n : Left(n)[k] = Rest(Left(n)[k - 1])
<1> DEFINE f == CHOOSE f : Cuts(f, n)
<1>1. Cuts(f, n)
  BY CutsExist
<1>2. Left(n) = f
  BY Zenon DEF Left, Cuts, WholeArea
<1>3. \A k \in 0 .. n : f[k] = IF k = 0 THEN WholeArea ELSE Rest(f[k - 1])
  <2> HIDE DEF f
  <2> QED  BY <1>1, Zenon DEF Cuts
<1> HIDE DEF f
<1> QED
  BY <1>2, <1>3

(* Half of what a gap leaves. *)
LEMMA HalvedIs ==
  ASSUME NEW n \in Int
  PROVE  /\ Halved(n) \in Int
         /\ n >= TILE_GAP => 0 <= Halved(n) /\ Halved(n) + Halved(n) + TILE_GAP <= n
BY DEF Halved, TILE_GAP

(* Tile and Rest, field by field. *)
LEMMA CutFields ==
  ASSUME NEW a \in Area
  PROVE  /\ Tile(a) \in Area /\ Rest(a) \in Area
         /\ Tile(a).x = a.x /\ Tile(a).y = a.y
         /\ a.w >= a.h =>
              /\ Tile(a).w = Halved(a.w) /\ Tile(a).h = a.h
              /\ Rest(a).x = a.x + Halved(a.w) + TILE_GAP /\ Rest(a).y = a.y
              /\ Rest(a).w = a.w - Halved(a.w) - TILE_GAP /\ Rest(a).h = a.h
         /\ a.w < a.h =>
              /\ Tile(a).w = a.w /\ Tile(a).h = Halved(a.h)
              /\ Rest(a).y = a.y + Halved(a.h) + TILE_GAP /\ Rest(a).x = a.x
              /\ Rest(a).h = a.h - Halved(a.h) - TILE_GAP /\ Rest(a).w = a.w
<1>1. a.x \in Int /\ a.y \in Int /\ a.w \in Int /\ a.h \in Int
  BY DEF Area
<1>2. Halved(a.w) \in Int /\ Halved(a.h) \in Int
  BY <1>1, HalvedIs
<1>3. CASE a.w >= a.h
  <2>1. Tile(a) = [a EXCEPT !.w = Halved(a.w)]
    BY <1>3 DEF Tile
  <2>2. Rest(a) = [a EXCEPT !.x = a.x + Halved(a.w) + TILE_GAP, !.w = a.w - Halved(a.w) - TILE_GAP]
    BY <1>3 DEF Rest
  <2> DEFINE v == Halved(a.w)
             x == a.x + v + TILE_GAP
             w == a.w - v - TILE_GAP
  <2>3. v \in Int /\ x \in Int /\ w \in Int
    BY <1>1, <1>2 DEF TILE_GAP
  <2>4. Tile(a) = [a EXCEPT !.w = v] /\ Rest(a) = [a EXCEPT !.x = x, !.w = w]
    BY <2>1, <2>2
  <2>5. ~(a.w < a.h)
    BY <1>1, <1>3
  <2>6. /\ Tile(a) \in Area /\ Rest(a) \in Area
        /\ Tile(a).x = a.x /\ Tile(a).y = a.y /\ Tile(a).w = v /\ Tile(a).h = a.h
        /\ Rest(a).x = x /\ Rest(a).y = a.y /\ Rest(a).w = w /\ Rest(a).h = a.h
    <3> HIDE DEF v, x, w
    <3> QED  BY <2>3, <2>4 DEF Area
  <2> QED  BY <2>5, <2>6
<1>4. CASE a.w < a.h
  <2>1. ~(a.w >= a.h)
    BY <1>1, <1>4
  <2>2. Tile(a) = [a EXCEPT !.h = Halved(a.h)]
    BY <2>1 DEF Tile
  <2>3. Rest(a) = [a EXCEPT !.y = a.y + Halved(a.h) + TILE_GAP, !.h = a.h - Halved(a.h) - TILE_GAP]
    BY <2>1 DEF Rest
  <2> DEFINE v == Halved(a.h)
             y == a.y + v + TILE_GAP
             h == a.h - v - TILE_GAP
  <2>4. v \in Int /\ y \in Int /\ h \in Int
    BY <1>1, <1>2 DEF TILE_GAP
  <2>5. Tile(a) = [a EXCEPT !.h = v] /\ Rest(a) = [a EXCEPT !.y = y, !.h = h]
    BY <2>2, <2>3
  <2>6. /\ Tile(a) \in Area /\ Rest(a) \in Area
        /\ Tile(a).x = a.x /\ Tile(a).y = a.y /\ Tile(a).w = a.w /\ Tile(a).h = v
        /\ Rest(a).x = a.x /\ Rest(a).y = y /\ Rest(a).w = a.w /\ Rest(a).h = h
    <3> HIDE DEF v, y, h
    <3> QED  BY <2>4, <2>5 DEF Area
  <2> QED  BY <2>1, <2>6
<1> QED
  BY <1>1, <1>3, <1>4

(* Area b lies within area a. *)
Within(b, a) ==
  a.x <= b.x /\ a.y <= b.y /\ b.x + b.w <= a.x + a.w /\ b.y + b.h <= a.y + a.h

(* A cut of an area that is not too small leaves a tile and a rest, both
   within it, with the gap between them. *)
LEMMA CutInTwo ==
  ASSUME NEW a \in Area, a.w >= 0, a.h >= 0, ~TooSmall(a)
  PROVE  /\ Tile(a).w >= 0 /\ Tile(a).h >= 0 /\ Within(Tile(a), a)
         /\ Rest(a).w >= 0 /\ Rest(a).h >= 0 /\ Within(Rest(a), a)
         /\ \/ Tile(a).x + Tile(a).w + TILE_GAP <= Rest(a).x
            \/ Tile(a).y + Tile(a).h + TILE_GAP <= Rest(a).y
<1>1. a.x \in Int /\ a.y \in Int /\ a.w \in Int /\ a.h \in Int
  BY DEF Area
<1> DEFINE v == Halved(a.w)
           u == Halved(a.h)
<1>2. v \in Int /\ u \in Int
      /\ (a.w >= TILE_GAP => 0 <= v /\ v + v + TILE_GAP <= a.w)
      /\ (a.h >= TILE_GAP => 0 <= u /\ u + u + TILE_GAP <= a.h)
  BY <1>1, HalvedIs
<1>3. a.w >= TILE_GAP \/ a.h >= TILE_GAP
  BY <1>1 DEF TooSmall, TILE_GAP
<1> HIDE DEF v, u
<1>4. CASE a.w >= a.h
  <2>1. /\ Tile(a).x = a.x /\ Tile(a).y = a.y
        /\ Tile(a).w = v /\ Tile(a).h = a.h
        /\ Rest(a).x = a.x + v + TILE_GAP /\ Rest(a).y = a.y
        /\ Rest(a).w = a.w - v - TILE_GAP /\ Rest(a).h = a.h
    BY <1>4, CutFields DEF v
  <2> QED  BY <1>1, <1>2, <1>3, <1>4, <2>1 DEF Within, TILE_GAP
<1>5. CASE a.w < a.h
  <2>1. /\ Tile(a).x = a.x /\ Tile(a).y = a.y
        /\ Tile(a).w = a.w /\ Tile(a).h = u
        /\ Rest(a).y = a.y + u + TILE_GAP /\ Rest(a).x = a.x
        /\ Rest(a).h = a.h - u - TILE_GAP /\ Rest(a).w = a.w
    BY <1>5, CutFields DEF u
  <2> QED  BY <1>1, <1>2, <1>3, <1>5, <2>1 DEF Within, TILE_GAP
<1> QED
  BY <1>1, <1>4, <1>5

(* Within is transitive. *)
LEMMA WithinWithin ==
  ASSUME NEW a \in Area, NEW b \in Area, NEW c \in Area, Within(b, a), Within(c, b)
  PROVE  Within(c, a)
BY DEF Within, Area

(* The screen without the strip, and without a gap all round. *)
LEMMA WholeAreaIs ==
  ASSUME framebuffer \in Nat \X Nat
  PROVE  /\ Content.x = 0 /\ Content.y = TRUST_BAR_HEIGHT
         /\ Content.w = framebuffer[1] /\ Content.w \in Nat
         /\ Content.h = Monus(framebuffer[2], TRUST_BAR_HEIGHT) /\ Content.h \in Nat
         /\ framebuffer[1] \in Nat /\ framebuffer[2] \in Nat
         /\ WholeArea \in Area /\ WholeArea.w >= 0 /\ WholeArea.h >= 0
         /\ WholeArea.x = TILE_GAP /\ WholeArea.y = TRUST_BAR_HEIGHT + TILE_GAP
         /\ WholeArea.w = Monus(Content.w, 2 * TILE_GAP)
         /\ WholeArea.h = Monus(Content.h, 2 * TILE_GAP)
<1>1. framebuffer[1] \in Nat /\ framebuffer[2] \in Nat
  OBVIOUS
<1>2. \A m, n \in Nat : Monus(m, n) \in Nat
  BY DEF Monus
<1>3. /\ Content.x = 0 /\ Content.y = TRUST_BAR_HEIGHT
      /\ Content.w = framebuffer[1]
      /\ Content.h = Monus(framebuffer[2], TRUST_BAR_HEIGHT)
  BY DEF Content
<1>4. TRUST_BAR_HEIGHT = 20 /\ TRUST_BAR_HEIGHT \in Nat /\ TILE_GAP = 6 /\ 2 * TILE_GAP \in Nat
  BY DEF TRUST_BAR_HEIGHT, TILE_GAP
<1>5. Content.h \in Nat
  BY <1>1, <1>2, <1>3, <1>4, Zenon
<1>6. Monus(Content.w, 2 * TILE_GAP) \in Nat /\ Monus(Content.h, 2 * TILE_GAP) \in Nat
  BY <1>1, <1>2, <1>3, <1>4, <1>5
<1> DEFINE w == Monus(Content.w, 2 * TILE_GAP)
           h == Monus(Content.h, 2 * TILE_GAP)
           x == Content.x + TILE_GAP
           y == Content.y + TILE_GAP
<1>7. x = 6 /\ y = 26 /\ w \in Nat /\ h \in Nat
  BY <1>3, <1>4, <1>6
<1>8. WholeArea = [x |-> x, y |-> y, w |-> w, h |-> h]
  BY DEF WholeArea
<1>9. /\ WholeArea \in Area /\ WholeArea.w >= 0 /\ WholeArea.h >= 0
      /\ WholeArea.x = 6 /\ WholeArea.y = 26 /\ WholeArea.w = w /\ WholeArea.h = h
  <2> HIDE DEF x, y, w, h
  <2> QED  BY <1>7, <1>8 DEF Area
<1>10. WholeArea.w = Monus(Content.w, 2 * TILE_GAP) /\ WholeArea.h = Monus(Content.h, 2 * TILE_GAP)
  BY <1>9, Zenon
<1>11. WholeArea.x = TILE_GAP /\ WholeArea.y = TRUST_BAR_HEIGHT + TILE_GAP
  BY <1>4, <1>9
<1>12. Content.w \in Nat
  BY <1>1, <1>3
<1>13. WholeArea \in Area /\ WholeArea.w >= 0 /\ WholeArea.h >= 0
  BY <1>9
<1> HIDE DEF w, h, x, y
<1> QED
  BY <1>1, <1>3, <1>5, <1>10, <1>11, <1>12, <1>13, Zenon

(* The areas left are areas, whatever their sizes. *)
LEMMA LeftAreas ==
  ASSUME framebuffer \in Nat \X Nat, NEW n \in Nat
  PROVE  \A k \in 0 .. n : Left(n)[k] \in Area
<1> DEFINE S == {k \in 0 .. n : Left(n)[k] \in Area}
<1>1. 0 \in S
  BY LeftCuts, WholeAreaIs
<1>2. \A k \in 0 .. n - 1 : k \in S => k + 1 \in S
  <2> SUFFICES ASSUME NEW k \in 0 .. n - 1, Left(n)[k] \in Area
               PROVE  Left(n)[k + 1] \in Area /\ k + 1 \in 0 .. n
    OBVIOUS
  <2>1. k + 1 \in 1 .. n /\ (k + 1) - 1 = k
    OBVIOUS
  <2>2. Left(n)[k + 1] = Rest(Left(n)[k])
    BY <2>1, LeftCuts
  <2> QED  BY <2>1, <2>2, CutFields
<1>3. \A k \in 0 .. n : k \in S
  <2> HIDE DEF S
  <2> QED  BY <1>1, <1>2, CountUp
<1> QED
  BY <1>3

-----------------------------------------------------------------------------
(* The windows among the surfaces *)

Mode == {"Windowed", "Fullscreen"}
Picture == [part : {"none", "some", "all"}, size : Int \X Int]
Surface == [id : Nat, pid : Procs, mode : Mode, x : Int, y : Int, w : Int, h : Int,
            length : Int, drawn : Picture]

(* The fields of a surface among others. *)
LEMMA SurfaceFields ==
  ASSUME NEW s \in Seq(Surface)
  PROVE  \A i \in 1 .. Len(s) :
           /\ s[i] \in Surface /\ s[i].id \in Nat /\ s[i].pid \in Procs
           /\ s[i].x \in Int /\ s[i].y \in Int /\ s[i].w \in Int /\ s[i].h \in Int
<1> TAKE i \in 1 .. Len(s)
<1>1. s[i] \in Surface
  OBVIOUS
<1> DEFINE e == s[i]
<1> HIDE DEF e
<1>2. e \in Surface
  BY <1>1 DEF e
<1>3. /\ e.id \in Nat /\ e.pid \in Procs
      /\ e.x \in Int /\ e.y \in Int /\ e.w \in Int /\ e.h \in Int
  BY <1>2 DEF Surface
<1> QED
  BY <1>1, <1>3 DEF e

(* Windows among the first i surfaces. *)
WindowsUpTo(s, i) == {j \in 1 .. i : Windowed(s[j])}
Place(s, i) == Cardinality(WindowsUpTo(s, i))

(* Windows counts them. *)
LEMMA WindowsCounts ==
  ASSUME NEW s \in Seq(Surface)
  PROVE  /\ Windows(s) = Place(s, Len(s)) /\ Windows(s) \in Nat
         /\ \A i \in 1 .. Len(s) : Windows(SubSeq(s, 1, i)) = Place(s, i) /\ Place(s, i) \in Nat
<1>1. Windows(s) = Place(s, Len(s))
  BY DEF Windows, Place, WindowsUpTo
<1>2. \A i \in 0 .. Len(s) : IsFiniteSet(WindowsUpTo(s, i)) /\ Place(s, i) \in Nat
  <2> TAKE i \in 0 .. Len(s)
  <2>1. i \in Nat /\ WindowsUpTo(s, i) \in SUBSET (1 .. i)
    BY DEF WindowsUpTo
  <2> QED  BY <2>1, PartFinite DEF Place
<1>3. ASSUME NEW i \in 1 .. Len(s)
      PROVE  Windows(SubSeq(s, 1, i)) = Place(s, i)
  <2> DEFINE t == SubSeq(s, 1, i)
  <2>1. Len(t) = i /\ \A j \in 1 .. i : t[j] = s[j]
    OBVIOUS
  <2>2. {j \in 1 .. Len(t) : Windowed(t[j])} = WindowsUpTo(s, i)
    <3> HIDE DEF t
    <3> QED  BY <2>1 DEF WindowsUpTo
  <2> HIDE DEF t
  <2>3. Windows(t) = Place(s, i)
    BY <2>2 DEF Windows, Place
  <2> QED  BY <2>3 DEF t
<1>4. Len(s) \in 0 .. Len(s) /\ \A i \in 1 .. Len(s) : i \in 0 .. Len(s)
  OBVIOUS
<1> QED
  BY <1>1, <1>2, <1>3, <1>4

(* A later window has a later place. *)
LEMMA PlacesGrow ==
  ASSUME NEW s \in Seq(Surface), NEW j \in 1 .. Len(s), Windowed(s[j])
  PROVE  /\ Place(s, j) \in 1 .. Windows(s)
         /\ \A i \in 1 .. Len(s) : i < j => Place(s, i) < Place(s, j)
<1> DEFINE W(i) == WindowsUpTo(s, i)
<1>1. \A i \in 0 .. Len(s) : IsFiniteSet(W(i)) /\ Cardinality(W(i)) \in Nat
  <2> TAKE i \in 0 .. Len(s)
  <2>1. i \in Nat /\ W(i) \in SUBSET (1 .. i)
    BY DEF WindowsUpTo
  <2> HIDE DEF W
  <2> QED  BY <2>1, PartFinite
<1>2. Cardinality(W(j)) <= Cardinality(W(Len(s)))
  <2>1. W(j) \in SUBSET W(Len(s)) /\ Len(s) \in 0 .. Len(s)
    BY DEF WindowsUpTo
  <2> HIDE DEF W
  <2> QED  BY <1>1, <2>1, FS_Subset
<1>3. ASSUME NEW i \in 0 .. Len(s), i < j
      PROVE  Cardinality(W(i)) < Cardinality(W(j))
  <2>1. W(i) \in SUBSET W(j) /\ j \in W(j) /\ j \notin W(i) /\ j \in 0 .. Len(s)
    BY <1>3 DEF WindowsUpTo
  <2> HIDE DEF W
  <2>2. W(i) # W(j)
    BY <2>1
  <2>3. Cardinality(W(i)) <= Cardinality(W(j)) /\ Cardinality(W(i)) # Cardinality(W(j))
    BY <1>1, <2>1, <2>2, FS_Subset
  <2> QED  BY <1>1, <2>1, <2>3
<1>4. Cardinality(W(j)) > 0
  <2>1. 0 \in 0 .. Len(s) /\ 0 < j
    OBVIOUS
  <2> HIDE DEF W
  <2> QED  BY <1>1, <1>3, <2>1
<1>5. /\ Windows(s) = Cardinality(W(Len(s)))
      /\ \A i \in 1 .. Len(s) : Place(s, i) = Cardinality(W(i))
  BY WindowsCounts DEF Place
<1>6. j \in 0 .. Len(s) /\ Len(s) \in 0 .. Len(s) /\ \A i \in 1 .. Len(s) : i \in 0 .. Len(s)
  OBVIOUS
<1> HIDE DEF W
<1> QED
  BY <1>1, <1>2, <1>3, <1>4, <1>5, <1>6

-----------------------------------------------------------------------------
(* relayout *)

(* A surface that BuffersFit is content with. *)
Fit(s) ==
  /\ s.length = s.w * s.h
  /\ s.drawn.part = "all" => s.drawn.size[1] * s.drawn.size[2] = s.length

(* What resize keeps: all but the size, and that the buffer fits. *)
LEMMA ResizeIs ==
  ASSUME NEW s \in Surface, NEW w \in Int, NEW h \in Int
  PROVE  LET r == Resize(s, w, h)
         IN /\ r \in Surface /\ r.id = s.id /\ r.pid = s.pid /\ r.mode = s.mode
            /\ r.x = s.x /\ r.y = s.y /\ r.w = w /\ r.h = h
            /\ Fit(s) => Fit(r)
<1> DEFINE r == Resize(s, w, h)
<1>1. CASE s.w = w /\ s.h = h
  BY <1>1 DEF Resize
<1>2. CASE ~(s.w = w /\ s.h = h)
  <2> DEFINE l == w * h
  <2>1. r = [s EXCEPT !.w = w, !.h = h, !.length = l, !.drawn = Blank]
    BY <1>2 DEF Resize
  <2>2. l \in Int /\ l = w * h
    OBVIOUS
  <2>3. Blank \in Picture /\ Blank.part # "all"
    BY DEF Blank, Picture
  <2> HIDE DEF l, r
  <2>4. /\ r \in Surface /\ r.id = s.id /\ r.pid = s.pid /\ r.mode = s.mode
        /\ r.x = s.x /\ r.y = s.y /\ r.w = w /\ r.h = h /\ r.length = l /\ r.drawn = Blank
    BY <2>1, <2>2, <2>3 DEF Surface
  <2>5. Fit(r)
    BY <2>2, <2>3, <2>4 DEF Fit
  <2> QED  BY <2>4, <2>5 DEF r
<1> QED
  BY <1>1, <1>2

(* The part of the content that a window gets. *)
Share(s, i) ==
  LET area == Left(Windows(s))[Place(s, i) - 1]
  IN IF Place(s, i) = Windows(s) THEN area ELSE Tile(area)

Moved(s, x, y) == [s EXCEPT !.x = x, !.y = y]

Tiled(surface, share) ==
  Resize(Moved(surface, share.x, share.y), Larger(share.w, 1), Larger(share.h, 1))

Floated(surface) == [surface EXCEPT !.y = Larger(surface.y, Content.y)]

(* Relayout, surface by surface. *)
LEMMA RelayoutIs ==
  ASSUME NEW s \in Seq(Surface), NEW mode
  PROVE  /\ Relayout(s, mode) = [i \in 1 .. Len(s) |-> Relayout(s, mode)[i]]
         /\ \A i \in 1 .. Len(s) :
              Relayout(s, mode)[i] = IF ~Windowed(s[i]) THEN s[i]
                                     ELSE IF mode = "Tiling" THEN Tiled(s[i], Share(s, i))
                                     ELSE Floated(s[i])
<1>1. \A i \in 1 .. Len(s) : Windows(SubSeq(s, 1, i)) = Place(s, i)
  BY WindowsCounts
<1>2. Relayout(s, mode) = [i \in 1 .. Len(s) |-> Relayout(s, mode)[i]]
  BY DEF Relayout
<1>3. ASSUME NEW i \in 1 .. Len(s)
      PROVE  Relayout(s, mode)[i] = IF ~Windowed(s[i]) THEN s[i]
                                    ELSE IF mode = "Tiling" THEN Tiled(s[i], Share(s, i))
                                    ELSE Floated(s[i])
  <2> DEFINE place == [j \in 1 .. Len(s) |-> Windows(SubSeq(s, 1, j))]
             area == Left(Windows(s))[place[i] - 1]
             share == IF place[i] = Windows(s) THEN area ELSE Tile(area)
  <2>1. place[i] = Place(s, i)
    BY <1>1
  <2>2. share = Share(s, i)
    <3> HIDE DEF place
    <3> QED  BY <2>1, Zenon DEF Share
  <2>3. Relayout(s, mode)[i] =
          IF ~Windowed(s[i]) THEN s[i]
          ELSE IF mode = "Tiling"
          THEN Resize([s[i] EXCEPT !.x = share.x, !.y = share.y], Larger(share.w, 1), Larger(share.h, 1))
          ELSE [s[i] EXCEPT !.y = Larger(@, Content.y)]
    BY Zenon DEF Relayout
  <2> HIDE DEF share
  <2> QED  BY <2>2, <2>3, Zenon DEF Tiled, Moved, Floated
<1> QED
  BY <1>2, <1>3

(* A window's share is an area. *)
LEMMA ShareIsArea ==
  ASSUME framebuffer \in Nat \X Nat,
         NEW s \in Seq(Surface), NEW i \in 1 .. Len(s), Windowed(s[i])
  PROVE  Share(s, i) \in Area
<1> DEFINE k == Place(s, i) - 1
           area == Left(Windows(s))[k]
<1>1. Windows(s) \in Nat
  BY WindowsCounts
<1>2. Place(s, i) \in 1 .. Windows(s)
  BY PlacesGrow
<1>3. k \in 0 .. Windows(s)
  BY <1>1, <1>2
<1>4. area \in Area
  <2> HIDE DEF k
  <2> QED  BY <1>1, <1>3, LeftAreas
<1>5. Share(s, i) = IF Place(s, i) = Windows(s) THEN area ELSE Tile(area)
  BY DEF Share
<1> HIDE DEF area
<1> QED
  BY <1>4, <1>5, CutFields

(* A tiled window: where its share is, at least a pixel wide and high. *)
LEMMA TiledIs ==
  ASSUME NEW s \in Surface, NEW a \in Area
  PROVE  LET r == Tiled(s, a)
         IN /\ r \in Surface /\ r.id = s.id /\ r.pid = s.pid /\ r.mode = s.mode
            /\ r.x = a.x /\ r.y = a.y /\ r.w = Larger(a.w, 1) /\ r.h = Larger(a.h, 1)
            /\ Fit(s) => Fit(r)
<1> DEFINE m == Moved(s, a.x, a.y)
           w == Larger(a.w, 1)
           h == Larger(a.h, 1)
<1>1. a.x \in Int /\ a.y \in Int /\ w \in Int /\ h \in Int
  BY DEF Area, Larger
<1>2. /\ m \in Surface /\ m.id = s.id /\ m.pid = s.pid /\ m.mode = s.mode
      /\ m.x = a.x /\ m.y = a.y /\ m.w = s.w /\ m.h = s.h /\ m.length = s.length
      /\ m.drawn = s.drawn
  <2> DEFINE x == a.x
             y == a.y
  <2>1. m = [s EXCEPT !.x = x, !.y = y] /\ x \in Int /\ y \in Int
    BY <1>1 DEF Moved
  <2> HIDE DEF x, y, m
  <2>2. /\ m \in Surface /\ m.id = s.id /\ m.pid = s.pid /\ m.mode = s.mode
        /\ m.x = x /\ m.y = y /\ m.w = s.w /\ m.h = s.h /\ m.length = s.length
        /\ m.drawn = s.drawn
    BY <2>1 DEF Surface
  <2> QED  BY <2>2 DEF x, y
<1>3. Fit(s) => Fit(m)
  BY <1>2 DEF Fit
<1>4. Tiled(s, a) = Resize(m, w, h)
  BY DEF Tiled
<1> HIDE DEF m, w, h
<1>5. LET r == Resize(m, w, h)
      IN /\ r \in Surface /\ r.id = s.id /\ r.pid = s.pid /\ r.mode = s.mode
         /\ r.x = a.x /\ r.y = a.y /\ r.w = w /\ r.h = h
         /\ Fit(s) => Fit(r)
  BY <1>1, <1>2, <1>3, ResizeIs
<1> QED
  BY <1>4, <1>5 DEF w, h

(* A floating window is only kept off the strip. *)
LEMMA FloatedIs ==
  ASSUME framebuffer \in Nat \X Nat, NEW s \in Surface
  PROVE  LET r == Floated(s)
         IN /\ r \in Surface /\ r.id = s.id /\ r.pid = s.pid /\ r.mode = s.mode
            /\ r.x = s.x /\ r.y = Larger(s.y, TRUST_BAR_HEIGHT) /\ r.w = s.w /\ r.h = s.h
            /\ Fit(s) => Fit(r)
<1> DEFINE y == Larger(s.y, TRUST_BAR_HEIGHT)
           r == Floated(s)
<1>1. y \in Int
  BY DEF Surface, Larger, TRUST_BAR_HEIGHT
<1>2. r = [s EXCEPT !.y = y]
  BY WholeAreaIs DEF Floated
<1> HIDE DEF r, y
<1>3. /\ r \in Surface /\ r.id = s.id /\ r.pid = s.pid /\ r.mode = s.mode
      /\ r.x = s.x /\ r.y = y /\ r.w = s.w /\ r.h = s.h /\ r.length = s.length /\ r.drawn = s.drawn
  BY <1>1, <1>2 DEF Surface
<1>4. Fit(s) => Fit(r)
  BY <1>3 DEF Fit
<1> QED
  BY <1>3, <1>4 DEF r, y

(* r has the surfaces of s, perhaps elsewhere and of other sizes. *)
SameWindows(s, r) ==
  /\ r \in Seq(Surface) /\ Len(r) = Len(s)
  /\ \A i \in 1 .. Len(s) : r[i].id = s[i].id /\ r[i].pid = s[i].pid /\ r[i].mode = s[i].mode

AllFit(s) == \A i \in 1 .. Len(s) : Fit(s[i])

(* relayout only moves and resizes, and leaves every buffer fitting. *)
LEMMA RelayoutKeeps ==
  ASSUME framebuffer \in Nat \X Nat, NEW s \in Seq(Surface), NEW mode
  PROVE  SameWindows(s, Relayout(s, mode)) /\ (AllFit(s) => AllFit(Relayout(s, mode)))
<1> DEFINE r == Relayout(s, mode)
<1>1. ASSUME NEW i \in 1 .. Len(s)
      PROVE  /\ r[i] \in Surface /\ r[i].id = s[i].id /\ r[i].pid = s[i].pid /\ r[i].mode = s[i].mode
             /\ Fit(s[i]) => Fit(r[i])
  <2>1. s[i] \in Surface
    OBVIOUS
  <2>2. r[i] = IF ~Windowed(s[i]) THEN s[i]
               ELSE IF mode = "Tiling" THEN Tiled(s[i], Share(s, i)) ELSE Floated(s[i])
    BY RelayoutIs
  <2>3. Windowed(s[i]) => Share(s, i) \in Area
    BY ShareIsArea
  <2> HIDE DEF r
  <2> QED  BY <2>1, <2>2, <2>3, TiledIs, FloatedIs
<1>2. r = [i \in 1 .. Len(s) |-> r[i]]
  BY RelayoutIs
<1> HIDE DEF r
<1>3. r \in [1 .. Len(s) -> Surface]
  BY <1>1, <1>2
<1>4. r \in Seq(Surface) /\ Len(r) = Len(s)
  BY <1>3
<1>5. SameWindows(s, r) /\ (AllFit(s) => AllFit(r))
  BY <1>1, <1>4 DEF SameWindows, AllFit
<1> QED
  BY <1>5 DEF r

(* So does the part of an operation that arranges its surfaces. *)
LEMMA ArrangeKeeps ==
  ASSUME framebuffer \in Nat \X Nat, NEW s \in Seq(Surface), NEW mode, Arrange(s, mode)
  PROVE  SameWindows(s, surfaces') /\ (AllFit(s) => AllFit(surfaces'))
<1>1. SameWindows(s, s)
  BY DEF SameWindows
<1>2. surfaces' = s \/ surfaces' = Relayout(s, mode)
  BY DEF Arrange
<1> QED
  BY <1>1, <1>2, RelayoutKeeps

-----------------------------------------------------------------------------
(* Vec::retain *)

Rises(f, n) == \A i, j \in 1 .. n : i < j => f[i] < f[j]

(* The first numbers of a set K, in order. *)
Lists(f, K, m) ==
  LET part == {i \in 1 .. m : i \in K}
  IN f \in [1 .. Cardinality(part) -> part] /\ Rises(f, Cardinality(part))

(* Any set of numbers up to n can be listed in order. *)
LEMMA ListExists ==
  ASSUME NEW n \in Nat, NEW K
  PROVE  \E f : Lists(f, K, n)
<1> DEFINE S == {m \in Nat : \E f : Lists(f, K, m)}
           part(m) == {i \in 1 .. m : i \in K}
<1>1. 0 \in S
  <2> DEFINE f == [i \in 1 .. 0 |-> 0]
  <2>1. part(0) = {}
    OBVIOUS
  <2>2. Cardinality(part(0)) = 0
    <3> HIDE DEF part
    <3> QED  BY <2>1, FS_EmptySet
  <2>3. f \in [1 .. 0 -> {}] /\ Rises(f, 0)
    BY DEF Rises
  <2>4. Lists(f, K, 0)
    <3> HIDE DEF f
    <3> QED  BY <2>1, <2>2, <2>3 DEF Lists
  <2> QED  BY <2>4
<1>2. \A m \in 0 .. n - 1 : m \in S => m + 1 \in S
  <2> SUFFICES ASSUME NEW m \in 0 .. n - 1, NEW f, Lists(f, K, m)
               PROVE  \E g : Lists(g, K, m + 1)
    OBVIOUS
  <2> DEFINE c == Cardinality(part(m))
  <2>1. IsFiniteSet(part(m)) /\ c \in Nat
    <3>1. m \in Nat /\ part(m) \in SUBSET (1 .. m)
      OBVIOUS
    <3> HIDE DEF part
    <3> QED  BY <3>1, PartFinite
  <2>2. f \in [1 .. c -> part(m)] /\ Rises(f, c)
    BY DEF Lists
  <2>3. CASE m + 1 \notin K
    <3>1. part(m + 1) = part(m)
      BY <2>3
    <3> HIDE DEF part, c
    <3>2. Cardinality(part(m + 1)) = c
      BY <3>1 DEF c
    <3>3. Lists(f, K, m + 1)
      BY <2>2, <3>1, <3>2 DEF Lists, part
    <3> QED  BY <3>3
  <2>4. CASE m + 1 \in K
    <3> DEFINE g == [i \in 1 .. c + 1 |-> IF i = c + 1 THEN m + 1 ELSE f[i]]
    <3>1. part(m + 1) = part(m) \cup {m + 1} /\ m + 1 \notin part(m)
      BY <2>4
    <3>2. Cardinality(part(m + 1)) = c + 1
      <4> HIDE DEF part
      <4> QED  BY <2>1, <3>1, FS_AddElement DEF c
    <3>3. \A i \in 1 .. c : f[i] \in part(m) /\ f[i] \in 1 .. m
      BY <2>2
    <3> HIDE DEF c
    <3>4. \A i \in 1 .. c + 1 : i # c + 1 => i \in 1 .. c
      BY <2>1
    <3>5. g \in [1 .. c + 1 -> part(m + 1)]
      <4> HIDE DEF part
      <4> QED  BY <2>1, <3>1, <3>3, <3>4
    <3>6. Rises(g, c + 1)
      <4> SUFFICES ASSUME NEW i \in 1 .. c + 1, NEW j \in 1 .. c + 1, i < j
                   PROVE  g[i] < g[j]
        BY Zenon DEF Rises
      <4>1. i \in 1 .. c /\ i # c + 1
        BY <2>1
      <4>2. g[i] = f[i] /\ f[i] \in 1 .. m
        BY <3>3, <4>1
      <4>3. CASE j = c + 1
        BY <4>2, <4>3
      <4>4. CASE j # c + 1
        <5>1. j \in 1 .. c /\ g[j] = f[j]
          BY <2>1, <4>4
        <5> QED  BY <2>2, <4>1, <4>2, <5>1 DEF Rises
      <4> QED  BY <4>3, <4>4
    <3>7. Lists(g, K, m + 1)
      <4> HIDE DEF g
      <4> QED  BY <3>2, <3>5, <3>6 DEF Lists
    <3> QED  BY <3>7
  <2> QED  BY <2>3, <2>4
<1>3. n \in 0 .. n
  OBVIOUS
<1>4. n \in S
  <2> HIDE DEF S
  <2> QED  BY <1>1, <1>2, <1>3, CountUp
<1> QED
  BY <1>4

(* r holds the surfaces of s that are not of p, in their order; at[i] is
   where its i-th was. *)
Keeps(s, p, r, at) ==
  /\ r \in Seq(Surface)
  /\ \A i \in 1 .. Len(r) : at[i] \in 1 .. Len(s) /\ s[at[i]].pid # p /\ r[i] = s[at[i]]
  /\ Rises(at, Len(r))
  /\ \A k \in 1 .. Len(s) : s[k].pid # p => \E i \in 1 .. Len(r) : at[i] = k

(* retain does that. *)
LEMMA RetainIs ==
  ASSUME NEW s \in Seq(Surface), NEW p
  PROVE  \E at : Keeps(s, p, Retain(s, p), at)
<1> DEFINE keep == {i \in 1 .. Len(s) : s[i].pid # p}
           n == Cardinality(keep)
           at == CHOOSE f \in [1 .. n -> keep] : \A i, j \in 1 .. n : i < j => f[i] < f[j]
           r == [i \in 1 .. n |-> s[at[i]]]
<1>1. IsFiniteSet(keep) /\ n \in Nat
  <2>1. Len(s) \in Nat /\ keep \in SUBSET (1 .. Len(s))
    OBVIOUS
  <2> HIDE DEF keep
  <2> QED  BY <2>1, PartFinite
<1>2. \E f \in [1 .. n -> keep] : \A i, j \in 1 .. n : i < j => f[i] < f[j]
  <2>1. keep = {i \in 1 .. Len(s) : i \in keep}
    OBVIOUS
  <2> HIDE DEF keep
  <2>2. PICK f : Lists(f, keep, Len(s))
    <3>1. Len(s) \in Nat
      OBVIOUS
    <3> QED  BY <3>1, ListExists
  <2> QED  BY <2>1, <2>2 DEF Lists, Rises
<1>3. at \in [1 .. n -> keep] /\ \A i, j \in 1 .. n : i < j => at[i] < at[j]
  <2> HIDE DEF keep, n
  <2> QED  BY <1>2
<1>4. Retain(s, p) = r
  BY Zenon DEF Retain
<1> HIDE DEF at, n
<1>5. \A i \in 1 .. n : at[i] \in keep
  <2> HIDE DEF keep
  <2> QED  BY <1>3
<1>6. \A i \in 1 .. n : at[i] \in 1 .. Len(s) /\ s[at[i]].pid # p /\ s[at[i]] \in Surface
  BY <1>5
<1>7. r \in [1 .. n -> Surface] /\ \A i \in 1 .. n : r[i] = s[at[i]]
  BY <1>6
<1> HIDE DEF r
<1>8. r \in Seq(Surface) /\ Len(r) = n
  BY <1>1, <1>7
<1>9. \A k \in keep : \E i \in 1 .. n : at[i] = k
  <2>1. \A i, j \in 1 .. n : at[i] = at[j] => i = j
    <3> SUFFICES ASSUME NEW i \in 1 .. n, NEW j \in 1 .. n, at[i] = at[j], i # j
                 PROVE  FALSE
      OBVIOUS
    <3>1. at[i] \in Int /\ at[j] \in Int /\ (i < j \/ j < i)
      BY <1>1, <1>6
    <3> QED  BY <1>3, <3>1
  <2>2. at \in Injection(1 .. n, keep)
    <3> HIDE DEF keep
    <3> QED  BY <1>3, <2>1 DEF Injection, IsInjective
  <2>3. Cardinality(1 .. n) = Cardinality(keep)
    <3>1. Cardinality(1 .. n) = n
      BY <1>1, FS_Interval
    <3> QED  BY <3>1 DEF n
  <2>4. at \in Surjection(1 .. n, keep)
    <3> HIDE DEF keep
    <3> QED  BY <1>1, <2>2, <2>3, FS_Injection
  <2> HIDE DEF keep
  <2> QED  BY <2>4 DEF Surjection
<1>10. Rises(at, Len(r))
  BY <1>3, <1>8 DEF Rises
<1>11. Keeps(s, p, r, at)
  BY <1>6, <1>7, <1>8, <1>9, <1>10 DEF Keeps
<1> QED
  BY <1>4, <1>11

-----------------------------------------------------------------------------
(* Who owns what, and where the focus is *)

Own(s, p) == {s[i].id : i \in {j \in 1 .. Len(s) : s[j].pid = p}}

IdsRise(s) == \A i, j \in 1 .. Len(s) : i < j => s[i].id < s[j].id

(* Only ids below next have been given out. *)
Issued(s, next) == \A i \in 1 .. Len(s) : 0 < s[i].id /\ s[i].id < next

Top(s) == IF s = <<>> THEN NoSurface ELSE s[Len(s)].id

(* SurfacesAgree, of given surfaces, states and lists of ids. *)
Agree(s, st, ids) ==
  /\ IdsRise(s)
  /\ \A p \in Procs :
       /\ st[p] = "running" => Own(s, p) = Range(ids[p]) /\ Increasing(ids[p])
       /\ st[p] = "gone" => Own(s, p) = {}

(* The frame's bar names the owner of its topmost window. *)
BarOK(frame) == frame.bar = IF frame.drawn = <<>> THEN None ELSE frame.drawn[Len(frame.drawn)]

(* The properties in these words. *)
LEMMA InOtherWords ==
  ASSUME surfaces \in Seq(Surface)
  PROVE  /\ SurfacesAgree <=> Agree(surfaces, state, mine)
         /\ BuffersFit <=> AllFit(surfaces)
         /\ BarNamesTop <=> focused = Top(surfaces) /\ BarOK(shown)
<1>1. Increasing([i \in 1 .. Len(surfaces) |-> surfaces[i].id]) <=> IdsRise(surfaces)
  <2> DEFINE ids == [i \in 1 .. Len(surfaces) |-> surfaces[i].id]
  <2>1. ids \in [1 .. Len(surfaces) -> Nat] /\ \A i \in 1 .. Len(surfaces) : ids[i] = surfaces[i].id
    BY SurfaceFields
  <2> HIDE DEF ids
  <2>2. Len(ids) = Len(surfaces)
    <3>1. Len(surfaces) \in Nat
      OBVIOUS
    <3> QED  BY <2>1, <3>1
  <2>3. Increasing(ids) <=> IdsRise(surfaces)
    BY <2>1, <2>2 DEF Increasing, IdsRise
  <2> QED  BY <2>3 DEF ids
<1>2. SurfacesAgree <=> Agree(surfaces, state, mine)
  BY <1>1, Zenon DEF SurfacesAgree, Agree, Own
<1>3. BuffersFit <=> AllFit(surfaces)
  BY Zenon DEF BuffersFit, AllFit, Fit
<1>4. BarNamesTop <=> focused = Top(surfaces) /\ BarOK(shown)
  BY Zenon DEF BarNamesTop, Top, BarOK
<1> QED
  BY <1>2, <1>3, <1>4

(* Moving and resizing changes none of it. *)
LEMMA SameOwners ==
  ASSUME NEW s \in Seq(Surface), NEW r, SameWindows(s, r)
  PROVE  /\ \A p : Own(r, p) = Own(s, p)
         /\ IdsRise(s) => IdsRise(r)
         /\ \A next : Issued(s, next) => Issued(r, next)
         /\ Top(r) = Top(s) /\ Ids(r) = Ids(s)
<1>1. /\ r \in Seq(Surface) /\ Len(r) = Len(s)
      /\ \A i \in 1 .. Len(s) : r[i].id = s[i].id /\ r[i].pid = s[i].pid
  BY DEF SameWindows
<1>2. \A p : Own(r, p) = Own(s, p)
  BY <1>1 DEF Own
<1>3. (IdsRise(s) => IdsRise(r)) /\ \A next : Issued(s, next) => Issued(r, next)
  BY <1>1 DEF IdsRise, Issued
<1>4. Top(r) = Top(s)
  BY <1>1 DEF Top
<1>5. Ids(r) = Ids(s)
  BY <1>1 DEF Ids
<1> QED
  BY <1>2, <1>3, <1>4, <1>5

(* The surfaces that agree go on agreeing when they are only moved. *)
LEMMA SameAgree ==
  ASSUME NEW s \in Seq(Surface), NEW r, SameWindows(s, r), NEW st, NEW ids, Agree(s, st, ids)
  PROVE  Agree(r, st, ids)
BY SameOwners, Zenon DEF Agree

(* A new surface is its owner's, and on top. *)
LEMMA AppendOwners ==
  ASSUME NEW s \in Seq(Surface), NEW new \in Surface, NEW next \in Nat \ {0},
         new.id = next, Issued(s, next), IdsRise(s)
  PROVE  LET r == Append(s, new)
         IN /\ r \in Seq(Surface) /\ IdsRise(r) /\ Issued(r, next + 1) /\ Top(r) = next
            /\ Own(r, new.pid) = Own(s, new.pid) \cup {next}
            /\ \A p : p # new.pid => Own(r, p) = Own(s, p)
            /\ AllFit(s) /\ Fit(new) => AllFit(r)
<1> DEFINE r == Append(s, new)
           n == Len(s)
<1>1. /\ r \in Seq(Surface) /\ n \in Nat /\ Len(r) = n + 1 /\ r # <<>>
      /\ r[n + 1] = new /\ \A i \in 1 .. n : r[i] = s[i]
  OBVIOUS
<1>2. \A i \in 1 .. n : s[i].id \in Nat
  BY SurfaceFields
<1> HIDE DEF r, n
<1>3. \A i \in 1 .. n + 1 : i \in 1 .. n \/ i = n + 1
  BY <1>1
<1>4. \A i \in 1 .. n : 0 < s[i].id /\ s[i].id < next
  BY DEF Issued, n
<1>5. Issued(r, next + 1)
  BY <1>1, <1>2, <1>3, <1>4 DEF Issued
<1>6. IdsRise(r)
  <2> SUFFICES ASSUME NEW i \in 1 .. n + 1, NEW j \in 1 .. n + 1, i < j
               PROVE  r[i].id < r[j].id
    BY <1>1, Zenon DEF IdsRise
  <2>1. i \in 1 .. n
    BY <1>1
  <2>2. CASE j \in 1 .. n
    BY <1>1, <2>1, <2>2 DEF IdsRise, n
  <2>3. CASE j = n + 1
    BY <1>1, <1>4, <2>1, <2>3
  <2> QED  BY <1>3, <2>2, <2>3
<1>7. Own(r, new.pid) = Own(s, new.pid) \cup {next}
  BY <1>1, <1>3 DEF Own, n
<1>8. \A p : p # new.pid => Own(r, p) = Own(s, p)
  BY <1>1, <1>3 DEF Own, n
<1>9. AllFit(s) /\ Fit(new) => AllFit(r)
  BY <1>1, <1>3 DEF AllFit, n
<1>10. Top(r) = next
  BY <1>1 DEF Top
<1> QED
  BY <1>1, <1>5, <1>6, <1>7, <1>8, <1>9, <1>10 DEF r

(* retain takes p's surfaces away, and nobody else's. *)
LEMMA RetainOwners ==
  ASSUME NEW s \in Seq(Surface), NEW p, IdsRise(s)
  PROVE  LET r == Retain(s, p)
         IN /\ r \in Seq(Surface) /\ IdsRise(r)
            /\ \A next : Issued(s, next) => Issued(r, next)
            /\ Own(r, p) = {}
            /\ \A q : q # p => Own(r, q) = Own(s, q)
            /\ AllFit(s) => AllFit(r)
<1> DEFINE r == Retain(s, p)
<1>1. PICK at : Keeps(s, p, r, at)
  BY RetainIs
<1> HIDE DEF r
<1>2. /\ r \in Seq(Surface)
      /\ \A i \in 1 .. Len(r) : at[i] \in 1 .. Len(s) /\ s[at[i]].pid # p /\ r[i] = s[at[i]]
      /\ \A i, j \in 1 .. Len(r) : i < j => at[i] < at[j]
      /\ \A k \in 1 .. Len(s) : s[k].pid # p => \E i \in 1 .. Len(r) : at[i] = k
  BY <1>1 DEF Keeps, Rises
<1>3. IdsRise(r)
  BY <1>2 DEF IdsRise
<1>4. \A next : Issued(s, next) => Issued(r, next)
  BY <1>2 DEF Issued
<1>5. Own(r, p) = {}
  BY <1>2 DEF Own
<1>6. ASSUME NEW q, q # p
      PROVE  Own(r, q) = Own(s, q)
  <2>1. Own(r, q) \subseteq Own(s, q)
    BY <1>2 DEF Own
  <2>2. ASSUME NEW k \in 1 .. Len(s), s[k].pid = q
        PROVE  \E i \in 1 .. Len(r) : r[i].pid = q /\ r[i].id = s[k].id
    <3>1. PICK i \in 1 .. Len(r) : at[i] = k
      BY <1>2, <1>6, <2>2
    <3> QED  BY <1>2, <2>2, <3>1
  <2>3. Own(s, q) \subseteq Own(r, q)
    BY <2>2 DEF Own
  <2> QED  BY <2>1, <2>3
<1>7. AllFit(s) => AllFit(r)
  BY <1>2 DEF AllFit
<1> QED
  BY <1>2, <1>3, <1>4, <1>5, <1>6, <1>7 DEF r

(* When the focus was on top, what remove_surfaces_for does leaves it there. *)
LEMMA RetainTop ==
  ASSUME NEW s \in Seq(Surface), NEW p, NEW next, IdsRise(s), Issued(s, next), focused = Top(s)
  PROVE  LET r == Retain(s, p)
         IN Top(r) = IF focused = NoSurface \/ focused \in Ids(r) THEN focused
                     ELSE IF r = <<>> THEN NoSurface ELSE r[Len(r)].id
<1> DEFINE r == Retain(s, p)
           n == Len(s)
<1>1. PICK at : Keeps(s, p, r, at)
  BY RetainIs
<1> HIDE DEF r
<1>2. /\ r \in Seq(Surface)
      /\ \A i \in 1 .. Len(r) : at[i] \in 1 .. n /\ r[i] = s[at[i]]
      /\ \A i, j \in 1 .. Len(r) : i < j => at[i] < at[j]
  BY <1>1 DEF Keeps, Rises
<1>3. CASE s = <<>>
  <2>1. focused = NoSurface /\ n = 0
    BY <1>3 DEF Top
  <2>2. Len(r) \in Nat /\ ~(1 \in 1 .. Len(r))
    BY <1>2, <2>1
  <2>3. r = <<>>
    BY <1>2, <2>2
  <2> QED  BY <2>1, <2>3 DEF Top, r
<1>4. CASE s # <<>>
  <2>1. n \in 1 .. n /\ focused = s[n].id /\ focused # NoSurface
    BY <1>4 DEF Top, Issued, NoSurface
  <2>2. ASSUME focused \in Ids(r)
        PROVE  Top(r) = focused
    <3>1. PICK i \in 1 .. Len(r) : r[i].id = focused
      BY <2>2 DEF Ids
    <3>2. at[i] \in 1 .. n /\ s[at[i]].id = s[n].id
      BY <1>2, <2>1, <3>1
    <3>3. s[at[i]].id \in Nat /\ s[n].id \in Nat
      BY <2>1, <3>2, SurfaceFields
    <3>4. at[i] = n
      BY <2>1, <3>2, <3>3 DEF IdsRise
    <3>5. i = Len(r)
      <4>1. Len(r) \in 1 .. Len(r)
        BY <1>2, <3>1
      <4>2. at[Len(r)] \in 1 .. n
        BY <1>2, <4>1
      <4>3. ~(i < Len(r))
        BY <1>2, <3>4, <4>1, <4>2
      <4> QED  BY <1>2, <3>1, <4>3
    <3>6. r # <<>>
      BY <1>2, <3>1
    <3> QED  BY <3>1, <3>5, <3>6 DEF Top
  <2> QED  BY <2>1, <2>2 DEF Top, r
<1> QED
  BY <1>3, <1>4

(* The frame that present draws: the bar names the owner of its topmost
   window. *)
LEMMA FrameNamesTop ==
  ASSUME NEW s \in Seq(Surface), NEW next, IdsRise(s), Issued(s, next), focused = Top(s)
  PROVE  BarOK(Frame(s))
<1> DEFINE n == Len(s)
           drawn == [i \in 1 .. n |-> s[i].pid]
           bar == IF focused \in Ids(s) THEN s[CHOOSE i \in 1 .. n : s[i].id = focused].pid ELSE None
<1>1. Frame(s).drawn = drawn /\ Frame(s).bar = bar
  BY DEF Frame
<1>2. drawn \in [1 .. n -> Procs] /\ n \in Nat /\ \A i \in 1 .. n : drawn[i] = s[i].pid
  BY SurfaceFields
<1>3. drawn \in Seq(Procs) /\ Len(drawn) = n
  <2> HIDE DEF drawn, n
  <2> QED  BY <1>2
<1>4. CASE s = <<>>
  <2>1. n = 0 /\ focused \notin Ids(s)
    BY <1>4 DEF Ids
  <2>2. drawn = <<>>
    <3> HIDE DEF drawn, n
    <3> QED  BY <1>3, <2>1
  <2> HIDE DEF drawn
  <2> QED  BY <1>1, <2>1, <2>2 DEF BarOK
<1>5. CASE s # <<>>
  <2>1. n \in 1 .. n /\ focused = s[n].id
    BY <1>5 DEF Top
  <2>2. focused \in Ids(s)
    BY <2>1 DEF Ids
  <2>3. \A i \in 1 .. n : s[i].id = focused => i = n
    <3> TAKE i \in 1 .. n
    <3>1. s[i].id \in Nat /\ s[n].id \in Nat
      BY <2>1, SurfaceFields
    <3> QED  BY <2>1, <3>1 DEF IdsRise
  <2>4. (CHOOSE i \in 1 .. n : s[i].id = focused) = n
    BY <2>1, <2>3
  <2>5. bar = s[n].pid
    <3> HIDE DEF n
    <3> QED  BY <2>2, <2>4, Zenon
  <2>6. drawn # <<>> /\ drawn[Len(drawn)] = s[n].pid
    <3> HIDE DEF drawn
    <3> QED  BY <1>2, <1>3, <2>1
  <2> HIDE DEF drawn, bar
  <2> QED  BY <1>1, <2>5, <2>6 DEF BarOK
<1> QED
  BY <1>4, <1>5

-----------------------------------------------------------------------------
(* The inductive invariant *)

Sized(f) == \A id \in DOMAIN f : f[id] \in Int \X Int

Types ==
  /\ framebuffer \in Screens
  /\ surfaces \in Seq(Surface)
  /\ nextId \in Nat \ {0}
  /\ state \in [Procs -> {"running", "exited", "gone"}]
  /\ mine \in [Procs -> Seq(Nat)]
  /\ DOMAIN knows = Procs /\ \A p \in Procs : Sized(knows[p])

(* Every id a surface or a program has was given out. *)
IdsIssued ==
  /\ Issued(surfaces, nextId)
  /\ \A p \in Procs : \A i \in 1 .. Len(mine[p]) : mine[p][i] < nextId

IInv ==
  /\ Types /\ IdsIssued
  /\ Agree(surfaces, state, mine) /\ AllFit(surfaces)
  /\ focused = Top(surfaces) /\ BarOK(shown)
  /\ InputInv

(* The sizes of a screen are numbers. *)
LEMMA ScreenSizes == framebuffer \in Screens => framebuffer \in Nat \X Nat
BY DesktopAssumption

(* The invariant holds at the start. *)
LEMMA InitIInv == Init => IInv
<1> SUFFICES ASSUME Init
             PROVE  IInv
  OBVIOUS
<1>1. /\ framebuffer \in Screens /\ surfaces = <<>> /\ nextId = 1 /\ focused = NoSurface
      /\ shown = [drawn |-> <<>>, bar |-> None]
      /\ state = [p \in Procs |-> IF p \in budget.procs THEN "running" ELSE "gone"]
      /\ mine = [p \in Procs |-> <<>>]
      /\ knows = [p \in Procs |-> [i \in {} |-> 0]]
  BY DEF Init
<1>2. surfaces \in Seq(Surface) /\ Len(surfaces) = 0
  BY <1>1
<1>3. \A p \in Procs : mine[p] = <<>> /\ Len(mine[p]) = 0 /\ Range(mine[p]) = {}
  BY <1>1 DEF Range
<1>4. Types
  BY <1>1, <1>2 DEF Types, Sized
<1>5. IdsIssued
  BY <1>2, <1>3 DEF IdsIssued, Issued
<1>6. Agree(surfaces, state, mine)
  <2>1. IdsRise(surfaces) /\ \A p : Own(surfaces, p) = {}
    BY <1>2 DEF IdsRise, Own
  <2>2. \A p \in Procs : Increasing(mine[p])
    BY <1>3 DEF Increasing
  <2> QED  BY <1>3, <2>1, <2>2, Zenon DEF Agree
<1>7. AllFit(surfaces) /\ focused = Top(surfaces) /\ BarOK(shown)
  BY <1>1, <1>2 DEF AllFit, Top, BarOK
<1>8. InputInv
  BY InputInitInv DEF Init
<1> QED
  BY <1>4, <1>5, <1>6, <1>7, <1>8 DEF IInv

(* Steps that leave the surfaces, their owners and the frame alone. *)
LEMMA QuietSteps ==
  ASSUME IInv, InputInv',
         UNCHANGED <<framebuffer, surfaces, nextId, focused, shown, state, mine, knows>>
  PROVE  IInv'
BY DEF IInv, Types, IdsIssued, Sized, Issued, Agree, AllFit, Fit, BarOK

(* What a step that leaves the input alone keeps of it. *)
LEMMA InputUntouched ==
  ASSUME IInv, UNCHANGED <<ring, head, len, dropped, previous, pushed, taken, heard, lost>>
  PROVE  InputInv'
BY InputQuiet DEF IInv, queueVars

(* The step leaves all of Input's variables as they are. *)
LEMMA InputIdle ==
  ASSUME UNCHANGED inputVars
  PROVE  UNCHANGED <<ring, head, len, dropped, previous, pushed, taken, heard, lost>>
BY DEF inputVars

(* surface_info. *)
LEMMA InfoKeeps ==
  ASSUME IInv, NEW p \in Procs, NEW id, SurfaceInfo(p, id)
  PROVE  IInv'
<1>1. /\ UNCHANGED <<framebuffer, surfaces, nextId, focused, shown, state, mine>>
      /\ UNCHANGED inputVars /\ Owns(p, id)
      /\ knows' = [knows EXCEPT ![p] = [i \in DOMAIN @ \union {id} |->
                     IF i = id THEN <<surfaces[At(id)].w, surfaces[At(id)].h>> ELSE @[i]]]
  BY DEF SurfaceInfo
<1>2. Types
  BY DEF IInv
<1>3. At(id) \in 1 .. Len(surfaces)
  BY <1>1 DEF Owns, At
<1> DEFINE size == <<surfaces[At(id)].w, surfaces[At(id)].h>>
           f == [i \in DOMAIN knows[p] \union {id} |-> IF i = id THEN size ELSE knows[p][i]]
<1>4. size \in Int \X Int
  <2>1. surfaces[At(id)].w \in Int /\ surfaces[At(id)].h \in Int
    BY <1>2, <1>3, SurfaceFields DEF Types
  <2> QED  BY <2>1
<1> HIDE DEF size
<1>5. Sized(f)
  BY <1>2, <1>4 DEF Types, Sized
<1>6. knows' = [knows EXCEPT ![p] = f]
  BY <1>1, Zenon DEF size
<1> HIDE DEF f
<1>7. DOMAIN knows' = Procs /\ \A q \in Procs : Sized(knows'[q])
  <2>1. DOMAIN knows = Procs
    BY <1>2 DEF Types
  <2>2. DOMAIN knows' = Procs
    BY <1>6, <2>1
  <2>3. knows'[p] = f /\ \A q \in Procs : q # p => knows'[q] = knows[q]
    BY <1>6, <2>1
  <2>4. \A q \in Procs : Sized(knows[q])
    BY <1>2 DEF Types
  <2> QED  BY <1>5, <2>2, <2>3, <2>4, Zenon
<1>8. Types'
  BY <1>1, <1>2, <1>7 DEF Types
<1>9. InputInv'
  BY <1>1, InputIdle, InputUntouched
<1> QED
  BY <1>1, <1>8, <1>9 DEF IInv, IdsIssued, Issued, Agree, AllFit, Fit, BarOK

(* The end of a program: what it had is no longer its own to know. *)
LEMMA ExitKeeps ==
  ASSUME IInv, NEW p \in Procs, SetExited(p)
  PROVE  IInv'
<1>1. /\ UNCHANGED <<framebuffer, surfaces, nextId, focused, shown>> /\ UNCHANGED inputVars
      /\ state' = [state EXCEPT ![p] = "exited"]
      /\ mine' = [mine EXCEPT ![p] = <<>>]
      /\ knows' = [knows EXCEPT ![p] = [i \in {} |-> 0]]
  BY DEF SetExited
<1>2. Types /\ IdsIssued /\ Agree(surfaces, state, mine)
  BY DEF IInv
<1>3. /\ state' \in [Procs -> {"running", "exited", "gone"}] /\ mine' \in [Procs -> Seq(Nat)]
      /\ state'[p] = "exited" /\ mine'[p] = <<>> /\ Len(mine'[p]) = 0
      /\ \A q \in Procs : q # p => state'[q] = state[q] /\ mine'[q] = mine[q]
  BY <1>1, <1>2 DEF Types
<1>4. DOMAIN knows' = Procs /\ \A q \in Procs : Sized(knows'[q])
  <2> DEFINE f == [i \in {} |-> 0]
  <2>1. DOMAIN knows = Procs
    BY <1>2 DEF Types
  <2>2. Sized(f)
    BY DEF Sized
  <2>3. DOMAIN knows' = Procs
    BY <1>1, <2>1
  <2>4. knows'[p] = f /\ \A q \in Procs : q # p => knows'[q] = knows[q]
    BY <1>1, <2>1
  <2>5. \A q \in Procs : Sized(knows[q])
    BY <1>2 DEF Types
  <2> HIDE DEF f
  <2> QED  BY <2>2, <2>3, <2>4, <2>5, Zenon
<1>5. Types'
  BY <1>1, <1>2, <1>3, <1>4 DEF Types
<1>6. IdsIssued'
  <2>1. Issued(surfaces, nextId)'
    BY <1>1, <1>2 DEF IdsIssued, Issued
  <2>2. \A q \in Procs : \A i \in 1 .. Len(mine'[q]) : mine'[q][i] < nextId'
    BY <1>1, <1>2, <1>3 DEF IdsIssued
  <2> QED  BY <2>1, <2>2 DEF IdsIssued
<1>7. Agree(surfaces', state', mine')
  <2>1. IdsRise(surfaces')
    BY <1>1, <1>2 DEF Agree
  <2>2. "exited" # "running" /\ "exited" # "gone"
    OBVIOUS
  <2> QED  BY <1>1, <1>2, <1>3, <2>1, <2>2, Zenon DEF Agree
<1>8. InputInv'
  BY <1>1, InputIdle, InputUntouched
<1> QED
  BY <1>1, <1>5, <1>6, <1>7, <1>8 DEF IInv, AllFit, Fit, BarOK

(* A step that redraws, moves or resizes the surfaces there are. *)
LEMMA RedrawKeeps ==
  ASSUME IInv, InputInv', SameWindows(surfaces, surfaces'), AllFit(surfaces'), BarOK(shown'),
         UNCHANGED <<framebuffer, nextId, focused, state, mine, knows>>
  PROVE  IInv'
<1>1. Types /\ IdsIssued /\ Agree(surfaces, state, mine) /\ focused = Top(surfaces)
  BY DEF IInv
<1>2. surfaces \in Seq(Surface) /\ surfaces' \in Seq(Surface)
  BY <1>1 DEF Types, SameWindows
<1>3. Types'
  BY <1>1, <1>2 DEF Types, Sized
<1>4. Issued(surfaces', nextId) /\ Top(surfaces') = Top(surfaces)
  BY <1>1, <1>2, SameOwners DEF IdsIssued
<1>5. IdsIssued'
  BY <1>1, <1>4 DEF IdsIssued
<1>6. Agree(surfaces', state', mine')
  BY <1>1, <1>2, SameAgree
<1> QED
  BY <1>1, <1>3, <1>4, <1>5, <1>6 DEF IInv

(* r has the surfaces of s, where and as large as they were. *)
SameShapes(s, r) ==
  /\ Len(r) = Len(s)
  /\ \A i \in 1 .. Len(s) :
       /\ r[i].mode = s[i].mode
       /\ r[i].x = s[i].x /\ r[i].y = s[i].y /\ r[i].w = s[i].w /\ r[i].h = s[i].h

(* Drawing in a buffer changes what is in it. *)
LEMMA DrawnIs ==
  ASSUME surfaces \in Seq(Surface), NEW p, NEW id, Owns(p, id), NEW what \in Picture
  PROVE  /\ SameWindows(surfaces, Drawn(id, what)) /\ SameShapes(surfaces, Drawn(id, what))
         /\ /\ AllFit(surfaces)
            /\ what.part = "all" => what.size[1] * what.size[2] = surfaces[At(id)].length
            => AllFit(Drawn(id, what))
<1> DEFINE a == At(id)
           e == surfaces[a]
           f == [e EXCEPT !.drawn = what]
           r == Drawn(id, what)
<1>1. a \in 1 .. Len(surfaces)
  BY DEF Owns, At
<1>2. e \in Surface
  BY <1>1, SurfaceFields
<1>3. r = [surfaces EXCEPT ![a] = f]
  BY Zenon DEF Drawn
<1> HIDE DEF e, a
<1>4. /\ f \in Surface /\ f.id = e.id /\ f.pid = e.pid /\ f.mode = e.mode
      /\ f.x = e.x /\ f.y = e.y /\ f.w = e.w /\ f.h = e.h /\ f.length = e.length
      /\ f.drawn = what
  BY <1>2 DEF Surface
<1>5. Fit(e) /\ (what.part = "all" => what.size[1] * what.size[2] = e.length) => Fit(f)
  BY <1>4 DEF Fit
<1> HIDE DEF f, r
<1>6. /\ r \in Seq(Surface) /\ Len(r) = Len(surfaces) /\ r[a] = f
      /\ \A i \in 1 .. Len(surfaces) : i # a => r[i] = surfaces[i]
  BY <1>1, <1>3, <1>4
<1>7. SameWindows(surfaces, r) /\ SameShapes(surfaces, r)
  BY <1>4, <1>6 DEF SameWindows, SameShapes, e
<1>8. AllFit(surfaces) /\ (what.part = "all" => what.size[1] * what.size[2] = e.length) => AllFit(r)
  BY <1>1, <1>5, <1>6 DEF AllFit, e
<1> QED
  BY <1>7, <1>8 DEF r, e, a

(* SameWindows is transitive. *)
LEMMA SameTwice ==
  ASSUME NEW s, NEW r, NEW t, SameWindows(s, r), SameWindows(r, t)
  PROVE  SameWindows(s, t)
BY DEF SameWindows

(* present, of surfaces that are those there are but for a drawing. *)
LEMMA PresentKeeps ==
  ASSUME IInv, NEW s, SameWindows(surfaces, s), AllFit(s), Present(s)
  PROVE  SameWindows(surfaces, surfaces') /\ AllFit(surfaces') /\ BarOK(shown')
<1>1. /\ Types /\ IdsRise(surfaces) /\ Issued(surfaces, nextId)
      /\ focused = Top(surfaces) /\ BarOK(shown)
  BY DEF IInv, IdsIssued, Agree
<1>2. framebuffer \in Nat \X Nat /\ surfaces \in Seq(Surface) /\ s \in Seq(Surface)
  BY <1>1, ScreenSizes DEF Types, SameWindows
<1>3. IdsRise(s) /\ Issued(s, nextId) /\ Top(s) = Top(surfaces)
  BY <1>1, <1>2, SameOwners
<1>4. BarOK(Frame(s))
  BY <1>1, <1>2, <1>3, FrameNamesTop
<1>5. shown' = shown \/ shown' = Frame(s)
  BY DEF Present
<1>6. BarOK(shown')
  BY <1>1, <1>4, <1>5
<1>7. SameWindows(s, surfaces') /\ AllFit(surfaces')
  <2>1. CASE toggle
    <3>1. PICK mode : Arrange(s, mode)
      BY <2>1 DEF Present
    <3> QED  BY <1>2, <3>1, ArrangeKeeps
  <2>2. CASE ~toggle
    <3>1. surfaces' = s
      BY <2>2 DEF Present
    <3> QED  BY <1>2, <3>1 DEF SameWindows
  <2> QED  BY <2>1, <2>2
<1>8. SameWindows(surfaces, surfaces')
  BY <1>7, SameTwice
<1> QED
  BY <1>6, <1>7, <1>8

(* surface_commit. *)
LEMMA CommitKeeps ==
  ASSUME IInv, NEW p \in Procs, NEW id, NEW presents, SurfaceCommit(p, id, presents)
  PROVE  IInv'
<1> DEFINE size == knows[p][id]
           what == Whole(size)
           s == Drawn(id, what)
<1>1. /\ Owns(p, id) /\ id \in DOMAIN knows[p]
      /\ size[1] * size[2] = surfaces[At(id)].length
      /\ IF presents THEN Present(s)
         ELSE surfaces' = s /\ UNCHANGED <<toggle, layout, machine, shown>>
      /\ UNCHANGED <<ring, head, len, dropped, previous, pushed, taken, heard, lost>>
      /\ UNCHANGED <<framebuffer, nextId, focused, state, mine, knows>>
  BY DEF SurfaceCommit
<1>2. Types /\ AllFit(surfaces) /\ BarOK(shown)
  BY DEF IInv
<1>3. size \in Int \X Int
  BY <1>1, <1>2 DEF Types, Sized
<1> HIDE DEF size
<1>4. what \in Picture /\ what.size = size
  BY <1>3 DEF Whole, Picture
<1>5. SameWindows(surfaces, s) /\ AllFit(s)
  <2>1. what.part = "all" => what.size[1] * what.size[2] = surfaces[At(id)].length
    BY <1>1, <1>4
  <2> HIDE DEF what
  <2> QED  BY <1>1, <1>2, <1>4, <2>1, DrawnIs DEF Types
<1> HIDE DEF s
<1>6. SameWindows(surfaces, surfaces') /\ AllFit(surfaces') /\ BarOK(shown')
  <2>1. CASE presents
    BY <1>1, <1>5, <2>1, PresentKeeps
  <2>2. CASE ~presents
    BY <1>1, <1>2, <1>5, <2>2
  <2> QED  BY <2>1, <2>2
<1>7. InputInv'
  BY <1>1, InputUntouched
<1> QED
  BY <1>1, <1>6, <1>7, RedrawKeeps

(* surface_commit of a buffer that ends too early. *)
LEMMA CommitFailsKeeps ==
  ASSUME IInv, NEW p \in Procs, NEW id, SurfaceCommitFails(p, id)
  PROVE  IInv'
<1>1. /\ Owns(p, id) /\ surfaces' = Drawn(id, Torn) /\ UNCHANGED inputVars
      /\ UNCHANGED <<framebuffer, nextId, focused, shown, state, mine, knows>>
  BY DEF SurfaceCommitFails
<1>2. Types /\ AllFit(surfaces) /\ BarOK(shown)
  BY DEF IInv
<1>3. Torn \in Picture /\ Torn.part # "all"
  BY DEF Torn, Picture
<1>4. SameWindows(surfaces, surfaces') /\ AllFit(surfaces')
  BY <1>1, <1>2, <1>3, DrawnIs DEF Types
<1>5. InputInv'
  BY <1>1, InputIdle, InputUntouched
<1>6. BarOK(shown')
  BY <1>1, <1>2
<1> QED
  BY <1>1, <1>4, <1>5, <1>6, RedrawKeeps

(* A new surface: within the content, with a buffer that fits. *)
LEMMA NewSurfaceIs ==
  ASSUME framebuffer \in Nat \X Nat, surfaces \in Seq(Surface), nextId \in Nat,
         NEW p \in Procs, NEW request \in Nat \X Nat
  PROVE  LET new == NewSurface(p, request)
         IN /\ new \in Surface /\ new.id = nextId /\ new.pid = p /\ Fit(new)
            /\ new.y >= TRUST_BAR_HEIGHT /\ new.x + new.w <= framebuffer[1]
            /\ new.h > 0 => new.y + new.h <= framebuffer[2]
<1> DEFINE full == p \in Exclusive
           w == IF full THEN Content.w ELSE Smaller(request[1], Content.w)
           h == IF full THEN Content.h ELSE Smaller(request[2], Content.h)
           n == Len(surfaces)
           x == IF full THEN Content.x ELSE Smaller(Content.x + 40 + n * 30, Content.x + Content.w - w)
           y == IF full THEN Content.y ELSE Smaller(Content.y + 30 + n * 26, Content.y + Monus(Content.h, h))
           mode == IF full THEN "Fullscreen" ELSE "Windowed"
           l == w * h
           new == NewSurface(p, request)
<1>1. new = [id |-> nextId, pid |-> p, mode |-> mode, x |-> x, y |-> y, w |-> w, h |-> h,
             length |-> l, drawn |-> Blank]
  BY Zenon DEF NewSurface
<1>2. /\ Content.x = 0 /\ Content.y = 20 /\ TRUST_BAR_HEIGHT = 20
      /\ Content.w = framebuffer[1] /\ Content.w \in Nat
      /\ Content.h = Monus(framebuffer[2], 20) /\ Content.h \in Nat
      /\ framebuffer[1] \in Nat /\ framebuffer[2] \in Nat
  BY WholeAreaIs DEF TRUST_BAR_HEIGHT
<1>3. request[1] \in Nat /\ request[2] \in Nat /\ n \in Nat
  OBVIOUS
<1>4. w \in Nat /\ w <= Content.w /\ h \in Nat /\ h <= Content.h
  BY <1>2, <1>3 DEF Smaller
<1> HIDE DEF w, h, n
<1>5. x \in Int /\ x + w <= Content.w
  <2>1. CASE full
    BY <1>2, <1>4, <2>1 DEF w
  <2>2. CASE ~full
    BY <1>2, <1>3, <1>4, <2>2 DEF Smaller
  <2> QED  BY <2>1, <2>2
<1>6. y \in Int /\ y >= 20 /\ y + h <= 20 + Content.h
  <2>1. CASE full
    <3>1. y = 20 /\ h = Content.h
      BY <1>2, <2>1 DEF h
    <3> QED  BY <1>2, <3>1
  <2>2. CASE ~full
    <3>1. Monus(Content.h, h) = Content.h - h
      BY <1>2, <1>4 DEF Monus
    <3> DEFINE k == 20 + 30 + n * 26
               c == Content.h
    <3>2. y = Smaller(k, 20 + (c - h))
      BY <1>2, <2>2, <3>1
    <3>3. k \in Nat /\ k >= 20 /\ c \in Nat /\ h \in Nat /\ h <= c
      BY <1>2, <1>3, <1>4
    <3> HIDE DEF y, k, c
    <3>4. y \in Int /\ y >= 20 /\ y <= 20 + (c - h)
      BY <3>2, <3>3 DEF Smaller
    <3>5. y + h <= 20 + c
      BY <3>3, <3>4
    <3> QED  BY <3>4, <3>5 DEF c
  <2> QED  BY <2>1, <2>2
<1>7. h > 0 => y + h <= framebuffer[2]
  <2> HIDE DEF y
  <2> QED  BY <1>2, <1>4, <1>6 DEF Monus
<1>8. mode \in Mode /\ l \in Int /\ Blank \in Picture /\ Blank.part # "all"
  BY <1>4 DEF Mode, Blank, Picture
<1> HIDE DEF x, y, mode, l, new
<1>9. /\ new \in Surface /\ new.id = nextId /\ new.pid = p
      /\ new.x = x /\ new.y = y /\ new.w = w /\ new.h = h /\ new.length = l /\ new.drawn = Blank
  BY <1>1, <1>4, <1>5, <1>6, <1>8 DEF Surface
<1>10. Fit(new)
  BY <1>8, <1>9 DEF Fit, l
<1> QED
  BY <1>2, <1>5, <1>6, <1>7, <1>9, <1>10 DEF new

(* A list of ids, and one larger than all of them. *)
LEMMA IdsAppend ==
  ASSUME NEW ids \in Seq(Nat), NEW n \in Nat, \A i \in 1 .. Len(ids) : ids[i] < n
  PROVE  /\ Append(ids, n) \in Seq(Nat) /\ Range(Append(ids, n)) = Range(ids) \cup {n}
         /\ \A i \in 1 .. Len(Append(ids, n)) : Append(ids, n)[i] < n + 1
         /\ Increasing(ids) => Increasing(Append(ids, n))
<1> DEFINE r == Append(ids, n)
           m == Len(ids)
<1>1. /\ r \in Seq(Nat) /\ m \in Nat /\ Len(r) = m + 1
      /\ r[m + 1] = n /\ \A i \in 1 .. m : r[i] = ids[i] /\ ids[i] \in Nat
      /\ DOMAIN r = 1 .. m + 1 /\ DOMAIN ids = 1 .. m
  OBVIOUS
<1>2. \A i \in 1 .. m : ids[i] < n
  OBVIOUS
<1> HIDE DEF r, m
<1>3. \A i \in 1 .. m + 1 : i \in 1 .. m \/ i = m + 1
  BY <1>1
<1>4. Range(r) = Range(ids) \cup {n}
  BY <1>1, <1>3 DEF Range
<1>5. \A i \in 1 .. m + 1 : r[i] < n + 1
  BY <1>1, <1>2, <1>3
<1>6. ASSUME Increasing(ids)
      PROVE  Increasing(r)
  <2> SUFFICES ASSUME NEW i \in 1 .. m + 1, NEW j \in 1 .. m + 1, i < j
               PROVE  r[i] < r[j]
    BY <1>1, Zenon DEF Increasing
  <2>1. i \in 1 .. m
    BY <1>1
  <2>2. CASE j \in 1 .. m
    BY <1>1, <1>6, <2>1, <2>2 DEF Increasing, m
  <2>3. CASE j = m + 1
    BY <1>1, <1>2, <2>1, <2>3
  <2> QED  BY <1>3, <2>2, <2>3
<1> QED
  BY <1>1, <1>4, <1>5, <1>6 DEF r

(* surface_create. *)
LEMMA CreateKeeps ==
  ASSUME IInv, NEW p \in Procs, NEW request \in Requests, SurfaceCreate(p, request)
  PROVE  IInv'
<1> DEFINE new == NewSurface(p, request)
           s == Append(surfaces, new)
<1>1. /\ state[p] = "running" /\ Arrange(s, layout) /\ focused' = nextId /\ nextId' = nextId + 1
      /\ mine' = [mine EXCEPT ![p] = Append(mine[p], nextId)]
      /\ UNCHANGED inputVars /\ UNCHANGED <<framebuffer, shown, state, knows>>
  BY DEF SurfaceCreate, Calls
<1>2. /\ Types /\ IdsIssued /\ Agree(surfaces, state, mine) /\ AllFit(surfaces)
      /\ BarOK(shown)
  BY DEF IInv
<1>3. /\ framebuffer \in Nat \X Nat /\ surfaces \in Seq(Surface) /\ nextId \in Nat \ {0}
      /\ IdsRise(surfaces) /\ Issued(surfaces, nextId) /\ request \in Nat \X Nat
      /\ mine \in [Procs -> Seq(Nat)]
  BY <1>2, ScreenSizes, DesktopAssumption DEF Types, Agree, IdsIssued
<1>4. new \in Surface /\ new.id = nextId /\ new.pid = p /\ Fit(new)
  BY <1>3, NewSurfaceIs
<1> HIDE DEF new
<1>5. /\ s \in Seq(Surface) /\ IdsRise(s) /\ Issued(s, nextId + 1) /\ Top(s) = nextId
      /\ Own(s, p) = Own(surfaces, p) \cup {nextId}
      /\ \A q : q # p => Own(s, q) = Own(surfaces, q)
      /\ AllFit(s)
  <2>1. /\ s \in Seq(Surface) /\ IdsRise(s) /\ Issued(s, nextId + 1) /\ Top(s) = nextId
        /\ Own(s, new.pid) = Own(surfaces, new.pid) \cup {nextId}
        /\ \A q : q # new.pid => Own(s, q) = Own(surfaces, q)
        /\ AllFit(surfaces) /\ Fit(new) => AllFit(s)
    BY <1>3, <1>4, AppendOwners, Zenon
  <2> HIDE DEF s
  <2> QED  BY <1>2, <1>4, <2>1
<1> HIDE DEF s
<1>6. SameWindows(s, surfaces') /\ AllFit(surfaces')
  BY <1>1, <1>3, <1>5, ArrangeKeeps
<1>7. /\ IdsRise(surfaces') /\ Issued(surfaces', nextId + 1) /\ Top(surfaces') = nextId
      /\ surfaces' \in Seq(Surface) /\ \A q : Own(surfaces', q) = Own(s, q)
  BY <1>5, <1>6, SameOwners DEF SameWindows
<1>8. /\ Append(mine[p], nextId) \in Seq(Nat)
      /\ Range(Append(mine[p], nextId)) = Range(mine[p]) \cup {nextId}
      /\ \A i \in 1 .. Len(Append(mine[p], nextId)) : Append(mine[p], nextId)[i] < nextId + 1
      /\ Increasing(mine[p]) => Increasing(Append(mine[p], nextId))
  <2>1. mine[p] \in Seq(Nat) /\ \A i \in 1 .. Len(mine[p]) : mine[p][i] < nextId
    BY <1>2, <1>3 DEF IdsIssued
  <2> QED  BY <1>3, <2>1, IdsAppend
<1> DEFINE ids == Append(mine[p], nextId)
<1>9. mine' = [mine EXCEPT ![p] = ids]
  BY <1>1
<1> HIDE DEF ids
<1>10. /\ mine' \in [Procs -> Seq(Nat)] /\ mine'[p] = ids
       /\ \A q \in Procs : q # p => mine'[q] = mine[q]
  BY <1>3, <1>8, <1>9 DEF ids
<1>11. Types'
  BY <1>1, <1>2, <1>3, <1>7, <1>10 DEF Types, Sized
<1>12. IdsIssued'
  <2>1. \A q \in Procs : \A i \in 1 .. Len(mine'[q]) : mine'[q][i] < nextId + 1
    <3> SUFFICES ASSUME NEW q \in Procs, NEW i \in 1 .. Len(mine'[q])
                 PROVE  mine'[q][i] < nextId + 1
      OBVIOUS
    <3>1. CASE q = p
      BY <1>8, <1>10, <3>1 DEF ids
    <3>2. CASE q # p
      <4>1. mine'[q] = mine[q] /\ mine[q] \in Seq(Nat)
        BY <1>3, <1>10, <3>2
      <4>2. mine[q][i] < nextId /\ mine[q][i] \in Nat
        BY <1>2, <4>1 DEF IdsIssued
      <4> QED  BY <1>3, <4>1, <4>2
    <3> QED  BY <3>1, <3>2
  <2> QED  BY <1>1, <1>7, <2>1 DEF IdsIssued
<1>13. Agree(surfaces', state', mine')
  <2>1. \A q \in Procs : q # p => Own(surfaces', q) = Own(surfaces, q)
    BY <1>5, <1>7
  <2>2. Own(surfaces', p) = Range(mine'[p]) /\ Increasing(mine'[p])
    BY <1>1, <1>2, <1>5, <1>7, <1>8, <1>10, Zenon DEF Agree, ids
  <2>3. "running" # "gone"
    OBVIOUS
  <2> QED  BY <1>1, <1>2, <1>7, <1>10, <2>1, <2>2, <2>3, Zenon DEF Agree
<1>14. InputInv'
  BY <1>1, InputIdle, InputUntouched
<1> QED
  BY <1>1, <1>2, <1>6, <1>7, <1>11, <1>12, <1>13, <1>14 DEF IInv

(* remove_surfaces_for. *)
LEMMA RemoveKeeps ==
  ASSUME IInv, NEW p \in Procs, RemoveSurfaces(p)
  PROVE  IInv'
<1> DEFINE s == Retain(surfaces, p)
<1>1. /\ Arrange(s, layout)
      /\ focused' = IF focused = NoSurface \/ focused \in Ids(s) THEN focused
                    ELSE IF s = <<>> THEN NoSurface ELSE s[Len(s)].id
      /\ state' = [state EXCEPT ![p] = "gone"]
      /\ UNCHANGED inputVars /\ UNCHANGED <<framebuffer, nextId, shown, mine, knows>>
  BY DEF RemoveSurfaces
<1>2. /\ Types /\ IdsIssued /\ Agree(surfaces, state, mine) /\ AllFit(surfaces)
      /\ focused = Top(surfaces) /\ BarOK(shown)
  BY DEF IInv
<1>3. /\ framebuffer \in Nat \X Nat /\ surfaces \in Seq(Surface)
      /\ IdsRise(surfaces) /\ Issued(surfaces, nextId)
  BY <1>2, ScreenSizes DEF Types, Agree, IdsIssued
<1>4. /\ s \in Seq(Surface) /\ IdsRise(s) /\ Issued(s, nextId) /\ Own(s, p) = {}
      /\ \A q : q # p => Own(s, q) = Own(surfaces, q)
      /\ AllFit(s)
  BY <1>2, <1>3, RetainOwners
<1>5. focused' = Top(s)
  BY <1>1, <1>2, <1>3, RetainTop
<1> HIDE DEF s
<1>6. SameWindows(s, surfaces') /\ AllFit(surfaces')
  BY <1>1, <1>3, <1>4, ArrangeKeeps
<1>7. /\ IdsRise(surfaces') /\ Issued(surfaces', nextId) /\ Top(surfaces') = Top(s)
      /\ surfaces' \in Seq(Surface) /\ \A q : Own(surfaces', q) = Own(s, q)
  BY <1>4, <1>6, SameOwners DEF SameWindows
<1>8. /\ state' \in [Procs -> {"running", "exited", "gone"}] /\ state'[p] = "gone"
      /\ \A q \in Procs : q # p => state'[q] = state[q]
  BY <1>1, <1>2 DEF Types
<1>9. Types'
  BY <1>1, <1>2, <1>7, <1>8 DEF Types, Sized
<1>10. IdsIssued'
  BY <1>1, <1>2, <1>7 DEF IdsIssued
<1>11. Agree(surfaces', state', mine')
  <2>1. \A q \in Procs : q # p => Own(surfaces', q) = Own(surfaces, q)
    BY <1>4, <1>7
  <2>2. Own(surfaces', p) = {}
    BY <1>4, <1>7
  <2>3. "running" # "gone"
    OBVIOUS
  <2> QED  BY <1>1, <1>2, <1>7, <1>8, <2>1, <2>2, <2>3, Zenon DEF Agree
<1>12. InputInv'
  BY <1>1, InputIdle, InputUntouched
<1> QED
  BY <1>1, <1>2, <1>5, <1>6, <1>7, <1>9, <1>10, <1>11, <1>12 DEF IInv

(* Every step keeps the invariant. *)
LEMMA NextIInv == IInv /\ [Next]_vars => IInv'
<1> SUFFICES ASSUME IInv, [Next]_vars
             PROVE  IInv'
  OBVIOUS
<1>1. CASE UNCHANGED vars
  <2>1. /\ UNCHANGED inputVars
        /\ UNCHANGED <<framebuffer, surfaces, nextId, focused, shown, state, mine, knows>>
    BY <1>1 DEF vars, desktopVars
  <2> QED  BY <2>1, InputIdle, InputUntouched, QuietSteps
<1>2. CASE Interrupt
  <2>1. InputInv' /\ UNCHANGED desktopVars
    BY <1>2, InterruptKeeps DEF Interrupt, IInv
  <2> QED  BY <2>1, QuietSteps DEF desktopVars
<1>3. ASSUME NEW p \in Procs, NEW request \in Requests, SurfaceCreate(p, request)
      PROVE  IInv'
  BY <1>3, CreateKeeps
<1>4. ASSUME NEW p \in Procs, NEW id, SurfaceInfo(p, id)
      PROVE  IInv'
  BY <1>4, InfoKeeps
<1>5. ASSUME NEW p \in Procs, NEW id, SurfaceCommitFails(p, id)
      PROVE  IInv'
  BY <1>5, CommitFailsKeeps
<1>6. ASSUME NEW p \in Procs, NEW id, NEW presents, SurfaceCommit(p, id, presents)
      PROVE  IInv'
  BY <1>6, CommitKeeps
<1>7. ASSUME NEW p \in Procs, InputPoll(p)
      PROVE  IInv'
  <2>1. PICK k \in PollSizes, copied \in BOOLEAN : Poll(k, copied)
    BY <1>7 DEF InputPoll
  <2>2. InputInv' /\ UNCHANGED desktopVars
    BY <1>7, <2>1, PollKeeps DEF InputPoll, IInv
  <2> QED  BY <2>2, QuietSteps DEF desktopVars
<1>8. ASSUME NEW p \in Procs, Spins(p) \/ RemoveLocks(p)
      PROVE  IInv'
  <2>1. /\ UNCHANGED inputVars
        /\ UNCHANGED <<framebuffer, surfaces, nextId, focused, shown, state, mine, knows>>
    BY <1>8 DEF Spins, RemoveLocks
  <2> QED  BY <2>1, InputIdle, InputUntouched, QuietSteps
<1>9. ASSUME NEW p \in Procs, SetExited(p)
      PROVE  IInv'
  BY <1>9, ExitKeeps
<1>10. ASSUME NEW p \in Procs, RemoveSurfaces(p)
       PROVE  IInv'
  BY <1>10, RemoveKeeps
<1> QED
  BY <1>1, <1>2, <1>3, <1>4, <1>5, <1>6, <1>7, <1>8, <1>9, <1>10, Zenon DEF Next

(* The invariant is one of the specification. *)
LEMMA SpecIInv == Spec => []IInv
BY InitIInv, NextIInv, PTL DEF Spec

(* Whatever is pushed, dropped, polled or lost on the way to a bad buffer, what
   programs receive and what is queued are the events in order, each once, and
   every other one is counted (push, poll, sys_input_poll). *)
THEOREM EventsStayInOrder == Spec => []EventsInOrder
<1>1. IInv => EventsInOrder
  BY InputInvOrders DEF IInv
<1> QED
  BY <1>1, SpecIInv, PTL

(* Whatever bytes the mouse sends, while no event is dropped or lost those
   received and queued account for every change of every button
   (on_mouse_byte). *)
THEOREM EdgesAreComplete == Spec => []EdgesComplete
<1>1. IInv => EdgesComplete
  BY DEF IInv, InputInv
<1> QED
  BY <1>1, SpecIInv, PTL

(* However layouts, resizes, surface_info and commits follow each other, every
   buffer has a pixel for every point of its surface, and a whole frame in it
   was drawn for as many (resize, commit_surface_from_user). *)
THEOREM BuffersAlwaysFit == Spec => []BuffersFit
<1>1. IInv => BuffersFit
  BY InOtherWords DEF IInv, Types
<1> QED
  BY <1>1, SpecIInv, PTL

(* The focus is on the newest surface whoever dies, and the bar of the frame
   on the screen names the owner of the topmost window in it (create_surface,
   remove_surfaces_for, present). *)
THEOREM BarAlwaysNamesTop == Spec => []BarNamesTop
<1>1. IInv => BarNamesTop
  BY InOtherWords DEF IInv, Types
<1> QED
  BY <1>1, SpecIInv, PTL

(* A running program has exactly the surfaces it created, one that is gone has
   none, and no id is given twice (create_surface, remove_surfaces_for). *)
THEOREM SurfacesAlwaysAgree == Spec => []SurfacesAgree
<1>1. IInv => SurfacesAgree
  BY InOtherWords DEF IInv, Types
<1> QED
  BY <1>1, SpecIInv, PTL

-----------------------------------------------------------------------------
(* Where the windows are *)

(* While no cut overflows, the areas left lie one in the other. *)
LEMMA LeftNested ==
  ASSUME framebuffer \in Nat \X Nat, NEW n \in Nat \ {0},
         \A k \in 0 .. n - 2 : ~TooSmall(Left(n)[k])
  PROVE  \A k \in 0 .. n - 1 :
           /\ Left(n)[k] \in Area /\ Left(n)[k].w >= 0 /\ Left(n)[k].h >= 0
           /\ \A j \in 0 .. k : Within(Left(n)[k], Left(n)[j])
<1> DEFINE L == Left(n)
           Good(k) == L[k].w >= 0 /\ L[k].h >= 0 /\ \A j \in 0 .. k : Within(L[k], L[j])
           S == {k \in 0 .. n - 1 : Good(k)}
<1>1. \A k \in 0 .. n : L[k] \in Area
  BY LeftAreas
<1>2. L[0] = WholeArea /\ \A k \in 1 .. n : L[k] = Rest(L[k - 1])
  BY LeftCuts
<1> HIDE DEF L
<1>3. \A a \in Area : Within(a, a)
  BY DEF Within, Area
<1>4. 0 \in S
  <2>1. L[0].w >= 0 /\ L[0].h >= 0
    BY <1>2, WholeAreaIs
  <2>2. \A j \in 0 .. 0 : Within(L[0], L[j])
    BY <1>1, <1>3
  <2> QED  BY <2>1, <2>2
<1>5. \A k \in 0 .. (n - 1) - 1 : k \in S => k + 1 \in S
  <2> SUFFICES ASSUME NEW k \in 0 .. (n - 1) - 1, Good(k)
               PROVE  k + 1 \in 0 .. n - 1 /\ Good(k + 1)
    OBVIOUS
  <2>1. k \in 0 .. n - 2 /\ k \in 0 .. n /\ k + 1 \in 1 .. n /\ k + 1 \in 0 .. n - 1 /\ (k + 1) - 1 = k
    OBVIOUS
  <2>2. L[k] \in Area /\ L[k + 1] = Rest(L[k]) /\ L[k + 1] \in Area
    BY <1>1, <1>2, <2>1, CutFields
  <2>3. ~TooSmall(L[k])
    BY <2>1 DEF L
  <2>4. L[k].w >= 0 /\ L[k].h >= 0 /\ \A j \in 0 .. k : Within(L[k], L[j])
    OBVIOUS
  <2>5. L[k + 1].w >= 0 /\ L[k + 1].h >= 0 /\ Within(L[k + 1], L[k])
    BY <2>2, <2>3, <2>4, CutInTwo
  <2>6. ASSUME NEW j \in 0 .. k + 1
        PROVE  Within(L[k + 1], L[j])
    <3>1. CASE j = k + 1
      BY <1>3, <2>2, <3>1
    <3>2. CASE j # k + 1
      <4>1. j \in 0 .. k /\ j \in 0 .. n
        BY <3>2
      <4>2. Within(L[k], L[j]) /\ L[j] \in Area
        BY <1>1, <2>4, <4>1
      <4> QED  BY <2>2, <2>5, <4>2, WithinWithin
    <3> QED  BY <3>1, <3>2
  <2> QED  BY <2>1, <2>5, <2>6
<1>6. \A k \in 0 .. n - 1 : k \in S
  <2>1. n - 1 \in Nat
    OBVIOUS
  <2> HIDE DEF S
  <2> QED  BY <1>4, <1>5, <2>1, CountUp
<1>7. \A k \in 0 .. n - 1 : k \in 0 .. n
  OBVIOUS
<1>8. \A k \in 0 .. n - 1 : L[k] \in Area /\ Good(k)
  BY <1>1, <1>6, <1>7
<1> QED
  BY <1>8 DEF L

(* The screen has room for a pixel within the strip and the gap. *)
Roomy == framebuffer[1] > TILE_GAP /\ framebuffer[2] > TRUST_BAR_HEIGHT + TILE_GAP

(* An area that has a pixel to spare before the edges of the content. *)
Room(a) ==
  a.y >= TRUST_BAR_HEIGHT /\ a.x + a.w + 1 <= framebuffer[1] /\ a.y + a.h + 1 <= framebuffer[2]

(* The whole area has, on a screen with room. *)
LEMMA WholeAreaRoom ==
  ASSUME framebuffer \in Nat \X Nat, Roomy
  PROVE  Room(WholeArea)
<1>1. /\ Content.w = framebuffer[1] /\ Content.h = Monus(framebuffer[2], 20)
      /\ framebuffer[1] \in Nat /\ framebuffer[2] \in Nat
      /\ WholeArea.x = 6 /\ WholeArea.y = 26
      /\ WholeArea.w = Monus(Content.w, 12) /\ WholeArea.h = Monus(Content.h, 12)
  BY WholeAreaIs DEF TRUST_BAR_HEIGHT, TILE_GAP
<1>2. framebuffer[1] > 6 /\ framebuffer[2] > 26
  BY <1>1 DEF Roomy, TILE_GAP, TRUST_BAR_HEIGHT
<1> DEFINE u == framebuffer[1]
           v == framebuffer[2]
<1>3. Monus(Content.w, 12) = Monus(u, 12) /\ Monus(Content.h, 12) = Monus(Monus(v, 20), 12)
  BY <1>1
<1>4. u \in Nat /\ v \in Nat /\ u > 6 /\ v > 26
  BY <1>1, <1>2
<1> HIDE DEF u, v
<1>5. 6 + Monus(u, 12) + 1 <= u /\ 26 + Monus(Monus(v, 20), 12) + 1 <= v
  BY <1>4 DEF Monus
<1>6. /\ WholeArea.x + WholeArea.w + 1 <= u /\ WholeArea.y + WholeArea.h + 1 <= v
      /\ WholeArea.y >= 20
  BY <1>1, <1>3, <1>5
<1> QED
  BY <1>6 DEF Room, TRUST_BAR_HEIGHT, u, v

(* What lies within an area with room has room. *)
LEMMA RoomWithin ==
  ASSUME framebuffer \in Nat \X Nat, NEW a \in Area, NEW b \in Area, Within(b, a), Room(a)
  PROVE  Room(b)
<1>1. framebuffer[1] \in Nat /\ framebuffer[2] \in Nat
  OBVIOUS
<1> QED
  BY <1>1 DEF Within, Room, Area, TRUST_BAR_HEIGHT

(* Tile windows s does not overflow. *)
Tileable(s) == \A k \in 0 .. Windows(s) - 2 : ~TooSmall(Left(Windows(s))[k])

(* A window's share, where no cut overflows: it has room, and lies in the area
   left at its place. *)
LEMMA ShareIs ==
  ASSUME framebuffer \in Nat \X Nat, Roomy, NEW s \in Seq(Surface), Tileable(s),
         NEW i \in 1 .. Len(s), Windowed(s[i])
  PROVE  /\ Share(s, i) \in Area /\ Room(Share(s, i)) /\ Share(s, i).w >= 0 /\ Share(s, i).h >= 0
         /\ \A k \in 0 .. Place(s, i) - 1 : Within(Share(s, i), Left(Windows(s))[k])
         /\ Place(s, i) # Windows(s) =>
              LET rest == Left(Windows(s))[Place(s, i)]
              IN \/ Share(s, i).x + Share(s, i).w + TILE_GAP <= rest.x
                 \/ Share(s, i).y + Share(s, i).h + TILE_GAP <= rest.y
<1> DEFINE n == Windows(s)
           L == Left(n)
           m == Place(s, i)
           a == L[m - 1]
           t == Share(s, i)
<1>1. n \in Nat \ {0} /\ m \in 1 .. n
  BY WindowsCounts, PlacesGrow
<1>2. \A k \in 0 .. n - 1 :
        /\ L[k] \in Area /\ L[k].w >= 0 /\ L[k].h >= 0
        /\ \A j \in 0 .. k : Within(L[k], L[j])
  <2>1. \A k \in 0 .. n - 2 : ~TooSmall(Left(n)[k])
    BY DEF Tileable
  <2> HIDE DEF n
  <2> QED  BY <1>1, <2>1, LeftNested
<1>3. t = IF m = n THEN a ELSE Tile(a)
  BY DEF Share
<1>4. m # n => ~TooSmall(a) /\ L[m] = Rest(a)
  <2>1. \A k \in 0 .. n - 2 : ~TooSmall(L[k])
    BY DEF Tileable
  <2>2. \A k \in 1 .. n : L[k] = Rest(L[k - 1])
    BY <1>1, LeftCuts
  <2>3. m # n => m - 1 \in 0 .. n - 2
    BY <1>1
  <2> HIDE DEF L, m, n
  <2> QED  BY <1>1, <2>1, <2>2, <2>3
<1>5. L[0] = WholeArea
  BY <1>1, LeftCuts
<1> HIDE DEF L, m, n, t
<1>6. m - 1 \in 0 .. n - 1 /\ 0 \in 0 .. m - 1 /\ \A k \in 0 .. m - 1 : k \in 0 .. n - 1
  BY <1>1
<1>7. /\ a \in Area /\ a.w >= 0 /\ a.h >= 0
      /\ \A j \in 0 .. m - 1 : Within(a, L[j]) /\ L[j] \in Area
  BY <1>2, <1>6
<1> HIDE DEF a
<1>8. t \in Area /\ t.w >= 0 /\ t.h >= 0 /\ Within(t, a)
  <2>1. CASE m = n
    BY <1>3, <1>7, <2>1 DEF Within, Area
  <2>2. CASE m # n
    BY <1>3, <1>4, <1>7, <2>2, CutInTwo, CutFields
  <2> QED  BY <2>1, <2>2
<1>9. \A k \in 0 .. m - 1 : Within(t, L[k])
  BY <1>7, <1>8, WithinWithin
<1>10. Room(t)
  <2>1. Within(t, WholeArea) /\ WholeArea \in Area
    BY <1>5, <1>6, <1>9, WholeAreaIs
  <2> QED  BY <1>8, <2>1, WholeAreaRoom, RoomWithin
<1>11. m # n => t.x + t.w + TILE_GAP <= L[m].x \/ t.y + t.h + TILE_GAP <= L[m].y
  BY <1>3, <1>4, <1>7, CutInTwo
<1> QED
  BY <1>8, <1>9, <1>10, <1>11 DEF L, m, n, t

(* TilesApart, of given surfaces. *)
InContent(s) ==
  \A i \in 1 .. Len(s) :
    s[i].y >= TRUST_BAR_HEIGHT /\ s[i].x + s[i].w <= framebuffer[1] /\ s[i].y + s[i].h <= framebuffer[2]

NoOverlap(s) ==
  \A i, j \in 1 .. Len(s) : i < j /\ Windowed(s[i]) /\ Windowed(s[j]) => Apart(s[i], s[j])

(* Widening to a pixel what has that pixel before a limit. *)
LEMMA AtLeastOne ==
  ASSUME NEW x \in Int, NEW w \in Int, NEW limit \in Int, w >= 0, x + w + 1 <= limit
  PROVE  x + Larger(w, 1) <= limit
BY DEF Larger

(* The same, for what ends a gap before the limit. *)
LEMMA AtLeastOneInGap ==
  ASSUME NEW x \in Int, NEW w \in Int, NEW limit \in Int, NEW beyond \in Int, w >= 0,
         x + w + TILE_GAP <= limit, limit <= beyond
  PROVE  x + Larger(w, 1) <= beyond
BY DEF Larger, TILE_GAP

(* Two tiles at different places are apart: widening each to a pixel stays
   within the gap. *)
LEMMA TilesOfPlaces ==
  ASSUME framebuffer \in Nat \X Nat, Roomy, NEW s \in Seq(Surface), Tileable(s),
         NEW i \in 1 .. Len(s), NEW j \in 1 .. Len(s), i < j, Windowed(s[i]), Windowed(s[j])
  PROVE  Apart(Tiled(s[i], Share(s, i)), Tiled(s[j], Share(s, j)))
<1> DEFINE a == Share(s, i)
           b == Share(s, j)
           e == Tiled(s[i], a)
           f == Tiled(s[j], b)
           rest == Left(Windows(s))[Place(s, i)]
<1>1. /\ Place(s, i) \in 1 .. Windows(s) /\ Place(s, j) \in 1 .. Windows(s) /\ Windows(s) \in Nat
      /\ Place(s, i) < Place(s, j)
  BY PlacesGrow, WindowsCounts
<1>2. Place(s, i) # Windows(s) /\ Place(s, i) \in 0 .. Place(s, j) - 1 /\ Place(s, i) \in 0 .. Windows(s)
  BY <1>1
<1>3. /\ a \in Area /\ b \in Area /\ a.w >= 0 /\ a.h >= 0
      /\ a.x + a.w + TILE_GAP <= rest.x \/ a.y + a.h + TILE_GAP <= rest.y
      /\ Within(b, rest)
  BY <1>2, ShareIs
<1>4. rest \in Area
  BY <1>1, <1>2, LeftAreas
<1>5. s[i] \in Surface /\ s[j] \in Surface
  BY SurfaceFields
<1> HIDE DEF a, b, rest
<1>6. /\ e.x = a.x /\ e.y = a.y /\ e.w = Larger(a.w, 1) /\ e.h = Larger(a.h, 1)
      /\ f.x = b.x /\ f.y = b.y
  BY <1>3, <1>5, TiledIs
<1>7. rest.x <= b.x /\ rest.y <= b.y
  BY <1>3 DEF Within
<1>8. /\ a.x \in Int /\ a.y \in Int /\ a.w \in Int /\ a.h \in Int /\ b.x \in Int /\ b.y \in Int
      /\ rest.x \in Int /\ rest.y \in Int
  BY <1>3, <1>4 DEF Area
<1> HIDE DEF e, f
<1>9. a.x + Larger(a.w, 1) <= b.x \/ a.y + Larger(a.h, 1) <= b.y
  BY <1>3, <1>7, <1>8, AtLeastOneInGap
<1>10. Apart(e, f)
  BY <1>6, <1>9 DEF Apart
<1> QED
  BY <1>10 DEF e, f, a, b

(* relayout leaves every surface in the content, and the tiles apart. *)
LEMMA RelayoutPlaces ==
  ASSUME framebuffer \in Nat \X Nat, Roomy, NEW s \in Seq(Surface), NEW mode, ~Overflows(s, mode),
         InContent(s)
  PROVE  /\ InContent(Relayout(s, mode))
         /\ mode = "Tiling" => NoOverlap(Relayout(s, mode))
<1> DEFINE r == Relayout(s, mode)
<1>1. SameWindows(s, r)
  BY RelayoutKeeps
<1>2. Len(r) = Len(s) /\ \A i \in 1 .. Len(s) : Windowed(r[i]) <=> Windowed(s[i])
  BY <1>1 DEF SameWindows, Windowed
<1>3. \A i \in 1 .. Len(s) :
        r[i] = IF ~Windowed(s[i]) THEN s[i]
               ELSE IF mode = "Tiling" THEN Tiled(s[i], Share(s, i)) ELSE Floated(s[i])
  BY RelayoutIs
<1>4. mode = "Tiling" => Tileable(s)
  BY DEF Overflows, Tileable
<1>5. framebuffer[1] \in Nat /\ framebuffer[2] \in Nat
  OBVIOUS
<1> HIDE DEF r
<1>6. ASSUME NEW i \in 1 .. Len(s)
      PROVE  /\ r[i].y >= TRUST_BAR_HEIGHT /\ r[i].x + r[i].w <= framebuffer[1]
             /\ r[i].y + r[i].h <= framebuffer[2]
  <2>1. s[i] \in Surface /\ s[i].y \in Int
    BY SurfaceFields
  <2>2. /\ s[i].y >= TRUST_BAR_HEIGHT /\ s[i].x + s[i].w <= framebuffer[1]
        /\ s[i].y + s[i].h <= framebuffer[2]
    BY DEF InContent
  <2>3. CASE ~Windowed(s[i])
    BY <1>3, <2>2, <2>3
  <2>4. CASE Windowed(s[i]) /\ mode = "Tiling"
    <3> DEFINE a == Share(s, i)
    <3>1. r[i] = Tiled(s[i], a)
      BY <1>3, <2>4
    <3>2. a \in Area /\ Room(a) /\ a.w >= 0 /\ a.h >= 0
      BY <1>4, <2>4, ShareIs
    <3> HIDE DEF a
    <3>3. r[i].x = a.x /\ r[i].y = a.y /\ r[i].w = Larger(a.w, 1) /\ r[i].h = Larger(a.h, 1)
      BY <2>1, <3>1, <3>2, TiledIs
    <3>4. a.x \in Int /\ a.y \in Int /\ a.w \in Int /\ a.h \in Int
      BY <3>2 DEF Area
    <3>5. a.x + Larger(a.w, 1) <= framebuffer[1] /\ a.y + Larger(a.h, 1) <= framebuffer[2]
      <4>1. a.x + a.w + 1 <= framebuffer[1] /\ a.y + a.h + 1 <= framebuffer[2]
        BY <3>2 DEF Room
      <4>2. framebuffer[1] \in Int /\ framebuffer[2] \in Int
        BY <1>5
      <4> QED  BY <3>2, <3>4, <4>1, <4>2, AtLeastOne
    <3>6. a.y >= TRUST_BAR_HEIGHT
      BY <3>2 DEF Room
    <3> QED  BY <3>3, <3>5, <3>6
  <2>5. CASE Windowed(s[i]) /\ mode # "Tiling"
    <3>1. r[i] = Floated(s[i])
      BY <1>3, <2>5
    <3>2. r[i].x = s[i].x /\ r[i].w = s[i].w /\ r[i].h = s[i].h
          /\ r[i].y = Larger(s[i].y, TRUST_BAR_HEIGHT)
      BY <2>1, <3>1, FloatedIs
    <3>3. Larger(s[i].y, TRUST_BAR_HEIGHT) = s[i].y
      BY <2>1, <2>2 DEF Larger, TRUST_BAR_HEIGHT
    <3> QED  BY <2>2, <3>2, <3>3
  <2> QED  BY <2>3, <2>4, <2>5
<1>7. InContent(r)
  BY <1>2, <1>6 DEF InContent
<1>8. ASSUME mode = "Tiling"
      PROVE  NoOverlap(r)
  <2> SUFFICES ASSUME NEW i \in 1 .. Len(s), NEW j \in 1 .. Len(s), i < j,
                      Windowed(s[i]), Windowed(s[j])
               PROVE  Apart(r[i], r[j])
    BY <1>2 DEF NoOverlap
  <2>1. r[i] = Tiled(s[i], Share(s, i)) /\ r[j] = Tiled(s[j], Share(s, j))
    BY <1>3, <1>8
  <2> QED  BY <1>4, <1>8, <2>1, TilesOfPlaces
<1> QED
  BY <1>7, <1>8 DEF r

(* TilesApart in these words. *)
LEMMA TilesInOtherWords ==
  TilesApart <=> (machine # "panicked" => InContent(surfaces) /\ (layout = "Tiling" => NoOverlap(surfaces)))
BY Zenon DEF TilesApart, InContent, NoOverlap

(* The same, after a step that leaves the screen as it is. *)
LEMMA TilesInOtherWordsNext ==
  ASSUME framebuffer' = framebuffer
  PROVE  TilesApart' <=> (machine' # "panicked" =>
           InContent(surfaces') /\ (layout' = "Tiling" => NoOverlap(surfaces')))
BY DEF TilesApart, InContent, NoOverlap

(* Arranging surfaces that are in the content. *)
LEMMA ArrangeTiles ==
  ASSUME framebuffer \in Nat \X Nat, Roomy, NEW s \in Seq(Surface), InContent(s), NEW mode,
         Arrange(s, mode), framebuffer' = framebuffer
  PROVE  TilesApart'
<1>1. CASE Overflows(s, mode)
  BY <1>1, TilesInOtherWordsNext DEF Arrange
<1>2. CASE ~Overflows(s, mode)
  <2>1. layout' = mode /\ surfaces' = Relayout(s, mode)
    BY <1>2 DEF Arrange
  <2> QED  BY <1>2, <2>1, RelayoutPlaces, TilesInOtherWordsNext
<1> QED
  BY <1>1, <1>2

(* Surfaces of the same shapes are as much in the content, and as far apart. *)
LEMMA SameShapesPlaces ==
  ASSUME NEW s, NEW r, SameShapes(s, r)
  PROVE  (InContent(s) => InContent(r)) /\ (NoOverlap(s) => NoOverlap(r))
BY DEF SameShapes, InContent, NoOverlap, Apart, Windowed

(* Every step keeps the surfaces in the content and the tiles apart. *)
LEMMA NextTiles ==
  ASSUME IInv, Roomy, TilesApart, [Next]_vars
  PROVE  TilesApart'
<1>1. framebuffer \in Nat \X Nat /\ surfaces \in Seq(Surface) /\ nextId \in Nat
      /\ \A p \in Procs : Sized(knows[p])
  BY ScreenSizes DEF IInv, Types
<1>2. machine = "up" => InContent(surfaces) /\ (layout = "Tiling" => NoOverlap(surfaces))
  BY TilesInOtherWords
<1>3. ASSUME UNCHANGED <<framebuffer, surfaces, layout>>, machine' = machine \/ machine = "up"
      PROVE  TilesApart'
  BY <1>3, TilesInOtherWords, TilesInOtherWordsNext
<1>4. CASE UNCHANGED vars
  BY <1>3, <1>4 DEF vars, desktopVars
<1>5. CASE Interrupt
  BY <1>3, <1>5 DEF Interrupt, desktopVars
<1>6. ASSUME NEW p \in Procs, NEW request \in Requests, SurfaceCreate(p, request)
      PROVE  TilesApart'
  <2> DEFINE new == NewSurface(p, request)
             s == Append(surfaces, new)
             n == Len(surfaces)
  <2>1. /\ machine = "up" /\ new.h > 0 /\ Arrange(s, layout) /\ framebuffer' = framebuffer
        /\ request \in Nat \X Nat
    BY <1>6, DesktopAssumption DEF SurfaceCreate, Calls
  <2>2. /\ new \in Surface /\ new.y >= TRUST_BAR_HEIGHT /\ new.x + new.w <= framebuffer[1]
        /\ new.y + new.h <= framebuffer[2]
    BY <1>1, <2>1, NewSurfaceIs
  <2> HIDE DEF new
  <2>3. /\ s \in Seq(Surface) /\ Len(s) = n + 1 /\ n \in Nat /\ s[n + 1] = new
        /\ \A i \in 1 .. n : s[i] = surfaces[i]
    BY <1>1, <2>2
  <2> HIDE DEF s
  <2>4. \A i \in 1 .. n + 1 : i \in 1 .. n \/ i = n + 1
    BY <2>3
  <2>5. InContent(s)
    BY <1>2, <2>1, <2>2, <2>3, <2>4 DEF InContent
  <2> QED  BY <1>1, <2>1, <2>3, <2>5, ArrangeTiles
<1>7. ASSUME NEW p \in Procs, NEW id, SurfaceInfo(p, id)
      PROVE  TilesApart'
  BY <1>3, <1>7 DEF SurfaceInfo
<1>8. ASSUME NEW s, SameShapes(surfaces, s), s \in Seq(Surface), machine = "up",
             framebuffer' = framebuffer,
             (surfaces' = s /\ layout' = layout) \/ (\E mode : Arrange(s, mode))
      PROVE  TilesApart'
  <2>1. InContent(s) /\ (layout = "Tiling" => NoOverlap(s))
    BY <1>2, <1>8, SameShapesPlaces
  <2>2. CASE surfaces' = s /\ layout' = layout
    BY <1>8, <2>1, <2>2, TilesInOtherWordsNext
  <2>3. ASSUME NEW mode, Arrange(s, mode)
        PROVE  TilesApart'
    BY <1>1, <1>8, <2>1, <2>3, ArrangeTiles
  <2> QED  BY <1>8, <2>2, <2>3
<1>9. ASSUME NEW p \in Procs, NEW id, SurfaceCommitFails(p, id)
      PROVE  TilesApart'
  <2>1. /\ Owns(p, id) /\ surfaces' = Drawn(id, Torn) /\ machine = "up"
        /\ UNCHANGED <<framebuffer, layout>>
    BY <1>9 DEF SurfaceCommitFails, Calls
  <2>2. Torn \in Picture
    BY DEF Torn, Picture
  <2>3. SameShapes(surfaces, Drawn(id, Torn)) /\ Drawn(id, Torn) \in Seq(Surface)
    BY <1>1, <2>1, <2>2, DrawnIs DEF SameWindows
  <2> QED  BY <1>8, <2>1, <2>3
<1>10. ASSUME NEW p \in Procs, NEW id, NEW presents, SurfaceCommit(p, id, presents)
       PROVE  TilesApart'
  <2> DEFINE what == Whole(knows[p][id])
             s == Drawn(id, what)
  <2>1. /\ Owns(p, id) /\ id \in DOMAIN knows[p] /\ machine = "up" /\ framebuffer' = framebuffer
        /\ IF presents THEN Present(s) ELSE surfaces' = s /\ UNCHANGED layout
    BY <1>10 DEF SurfaceCommit, Calls
  <2>2. what \in Picture
    <3>1. knows[p][id] \in Int \X Int
      BY <1>1, <2>1 DEF Sized
    <3> QED  BY <3>1 DEF Whole, Picture
  <2> HIDE DEF what
  <2>3. SameShapes(surfaces, s) /\ s \in Seq(Surface)
    BY <1>1, <2>1, <2>2, DrawnIs DEF SameWindows
  <2> HIDE DEF s
  <2>4. (surfaces' = s /\ layout' = layout) \/ (\E mode : Arrange(s, mode))
    BY <2>1 DEF Present
  <2> QED  BY <1>8, <2>1, <2>3, <2>4
<1>11. ASSUME NEW p \in Procs, InputPoll(p) \/ Spins(p) \/ SetExited(p) \/ RemoveLocks(p)
       PROVE  TilesApart'
  BY <1>3, <1>11 DEF InputPoll, Spins, SetExited, RemoveLocks, Calls, desktopVars
<1>12. ASSUME NEW p \in Procs, RemoveSurfaces(p)
       PROVE  TilesApart'
  <2> DEFINE s == Retain(surfaces, p)
  <2>1. machine = "up" /\ Arrange(s, layout) /\ framebuffer' = framebuffer
    BY <1>12 DEF RemoveSurfaces
  <2>2. PICK at : Keeps(surfaces, p, s, at)
    BY <1>1, RetainIs
  <2> HIDE DEF s
  <2>3. s \in Seq(Surface) /\ InContent(s)
    BY <1>2, <2>1, <2>2 DEF Keeps, InContent
  <2> QED  BY <1>1, <2>1, <2>3, ArrangeTiles
<1> QED
  BY <1>4, <1>5, <1>6, <1>7, <1>9, <1>10, <1>11, <1>12, Zenon DEF Next

(* On screens with room for a pixel within the strip and the gap, no two tiled
   windows ever overlap, however many there are and whatever was opened, closed
   and toggled, and no surface leaves the content area (relayout,
   create_surface). *)
THEOREM TilesStayApart ==
  ASSUME \A screen \in Screens : screen[1] > TILE_GAP /\ screen[2] > TRUST_BAR_HEIGHT + TILE_GAP
  PROVE  Spec => []TilesApart
<1>1. IInv => Roomy
  BY DEF IInv, Types, Roomy
<1>2. Init => TilesApart
  <2> SUFFICES ASSUME Init
               PROVE  TilesApart
    OBVIOUS
  <2>1. Len(surfaces) = 0
    BY DEF Init
  <2> QED  BY <2>1, TilesInOtherWords DEF InContent, NoOverlap
<1>3. IInv /\ TilesApart /\ [Next]_vars => TilesApart'
  BY <1>1, NextTiles
<1> QED
  BY <1>2, <1>3, SpecIInv, PTL DEF Spec
=============================================================================
