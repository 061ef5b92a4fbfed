---------------------------- MODULE Sched_proofs ----------------------------
(***************************************************************************)
(* Proofs about Sched.tla, for every number of tasks and every choice of   *)
(* quanta and limits.                                                      *)
(*                                                                         *)
(* The argument.  A Box<Task> moves only in three ways: the head of a      *)
(* queue is taken, a task is put at the back of a queue it is not in, and  *)
(* plan_switch with nothing current puts the head back where it was.  The  *)
(* lemmas below say what each move does to ownership (Owned) and to the    *)
(* order of waiting times (Sorted); each action is a composition of them.  *)
(***************************************************************************)
EXTENDS Sched, TLAPS

Queues == [Class -> Seq(Tasks)]

(* OneOwner, of queues q, classes cl and a task x that is in no queue. *)
Owned(q, cl, x) ==
  \A c, d \in Class : \A i \in 1 .. Len(q[c]), j \in 1 .. Len(q[d]) :
    /\ cl[q[c][i]] = c
    /\ q[c][i] # x
    /\ q[c][i] = q[d][j] => c = d /\ i = j

(* OldestFirst, of queues q and waits w. *)
Sorted(q, w) ==
  \A c \in Class : \A i, j \in 1 .. Len(q[c]) : i < j => w[q[c][i]] >= w[q[c][j]]

(* Every queued task satisfies x <= n. *)
AllBorn(q, n) == \A c \in Class : \A i \in 1 .. Len(q[c]) : q[c][i] <= n

(* Tasks are queued only once spawned, and only they can be current; the
   boot context runs until it parks, and then finds a task to run; a stamp taken by spawn is the
   youngest; a task that is not stamped yet has waited for nothing. *)
Born == AllBorn(queues, spawned) /\ current <= spawned
BootFirst == /\ boot \in {"running", "stamped"} => current = NoTask
             /\ boot = "stamped" => spawned < N
             /\ boot = "running" /\ spawned > 0 => ReadyClasses(queues) # {}
StampYoungest ==
  boot = "stamped" =>
    \A c \in Class : \A i \in 1 .. Len(queues[c]) :
      waited[queues[c][i]] >= waited[spawned + 1]
UnbornNotWaiting == \A t \in Tasks : t > spawned /\ ~Stamped(t) => waited[t] = 0

(* The inductive invariant. *)
IInv ==
  /\ TypeOK
  /\ OneOwner
  /\ OldestFirst
  /\ Born
  /\ BootFirst
  /\ StampYoungest
  /\ UnbornNotWaiting

-----------------------------------------------------------------------------
(* Lemmas about the choice of a class *)

(* A nonempty set of classes has a least and a greatest member. *)
LEMMA ClassExtremes ==
  ASSUME NEW S \in SUBSET Class, S # {}
  PROVE  Lowest(S) \in S /\ Highest(S) \in S
<1>0. \A d \in S : d = 0 \/ d = 1 \/ d = 2
  BY DEF Class
<1>1. \E c \in S : \A d \in S : c <= d
  <2>1. CASE 0 \in S  BY <1>0, <2>1
  <2>2. CASE 0 \notin S /\ 1 \in S  BY <1>0, <2>2
  <2>3. CASE 0 \notin S /\ 1 \notin S  BY <1>0, <2>3
  <2> QED  BY <2>1, <2>2, <2>3
<1>2. \E c \in S : \A d \in S : d <= c
  <2>1. CASE 2 \in S  BY <1>0, <2>1
  <2>2. CASE 2 \notin S /\ 1 \in S  BY <1>0, <2>2
  <2>3. CASE 2 \notin S /\ 1 \notin S  BY <1>0, <2>3
  <2> QED  BY <2>1, <2>2, <2>3
<1> QED
  BY <1>1, <1>2 DEF Lowest, Highest

(* pick_next takes the head of some queue that has one, and nothing else. *)
LEMMA PickTakesAHead ==
  ASSUME NEW q \in Queues, NEW w, NEW s, ReadyClasses(q) # {}
  PROVE  \E c \in ReadyClasses(q) :
           /\ PickNext(q, w, s).task = Head(q[c])
           /\ PickNext(q, w, s).queues = [q EXCEPT ![c] = Tail(@)]
           /\ PickNext(q, w, s).promoted \in BOOLEAN
           /\ PickNext(q, w, s).since \in {0, s}
<1> DEFINE rescue == IF s >= PROMOTION_INTERVAL THEN StarvingClasses(q, w) ELSE {}
           k == IF rescue # {} THEN Lowest(rescue) ELSE Highest(ReadyClasses(q))
           outranked == rescue # {} /\ Outranked(q, k)
<1>1. ReadyClasses(q) \in SUBSET Class /\ rescue \in SUBSET ReadyClasses(q)
  BY DEF ReadyClasses, StarvingClasses
<1>2. k \in ReadyClasses(q)
  BY <1>1, ClassExtremes
<1>3. PickNext(q, w, s) =
        [task     |-> Head(q[k]),
         queues   |-> [q EXCEPT ![k] = Tail(@)],
         promoted |-> outranked,
         since    |-> IF outranked THEN 0 ELSE s]
  BY DEF PickNext
<1>4. outranked \in BOOLEAN
  OBVIOUS
<1> HIDE DEF k, outranked
<1>5. /\ PickNext(q, w, s).task = Head(q[k])
      /\ PickNext(q, w, s).queues = [q EXCEPT ![k] = Tail(@)]
      /\ PickNext(q, w, s).promoted \in BOOLEAN
      /\ PickNext(q, w, s).since \in {0, s}
  BY <1>3, <1>4
<1> QED
  BY <1>2, <1>5

-----------------------------------------------------------------------------
(* Lemmas about taking the head of a queue *)

(* Taking a head leaves well-typed queues. *)
LEMMA TakeType ==
  ASSUME NEW q \in Queues, NEW c \in ReadyClasses(q)
  PROVE  /\ c \in Class
         /\ Head(q[c]) \in Tasks
         /\ [q EXCEPT ![c] = Tail(@)] \in Queues
         /\ Len(q[c]) \in Nat \ {0}
         /\ Head(q[c]) = q[c][1]
BY DEF ReadyClasses, Queues

(* The head leaves all queues, and what was outside them stays outside. *)
LEMMA TakeOwned ==
  ASSUME NEW q \in Queues, NEW c \in ReadyClasses(q), NEW cl, NEW x,
         Owned(q, cl, x)
  PROVE  /\ Owned([q EXCEPT ![c] = Tail(@)], cl, Head(q[c]))
         /\ Owned([q EXCEPT ![c] = Tail(@)], cl, x)
         /\ cl[Head(q[c])] = c
         /\ Head(q[c]) # x
<1> DEFINE r == [q EXCEPT ![c] = Tail(@)]
           pos(d, i) == IF d = c THEN i + 1 ELSE i
<1>1. c \in Class /\ Len(q[c]) \in Nat \ {0} /\ Head(q[c]) = q[c][1]
  BY TakeType
<1>2. \A d \in Class : \A i \in 1 .. Len(r[d]) :
        /\ pos(d, i) \in 1 .. Len(q[d])
        /\ r[d][i] = q[d][pos(d, i)]
  BY <1>1 DEF Queues
<1> HIDE DEF r
<1>3. 1 \in 1 .. Len(q[c]) /\ cl[Head(q[c])] = c /\ Head(q[c]) # x
  BY <1>1 DEF Owned
<1>4. ASSUME NEW d \in Class, NEW e \in Class,
             NEW i \in 1 .. Len(r[d]), NEW j \in 1 .. Len(r[e])
      PROVE  /\ cl[r[d][i]] = d
             /\ r[d][i] # x
             /\ r[d][i] # Head(q[c])
             /\ r[d][i] = r[e][j] => d = e /\ i = j
  <2> DEFINE m == pos(d, i)
             n == pos(e, j)
  <2>0. /\ m \in 1 .. Len(q[d]) /\ r[d][i] = q[d][m]
        /\ n \in 1 .. Len(q[e]) /\ r[e][j] = q[e][n]
    BY <1>2
  <2>1. m = 1 => d # c
    BY <1>1
  <2>2. d = e /\ m = n => i = j
    OBVIOUS
  <2> HIDE DEF m, n
  <2>3. cl[q[d][m]] = d /\ q[d][m] # x /\ (q[d][m] = q[e][n] => d = e /\ m = n)
    BY <2>0 DEF Owned
  <2>4. q[d][m] = q[c][1] => d = c /\ m = 1
    BY <1>1, <1>3, <2>0 DEF Owned
  <2> QED  BY <1>1, <2>0, <2>1, <2>2, <2>3, <2>4
<1>5. Owned(r, cl, x) /\ Owned(r, cl, Head(q[c]))
  BY <1>4 DEF Owned
<1> QED
  BY <1>3, <1>5 DEF r

(* What remains keeps its order, its waits and its bounds. *)
LEMMA TakeSorted ==
  ASSUME NEW q \in Queues, NEW c \in ReadyClasses(q), NEW w, Sorted(q, w)
  PROVE  Sorted([q EXCEPT ![c] = Tail(@)], w)
<1> DEFINE r == [q EXCEPT ![c] = Tail(@)]
<1>1. c \in Class /\ Len(q[c]) \in Nat \ {0}
  BY TakeType
<1>2. ASSUME NEW d \in Class, NEW i \in 1 .. Len(r[d]), NEW j \in 1 .. Len(r[d]), i < j
      PROVE  w[r[d][i]] >= w[r[d][j]]
  <2>1. CASE d = c
    <3>1. /\ i + 1 \in 1 .. Len(q[d]) /\ r[d][i] = q[d][i + 1]
          /\ j + 1 \in 1 .. Len(q[d]) /\ r[d][j] = q[d][j + 1]
      BY <1>1, <2>1 DEF Queues
    <3>2. i + 1 < j + 1
      BY <1>2
    <3> QED  BY <3>1, <3>2 DEF Sorted
  <2>2. CASE d # c
    BY <1>1, <1>2, <2>2 DEF Queues, Sorted
  <2> QED  BY <2>1, <2>2
<1> QED
  BY <1>2 DEF Sorted

(* Queues hold spawned tasks only, before and after. *)
LEMMA TakeBorn ==
  ASSUME NEW q \in Queues, NEW c \in ReadyClasses(q), NEW n \in Nat, AllBorn(q, n)
  PROVE  AllBorn([q EXCEPT ![c] = Tail(@)], n) /\ Head(q[c]) <= n
<1> DEFINE r == [q EXCEPT ![c] = Tail(@)]
<1>1. c \in Class /\ Len(q[c]) \in Nat \ {0} /\ Head(q[c]) = q[c][1]
  BY TakeType
<1>2. ASSUME NEW d \in Class, NEW i \in 1 .. Len(r[d])
      PROVE  r[d][i] <= n
  <2>1. CASE d = c
    <3>1. i + 1 \in 1 .. Len(q[d]) /\ r[d][i] = q[d][i + 1]
      BY <1>1, <2>1 DEF Queues
    <3> QED  BY <3>1 DEF AllBorn
  <2>2. CASE d # c
    BY <1>1, <2>2 DEF Queues, AllBorn
  <2> QED  BY <2>1, <2>2
<1>3. 1 \in 1 .. Len(q[c])
  BY <1>1
<1> QED
  BY <1>1, <1>2, <1>3 DEF AllBorn

-----------------------------------------------------------------------------
(* Lemmas about putting a task at the back of a queue *)

(* Putting a task leaves well-typed queues. *)
LEMMA PutType ==
  ASSUME NEW q \in Queues, NEW c \in Class, NEW t \in Tasks
  PROVE  /\ [q EXCEPT ![c] = Append(@, t)] \in Queues
         /\ Len(q[c]) \in Nat
         /\ \A d \in Class : \A i \in 1 .. Len([q EXCEPT ![c] = Append(@, t)][d]) :
              \/ /\ i \in 1 .. Len(q[d])
                 /\ [q EXCEPT ![c] = Append(@, t)][d][i] = q[d][i]
              \/ /\ d = c /\ i = Len(q[c]) + 1
                 /\ [q EXCEPT ![c] = Append(@, t)][d][i] = t
BY DEF Queues

(* A task that was outside all queues joins the one of its class. *)
LEMMA PutOwned ==
  ASSUME NEW q \in Queues, NEW c \in Class, NEW t \in Tasks, NEW cl, NEW x,
         Owned(q, cl, t), Owned(q, cl, x), cl[t] = c, x # t
  PROVE  Owned([q EXCEPT ![c] = Append(@, t)], cl, x)
<1> DEFINE r == [q EXCEPT ![c] = Append(@, t)]
<1>1. \A d \in Class : \A i \in 1 .. Len(r[d]) :
        \/ i \in 1 .. Len(q[d]) /\ r[d][i] = q[d][i]
        \/ d = c /\ i = Len(q[c]) + 1 /\ r[d][i] = t
  BY PutType
<1> HIDE DEF r
<1>2. ASSUME NEW d \in Class, NEW e \in Class,
             NEW i \in 1 .. Len(r[d]), NEW j \in 1 .. Len(r[e])
      PROVE  /\ cl[r[d][i]] = d
             /\ r[d][i] # x
             /\ r[d][i] = r[e][j] => d = e /\ i = j
  <2>1. cl[r[d][i]] = d /\ r[d][i] # x
    BY <1>1 DEF Owned
  <2>2. r[d][i] = r[e][j] => d = e /\ i = j
    BY <1>1 DEF Owned
  <2> QED  BY <2>1, <2>2
<1>3. Owned(r, cl, x)
  BY <1>2 DEF Owned
<1> QED
  BY <1>3 DEF r

(* Order is kept when the newcomer has waited no longer than the others. *)
LEMMA PutSorted ==
  ASSUME NEW q \in Queues, NEW c \in Class, NEW t \in Tasks, NEW w,
         Sorted(q, w), \A i \in 1 .. Len(q[c]) : w[q[c][i]] >= w[t]
  PROVE  Sorted([q EXCEPT ![c] = Append(@, t)], w)
<1> DEFINE r == [q EXCEPT ![c] = Append(@, t)]
<1>1. \A d \in Class : \A i \in 1 .. Len(r[d]) :
        \/ i \in 1 .. Len(q[d]) /\ r[d][i] = q[d][i]
        \/ d = c /\ i = Len(q[c]) + 1 /\ r[d][i] = t
  BY PutType
<1>2. Len(q[c]) \in Nat
  BY PutType
<1> HIDE DEF r
<1>3. ASSUME NEW d \in Class, NEW i \in 1 .. Len(r[d]), NEW j \in 1 .. Len(r[d]), i < j
      PROVE  w[r[d][i]] >= w[r[d][j]]
  <2>1. CASE j \in 1 .. Len(q[d]) /\ r[d][j] = q[d][j]
    <3>1. i \in 1 .. Len(q[d]) /\ r[d][i] = q[d][i]
      BY <1>1, <1>2, <1>3, <2>1
    <3> QED  BY <1>3, <2>1, <3>1 DEF Sorted
  <2>2. CASE d = c /\ j = Len(q[c]) + 1 /\ r[d][j] = t
    <3>1. i \in 1 .. Len(q[c]) /\ r[d][i] = q[c][i]
      BY <1>1, <1>2, <1>3, <2>2
    <3> QED  BY <2>2, <3>1
  <2> QED  BY <1>1, <2>1, <2>2
<1>4. Sorted(r, w)
  BY <1>3 DEF Sorted
<1> QED
  BY <1>4 DEF r

(* A spawned task may join; the queues still hold spawned tasks only. *)
LEMMA PutBorn ==
  ASSUME NEW q \in Queues, NEW c \in Class, NEW t \in Tasks, NEW n \in Nat,
         AllBorn(q, n), t <= n
  PROVE  AllBorn([q EXCEPT ![c] = Append(@, t)], n)
<1> DEFINE r == [q EXCEPT ![c] = Append(@, t)]
<1>1. \A d \in Class : \A i \in 1 .. Len(r[d]) :
        \/ i \in 1 .. Len(q[d]) /\ r[d][i] = q[d][i]
        \/ d = c /\ i = Len(q[c]) + 1 /\ r[d][i] = t
  BY PutType
<1> HIDE DEF r
<1>2. AllBorn(r, n)
  BY <1>1 DEF AllBorn
<1> QED
  BY <1>2 DEF r

-----------------------------------------------------------------------------
(* Lemmas about waits *)

(* Waits of tasks outside the queues do not matter to the order. *)
LEMMA SortedAgrees ==
  ASSUME NEW q, NEW w, NEW v, Sorted(q, w),
         \A c \in Class : \A i \in 1 .. Len(q[c]) : v[q[c][i]] = w[q[c][i]]
  PROVE  Sorted(q, v)
BY DEF Sorted

(* The members of the queues, by position. *)
LEMMA QueuedAt ==
  ASSUME TypeOK, NEW c \in Class, NEW i \in 1 .. Len(queues[c])
  PROVE  queues[c][i] \in Tasks /\ queues[c][i] \in Queued
BY DEF TypeOK, Queued

(* A tick keeps waits in range and keeps every order that held before it. *)
LEMMA AgedWaits ==
  ASSUME TypeOK
  PROVE  /\ Aged \in [Tasks -> 0 .. WAIT_CAP]
         /\ AgedPromotion \in 0 .. PROMOTION_INTERVAL
         /\ \A t \in Tasks : t \notin Queued /\ ~Stamped(t) => Aged[t] = waited[t]
         /\ \A t \in Tasks : \A u \in Queued :
              waited[u] >= waited[t] => Aged[u] >= Aged[t]
<1>0. waited \in [Tasks -> 0 .. WAIT_CAP] /\ WAIT_CAP \in Nat
  BY SchedAssumption DEF TypeOK
<1>1. \A t \in Tasks : Aged[t] \in 0 .. WAIT_CAP
  BY <1>0 DEF Aged, AtMost
<1>2. Aged \in [Tasks -> 0 .. WAIT_CAP]
  BY <1>1 DEF Aged
<1>3. AgedPromotion \in 0 .. PROMOTION_INTERVAL
  BY SchedAssumption DEF TypeOK, AgedPromotion, AtMost
<1>4. \A t \in Tasks : t \notin Queued /\ ~Stamped(t) => Aged[t] = waited[t]
  BY DEF Aged
<1>5. ASSUME NEW t \in Tasks, NEW u \in Queued, waited[u] >= waited[t]
      PROVE  Aged[u] >= Aged[t]
  <2>1. u \in Tasks
    BY DEF Queued
  <2>2. Aged[u] = AtMost(waited[u] + 1, WAIT_CAP)
    BY <2>1 DEF Aged
  <2>3. Aged[t] \in {waited[t], AtMost(waited[t] + 1, WAIT_CAP)}
    BY DEF Aged
  <2>4. waited[t] \in 0 .. WAIT_CAP /\ waited[u] \in 0 .. WAIT_CAP
    BY <1>0, <2>1
  <2> QED  BY <1>0, <1>5, <2>2, <2>3, <2>4 DEF AtMost
<1> QED
  BY <1>2, <1>3, <1>4, <1>5

(* A tick keeps the queues in order of waiting time. *)
LEMMA AgedSorted ==
  ASSUME TypeOK, OldestFirst
  PROVE  Sorted(queues, Aged)
<1> SUFFICES ASSUME NEW c \in Class, NEW i \in 1 .. Len(queues[c]),
                    NEW j \in 1 .. Len(queues[c]), i < j
             PROVE  Aged[queues[c][i]] >= Aged[queues[c][j]]
  BY DEF Sorted
<1>1. waited[queues[c][i]] >= waited[queues[c][j]]
  BY DEF OldestFirst
<1> QED
  BY <1>1, QueuedAt, AgedWaits

(* A task that is not spawned is in no queue. *)
LEMMA UnbornNotQueued ==
  ASSUME TypeOK, Born, NEW t \in Tasks, t > spawned
  PROVE  t \notin Queued
BY DEF TypeOK, Born, AllBorn, Queued, Tasks

(* A tick does not age a task nobody has stamped. *)
LEMMA AgedUnborn ==
  ASSUME TypeOK, Born, UnbornNotWaiting, NEW t \in Tasks, t > spawned, ~Stamped(t)
  PROVE  Aged[t] = 0
BY UnbornNotQueued, AgedWaits DEF UnbornNotWaiting

(* Resetting a counter of two tasks, or of one, keeps its type. *)
LEMMA Update ==
  ASSUME NEW D, NEW S, NEW f \in [D -> S], NEW a, NEW b, NEW x \in S, NEW y \in S
  PROVE  /\ [f EXCEPT ![a] = x] \in [D -> S]
         /\ [f EXCEPT ![a] = x, ![b] = y] \in [D -> S]
OBVIOUS

(* A reset counter is in range. *)
LEMMA Zeros == 0 \in 0 .. WAIT_CAP /\ 0 \in 0 .. TICKS_CAP
BY SchedAssumption

-----------------------------------------------------------------------------
(* The initial states *)

(* The invariant holds at boot. *)
LEMMA InitIInv == Init => IInv
<1> SUFFICES ASSUME Init PROVE IInv
  OBVIOUS
<1>0. \A c \in Class : queues[c] = <<>> /\ Len(queues[c]) = 0
  BY DEF Init
<1>1. TypeOK
  BY SchedAssumption DEF Init, TypeOK, Class, Normal
<1>2. OneOwner /\ OldestFirst
  BY <1>0 DEF OneOwner, OldestFirst
<1>3. Born
  BY <1>0 DEF Init, Born, AllBorn, NoTask
<1>4. BootFirst /\ StampYoungest /\ UnbornNotWaiting
  BY DEF Init, BootFirst, StampYoungest, UnbornNotWaiting
<1> QED
  BY <1>1, <1>2, <1>3, <1>4 DEF IInv

(* The head of a queue becomes current, and the outgoing task, if it lives,
   joins the back of its queue: plan_switch with a running task. *)
LEMMA PlanSwitchKeeps ==
  ASSUME IInv, current # NoTask, ReadyClasses(queues) # {},
         NEW w \in [Tasks -> 0 .. WAIT_CAP], NEW s \in 0 .. PROMOTION_INTERVAL,
         Sorted(queues, w), \A t \in Tasks : t > spawned => w[t] = 0,
         PlanSwitch(w, s), UNCHANGED <<class, boot, spawned>>
  PROVE  IInv'
<1> DEFINE pick == PickNext(queues, w, s)
<1>0. queues \in Queues /\ Owned(queues, class, current) /\ current \in Tasks
  BY DEF IInv, TypeOK, OneOwner, Owned, Queues
<1>1. PICK c \in ReadyClasses(queues) :
        /\ pick.task = Head(queues[c])
        /\ pick.queues = [queues EXCEPT ![c] = Tail(@)]
        /\ pick.promoted \in BOOLEAN
        /\ pick.since \in {0, s}
  BY <1>0, PickTakesAHead
<1>2. /\ queues' = [pick.queues EXCEPT ![class[current]] = Append(@, current)]
      /\ current' = pick.task
      /\ waited' = [w EXCEPT ![pick.task] = 0, ![current] = 0]
      /\ ticksUsed' = [ticksUsed EXCEPT ![pick.task] = 0, ![current] = 0]
      /\ promoted' = [promoted EXCEPT ![pick.task] = pick.promoted, ![current] = FALSE]
      /\ sincePromotion' = pick.since
  BY DEF PlanSwitch
<1> DEFINE h == Head(queues[c])
           r == [queues EXCEPT ![c] = Tail(@)]
<1>3. h \in Tasks /\ r \in Queues /\ class[current] \in Class
  BY <1>0, TakeType DEF IInv, TypeOK
<1>4. /\ Owned(r, class, h) /\ Owned(r, class, current) /\ h # current
      /\ Sorted(r, w) /\ AllBorn(r, spawned) /\ h <= spawned
  <2>1. Owned(r, class, h) /\ Owned(r, class, current) /\ h # current
    BY <1>0, TakeOwned
  <2>2. Sorted(r, w)
    BY <1>0, TakeSorted
  <2>3. spawned \in Nat /\ AllBorn(queues, spawned)
    BY DEF IInv, Born, TypeOK
  <2>4. AllBorn(r, spawned) /\ h <= spawned
    BY <1>0, <2>3, TakeBorn
  <2> QED  BY <2>1, <2>2, <2>4
<1>5. /\ queues' = [r EXCEPT ![class[current]] = Append(@, current)]
      /\ current' = h
      /\ waited' = [w EXCEPT ![h] = 0, ![current] = 0]
  BY <1>1, <1>2
<1> HIDE DEF h, r, pick
<1>6. TypeOK'
  <2>1. queues' \in Queues /\ current' \in Tasks
    BY <1>0, <1>3, <1>5, PutType
  <2>2. waited' \in [Tasks -> 0 .. WAIT_CAP]
    BY <1>5, Zeros, Update
  <2>2a. ticksUsed' \in [Tasks -> 0 .. TICKS_CAP]
    <3>1. ticksUsed \in [Tasks -> 0 .. TICKS_CAP]
      BY DEF IInv, TypeOK
    <3> QED  BY <3>1, <1>2, Zeros, Update
  <2>3. promoted' \in [Tasks -> BOOLEAN]
    BY <1>1, <1>2 DEF IInv, TypeOK
  <2>4. sincePromotion' \in 0 .. PROMOTION_INTERVAL
    BY <1>1, <1>2, SchedAssumption
  <2> QED  BY <2>1, <2>2, <2>2a, <2>3, <2>4 DEF IInv, TypeOK, Queues
<1>7. OneOwner'
  <2>1. Owned(queues', class, h)
    BY <1>0, <1>3, <1>4, <1>5, PutOwned
  <2> QED  BY <2>1, <1>5 DEF Owned, OneOwner
<1>8. OldestFirst'
  <2>1. \A d \in Class : \A i \in 1 .. Len(r[d]) :
          /\ r[d][i] \in Tasks /\ r[d][i] # h /\ r[d][i] # current
    BY <1>3, <1>4 DEF Owned, Queues
  <2>2. \A d \in Class : \A i \in 1 .. Len(r[d]) : waited'[r[d][i]] = w[r[d][i]]
    BY <2>1, <1>0, <1>3, <1>5
  <2>3. Sorted(r, waited')
    BY <2>2, <1>4, SortedAgrees
  <2>4. \A i \in 1 .. Len(r[class[current]]) :
          waited'[r[class[current]][i]] >= waited'[current]
    BY <2>1, <2>2, <1>0, <1>3, <1>5
  <2>5. Sorted(queues', waited')
    BY <2>3, <2>4, <1>0, <1>3, <1>5, PutSorted
  <2> QED  BY <2>5 DEF Sorted, OldestFirst
<1>9. Born'
  <2>0. spawned \in Nat /\ current <= spawned
    BY DEF IInv, Born, TypeOK
  <2>1. AllBorn(queues', spawned)
    BY <1>0, <1>3, <1>4, <1>5, <2>0, PutBorn
  <2> QED  BY <2>1, <1>4, <1>5 DEF Born, AllBorn
<1>10. BootFirst' /\ StampYoungest'
  BY <1>3, <1>5 DEF IInv, BootFirst, StampYoungest, Tasks, NoTask
<1>11. UnbornNotWaiting'
  BY <1>0, <1>3, <1>5 DEF UnbornNotWaiting, Stamped
<1> QED
  BY <1>6, <1>7, <1>8, <1>9, <1>10, <1>11 DEF IInv

(* The head of a queue becomes current and nobody goes back: run_until_idle,
   and exit_task when another task is ready. *)
LEMMA DispatchKeeps ==
  ASSUME IInv, ReadyClasses(queues) # {},
         Dispatch(PickNext(queues, waited, sincePromotion), waited),
         queues' = PickNext(queues, waited, sincePromotion).queues,
         boot' \in {"parked", "returned"}, UNCHANGED <<class, spawned>>,
         boot \in {"parked", "returned"} \/ spawned = N
  PROVE  IInv'
<1> DEFINE pick == PickNext(queues, waited, sincePromotion)
<1>0. queues \in Queues /\ Owned(queues, class, current) /\ Sorted(queues, waited)
  BY DEF IInv, TypeOK, OneOwner, OldestFirst, Owned, Sorted, Queues
<1>1. PICK c \in ReadyClasses(queues) :
        /\ pick.task = Head(queues[c])
        /\ pick.queues = [queues EXCEPT ![c] = Tail(@)]
        /\ pick.promoted \in BOOLEAN
        /\ pick.since \in {0, sincePromotion}
  BY <1>0, PickTakesAHead
<1>2. /\ current' = pick.task
      /\ waited' = [waited EXCEPT ![pick.task] = 0]
      /\ ticksUsed' = [ticksUsed EXCEPT ![pick.task] = 0]
      /\ promoted' = [promoted EXCEPT ![pick.task] = pick.promoted]
      /\ sincePromotion' = pick.since
  BY DEF Dispatch
<1> DEFINE h == Head(queues[c])
           r == [queues EXCEPT ![c] = Tail(@)]
<1>3. h \in Tasks /\ r \in Queues
  BY <1>0, TakeType
<1>4. Owned(r, class, h) /\ Sorted(r, waited)
  BY <1>0, TakeOwned, TakeSorted
<1>5. AllBorn(r, spawned) /\ h <= spawned
  <2>1. spawned \in Nat /\ AllBorn(queues, spawned)
    BY DEF IInv, Born, TypeOK
  <2> QED  BY <1>0, <2>1, TakeBorn
<1>6. queues' = r /\ current' = h /\ waited' = [waited EXCEPT ![h] = 0]
  BY <1>1, <1>2
<1> HIDE DEF h, r, pick
<1>7. TypeOK'
  <2>1. /\ waited \in [Tasks -> 0 .. WAIT_CAP]
        /\ ticksUsed \in [Tasks -> 0 .. TICKS_CAP]
        /\ promoted \in [Tasks -> BOOLEAN]
    BY DEF IInv, TypeOK
  <2>2. /\ waited' \in [Tasks -> 0 .. WAIT_CAP]
        /\ ticksUsed' \in [Tasks -> 0 .. TICKS_CAP]
    BY <2>1, <1>2, <1>6, Zeros, Update
  <2>3. promoted' \in [Tasks -> BOOLEAN]
    BY <2>1, <1>1, <1>2, Update
  <2>4. sincePromotion' \in 0 .. PROMOTION_INTERVAL
    BY <1>1, <1>2, SchedAssumption DEF IInv, TypeOK
  <2> QED  BY <2>2, <2>3, <2>4, <1>3, <1>6 DEF IInv, TypeOK, Queues
<1>8. OneOwner'
  BY <1>4, <1>6 DEF Owned, OneOwner
<1>9. OldestFirst'
  <2>1. \A d \in Class : \A i \in 1 .. Len(r[d]) : r[d][i] # h
    BY <1>4 DEF Owned
  <2>2. \A d \in Class : \A i \in 1 .. Len(r[d]) : waited'[r[d][i]] = waited[r[d][i]]
    BY <2>1, <1>6
  <2>3. Sorted(r, waited')
    BY <2>2, <1>4, SortedAgrees
  <2> QED  BY <2>3, <1>6 DEF Sorted, OldestFirst
<1>10. Born' /\ BootFirst' /\ StampYoungest'
  BY <1>5, <1>6 DEF Born, AllBorn, BootFirst, StampYoungest
<1>11. UnbornNotWaiting'
  <2>1. \A t \in Tasks : t > spawned => waited[t] = 0
    BY DEF IInv, TypeOK, UnbornNotWaiting, Stamped, Tasks
  <2> QED  BY <2>1, <1>3, <1>6 DEF IInv, TypeOK, UnbornNotWaiting
<1> QED
  BY <1>7, <1>8, <1>9, <1>10, <1>11 DEF IInv

(* A tick, or no time at all, passes and no task moves. *)
LEMMA TimeKeeps ==
  ASSUME IInv, UNCHANGED <<queues, current, class, boot, spawned>>,
         waited' \in {waited, Aged},
         ticksUsed' \in [Tasks -> 0 .. TICKS_CAP],
         promoted' \in [Tasks -> BOOLEAN],
         sincePromotion' \in 0 .. PROMOTION_INTERVAL
  PROVE  IInv'
<1>1. TypeOK'
  BY AgedWaits DEF IInv, TypeOK
<1>2. OneOwner' /\ Born' /\ BootFirst'
  BY DEF IInv, OneOwner, Born, AllBorn, BootFirst, ReadyClasses
<1>3. OldestFirst'
  <2>1. Sorted(queues, waited')
    BY AgedSorted DEF IInv, OldestFirst, Sorted
  <2> QED  BY <2>1 DEF OldestFirst, Sorted
<1>4. StampYoungest'
  <2> SUFFICES ASSUME boot = "stamped", NEW c \in Class, NEW i \in 1 .. Len(queues[c])
               PROVE  waited'[queues[c][i]] >= waited'[spawned + 1]
    BY DEF StampYoungest
  <2>0. spawned \in 0 .. N /\ spawned < N /\ N \in Nat
    BY SchedAssumption DEF IInv, TypeOK, BootFirst
  <2>1. spawned + 1 \in Tasks /\ waited[queues[c][i]] >= waited[spawned + 1]
    BY <2>0 DEF IInv, StampYoungest, Tasks
  <2>2. TypeOK /\ queues[c][i] \in Queued
    BY QueuedAt DEF IInv
  <2> QED  BY <2>1, <2>2, AgedWaits
<1>5. UnbornNotWaiting'
  <2> SUFFICES ASSUME NEW t \in Tasks, t > spawned, ~Stamped(t)
               PROVE  waited'[t] = 0
    BY DEF UnbornNotWaiting, Stamped
  <2>1. waited[t] = 0
    BY DEF IInv, UnbornNotWaiting
  <2>2. Aged[t] = 0
    BY AgedUnborn DEF IInv
  <2> QED  BY <2>1, <2>2
<1> QED
  BY <1>1, <1>2, <1>3, <1>4, <1>5 DEF IInv

(* plan_switch with nothing current puts the head back where it was. *)
LEMMA PutBack ==
  ASSUME TypeOK, OneOwner, NEW w, NEW s \in 0 .. PROMOTION_INTERVAL,
         ReadyClasses(queues) # {}, PlanSwitchNoCurrent(w, s)
  PROVE  queues' = queues /\ sincePromotion' \in 0 .. PROMOTION_INTERVAL
<1> DEFINE pick == PickNext(queues, w, s)
<1>0. queues \in Queues /\ Owned(queues, class, current)
  BY DEF TypeOK, OneOwner, Owned, Queues
<1>1. PICK c \in ReadyClasses(queues) :
        /\ pick.task = Head(queues[c])
        /\ pick.queues = [queues EXCEPT ![c] = Tail(@)]
        /\ pick.since \in {0, s}
  BY <1>0, PickTakesAHead
<1>2. /\ queues' = [pick.queues EXCEPT ![class[pick.task]] = <<pick.task>> \o @]
      /\ sincePromotion' = pick.since
  BY DEF PlanSwitchNoCurrent
<1>3. class[Head(queues[c])] = c /\ c \in Class
  BY <1>0, TakeOwned, TakeType
<1> HIDE DEF pick
<1>4. queues' = [queues EXCEPT ![c] = <<Head(queues[c])>> \o Tail(queues[c])]
  BY <1>0, <1>1, <1>2, <1>3 DEF Queues
<1>5. <<Head(queues[c])>> \o Tail(queues[c]) = queues[c]
  BY <1>0, <1>3 DEF Queues, ReadyClasses
<1>6. queues' = queues
  BY <1>0, <1>4, <1>5 DEF Queues
<1>7. sincePromotion' \in 0 .. PROMOTION_INTERVAL
  BY <1>1, <1>2, SchedAssumption
<1> QED
  BY <1>6, <1>7

-----------------------------------------------------------------------------
(* The steps *)

(* spawn reads the clock: the stamp is no older than any queued one. *)
LEMMA SpawnStampKeeps == IInv /\ SpawnStamp => IInv'
<1> SUFFICES ASSUME IInv, SpawnStamp PROVE IInv'
  OBVIOUS
<1> USE DEF SpawnStamp
<1>0. spawned \in 0 .. N /\ spawned < N /\ N \in Nat
  BY SchedAssumption DEF IInv, TypeOK
<1>1. TypeOK' /\ OneOwner' /\ OldestFirst' /\ Born' /\ BootFirst'
  BY <1>0 DEF IInv, TypeOK, OneOwner, OldestFirst, Born, AllBorn, BootFirst
<1>2. spawned + 1 \in Tasks /\ waited[spawned + 1] = 0
  BY <1>0 DEF IInv, UnbornNotWaiting, Stamped, Tasks
<1>3. StampYoungest'
  <2> SUFFICES ASSUME NEW c \in Class, NEW i \in 1 .. Len(queues[c])
               PROVE  waited[queues[c][i]] >= waited[spawned + 1]
    BY DEF StampYoungest
  <2>1. queues[c][i] \in Tasks
    BY QueuedAt DEF IInv
  <2>2. waited[queues[c][i]] \in Nat
    BY <2>1, SchedAssumption DEF IInv, TypeOK
  <2> QED  BY <1>2, <2>2
<1>4. UnbornNotWaiting'
  BY <1>0 DEF IInv, UnbornNotWaiting, Stamped
<1> QED
  BY <1>1, <1>3, <1>4 DEF IInv

(* spawn queues the task under that stamp, which is the youngest of its queue. *)
LEMMA SpawnEnqueueKeeps == IInv /\ SpawnEnqueue => IInv'
<1> SUFFICES ASSUME IInv, SpawnEnqueue PROVE IInv'
  OBVIOUS
<1> DEFINE t == spawned + 1
<1>0. spawned \in 0 .. N /\ spawned < N /\ N \in Nat /\ boot = "stamped" /\ current = NoTask
  BY SchedAssumption DEF IInv, TypeOK, BootFirst, SpawnEnqueue
<1>1. t \in Tasks /\ t \in Nat /\ t <= t /\ t # NoTask
  BY <1>0 DEF Tasks, NoTask
<1>2. PICK c \in MayClass[t] : /\ class' = [class EXCEPT ![t] = c]
                              /\ queues' = [queues EXCEPT ![c] = Append(@, t)]
  BY DEF SpawnEnqueue
<1>3. c \in Class
  BY <1>1, SchedAssumption
<1>4. queues \in Queues /\ Owned(queues, class, NoTask) /\ Sorted(queues, waited)
  BY <1>0 DEF IInv, TypeOK, OneOwner, OldestFirst, Owned, Sorted, Queues
<1>5. \A d \in Class : \A i \in 1 .. Len(queues[d]) : queues[d][i] # t
  BY <1>0 DEF IInv, Born, AllBorn
<1>6. AllBorn(queues, t)
  <2> SUFFICES ASSUME NEW d \in Class, NEW i \in 1 .. Len(queues[d])
               PROVE  queues[d][i] <= t
    BY DEF AllBorn
  <2>1. queues[d][i] \in Tasks
    BY <1>4 DEF Queues
  <2>2. queues[d][i] <= spawned
    BY DEF IInv, Born, AllBorn
  <2> QED  BY <1>0, <2>1, <2>2 DEF Tasks
<1>7. \A i \in 1 .. Len(queues[c]) : waited[queues[c][i]] >= waited[t]
  BY <1>0, <1>3 DEF IInv, StampYoungest
<1>8. class \in [Tasks -> Class] /\ class' \in [Tasks -> Class] /\ class'[t] = c
  BY <1>1, <1>2, <1>3, Update DEF IInv, TypeOK
<1> HIDE DEF t
<1>9. Owned(queues, class', t) /\ Owned(queues, class', NoTask)
  <2> SUFFICES ASSUME NEW d \in Class, NEW i \in 1 .. Len(queues[d])
               PROVE  class'[queues[d][i]] = class[queues[d][i]]
    BY <1>4, <1>5 DEF Owned
  <2>1. queues[d][i] \in Tasks /\ queues[d][i] # t
    BY <1>4, <1>5 DEF Queues
  <2> QED  BY <1>2, <1>8, <2>1
<1>10. /\ queues' \in Queues /\ Owned(queues', class', NoTask)
       /\ Sorted(queues', waited) /\ AllBorn(queues', t)
  <2>1. queues' \in Queues
    BY <1>1, <1>2, <1>3, <1>4, PutType
  <2>2. Owned(queues', class', NoTask)
    BY <1>1, <1>2, <1>3, <1>4, <1>8, <1>9, PutOwned
  <2>3. Sorted(queues', waited)
    BY <1>1, <1>2, <1>3, <1>4, <1>7, PutSorted
  <2>4. AllBorn(queues', t)
    BY <1>1, <1>2, <1>3, <1>4, <1>6, PutBorn
  <2> QED  BY <2>1, <2>2, <2>3, <2>4
<1>11. /\ spawned' = t /\ boot' = "running"
       /\ UNCHANGED <<current, waited, ticksUsed, promoted, sincePromotion>>
  BY DEF SpawnEnqueue, t
<1>12. TypeOK'
  BY <1>1, <1>8, <1>10, <1>11 DEF IInv, TypeOK, Queues, Tasks
<1>13. OneOwner' /\ OldestFirst'
  BY <1>0, <1>10, <1>11 DEF Owned, OneOwner, Sorted, OldestFirst
<1>14. Born' /\ StampYoungest'
  BY <1>0, <1>1, <1>10, <1>11 DEF Born, AllBorn, StampYoungest, NoTask
<1>15. BootFirst'
  <2>1. queues'[c] # <<>>
    BY <1>1, <1>2, <1>3, <1>4 DEF Queues
  <2> QED  BY <1>0, <1>3, <1>11, <2>1 DEF BootFirst, ReadyClasses
<1>16. UnbornNotWaiting'
  BY <1>0, <1>11 DEF IInv, UnbornNotWaiting, Stamped, t, Tasks
<1> QED
  BY <1>12, <1>13, <1>14, <1>15, <1>16 DEF IInv

(* run_until_idle dispatches a head. *)
LEMMA RunUntilIdleKeeps == IInv /\ RunUntilIdle => IInv'
<1> SUFFICES ASSUME IInv, RunUntilIdle PROVE IInv'
  OBVIOUS
<1>1. ReadyClasses(queues) # {}
  BY SchedAssumption DEF IInv, BootFirst, RunUntilIdle
<1> QED
  BY <1>1, DispatchKeeps DEF RunUntilIdle

(* plan_switch with nothing current moves no task. *)
LEMMA PutBackKeeps ==
  ASSUME IInv, ReadyClasses(queues) # {},
         NEW w \in {waited, Aged}, NEW s \in 0 .. PROMOTION_INTERVAL,
         PlanSwitchNoCurrent(w, s), UNCHANGED <<class, boot, spawned>>
  PROVE  IInv'
<1>1. queues' = queues /\ sincePromotion' \in 0 .. PROMOTION_INTERVAL
  BY PutBack DEF IInv
<1>2. waited' = w /\ UNCHANGED <<current, ticksUsed, promoted>>
  BY DEF PlanSwitchNoCurrent
<1>3. ticksUsed \in [Tasks -> 0 .. TICKS_CAP] /\ promoted \in [Tasks -> BOOLEAN]
  BY DEF IInv, TypeOK
<1> QED
  BY <1>1, <1>2, <1>3, TimeKeeps

(* A tick while the boot context has the CPU. *)
LEMMA TickBootKeeps == IInv /\ TickBoot => IInv'
<1> SUFFICES ASSUME IInv, TickBoot PROVE IInv'
  OBVIOUS
<1>1. /\ AgedPromotion \in 0 .. PROMOTION_INTERVAL
      /\ ticksUsed \in [Tasks -> 0 .. TICKS_CAP] /\ promoted \in [Tasks -> BOOLEAN]
  BY AgedWaits DEF IInv, TypeOK
<1>2. CASE ReadyClasses(queues) # {} /\ PlanSwitchNoCurrent(Aged, AgedPromotion)
  BY <1>1, <1>2, PutBackKeeps DEF TickBoot
<1>3. CASE /\ waited' = Aged
           /\ sincePromotion' = AgedPromotion
           /\ UNCHANGED <<queues, current, ticksUsed, promoted>>
  BY <1>1, <1>3, TimeKeeps DEF TickBoot
<1> QED
  BY <1>2, <1>3 DEF TickBoot

(* A tick after which the running task goes on. *)
LEMMA TickKeepKeeps == IInv /\ TickKeep => IInv'
<1> SUFFICES ASSUME IInv, TickKeep PROVE IInv'
  OBVIOUS
<1>1. /\ AgedPromotion \in 0 .. PROMOTION_INTERVAL
      /\ ticksUsed \in [Tasks -> 0 .. TICKS_CAP] /\ promoted \in [Tasks -> BOOLEAN]
      /\ current \in Tasks
  BY AgedWaits DEF IInv, TypeOK, TickKeep
<1>2. AtMost(ticksUsed[current] + 1, TICKS_CAP) \in 0 .. TICKS_CAP
  BY <1>1, SchedAssumption DEF AtMost
<1>3. ticksUsed' \in [Tasks -> 0 .. TICKS_CAP]
  BY <1>1, <1>2, Update DEF TickKeep
<1> QED
  BY <1>1, <1>3, TimeKeeps DEF TickKeep

(* should_preempt says yes only when there is somebody to run instead. *)
LEMMA PreemptFindsATask ==
  ASSUME NEW c \in Class, NEW used, NEW p, NEW w, ShouldPreempt(c, used, p, w)
  PROVE  ReadyClasses(queues) # {}
BY DEF ShouldPreempt, HigherClassWaiting, Outranked, AnyStarving, StarvingClasses, ReadyClasses

(* A tick that takes the CPU from the running task. *)
LEMMA TickPreemptKeeps == IInv /\ TickPreempt => IInv'
<1> SUFFICES ASSUME IInv, TickPreempt PROVE IInv'
  OBVIOUS
<1>1. TypeOK /\ OldestFirst /\ Born /\ UnbornNotWaiting /\ current # NoTask
      /\ class[current] \in Class /\ boot # "stamped"
  BY DEF IInv, TypeOK, TickPreempt, BootFirst
<1>2. ReadyClasses(queues) # {}
  BY <1>1, PreemptFindsATask DEF TickPreempt
<1>3. \A t \in Tasks : t > spawned => Aged[t] = 0
  BY <1>1, AgedUnborn DEF Stamped
<1> QED
  BY <1>1, <1>2, <1>3, AgedWaits, AgedSorted, PlanSwitchKeeps DEF TickPreempt

(* yield_now and the yield system call. *)
LEMMA YieldKeeps == IInv /\ Yield => IInv'
<1> SUFFICES ASSUME IInv, Yield PROVE IInv'
  OBVIOUS
<1>1. /\ current # NoTask /\ boot # "stamped"
      /\ waited \in [Tasks -> 0 .. WAIT_CAP]
      /\ sincePromotion \in 0 .. PROMOTION_INTERVAL
  BY DEF IInv, TypeOK, BootFirst, Yield
<1>2. \A t \in Tasks : t > spawned => waited[t] = 0
  BY <1>1 DEF IInv, UnbornNotWaiting, Stamped
<1>3. Sorted(queues, waited)
  BY DEF IInv, OldestFirst, Sorted
<1> QED
  BY <1>1, <1>2, <1>3, PlanSwitchKeeps DEF Yield

(* A yield by a Ring 3 program of the boot context. *)
LEMMA YieldFromBootKeeps == IInv /\ YieldFromBoot => IInv'
<1> SUFFICES ASSUME IInv, YieldFromBoot PROVE IInv'
  OBVIOUS
<1>1. sincePromotion \in 0 .. PROMOTION_INTERVAL
  BY DEF IInv, TypeOK
<1> QED
  BY <1>1, PutBackKeeps DEF YieldFromBoot

(* exit_task, with and without another ready task. *)
LEMMA ExitTaskKeeps == IInv /\ ExitTask => IInv'
<1> SUFFICES ASSUME IInv, ExitTask PROVE IInv'
  OBVIOUS
<1>1. boot \in {"parked", "returned"}
  BY DEF IInv, TypeOK, BootFirst, ExitTask
<1>2. CASE ReadyClasses(queues) # {}
  BY <1>1, <1>2, DispatchKeeps DEF ExitTask
<1>3. CASE ReadyClasses(queues) = {}
  <2>1. \A c \in Class : Len(queues[c]) = 0
    BY <1>3 DEF ReadyClasses
  <2>2. /\ current' = NoTask /\ boot' = "returned"
        /\ UNCHANGED <<queues, class, waited, ticksUsed, promoted, sincePromotion, spawned>>
    BY <1>3 DEF ExitTask
  <2>3. TypeOK'
    BY <2>2 DEF IInv, TypeOK
  <2>4. OneOwner' /\ OldestFirst' /\ BootFirst' /\ StampYoungest'
    BY <2>1, <2>2 DEF OneOwner, OldestFirst, BootFirst, StampYoungest
  <2>5. Born'
    BY <2>1, <2>2 DEF IInv, TypeOK, Born, AllBorn, NoTask
  <2>6. UnbornNotWaiting'
    BY <1>1, <2>2 DEF IInv, UnbornNotWaiting, Stamped
  <2> QED  BY <2>3, <2>4, <2>5, <2>6 DEF IInv
<1> QED
  BY <1>2, <1>3

(* set_current_class touches a task that is in no queue. *)
LEMMA SetCurrentClassKeeps ==
  ASSUME IInv, NEW c \in ReclassTo, SetCurrentClass(c)
  PROVE  IInv'
<1>1. /\ current # NoTask
      /\ class' = [class EXCEPT ![current] = c]
      /\ UNCHANGED <<queues, current, waited, ticksUsed, promoted, sincePromotion,
                     boot, spawned>>
  BY DEF SetCurrentClass
<1>2. class \in [Tasks -> Class] /\ c \in Class
  BY SchedAssumption DEF IInv, TypeOK
<1>3. TypeOK'
  BY <1>1, <1>2, Update DEF IInv, TypeOK
<1>4. OneOwner'
  <2> SUFFICES ASSUME NEW d \in Class, NEW i \in 1 .. Len(queues[d])
               PROVE  class'[queues[d][i]] = class[queues[d][i]]
    BY <1>1 DEF IInv, OneOwner
  <2>1. queues[d][i] \in Tasks /\ queues[d][i] # current
    BY QueuedAt DEF IInv, OneOwner
  <2> QED  BY <1>1, <1>2, <2>1
<1>5. OldestFirst' /\ Born' /\ BootFirst' /\ StampYoungest' /\ UnbornNotWaiting'
  BY <1>1 DEF IInv, OldestFirst, Born, AllBorn, BootFirst, ReadyClasses, StampYoungest,
              UnbornNotWaiting, Stamped
<1> QED
  BY <1>3, <1>4, <1>5 DEF IInv

(* Every step keeps the invariant. *)
LEMMA NextIInv == IInv /\ [Next]_vars => IInv'
<1> SUFFICES ASSUME IInv, [Next]_vars PROVE IInv'
  OBVIOUS
<1>1. CASE BootStep
  BY <1>1, SpawnStampKeeps, SpawnEnqueueKeeps, RunUntilIdleKeeps DEF BootStep
<1>2. CASE Tick
  BY <1>2, TickBootKeeps, TickKeepKeeps, TickPreemptKeeps DEF Tick
<1>3. CASE Yield
  BY <1>3, YieldKeeps
<1>4. CASE YieldFromBoot
  BY <1>4, YieldFromBootKeeps
<1>5. CASE ExitTask
  BY <1>5, ExitTaskKeeps
<1>6. CASE \E c \in ReclassTo : SetCurrentClass(c)
  BY <1>6, SetCurrentClassKeeps
<1>7. CASE UNCHANGED vars
  BY <1>7 DEF vars, IInv, TypeOK, OneOwner, OldestFirst, Born, AllBorn, BootFirst,
              ReadyClasses, StampYoungest, UnbornNotWaiting, Stamped
<1> QED
  BY <1>1, <1>2, <1>3, <1>4, <1>5, <1>6, <1>7 DEF Next

-----------------------------------------------------------------------------
(* The theorems *)

(* The inductive invariant holds in every reachable state of the scheduler. *)
THEOREM Invariance == Spec => []IInv
<1>1. Init => IInv
  BY InitIInv
<1>2. IInv /\ [Next]_vars => IInv'
  BY NextIInv
<1> QED
  BY <1>1, <1>2, PTL DEF Spec

(* Every variable stays in its type: in particular a wait, a quantum count
   and the promotion clock never leave their range, whatever the load. *)
THEOREM TypeCorrect == Spec => []TypeOK
<1>1. IInv => TypeOK
  BY DEF IInv
<1> QED
  BY <1>1, Invariance, PTL

(* A task has one owner at any time, for any number of tasks: what makes the
   moves of Box<Task> between current and the three queues sound. *)
THEOREM Ownership == Spec => []OneOwner
<1>1. IInv => OneOwner
  BY DEF IInv
<1> QED
  BY <1>1, Invariance, PTL

(* The fronts are the oldest: pick_next and any_starving, which look at
   nothing else, miss no starved task. *)
THEOREM FrontsAreOldest == Spec => []OldestFirst
<1>1. IInv => OldestFirst
  BY DEF IInv
<1> QED
  BY <1>1, Invariance, PTL

-----------------------------------------------------------------------------
(* What pick_next returns is a task that was queued. *)
LEMMA PickIsATask ==
  ASSUME NEW q \in Queues, NEW w, NEW s, ReadyClasses(q) # {}
  PROVE  PickNext(q, w, s).task \in Tasks
<1>1. PICK c \in ReadyClasses(q) :
        /\ PickNext(q, w, s).task = Head(q[c])
        /\ PickNext(q, w, s).queues = [q EXCEPT ![c] = Tail(@)]
        /\ PickNext(q, w, s).promoted \in BOOLEAN
        /\ PickNext(q, w, s).since \in {0, s}
  BY PickTakesAHead
<1> QED
  BY <1>1, TakeType

(* Preemption, when no task changes its class while it runs *)

Prompt == UrgentFirst /\ QuantumBindsUnderContention

(* A task that was just dispatched has its whole quantum before it. *)
LEMMA FreshIsPrompt ==
  ASSUME TypeOK', current' # NoTask => ticksUsed'[current'] = 0
  PROVE  Prompt'
<1>1. current' # NoTask => Quantum[class'[current']] \in Nat \ {0}
  BY SchedAssumption DEF TypeOK
<1> QED
  BY <1>1 DEF Prompt, UrgentFirst, QuantumBindsUnderContention

(* Every step keeps promptness, given the invariant. *)
LEMMA PromptKeeps ==
  ASSUME ReclassTo = {}, IInv, Prompt, [Next]_vars
  PROVE  Prompt'
<1>0. TypeOK' /\ ticksUsed \in [Tasks -> 0 .. TICKS_CAP] /\ queues \in Queues
  BY NextIInv DEF IInv, TypeOK, Queues
<1>1. ASSUME NEW w, NEW s, PlanSwitch(w, s), ReadyClasses(queues) # {} PROVE Prompt'
  <2>1. PickNext(queues, w, s).task \in Tasks
    BY <1>0, <1>1, PickIsATask
  <2>2. ticksUsed'[current'] = 0
    BY <1>0, <1>1, <2>1 DEF PlanSwitch
  <2> QED  BY <1>0, <2>2, FreshIsPrompt
<1>2. ASSUME NEW w, NEW s, Dispatch(PickNext(queues, w, s), w), ReadyClasses(queues) # {}
      PROVE  Prompt'
  <2>1. PickNext(queues, w, s).task \in Tasks
    BY <1>0, <1>2, PickIsATask
  <2>2. ticksUsed'[current'] = 0
    BY <1>0, <1>2, <2>1 DEF Dispatch
  <2> QED  BY <1>0, <2>2, FreshIsPrompt
<1>3. ASSUME current' = NoTask PROVE Prompt'
  BY <1>0, <1>3, FreshIsPrompt
<1>4. CASE SpawnStamp \/ SpawnEnqueue
  <2>1. current' = NoTask
    BY <1>4 DEF IInv, BootFirst, SpawnStamp, SpawnEnqueue
  <2> QED  BY <1>3, <2>1
<1>5. CASE RunUntilIdle
  <2>1. ReadyClasses(queues) # {}
    BY <1>5, SchedAssumption DEF IInv, BootFirst, RunUntilIdle
  <2> QED  BY <1>2, <1>5, <2>1 DEF RunUntilIdle
<1>6. CASE TickBoot \/ YieldFromBoot
  <2>1. current' = NoTask
    BY <1>6 DEF TickBoot, YieldFromBoot, PlanSwitchNoCurrent
  <2> QED  BY <1>3, <2>1
<1>7. CASE TickKeep
  <2> DEFINE used == AtMost(ticksUsed[current] + 1, TICKS_CAP)
             c == class[current]
  <2>1. /\ current \in Tasks /\ c \in Class
        /\ ~ShouldPreempt(c, used, promoted[current], Aged)
        /\ ticksUsed'[current] = used /\ waited' = Aged
        /\ UNCHANGED <<queues, current, class>>
    BY <1>0, <1>7 DEF IInv, TypeOK, TickKeep
  <2>2. Quantum[c] \in Nat \ {0} /\ used \in Nat
    BY <1>0, <2>1, SchedAssumption DEF AtMost
  <2> HIDE DEF used
  <2>3. UrgentFirst'
    BY <2>1 DEF ShouldPreempt, UrgentFirst, HigherClassWaiting, Outranked, ReadyClasses
  <2>4. used >= Quantum[c] => queues[c] = <<>> /\ ~AnyStarving(Aged)
    BY <2>1, <2>2 DEF ShouldPreempt
  <2>5. QuantumBindsUnderContention'
    BY <2>1, <2>4 DEF QuantumBindsUnderContention, AnyStarving, StarvingClasses, ReadyClasses
  <2> QED  BY <2>3, <2>5 DEF Prompt
<1>8. CASE TickPreempt
  <2>1. class[current] \in Class
    BY <1>8 DEF IInv, TypeOK, TickPreempt
  <2>2. ReadyClasses(queues) # {}
    BY <1>8, <2>1, PreemptFindsATask DEF TickPreempt
  <2> QED  BY <1>1, <1>8, <2>2 DEF TickPreempt
<1>9. CASE Yield
  BY <1>1, <1>9 DEF Yield
<1>10. CASE ExitTask
  BY <1>2, <1>3, <1>10 DEF ExitTask
<1>11. CASE UNCHANGED vars
  BY <1>11 DEF vars, Prompt, UrgentFirst, QuantumBindsUnderContention, HigherClassWaiting,
               Outranked, AnyStarving, StarvingClasses, ReadyClasses
<1> QED
  BY <1>4, <1>5, <1>6, <1>7, <1>8, <1>9, <1>10, <1>11 DEF Next, BootStep, Tick

(* A task runs past a more urgent ready one for less than a tick, and past
   its quantum only while nobody else may have the CPU, for any number of
   tasks and any quanta. *)
THEOREM Promptness ==
  ASSUME ReclassTo = {}
  PROVE  Spec => [](UrgentFirst /\ QuantumBindsUnderContention)
<1>1. Init => Prompt
  BY DEF Init, Prompt, UrgentFirst, QuantumBindsUnderContention
<1>2. IInv /\ Prompt /\ [Next]_vars => Prompt'
  BY PromptKeeps
<1>3. Prompt => UrgentFirst /\ QuantumBindsUnderContention
  BY DEF Prompt
<1> QED
  BY <1>1, <1>2, <1>3, Invariance, PTL DEF Spec

(* SchedClass::quantum_ticks: a task that has used up its quantum keeps the
   CPU only while no peer and no starving task is ready. *)
THEOREM QuantumEnds ==
  ASSUME ReclassTo = {}
  PROVE  Spec => []QuantumBindsUnderContention
BY Promptness, PTL

-----------------------------------------------------------------------------
(***************************************************************************)
(* The scheduler of Sched.tla implements TaskLifecycle.tla.  A switch of   *)
(* plan_switch is a HandOver, exit_task a RetireTo or a RetireLast,        *)
(* run_until_idle a Start, the second half of spawn a Spawn, and every     *)
(* other step a stutter.  The invariant IInv supplies what the mapping     *)
(* needs: that the task taken from a queue was in no other place.          *)
(***************************************************************************)

Members(q) == {t \in Tasks : \E c \in Class : \E i \in 1 .. Len(q[c]) : q[c][i] = t}

life == [t \in Tasks |-> Life(t)]

-----------------------------------------------------------------------------
(* Taking the head removes exactly it from the queued tasks. *)
LEMMA TakeMembers ==
  ASSUME NEW q \in Queues, NEW c \in ReadyClasses(q), NEW cl, NEW x, Owned(q, cl, x)
  PROVE  /\ Head(q[c]) \in Members(q)
         /\ Members([q EXCEPT ![c] = Tail(@)]) = Members(q) \ {Head(q[c])}
<1> DEFINE r == [q EXCEPT ![c] = Tail(@)]
           h == Head(q[c])
<1>1. c \in Class /\ Len(q[c]) \in Nat \ {0} /\ h = q[c][1] /\ h \in Tasks
  BY TakeType
<1>2. h \in Members(q)
  BY <1>1 DEF Members
<1>3. ASSUME NEW t \in Members(r) PROVE t \in Members(q) /\ t # h
  <2>0. PICK d \in Class : \E i \in 1 .. Len(r[d]) : r[d][i] = t
    BY DEF Members
  <2>1. PICK i \in 1 .. Len(r[d]) : r[d][i] = t
    BY <2>0
  <2>2. Owned(r, cl, h)
    BY TakeOwned
  <2>3. t # h
    BY <2>1, <2>2 DEF Owned
  <2>4. \E j \in 1 .. Len(q[d]) : q[d][j] = t
    <3>1. CASE d = c
      <4>1. i + 1 \in 1 .. Len(q[d]) /\ q[d][i + 1] = t
        BY <1>1, <2>1, <3>1 DEF Queues
      <4> QED  BY <4>1
    <3>2. CASE d # c
      BY <1>1, <2>1, <3>2 DEF Queues
    <3> QED  BY <3>1, <3>2
  <2> QED  BY <2>3, <2>4 DEF Members
<1>4. ASSUME NEW t \in Members(q), t # h PROVE t \in Members(r)
  <2>0. PICK d \in Class : \E i \in 1 .. Len(q[d]) : q[d][i] = t
    BY DEF Members
  <2>1. PICK i \in 1 .. Len(q[d]) : q[d][i] = t
    BY <2>0
  <2>2. \E j \in 1 .. Len(r[d]) : r[d][j] = t
    <3>1. CASE d = c
      <4>0. i # 1
        BY <1>1, <1>4, <2>1, <3>1
      <4>1. i - 1 \in 1 .. Len(r[d]) /\ r[d][i - 1] = t
        BY <1>1, <2>1, <3>1, <4>0 DEF Queues
      <4> QED  BY <4>1
    <3>2. CASE d # c
      BY <1>1, <2>1, <3>2 DEF Queues
    <3> QED  BY <3>1, <3>2
  <2> QED  BY <2>2 DEF Members
<1> HIDE DEF r, h
<1>5. Members(r) = Members(q) \ {h}
  BY <1>3, <1>4
<1> QED
  BY <1>2, <1>5 DEF r, h

(* Putting a task at the back adds exactly it. *)
LEMMA PutMembers ==
  ASSUME NEW q \in Queues, NEW c \in Class, NEW t \in Tasks
  PROVE  Members([q EXCEPT ![c] = Append(@, t)]) = Members(q) \cup {t}
<1> DEFINE r == [q EXCEPT ![c] = Append(@, t)]
<1>1. ASSUME NEW u \in Members(r) PROVE u \in Members(q) \cup {t}
  <2>0. PICK d \in Class : \E i \in 1 .. Len(r[d]) : r[d][i] = u
    BY DEF Members
  <2>1. PICK i \in 1 .. Len(r[d]) : r[d][i] = u
    BY <2>0
  <2>2. (i \in 1 .. Len(q[d]) /\ r[d][i] = q[d][i]) \/ r[d][i] = t
    BY PutType
  <2> HIDE DEF r
  <2> QED  BY <2>1, <2>2 DEF Members
<1>2. ASSUME NEW u \in Members(q) PROVE u \in Members(r)
  <2>0. PICK d \in Class : \E i \in 1 .. Len(q[d]) : q[d][i] = u
    BY DEF Members
  <2>1. PICK i \in 1 .. Len(q[d]) : q[d][i] = u
    BY <2>0
  <2>2. i \in 1 .. Len(r[d]) /\ r[d][i] = u
    BY <2>1 DEF Queues
  <2> HIDE DEF r
  <2> QED  BY <2>2 DEF Members
<1>3. t \in Members(r)
  <2>1. Len(q[c]) + 1 \in 1 .. Len(r[c]) /\ r[c][Len(q[c]) + 1] = t
    BY DEF Queues
  <2> HIDE DEF r
  <2> QED  BY <2>1 DEF Members
<1> HIDE DEF r
<1>4. Members(r) = Members(q) \cup {t}
  BY <1>1, <1>2, <1>3
<1> QED
  BY <1>4 DEF r

-----------------------------------------------------------------------------
(* What the invariant says of the stages. *)
LEMMA Stages ==
  ASSUME IInv
  PROVE  /\ Queued = Members(queues)
         /\ current \notin Queued
         /\ \A t \in Queued : t <= spawned
         /\ current # NoTask => current \in Tasks /\ current <= spawned
         /\ NoTask \notin Tasks
         /\ queues \in Queues
         /\ Owned(queues, class, current)
<1>1. Queued = Members(queues) /\ queues \in Queues /\ NoTask \notin Tasks
  BY DEF IInv, TypeOK, Queued, Members, Queues, NoTask, Tasks
<1>2. current \notin Queued /\ Owned(queues, class, current)
  BY DEF IInv, OneOwner, Queued, Owned
<1>3. \A t \in Queued : t <= spawned
  BY DEF IInv, Born, AllBorn, Queued
<1>4. current # NoTask => current \in Tasks /\ current <= spawned
  BY DEF IInv, TypeOK, Born
<1> QED
  BY <1>1, <1>2, <1>3, <1>4

(* plan_switch with a running task is a HandOver. *)
LEMMA PlanSwitchRefines ==
  ASSUME IInv, current # NoTask, ReadyClasses(queues) # {}, NEW w, NEW s,
         PlanSwitch(w, s), UNCHANGED <<class, spawned>>
  PROVE  \E t, u \in Tasks : Lifecycle!HandOver(t, u)
<1> DEFINE pick == PickNext(queues, w, s)
<1>0. /\ Queued = Members(queues) /\ current \notin Queued
      /\ (\A t \in Queued : t <= spawned)
      /\ current \in Tasks /\ current <= spawned
      /\ queues \in Queues /\ Owned(queues, class, current)
  BY Stages
<1>1. PICK c \in ReadyClasses(queues) :
        /\ pick.task = Head(queues[c])
        /\ pick.queues = [queues EXCEPT ![c] = Tail(@)]
        /\ pick.promoted \in BOOLEAN
        /\ pick.since \in {0, s}
  BY <1>0, PickTakesAHead
<1> DEFINE h == Head(queues[c])
           r == [queues EXCEPT ![c] = Tail(@)]
<1>2. h \in Tasks /\ r \in Queues /\ class[current] \in Class
  BY <1>0, TakeType DEF IInv, TypeOK
<1>3. h \in Queued /\ Members(r) = Queued \ {h}
  BY <1>0, TakeMembers
<1>4. queues' = [r EXCEPT ![class[current]] = Append(@, current)] /\ current' = h
  BY <1>1 DEF PlanSwitch
<1> HIDE DEF h, r, pick
<1>5. Members(queues') = Members(r) \cup {current}
  BY <1>0, <1>2, <1>4, PutMembers
<1>6. Queued' = (Queued \ {h}) \cup {current}
  <2>1. Queued' = Members(queues')
    BY DEF Queued, Members
  <2> QED  BY <2>1, <1>3, <1>5
<1>7. spawned \in Nat /\ spawned' = spawned /\ h <= spawned /\ h # current
  BY <1>0, <1>3 DEF IInv, TypeOK
<1>8. Life(current) = "running" /\ Life(h) = "ready"
  BY <1>0, <1>2, <1>3, <1>7 DEF Life, Tasks
<1>9. \A t \in Tasks : Life(t)' = IF t = h THEN "running"
                                  ELSE IF t = current THEN "ready" ELSE Life(t)
  BY <1>0, <1>2, <1>3, <1>4, <1>6, <1>7 DEF Life, Tasks
<1>10. Lifecycle!HandOver(current, h)
  BY <1>0, <1>2, <1>7, <1>8, <1>9 DEF Lifecycle!HandOver
<1> QED
  BY <1>0, <1>2, <1>10

(* run_until_idle is a Start; exit_task with another task ready a RetireTo. *)
LEMMA DispatchRefines ==
  ASSUME IInv, ReadyClasses(queues) # {}, NEW w, NEW s,
         Dispatch(PickNext(queues, w, s), w),
         queues' = PickNext(queues, w, s).queues,
         UNCHANGED <<class, spawned>>
  PROVE  \/ \E t \in Tasks : Lifecycle!Start(t)
         \/ \E t, u \in Tasks : Lifecycle!RetireTo(t, u)
<1> DEFINE pick == PickNext(queues, w, s)
<1>0. /\ Queued = Members(queues) /\ current \notin Queued
      /\ (\A t \in Queued : t <= spawned)
      /\ (current # NoTask => current \in Tasks /\ current <= spawned)
      /\ NoTask \notin Tasks
      /\ queues \in Queues /\ Owned(queues, class, current)
  BY Stages
<1>1. PICK c \in ReadyClasses(queues) :
        /\ pick.task = Head(queues[c])
        /\ pick.queues = [queues EXCEPT ![c] = Tail(@)]
        /\ pick.promoted \in BOOLEAN
        /\ pick.since \in {0, s}
  BY <1>0, PickTakesAHead
<1> DEFINE h == Head(queues[c])
           r == [queues EXCEPT ![c] = Tail(@)]
<1>2. h \in Tasks
  BY <1>0, TakeType
<1>3. h \in Queued /\ Members(r) = Queued \ {h}
  BY <1>0, TakeMembers
<1>4. queues' = r /\ current' = h
  BY <1>1 DEF Dispatch
<1> HIDE DEF h, r, pick
<1>5. Queued' = Queued \ {h}
  BY <1>3, <1>4 DEF Queued, Members
<1>6. spawned \in Nat /\ spawned' = spawned /\ h <= spawned /\ h # current
  BY <1>0, <1>3 DEF IInv, TypeOK
<1>7. Life(h) = "ready"
  BY <1>0, <1>2, <1>3, <1>6 DEF Life, Tasks
<1>8. \A t \in Tasks : Life(t)' = IF t = h THEN "running"
                                  ELSE IF t = current THEN "dead" ELSE Life(t)
  BY <1>0, <1>2, <1>3, <1>4, <1>5, <1>6 DEF Life, Tasks
<1>9. CASE current = NoTask
  <2>1. \A t \in Tasks : Life(t) # "running" /\ t # current
    BY <1>0, <1>9 DEF Life
  <2>2. Lifecycle!Start(h)
    BY <1>2, <1>7, <1>8, <2>1 DEF Lifecycle!Start, Lifecycle!In
  <2> QED  BY <1>2, <2>2
<1>10. CASE current # NoTask
  <2>1. current \in Tasks /\ Life(current) = "running"
    BY <1>0, <1>6, <1>10 DEF Life, Tasks
  <2>2. Lifecycle!RetireTo(current, h)
    BY <1>2, <1>6, <1>7, <1>8, <2>1 DEF Lifecycle!RetireTo
  <2> QED  BY <1>2, <2>1, <2>2
<1> QED
  BY <1>9, <1>10

(* exit_task with nobody ready is a RetireLast. *)
LEMMA LastExitRefines ==
  ASSUME IInv, current # NoTask, ReadyClasses(queues) = {}, current' = NoTask,
         UNCHANGED <<queues, spawned>>
  PROVE  \E t \in Tasks : Lifecycle!RetireLast(t)
<1>0. current \in Tasks /\ current <= spawned /\ NoTask \notin Tasks /\ current \notin Queued
  BY Stages
<1>1. Queued = {} /\ Queued' = {}
  BY DEF ReadyClasses, Queued
<1>2. spawned \in Nat /\ spawned' = spawned
  BY DEF IInv, TypeOK
<1>3. Life(current) = "running" /\ \A t \in Tasks : Life(t) # "ready"
  BY <1>0, <1>1, <1>2 DEF Life, Tasks
<1>4. \A t \in Tasks : Life(t)' = IF t = current THEN "dead" ELSE Life(t)
  BY <1>0, <1>1, <1>2 DEF Life, Tasks
<1>5. Lifecycle!RetireLast(current)
  BY <1>0, <1>3, <1>4 DEF Lifecycle!RetireLast, Lifecycle!In
<1> QED
  BY <1>0, <1>5

(* The second half of spawn is a Spawn. *)
LEMMA SpawnRefines ==
  ASSUME IInv, SpawnEnqueue
  PROVE  \E t \in Tasks : Lifecycle!Spawn(t)
<1> DEFINE t == spawned + 1
<1>0. /\ spawned \in 0 .. N /\ spawned < N /\ N \in Nat
      /\ current = NoTask /\ current' = NoTask
  BY SchedAssumption DEF IInv, TypeOK, BootFirst, SpawnEnqueue
<1>1. /\ Queued = Members(queues) /\ NoTask \notin Tasks /\ queues \in Queues
      /\ \A u \in Queued : u <= spawned
  BY Stages
<1>2. t \in Tasks /\ spawned' = t
  BY <1>0 DEF Tasks, SpawnEnqueue
<1>3. PICK c \in MayClass[t] : queues' = [queues EXCEPT ![c] = Append(@, t)]
  BY DEF SpawnEnqueue
<1>4. c \in Class
  BY <1>2, SchedAssumption
<1> HIDE DEF t
<1>5. Members(queues') = Queued \cup {t}
  BY <1>1, <1>2, <1>3, <1>4, PutMembers
<1>6. Queued' = Queued \cup {t}
  BY <1>5 DEF Queued, Members
<1>7. Life(t) = "unborn"
  BY <1>0, <1>2 DEF Life, t
<1>8. \A u \in Tasks : Life(u)' = IF u = t THEN "ready" ELSE Life(u)
  BY <1>0, <1>1, <1>2, <1>6 DEF Life, t, Tasks
<1>9. Lifecycle!Spawn(t)
  BY <1>2, <1>7, <1>8 DEF Lifecycle!Spawn
<1> QED
  BY <1>2, <1>9

(* Steps that move no task are stutters. *)
LEMMA StillRefines ==
  ASSUME UNCHANGED <<queues, current, spawned>>
  PROVE  UNCHANGED life
BY DEF life, Life, Queued

(* plan_switch with nothing current moves no task. *)
LEMMA PutBackRefines ==
  ASSUME IInv, ReadyClasses(queues) # {}, NEW w, NEW s \in 0 .. PROMOTION_INTERVAL,
         PlanSwitchNoCurrent(w, s), UNCHANGED spawned
  PROVE  UNCHANGED life
<1>1. queues' = queues /\ current' = current
  BY PutBack DEF IInv, PlanSwitchNoCurrent
<1> QED
  BY <1>1, StillRefines

-----------------------------------------------------------------------------
(* Boot is the initial state of the life cycle. *)
LEMMA InitRefines == Init => Lifecycle!Init
<1> SUFFICES ASSUME Init PROVE Lifecycle!Init
  OBVIOUS
<1>1. \A t \in Tasks : Life(t) = "unborn"
  BY SchedAssumption DEF Init, Life, Tasks
<1> QED
  BY <1>1 DEF Lifecycle!Init

(* Every step of the scheduler is a step of the life cycle or a stutter. *)
LEMMA NextRefines ==
  ASSUME IInv, [Next]_vars
  PROVE  Lifecycle!Next \/ UNCHANGED life
<1>0. sincePromotion \in 0 .. PROMOTION_INTERVAL /\ AgedPromotion \in 0 .. PROMOTION_INTERVAL
  BY AgedWaits DEF IInv, TypeOK
<1>1. CASE SpawnStamp
  BY <1>1, StillRefines DEF SpawnStamp
<1>2. CASE SpawnEnqueue
  BY <1>2, SpawnRefines DEF Lifecycle!Next
<1>3. CASE RunUntilIdle
  <2>1. ReadyClasses(queues) # {}
    BY <1>3, SchedAssumption DEF IInv, BootFirst, RunUntilIdle
  <2> QED  BY <1>3, <2>1, DispatchRefines DEF RunUntilIdle, Lifecycle!Next
<1>4. CASE TickBoot
  BY <1>0, <1>4, PutBackRefines, StillRefines DEF TickBoot
<1>5. CASE TickKeep
  BY <1>5, StillRefines DEF TickKeep
<1>6. CASE TickPreempt
  <2>1. class[current] \in Class
    BY <1>6 DEF IInv, TypeOK, TickPreempt
  <2>2. ReadyClasses(queues) # {}
    BY <1>6, <2>1, PreemptFindsATask DEF TickPreempt
  <2> QED  BY <1>6, <2>2, PlanSwitchRefines DEF TickPreempt, Lifecycle!Next
<1>7. CASE Yield
  BY <1>7, PlanSwitchRefines DEF Yield, Lifecycle!Next
<1>8. CASE YieldFromBoot
  BY <1>0, <1>8, PutBackRefines DEF YieldFromBoot
<1>9. CASE ExitTask
  <2>1. CASE ReadyClasses(queues) # {}
    BY <1>9, <2>1, DispatchRefines DEF ExitTask, Lifecycle!Next
  <2>2. CASE ReadyClasses(queues) = {}
    BY <1>9, <2>2, LastExitRefines DEF ExitTask, Lifecycle!Next
  <2> QED  BY <2>1, <2>2
<1>10. CASE \E c \in ReclassTo : SetCurrentClass(c)
  BY <1>10, StillRefines DEF SetCurrentClass
<1>11. CASE UNCHANGED vars
  BY <1>11, StillRefines DEF vars
<1> QED
  BY <1>1, <1>2, <1>3, <1>4, <1>5, <1>6, <1>7, <1>8, <1>9, <1>10, <1>11
     DEF Next, BootStep, Tick

(* The scheduler implements the task life cycle for any number of tasks: no
   task is lost, dispatched twice or revived, and the boot context gets the
   CPU back only when no task is ready. *)
THEOREM Refinement == Spec => ImplementsLifecycle
<1>1. Init => Lifecycle!Init
  BY InitRefines
<1>2. IInv /\ [Next]_vars => [Lifecycle!Next]_life
  BY NextRefines
<1> QED
  BY <1>1, <1>2, Invariance, PTL DEF Spec, ImplementsLifecycle, Lifecycle!Spec, life
=============================================================================
