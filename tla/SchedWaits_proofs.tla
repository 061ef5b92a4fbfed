-------------------------- MODULE SchedWaits_proofs --------------------------
(***************************************************************************)
(* How long a task waits, and how many ticks the lower classes take from   *)
(* the realtime class, for every number of tasks.                          *)
(*                                                                         *)
(* The argument.  Once a task t has waited past the limit, pick_next       *)
(* serves a starving task at least every RescueGap ticks, and the one it   *)
(* serves is ahead of t: it has waited longer than t has since t began to  *)
(* starve.  A task served goes back with no wait at all, so it is not      *)
(* ahead of t again, and each of the others is served before t once at     *)
(* most.  OnTime says that the ticks t has starved for, and those to the   *)
(* next pick that serves, fit into one gap for each task that is no longer *)
(* ahead.                                                                  *)
(***************************************************************************)
EXTENDS Sched_proofs, SchedShare, FiniteSetTheorems

P == PROMOTION_INTERVAL

(* Rescues are at least a tick apart. *)
LEMMA IntervalType == P \in Nat \ {0}
BY SchedAssumption DEF P

(* The boot context takes no tick before it parks, it parks when it has
   spawned everybody, and it comes back to empty queues. *)
BootQuiet ==
  /\ boot \in {"running", "stamped"} => \A t \in Tasks : waited[t] = 0
  /\ boot = "parked" => current # NoTask /\ spawned = N
  /\ boot = "returned" => current = NoTask /\ ReadyClasses(queues) = {}

(* The boot context stays quiet. *)
LEMMA QuietKeeps ==
  ASSUME ~BootMayTick, IInv, BootQuiet, [Next]_vars
  PROVE  BootQuiet'
<1>0. /\ TypeOK /\ queues \in Queues
      /\ boot \in {"running", "stamped", "parked", "returned"}
  BY DEF IInv, TypeOK, Queues
<1>1. CASE SpawnStamp \/ SpawnEnqueue
  <2>1. waited' = waited /\ boot \in {"running", "stamped"} /\ boot' \in {"running", "stamped"}
    BY <1>1 DEF SpawnStamp, SpawnEnqueue
  <2> QED  BY <2>1 DEF BootQuiet
<1>2. CASE RunUntilIdle
  <2>1. ReadyClasses(queues) # {}
    BY <1>2, SchedAssumption DEF IInv, BootFirst, RunUntilIdle
  <2>2. current' \in Tasks /\ boot' = "parked" /\ spawned' = N
    BY <1>0, <1>2, <2>1, PickIsATask DEF Dispatch, RunUntilIdle
  <2> QED  BY <2>2 DEF BootQuiet, Tasks, NoTask
<1>3. CASE TickBoot
  <2>1. boot = "returned" /\ ReadyClasses(queues) = {} /\ current = NoTask
    BY <1>3 DEF TickBoot, BootQuiet
  <2>2. UNCHANGED <<queues, current, boot>>
    BY <1>3, <2>1 DEF TickBoot
  <2> QED  BY <2>1, <2>2 DEF BootQuiet, ReadyClasses
<1>4. CASE TickKeep
  <2>1. UNCHANGED <<queues, current, boot, spawned>> /\ boot = "parked"
    BY <1>0, <1>4 DEF TickKeep, IInv, BootFirst, BootQuiet
  <2> QED  BY <2>1 DEF BootQuiet
<1>5. CASE TickPreempt
  <2>1. /\ current # NoTask /\ class[current] \in Class /\ UNCHANGED <<class, boot, spawned>>
        /\ boot = "parked" /\ PlanSwitch(Aged, AgedPromotion)
    BY <1>0, <1>5 DEF TickPreempt, IInv, TypeOK, BootFirst, BootQuiet
  <2>2. ReadyClasses(queues) # {}
    BY <1>5, <2>1, PreemptFindsATask DEF TickPreempt
  <2>3. current' \in Tasks
    BY <1>0, <2>1, <2>2, PickIsATask DEF PlanSwitch
  <2> QED  BY <2>1, <2>3 DEF BootQuiet, Tasks, NoTask
<1>6. CASE Yield
  <2>1. /\ ReadyClasses(queues) # {} /\ UNCHANGED <<class, boot, spawned>>
        /\ boot = "parked" /\ PlanSwitch(waited, sincePromotion)
    BY <1>0, <1>6 DEF Yield, IInv, BootFirst, BootQuiet
  <2>2. current' \in Tasks
    BY <1>0, <2>1, PickIsATask DEF PlanSwitch
  <2> QED  BY <2>1, <2>2 DEF BootQuiet, Tasks, NoTask
<1>7. CASE YieldFromBoot
  <2>1. waited' = waited /\ boot = "running" /\ boot' = boot
    BY <1>7 DEF YieldFromBoot, PlanSwitchNoCurrent
  <2> QED  BY <2>1 DEF BootQuiet
<1>8. CASE ExitTask
  <2>1. UNCHANGED spawned /\ boot = "parked" /\ spawned = N
    BY <1>0, <1>8 DEF ExitTask, IInv, BootFirst, BootQuiet
  <2>2. CASE ReadyClasses(queues) # {}
    <3>1. current' \in Tasks /\ boot' = boot
      BY <1>0, <1>8, <2>2, PickIsATask DEF Dispatch, ExitTask
    <3> QED  BY <2>1, <3>1 DEF BootQuiet, Tasks, NoTask
  <2>3. CASE ReadyClasses(queues) = {}
    <3>1. current' = NoTask /\ boot' = "returned" /\ queues' = queues
      BY <1>8, <2>3 DEF ExitTask
    <3> QED  BY <2>3, <3>1 DEF BootQuiet, ReadyClasses
  <2> QED  BY <2>2, <2>3
<1>9. CASE \E c \in ReclassTo : SetCurrentClass(c)
  <2>1. UNCHANGED <<queues, current, waited, boot, spawned>>
    BY <1>9 DEF SetCurrentClass
  <2> QED  BY <2>1 DEF BootQuiet, ReadyClasses
<1>10. CASE UNCHANGED vars
  BY <1>10 DEF vars, BootQuiet, ReadyClasses
<1> QED
  BY <1>1, <1>2, <1>3, <1>4, <1>5, <1>6, <1>7, <1>8, <1>9, <1>10 DEF Next, BootStep, Tick

L == STARVATION_LIMIT

(* Rescues keep up, and no wait reaches the bound of the count. *)
Roomy == RescueGap * (N - 1) < L /\ RescueBound < WAIT_CAP

(* Ticks until should_preempt takes the CPU from the running task, if some
   task starves. *)
Rem == IF \/ HigherClassWaiting(class[current])
          \/ promoted[current]
          \/ ticksUsed[current] >= Quantum[class[current]]
       THEN 1
       ELSE Quantum[class[current]] - ticksUsed[current]

(* A background task runs, and only its equals are ready. *)
Lone == class[current] = Background /\ ~promoted[current] /\ ~HigherClassWaiting(Background)

(* Ticks until a pick that serves a starving task. *)
Slack == IF Lone \/ sincePromotion >= P THEN Rem ELSE RescueGap - sincePromotion

(* Those of S that have waited longer than t has starved. *)
Ahead(S, w, t) == {u \in S \ {t} : w[u] > w[t] - L}

(* One gap for each task that is not ahead of t. *)
Room(S, w, t) == RescueGap * (N - 1 - Cardinality(Ahead(S, w, t)))

OnTime ==
  Roomy /\ current # NoTask =>
    \A t \in Queued : waited[t] >= L => waited[t] - L + Slack <= Room(Queued, waited, t)

(* RescueGap is the largest of the three. *)
LEMMA GapType ==
  /\ RescueGap \in Nat /\ RescueGap >= 1
  /\ \A c \in Class : c # Background => P - 1 + Quantum[c] <= RescueGap
  /\ Quantum[Background] <= RescueGap
<1> DEFINE S == {P - 1 + Quantum[c] : c \in Class \ {Background}} \cup {Quantum[Background]}
<1>1. /\ Quantum[Background] \in Nat \ {0} /\ Quantum[Normal] \in Nat \ {0}
      /\ Quantum[Realtime] \in Nat \ {0} /\ P \in Nat \ {0}
      /\ Class = {Background, Normal, Realtime} /\ Normal # Background /\ Realtime # Background
  BY SchedAssumption, IntervalType DEF Class, Background, Normal, Realtime
<1>2. S = {P - 1 + Quantum[Normal], P - 1 + Quantum[Realtime], Quantum[Background]}
  BY <1>1
<1>3. RescueGap = CHOOSE c \in S : \A d \in S : d <= c
  BY DEF RescueGap, Highest, P
<1> HIDE DEF S
<1>4. \E c \in S : \A d \in S : d <= c
  <2> DEFINE x == P - 1 + Quantum[Normal]
             y == P - 1 + Quantum[Realtime]
             z == Quantum[Background]
  <2>1. x \in Nat /\ y \in Nat /\ z \in Nat /\ S = {x, y, z}
    BY <1>1, <1>2
  <2> HIDE DEF x, y, z
  <2>2. (x >= y /\ x >= z) \/ (y >= x /\ y >= z) \/ (z >= x /\ z >= y)
    BY <2>1
  <2> QED  BY <2>1, <2>2
<1>5. RescueGap \in S /\ \A d \in S : d <= RescueGap
  BY <1>3, <1>4
<1> QED
  BY <1>1, <1>2, <1>5

(* One task fewer is one gap more. *)
LEMMA GapGrows ==
  ASSUME NEW a \in Int, NEW b \in Int
  PROVE  /\ RescueGap * a \in Int
         /\ a <= b => RescueGap * a <= RescueGap * b
         /\ a + 1 <= b => RescueGap * a + RescueGap <= RescueGap * b
<1>1. RescueGap \in Nat
  BY GapType
<1> DEFINE g == RescueGap
           d == b - a
<1>2. d \in Int /\ b = a + d
  OBVIOUS
<1> HIDE DEF g, d
<1>3. g * b = g * a + g * d /\ g * a \in Int /\ g * d \in Int
  BY <1>1, <1>2 DEF g
<1>4. d >= 0 => g * d >= 0
  BY <1>1, <1>2 DEF g
<1>5. d >= 1 => g * d >= g
  BY <1>1, <1>2 DEF g
<1> QED
  BY <1>1, <1>2, <1>3, <1>4, <1>5 DEF g

(* At least one task, the running one, is neither waiting nor ahead. *)
LEMMA AheadFits ==
  ASSUME NEW S \in SUBSET Tasks, NEW w, NEW t \in S, NEW x \in Tasks \ S
  PROVE  /\ IsFiniteSet(Ahead(S, w, t)) /\ Cardinality(Ahead(S, w, t)) \in Nat
         /\ Cardinality(Ahead(S, w, t)) <= N - 2
<1>1. N \in Nat \ {0} /\ IsFiniteSet(Tasks) /\ Cardinality(Tasks) = N
  <2>1. N \in Nat \ {0}
    BY SchedAssumption
  <2>2. IsFiniteSet(1 .. N) /\ Cardinality(1 .. N) = IF 1 > N THEN 0 ELSE N - 1 + 1
    BY <2>1, FS_Interval
  <2> QED  BY <2>1, <2>2 DEF Tasks
<1>2. IsFiniteSet(Tasks \ {t}) /\ Cardinality(Tasks \ {t}) = N - 1
  BY <1>1, FS_RemoveElement
<1>3. x \in Tasks \ {t}
  OBVIOUS
<1>4. IsFiniteSet((Tasks \ {t}) \ {x}) /\ Cardinality((Tasks \ {t}) \ {x}) = N - 1 - 1
  BY <1>2, <1>3, FS_RemoveElement
<1>5. Ahead(S, w, t) \subseteq (Tasks \ {t}) \ {x}
  BY DEF Ahead
<1>6. /\ IsFiniteSet(Ahead(S, w, t))
      /\ Cardinality(Ahead(S, w, t)) <= Cardinality((Tasks \ {t}) \ {x})
  BY <1>4, <1>5, FS_Subset
<1>7. Cardinality(Ahead(S, w, t)) \in Nat
  BY <1>6, FS_CardinalityType
<1> QED
  BY <1>1, <1>4, <1>6, <1>7

(* So there is room for a gap, and for no more than N - 1 of them. *)
LEMMA RoomBounds ==
  ASSUME NEW S \in SUBSET Tasks, NEW w, NEW t \in S, NEW x \in Tasks \ S
  PROVE  /\ Room(S, w, t) \in Int
         /\ RescueGap <= Room(S, w, t)
         /\ Room(S, w, t) <= RescueGap * (N - 1)
<1> DEFINE n == Cardinality(Ahead(S, w, t))
<1>1. n \in Nat /\ n <= N - 2 /\ N \in Nat
  BY AheadFits, SchedAssumption
<1> HIDE DEF n
<1>2. RescueGap * (N - 1 - n) \in Int /\ RescueGap * (N - 1 - n) <= RescueGap * (N - 1)
  BY <1>1, GapGrows
<1>3. RescueGap * 1 <= RescueGap * (N - 1 - n)
  BY <1>1, GapGrows
<1>4. RescueGap * 1 = RescueGap
  BY GapType
<1> QED
  BY <1>2, <1>3, <1>4 DEF Room, n

(* Fewer tasks ahead leave more room. *)
LEMMA RoomGrows ==
  ASSUME NEW S \in SUBSET Tasks, NEW T \in SUBSET Tasks, NEW w, NEW v,
         NEW t \in S, t \in T, NEW x \in Tasks \ S,
         Ahead(T, v, t) \subseteq Ahead(S, w, t)
  PROVE  /\ Room(S, w, t) <= Room(T, v, t)
         /\ \A h \in Ahead(S, w, t) :
              h \notin Ahead(T, v, t) => Room(S, w, t) + RescueGap <= Room(T, v, t)
<1> DEFINE A == Ahead(S, w, t)
           B == Ahead(T, v, t)
           n == Cardinality(A)
           m == Cardinality(B)
<1>1. IsFiniteSet(A) /\ n \in Nat /\ N \in Nat
  BY AheadFits, SchedAssumption
<1>2. IsFiniteSet(B) /\ m \in Nat /\ m <= n
  BY <1>1, FS_Subset, FS_CardinalityType
<1>3. ASSUME NEW h \in A, h \notin B PROVE m <= n - 1
  <2>1. IsFiniteSet(A \ {h}) /\ Cardinality(A \ {h}) = n - 1
    BY <1>1, <1>3, FS_RemoveElement
  <2>2. B \subseteq A \ {h}
    BY <1>3
  <2> QED  BY <2>1, <2>2, FS_Subset
<1> HIDE DEF n, m
<1>4. RescueGap * (N - 1 - n) <= RescueGap * (N - 1 - m)
  BY <1>1, <1>2, GapGrows
<1>5. m <= n - 1 => RescueGap * (N - 1 - n) + RescueGap <= RescueGap * (N - 1 - m)
  BY <1>1, <1>2, GapGrows
<1>6. Room(S, w, t) = RescueGap * (N - 1 - n) /\ Room(T, v, t) = RescueGap * (N - 1 - m)
  BY DEF Room, n, m
<1> QED
  BY <1>3, <1>4, <1>5, <1>6

(* A pick that serves comes within a gap. *)
LEMMA SlackBounds ==
  TypeOK /\ current # NoTask =>
    /\ Rem \in Int /\ 1 <= Rem
    /\ Slack \in Int /\ 1 <= Slack /\ Slack <= RescueGap
<1> SUFFICES ASSUME TypeOK, current # NoTask
             PROVE  /\ Rem \in Int /\ 1 <= Rem
                    /\ Slack \in Int /\ 1 <= Slack /\ Slack <= RescueGap
  OBVIOUS
<1>1. /\ class[current] \in Class /\ ticksUsed[current] \in Nat /\ sincePromotion \in 0 .. P
      /\ P \in Nat \ {0} /\ current \in Tasks
  BY SchedAssumption, IntervalType DEF TypeOK, P
<1>2. /\ Quantum[class[current]] \in Nat \ {0}
      /\ class[current] # Background => P - 1 + Quantum[class[current]] <= RescueGap
      /\ class[current] = Background => Quantum[class[current]] <= RescueGap
  BY <1>1, GapType, SchedAssumption
<1>3. Rem \in Int /\ 1 <= Rem /\ Rem <= Quantum[class[current]]
  BY <1>1, <1>2 DEF Rem
<1>4. Rem <= RescueGap
  BY <1>1, <1>2, <1>3, GapType
<1>5. RescueGap - sincePromotion \in Int
  BY <1>1, GapType
<1>6. sincePromotion < P => 1 <= RescueGap - sincePromotion
  <2>1. Normal \in Class /\ Normal # Background /\ Quantum[Normal] \in Nat \ {0}
    BY SchedAssumption DEF Class, Normal, Background
  <2>2. P - 1 + Quantum[Normal] <= RescueGap
    BY <2>1, GapType
  <2> QED  BY <1>1, <2>1, <2>2, GapType
<1> QED
  BY <1>1, <1>3, <1>4, <1>5, <1>6, GapType DEF Slack

-----------------------------------------------------------------------------
(* Who waits after a pick *)

(* pick_next: a starving head when a rescue is allowed and somebody starves,
   the head of the most urgent class when none is allowed. *)
LEMMA PickWhich ==
  ASSUME NEW q \in Queues, NEW w, NEW s \in 0 .. P, ReadyClasses(q) # {}
  PROVE  \E c \in ReadyClasses(q) :
           /\ PickNext(q, w, s).task = Head(q[c])
           /\ PickNext(q, w, s).queues = [q EXCEPT ![c] = Tail(@)]
           /\ PickNext(q, w, s).since \in 0 .. P
           /\ s >= P /\ StarvingClasses(q, w) # {} => w[Head(q[c])] >= L
           /\ s < P => /\ \A d \in ReadyClasses(q) : d <= c
                       /\ PickNext(q, w, s).since = s
                       /\ PickNext(q, w, s).promoted = FALSE
<1> DEFINE rescue == IF s >= PROMOTION_INTERVAL THEN StarvingClasses(q, w) ELSE {}
           k == IF rescue # {} THEN Lowest(rescue) ELSE Highest(ReadyClasses(q))
           outranked == rescue # {} /\ Outranked(q, k)
<1>0. P \in Nat \ {0} /\ PROMOTION_INTERVAL = P
  BY IntervalType DEF P
<1>1. ReadyClasses(q) \in SUBSET Class /\ rescue \in SUBSET ReadyClasses(q) /\ rescue \in SUBSET Class
  BY DEF ReadyClasses, StarvingClasses
<1>2. k \in ReadyClasses(q)
  BY <1>1, ClassExtremes
<1>3. PickNext(q, w, s) =
        [task     |-> Head(q[k]),
         queues   |-> [q EXCEPT ![k] = Tail(@)],
         promoted |-> outranked,
         since    |-> IF outranked THEN 0 ELSE s]
  BY DEF PickNext
<1>4. ASSUME s >= P, StarvingClasses(q, w) # {} PROVE w[Head(q[k])] >= L
  <2>1. rescue = StarvingClasses(q, w) /\ rescue # {}
    BY <1>0, <1>4
  <2>2. k = Lowest(rescue)
    BY <2>1
  <2>3. k \in StarvingClasses(q, w)
    BY <1>1, <2>1, <2>2, ClassExtremes
  <2> QED  BY <2>3 DEF StarvingClasses, L
<1>5. ASSUME s < P PROVE ~outranked /\ \A d \in ReadyClasses(q) : d <= k
  <2>1. rescue = {}
    BY <1>0, <1>5
  <2>2. k = Highest(ReadyClasses(q))
    BY <2>1
  <2>3. \E c \in ReadyClasses(q) : \A d \in ReadyClasses(q) : d <= c
    <3>1. ReadyClasses(q) # {} /\ \A d \in ReadyClasses(q) : d = 0 \/ d = 1 \/ d = 2
      BY <1>1 DEF Class
    <3>2. CASE 2 \in ReadyClasses(q)  BY <3>1, <3>2
    <3>3. CASE 2 \notin ReadyClasses(q) /\ 1 \in ReadyClasses(q)  BY <3>1, <3>3
    <3>4. CASE 2 \notin ReadyClasses(q) /\ 1 \notin ReadyClasses(q)  BY <3>1, <3>4
    <3> QED  BY <3>2, <3>3, <3>4
  <2> QED  BY <2>1, <2>2, <2>3 DEF Highest
<1> HIDE DEF k, outranked
<1>6. /\ PickNext(q, w, s).task = Head(q[k])
      /\ PickNext(q, w, s).queues = [q EXCEPT ![k] = Tail(@)]
      /\ PickNext(q, w, s).promoted = outranked
      /\ PickNext(q, w, s).since = IF outranked THEN 0 ELSE s
  BY <1>3
<1>7. PickNext(q, w, s).since \in 0 .. P
  BY <1>0, <1>6
<1>8. s < P => /\ \A d \in ReadyClasses(q) : d <= k
               /\ PickNext(q, w, s).since = s
               /\ PickNext(q, w, s).promoted = FALSE
  BY <1>5, <1>6
<1> QED
  BY <1>2, <1>4, <1>6, <1>7, <1>8

(* While OnTime holds no count of a wait stops at its cap. *)
LEMMA WaitsCount ==
  ASSUME IInv, Roomy, OnTime, current # NoTask, NEW t \in Queued
  PROVE  /\ t \in Tasks /\ t # current /\ waited[t] \in Nat /\ Aged[t] = waited[t] + 1
         /\ waited[t] >= L => /\ waited[t] - L + Slack <= Room(Queued, waited, t)
                              /\ waited[t] - L + 1 <= RescueGap * (N - 1)
<1>1. TypeOK /\ L \in Nat \ {0} /\ WAIT_CAP \in Nat /\ WAIT_CAP > L /\ current \in Tasks /\ t \in Tasks
  BY SchedAssumption DEF IInv, TypeOK, L, Queued
<1>2. Queued \in SUBSET Tasks /\ current \notin Queued /\ waited[t] \in 0 .. WAIT_CAP
  BY <1>1 DEF IInv, TypeOK, OneOwner, Queued
<1>3. waited[t] >= L => /\ waited[t] - L + Slack <= Room(Queued, waited, t)
                        /\ waited[t] - L + 1 <= RescueGap * (N - 1)
  <2> SUFFICES ASSUME waited[t] >= L
               PROVE  /\ waited[t] - L + Slack <= Room(Queued, waited, t)
                      /\ waited[t] - L + 1 <= RescueGap * (N - 1)
    OBVIOUS
  <2>1. waited[t] - L + Slack <= Room(Queued, waited, t)
    BY DEF OnTime
  <2>2. Slack \in Int /\ 1 <= Slack
    BY <1>1, SlackBounds
  <2>3. Room(Queued, waited, t) \in Int /\ Room(Queued, waited, t) <= RescueGap * (N - 1)
    BY <1>1, <1>2, RoomBounds
  <2>4. RescueGap * (N - 1) \in Int
    BY GapGrows, SchedAssumption
  <2> QED  BY <1>1, <1>2, <2>1, <2>2, <2>3, <2>4
<1>4. waited[t] + 1 <= WAIT_CAP
  <2>1. RescueBound = L + RescueGap * (N - 1) /\ RescueBound < WAIT_CAP
    BY DEF Roomy, RescueBound, L
  <2>2. RescueGap * (N - 1) \in Int
    BY GapGrows, SchedAssumption
  <2> QED  BY <1>1, <1>2, <1>3, <2>1, <2>2
<1>5. Aged[t] = AtMost(waited[t] + 1, WAIT_CAP)
  BY <1>1 DEF Aged
<1> QED
  BY <1>1, <1>2, <1>3, <1>4, <1>5 DEF AtMost

(* A starving task starves the front of its queue. *)
LEMMA FrontStarves ==
  ASSUME TypeOK, NEW w \in [Tasks -> Nat], Sorted(queues, w), NEW t \in Queued, w[t] >= L
  PROVE  /\ StarvingClasses(queues, w) # {}
         /\ \E c \in ReadyClasses(queues) : w[Head(queues[c])] >= w[t]
<1>1. PICK c \in Class : \E i \in 1 .. Len(queues[c]) : queues[c][i] = t
  BY DEF Queued
<1>2. PICK i \in 1 .. Len(queues[c]) : queues[c][i] = t
  BY <1>1
<1>3. /\ queues[c] # <<>> /\ Head(queues[c]) = queues[c][1]
      /\ 1 \in 1 .. Len(queues[c]) /\ queues[c][1] \in Tasks /\ t \in Tasks
  <2>1. queues[c] \in Seq(Tasks)
    BY DEF TypeOK
  <2>2. Len(queues[c]) \in Nat /\ 1 \in 1 .. Len(queues[c])
    BY <1>2, <2>1
  <2> QED  BY <1>2, <2>1, <2>2
<1>4. w[Head(queues[c])] >= w[t]
  <2>1. CASE i = 1
    <3>1. Head(queues[c]) = t
      BY <1>2, <1>3, <2>1
    <3>2. w[t] \in Nat
      BY <1>3
    <3> QED  BY <3>1, <3>2
  <2>2. CASE i # 1
    <3>1. 1 < i
      BY <2>2
    <3> QED  BY <1>2, <1>3, <3>1 DEF Sorted
  <2> QED  BY <2>1, <2>2
<1>5. w[Head(queues[c])] \in Nat /\ w[t] \in Nat /\ L \in Nat
  BY <1>3, SchedAssumption DEF L
<1>6. c \in ReadyClasses(queues)
  BY <1>3 DEF ReadyClasses
<1>7. w[Head(queues[c])] >= L
  BY <1>4, <1>5
<1>8. c \in StarvingClasses(queues, w)
  BY <1>6, <1>7 DEF StarvingClasses, L
<1> QED
  BY <1>4, <1>6, <1>8

-----------------------------------------------------------------------------
(* Every step keeps the waits on time *)

(* The waits w and the promotion clock s of e ticks later. *)
Timed(e, w, s) ==
  /\ e \in {0, 1}
  /\ w \in [Tasks -> Nat] /\ Sorted(queues, w) /\ \A u \in Queued : w[u] = waited[u] + e
  /\ s = AtMost(sincePromotion + e, P)

(* A step that finds the waits w and the promotion clock s, e ticks later, and
   makes the head of queue c current.  Those that join the waiting tasks have
   not waited, and nobody else's wait changes. *)
Picked(e, w, s, c) ==
  /\ Timed(e, w, s)
  /\ s >= P /\ StarvingClasses(queues, w) # {} => w[Head(queues[c])] >= L
  /\ s < P => /\ \A d \in ReadyClasses(queues) : d <= c
              /\ sincePromotion' = s
              /\ promoted'[current'] = FALSE
  /\ current' = Head(queues[c]) /\ class'[current'] = c
  /\ \A u \in Queued' :
       waited'[u] = 0 \/ (waited'[u] = w[u] /\ u \in Queued \ {Head(queues[c])})

(* A pick serves a task ahead of t, or the pick that will is nearer by the
   ticks that passed. *)
LEMMA PickServesOrWaits ==
  ASSUME IInv, Roomy, OnTime, current # NoTask, NEW e, NEW w, NEW s,
         NEW c \in ReadyClasses(queues), Picked(e, w, s, c),
         NEW t \in Queued, t # Head(queues[c]), w[t] >= L
  PROVE  \/ w[Head(queues[c])] > w[t] - L
         \/ Slack' + e <= Slack
<1> DEFINE h == Head(queues[c])
<1>0. /\ TypeOK /\ sincePromotion \in 0 .. P /\ P \in Nat \ {0} /\ L \in Nat \ {0}
      /\ current \in Tasks /\ class[current] \in Class
  BY SchedAssumption, IntervalType DEF IInv, TypeOK, P, L
<1>1. queues \in Queues /\ h \in Tasks /\ c \in Class
  <2>1. queues \in Queues
    BY DEF IInv, TypeOK, Queues
  <2> QED  BY <2>1, TakeType
<1>2. /\ w[h] \in Nat /\ w[t] \in Nat /\ t \in Tasks
      /\ waited[t] \in Nat /\ e \in {0, 1} /\ w[t] = waited[t] + e
  BY <1>1, WaitsCount DEF Picked, Timed
<1>3. StarvingClasses(queues, w) # {} /\ \E d \in ReadyClasses(queues) : w[Head(queues[d])] >= w[t]
  BY <1>0, FrontStarves DEF Picked, Timed
<1>4. CASE s >= P
  <2>1. w[h] >= L
    BY <1>3, <1>4 DEF Picked, Timed
  <2>2. w[t] - L < L
    <3>1. CASE waited[t] >= L
      <4>1. waited[t] - L + 1 <= RescueGap * (N - 1) /\ RescueGap * (N - 1) < L
        BY <3>1, WaitsCount DEF Roomy
      <4>2. RescueGap * (N - 1) \in Int
        BY GapGrows, SchedAssumption
      <4> QED  BY <1>0, <1>2, <4>1, <4>2
    <3>2. CASE ~(waited[t] >= L)
      BY <1>0, <1>2, <3>2
    <3> QED  BY <3>1, <3>2
  <2>3. w[h] > w[t] - L
    BY <1>0, <1>2, <2>1, <2>2
  <2> QED  BY <2>3
<1>5. CASE s < P /\ c = Background
  <2>1. PICK d \in ReadyClasses(queues) : w[Head(queues[d])] >= w[t]
    BY <1>3
  <2>2. d \in Class /\ d <= c
    BY <1>5 DEF ReadyClasses, Picked, Timed
  <2>3. d = c
    BY <1>5, <2>2 DEF Class, Background
  <2>4. w[h] >= w[t]
    BY <2>1, <2>3
  <2>5. w[h] > w[t] - L
    BY <1>0, <1>2, <2>4
  <2> QED  BY <2>5
<1>6. CASE s < P /\ c # Background
  <2>1. s = sincePromotion + e /\ sincePromotion < P
    BY <1>0, <1>6 DEF AtMost, Picked, Timed
  <2>2. ~Lone
    <3>1. c > Background
      BY <1>1, <1>6 DEF Class, Background
    <3>2. HigherClassWaiting(Background)
      BY <3>1 DEF HigherClassWaiting, Outranked
    <3> QED  BY <3>2 DEF Lone
  <2>3. Slack = RescueGap - sincePromotion
    BY <1>0, <2>1, <2>2 DEF Slack
  <2>4. ~Lone'
    BY <1>6 DEF Lone, Picked
  <2>5. sincePromotion' = s
    BY <1>6 DEF Picked
  <2>6. Slack' = RescueGap - s
    <3>1. ~(sincePromotion' >= P)
      BY <1>0, <1>6, <2>1, <2>5
    <3> QED  BY <2>4, <2>5, <3>1 DEF Slack
  <2>7. RescueGap \in Nat
    BY GapType
  <2>8. Slack' + e <= Slack
    BY <1>0, <1>2, <2>1, <2>3, <2>6, <2>7
  <2> QED  BY <2>8
<1>7. s >= P \/ s < P
  BY <1>0 DEF AtMost, Picked, Timed
<1> QED
  BY <1>4, <1>5, <1>6, <1>7

(* SlackBounds of the next state. *)
LEMMA SlackBoundsNext ==
  TypeOK' /\ current' # NoTask => Slack' \in Int /\ 1 <= Slack' /\ Slack' <= RescueGap
<1> DEFINE A == TypeOK /\ current # NoTask
           B == Slack \in Int /\ 1 <= Slack /\ Slack <= RescueGap
<1>1. A => B
  BY SlackBounds
<1> HIDE DEF A, B
<1>2. A' => B'
  BY <1>1, PTL
<1> QED
  BY <1>2 DEF A, B

(* The ticks of a task that starves, before and after a pick. *)
LEMMA PickFits ==
  ASSUME NEW x \in Int, NEW e \in {0, 1}, NEW slack \in Int, NEW slack1 \in Int,
         NEW gap \in Nat, NEW room \in Int, NEW room1 \in Int,
         x + slack <= room, 1 <= slack, slack1 <= gap,
         room + gap <= room1 \/ (room <= room1 /\ slack1 + e <= slack)
  PROVE  x + e + slack1 <= room1
OBVIOUS

(* A pick leaves every wait on time. *)
LEMMA PickOnTime ==
  ASSUME IInv, IInv', Roomy, OnTime, current # NoTask, NEW e, NEW w, NEW s,
         NEW c \in ReadyClasses(queues), Picked(e, w, s, c)
  PROVE  OnTime'
<1> DEFINE h == Head(queues[c])
<1>0. /\ TypeOK /\ TypeOK' /\ L \in Nat \ {0} /\ queues \in Queues
      /\ Queued \in SUBSET Tasks /\ Queued' \in SUBSET Tasks /\ current \in Tasks \ Queued
  <2>1. TypeOK /\ TypeOK' /\ L \in Nat \ {0}
    BY SchedAssumption DEF IInv, L
  <2>2. queues \in Queues /\ current \in Tasks
    BY <2>1 DEF TypeOK, Queues
  <2>3. current \notin Queued
    BY DEF IInv, OneOwner, Queued
  <2> QED  BY <2>1, <2>2, <2>3 DEF Queued
<1>1. h \in Tasks /\ current' = h /\ current' # NoTask
  <2>1. h \in Tasks
    BY <1>0, TakeType
  <2>2. current' = h
    BY DEF Picked, Timed
  <2> QED  BY <2>1, <2>2 DEF Tasks, NoTask
<1>2. h \in Queued /\ h \notin Queued'
  <2>0. c \in Class /\ h = queues[c][1] /\ Len(queues[c]) \in Nat \ {0}
    BY <1>0, TakeType, Zenon
  <2>1. c \in Class /\ h = queues[c][1] /\ 1 \in 1 .. Len(queues[c])
    BY <2>0
  <2>2. h \in Queued
    BY <1>0, <2>1, QueuedAt
  <2>3. \A d \in Class : \A i \in 1 .. Len(queues'[d]) : queues'[d][i] # current'
    BY DEF IInv, OneOwner
  <2> QED  BY <1>1, <2>2, <2>3 DEF Queued
<1>3. Slack' \in Int /\ 1 <= Slack' /\ Slack' <= RescueGap /\ Slack \in Int /\ 1 <= Slack
  <2>1. Slack \in Int /\ 1 <= Slack
    BY <1>0, SlackBounds
  <2>2. Slack' \in Int /\ 1 <= Slack' /\ Slack' <= RescueGap
    BY <1>0, <1>1, SlackBoundsNext
  <2> QED  BY <2>1, <2>2
<1> HIDE DEF h
<1>4. ASSUME NEW t \in Queued', waited'[t] >= L
      PROVE  waited'[t] - L + Slack' <= Room(Queued', waited', t)
  <2>1. waited'[t] = w[t] /\ t \in Queued /\ t # h /\ w[t] \in Nat
    BY <1>0, <1>4 DEF h, Picked, Timed
  <2>2. waited[t] \in Nat /\ e \in {0, 1} /\ w[t] = waited[t] + e
    BY <2>1, WaitsCount DEF Picked, Timed
  <2>3. Ahead(Queued', waited', t) \subseteq Ahead(Queued, waited, t) \ {h}
    <3> SUFFICES ASSUME NEW u \in Queued', u # t, waited'[u] > waited'[t] - L
                 PROVE  u \in Queued /\ u # h /\ waited[u] > waited[t] - L
      BY DEF Ahead
    <3>1. waited'[u] = w[u] /\ u \in Queued /\ u # h
      BY <1>0, <1>4, <2>1 DEF h, Picked, Timed
    <3>2. w[u] = waited[u] + e /\ waited[u] \in Nat
      BY <3>1, WaitsCount DEF Picked, Timed
    <3> QED  BY <1>0, <2>1, <2>2, <3>1, <3>2
  <2> DEFINE room == Room(Queued, waited, t)
             room1 == Room(Queued', waited', t)
  <2>4. room \in Int /\ room1 \in Int /\ RescueGap <= room1 /\ RescueGap \in Nat
    BY <1>0, <1>1, <1>2, <2>1, RoomBounds, GapType
  <2>5. /\ room <= room1
        /\ h \in Ahead(Queued, waited, t) => room + RescueGap <= room1
    BY <1>0, <2>1, <2>3, RoomGrows
  <2>6. waited[t] >= L => waited[t] - L + Slack <= room
    BY <2>1, WaitsCount
  <2>7. w[h] > w[t] - L \/ Slack' + e <= Slack
    BY <1>4, <2>1, PickServesOrWaits DEF h
  <2> HIDE DEF room, room1
  <2>8. CASE ~(waited[t] >= L)
    <3>1. waited'[t] - L = 0
      BY <1>0, <1>4, <2>1, <2>2, <2>8
    <3>2. waited'[t] - L + Slack' <= room1
      BY <1>3, <2>4, <3>1
    <3> QED  BY <3>2 DEF room1
  <2>9. CASE waited[t] >= L /\ w[h] > w[t] - L
    <3>1. w[h] = waited[h] + e /\ waited[h] \in Nat
      BY <1>2, WaitsCount DEF Picked, Timed
    <3>2. waited[h] > waited[t] - L
      BY <1>0, <2>2, <2>9, <3>1
    <3>3. h \in Ahead(Queued, waited, t)
      BY <1>2, <2>1, <3>2 DEF Ahead
    <3>4. waited[t] - L \in Int /\ waited[t] - L + Slack <= room /\ room + RescueGap <= room1
      BY <1>0, <2>2, <2>5, <2>6, <2>9, <3>3
    <3>5. waited[t] - L + e + Slack' <= room1
      BY <1>3, <2>2, <2>4, <3>4, PickFits
    <3> QED  BY <1>0, <1>3, <2>1, <2>2, <3>5 DEF room1
  <2>10. CASE waited[t] >= L /\ Slack' + e <= Slack
    <3>1. waited[t] - L \in Int /\ waited[t] - L + Slack <= room /\ room <= room1
      BY <1>0, <2>2, <2>5, <2>6, <2>10
    <3>2. waited[t] - L + e + Slack' <= room1
      BY <1>3, <2>2, <2>4, <2>10, <3>1, PickFits
    <3> QED  BY <1>0, <1>3, <2>1, <2>2, <3>2 DEF room1
  <2> QED  BY <2>7, <2>8, <2>9, <2>10
<1> QED
  BY <1>4 DEF OnTime

(* plan_switch with a running task, e ticks later. *)
LEMMA PlanSwitchOnTime ==
  ASSUME IInv, IInv', Roomy, OnTime, current # NoTask, ReadyClasses(queues) # {},
         NEW e, NEW w, NEW s \in 0 .. P, Timed(e, w, s),
         PlanSwitch(w, s), class' = class
  PROVE  OnTime'
<1> DEFINE pick == PickNext(queues, w, s)
<1>0. /\ queues \in Queues /\ Owned(queues, class, current) /\ current \in Tasks
      /\ class[current] \in Class /\ promoted \in [Tasks -> BOOLEAN] /\ class \in [Tasks -> Class]
      /\ w \in [Tasks -> Nat]
  <2>1. TypeOK /\ Owned(queues, class, current)
    BY DEF IInv, OneOwner, Owned
  <2>2. w \in [Tasks -> Nat]
    BY DEF Timed
  <2> QED  BY <2>1, <2>2 DEF TypeOK, Queues
<1>1. PICK c \in ReadyClasses(queues) :
        /\ pick.task = Head(queues[c])
        /\ pick.queues = [queues EXCEPT ![c] = Tail(@)]
        /\ pick.since \in 0 .. P
        /\ s >= P /\ StarvingClasses(queues, w) # {} => w[Head(queues[c])] >= L
        /\ s < P => /\ \A d \in ReadyClasses(queues) : d <= c
                    /\ pick.since = s
                    /\ pick.promoted = FALSE
  BY <1>0, PickWhich
<1> DEFINE h == Head(queues[c])
           k == [queues EXCEPT ![c] = Tail(@)]
<1>2. h \in Tasks /\ k \in Queues /\ class[h] = c /\ h # current
  <2>1. h \in Tasks /\ k \in Queues
    BY <1>0, TakeType
  <2>2. class[h] = c /\ h # current
    BY <1>0, TakeOwned
  <2> QED  BY <2>1, <2>2
<1>3. Members(k) \subseteq Members(queues) \ {h}
  BY <1>0, TakeMembers
<1>4. /\ queues' = [k EXCEPT ![class[current]] = Append(@, current)]
      /\ current' = h
      /\ waited' = [w EXCEPT ![h] = 0, ![current] = 0]
      /\ promoted' = [promoted EXCEPT ![h] = pick.promoted, ![current] = FALSE]
      /\ sincePromotion' = pick.since
  BY <1>1 DEF PlanSwitch
<1> HIDE DEF k, h, pick
<1>5. Members(queues') \subseteq Members(k) \cup {current}
  <2>1. class[current] \in Class /\ current \in Tasks
    BY <1>0
  <2>2. Members([k EXCEPT ![class[current]] = Append(@, current)]) = Members(k) \cup {current}
    BY <1>2, <2>1, PutMembers
  <2> QED  BY <1>4, <2>2
<1>6. Queued = Members(queues) /\ Queued' = Members(queues')
  BY DEF Queued, Members
<1>7. \A u \in Queued' : waited'[u] = 0 \/ (waited'[u] = w[u] /\ u \in Queued \ {h})
  BY <1>0, <1>2, <1>3, <1>4, <1>5, <1>6 DEF Members
<1>8. s < P => sincePromotion' = s /\ promoted'[current'] = FALSE
  BY <1>0, <1>1, <1>2, <1>4
<1>9. class'[current'] = c
  BY <1>2, <1>4
<1>10. Picked(e, w, s, c)
  BY <1>0, <1>1, <1>4, <1>7, <1>8, <1>9 DEF Picked, h
<1> QED
  BY <1>10, PickOnTime

(* The head becomes current and nobody goes back. *)
LEMMA DispatchOnTime ==
  ASSUME IInv, IInv', Roomy, OnTime, current # NoTask, ReadyClasses(queues) # {},
         Dispatch(PickNext(queues, waited, sincePromotion), waited),
         queues' = PickNext(queues, waited, sincePromotion).queues, class' = class
  PROVE  OnTime'
<1> DEFINE pick == PickNext(queues, waited, sincePromotion)
<1>0. /\ queues \in Queues /\ Owned(queues, class, current)
      /\ promoted \in [Tasks -> BOOLEAN] /\ class \in [Tasks -> Class]
      /\ waited \in [Tasks -> Nat] /\ sincePromotion \in 0 .. P /\ P \in Nat
  <2>1. TypeOK /\ Owned(queues, class, current)
    BY DEF IInv, OneOwner, Owned
  <2>2. waited \in [Tasks -> Nat]
    BY <2>1, SchedAssumption DEF TypeOK
  <2> QED  BY <2>1, <2>2, IntervalType DEF TypeOK, Queues, P
<1>1. PICK c \in ReadyClasses(queues) :
        /\ pick.task = Head(queues[c])
        /\ pick.queues = [queues EXCEPT ![c] = Tail(@)]
        /\ pick.since \in 0 .. P
        /\ sincePromotion >= P /\ StarvingClasses(queues, waited) # {} => waited[Head(queues[c])] >= L
        /\ sincePromotion < P => /\ \A d \in ReadyClasses(queues) : d <= c
                                 /\ pick.since = sincePromotion
                                 /\ pick.promoted = FALSE
  BY <1>0, PickWhich
<1> DEFINE h == Head(queues[c])
           k == [queues EXCEPT ![c] = Tail(@)]
<1>2. h \in Tasks /\ class[h] = c
  BY <1>0, TakeType, TakeOwned
<1>3. Members(k) \subseteq Members(queues) \ {h}
  BY <1>0, TakeMembers
<1>4. /\ queues' = k /\ current' = h
      /\ waited' = [waited EXCEPT ![h] = 0]
      /\ promoted' = [promoted EXCEPT ![h] = pick.promoted]
      /\ sincePromotion' = pick.since
  BY <1>1 DEF Dispatch
<1> HIDE DEF k, h, pick
<1>6. Queued = Members(queues) /\ Queued' = Members(queues')
  BY DEF Queued, Members
<1>7. \A u \in Queued' : waited'[u] = 0 \/ (waited'[u] = waited[u] /\ u \in Queued \ {h})
  BY <1>0, <1>2, <1>3, <1>4, <1>6 DEF Members
<1>8. sincePromotion < P => sincePromotion' = sincePromotion /\ promoted'[current'] = FALSE
  BY <1>0, <1>1, <1>2, <1>4
<1>9. class'[current'] = c
  BY <1>2, <1>4
<1>10. /\ 0 \in {0, 1} /\ \A u \in Queued : waited[u] = waited[u] + 0
       /\ sincePromotion = AtMost(sincePromotion + 0, P)
  BY <1>0 DEF AtMost, Queued
<1>11. Sorted(queues, waited)
  BY DEF IInv, OldestFirst, Sorted
<1>12. Picked(0, waited, sincePromotion, c)
  BY <1>0, <1>1, <1>4, <1>7, <1>8, <1>9, <1>10, <1>11 DEF Picked, Timed, h
<1> QED
  BY <1>10, <1>12, PickOnTime

(* A tick that leaves the CPU where it is brings the next pick nearer. *)
LEMMA KeepOnTime ==
  ASSUME ReclassTo = {}, IInv, IInv', Roomy, OnTime, TickKeep
  PROVE  OnTime'
<1> DEFINE used == AtMost(ticksUsed[current] + 1, TICKS_CAP)
           c == class[current]
<1>0. /\ TypeOK /\ L \in Nat \ {0} /\ P \in Nat \ {0} /\ current # NoTask /\ current \in Tasks
      /\ c \in Class /\ ticksUsed[current] \in Nat /\ sincePromotion \in 0 .. P
      /\ Quantum[c] \in Nat \ {0} /\ TICKS_CAP \in Nat /\ Quantum[c] <= TICKS_CAP
      /\ promoted[current] \in BOOLEAN
  BY SchedAssumption, IntervalType DEF IInv, TypeOK, TickKeep, L, P
<1>1. /\ UNCHANGED <<queues, current, class, promoted>> /\ waited' = Aged
      /\ sincePromotion' = AtMost(sincePromotion + 1, P)
      /\ ticksUsed' = [ticksUsed EXCEPT ![current] = used]
      /\ ~ShouldPreempt(c, used, promoted[current], Aged)
  BY DEF TickKeep, AgedPromotion, P
<1>2. /\ Queued' = Queued /\ HigherClassWaiting(Background)' = HigherClassWaiting(Background)
      /\ HigherClassWaiting(class[current])' = HigherClassWaiting(c)
  BY <1>1 DEF Queued, HigherClassWaiting, Outranked, ReadyClasses
<1>3. ticksUsed'[current'] = used /\ used \in Nat
  BY <1>0, <1>1 DEF TypeOK, AtMost
<1>4. ASSUME AnyStarving(Aged)
      PROVE  Slack' + 1 <= Slack
  <2>1. /\ ~HigherClassWaiting(c) /\ ~promoted[current]
        /\ used < Quantum[c]
    <3>1. ~HigherClassWaiting(c) /\ ~(used >= (IF promoted[current] THEN 1 ELSE Quantum[c]))
      BY <1>1, <1>4 DEF ShouldPreempt
    <3>2. used >= 1
      BY <1>0 DEF AtMost
    <3> QED  BY <1>0, <1>3, <3>1, <3>2
  <2>2. used = ticksUsed[current] + 1
    BY <1>0, <2>1 DEF AtMost
  <2>3. Rem = Quantum[c] - ticksUsed[current]
    BY <1>0, <2>1, <2>2 DEF Rem
  <2>4. Rem' = Quantum[c] - ticksUsed[current] - 1
    <3>1. ~HigherClassWaiting(class[current])' /\ ~promoted'[current'] /\ class'[current'] = c
      BY <1>1, <1>2, <2>1
    <3>2. ~(ticksUsed'[current'] >= Quantum[class'[current']])
      BY <1>0, <1>3, <2>1, <3>1
    <3>3. Rem' = Quantum[class'[current']] - ticksUsed'[current']
      BY <3>1, <3>2 DEF Rem
    <3> QED  BY <1>0, <1>3, <2>2, <3>1, <3>3
  <2>5. Lone' <=> Lone
    BY <1>1, <1>2 DEF Lone
  <2>6. c = Background => Lone
    BY <2>1 DEF Lone
  <2>7. RescueGap \in Nat /\ (c # Background => P - 1 + Quantum[c] <= RescueGap)
    BY <1>0, GapType
  <2>8. CASE Lone
    BY <1>0, <2>3, <2>4, <2>5, <2>8 DEF Slack
  <2>9. CASE ~Lone /\ sincePromotion >= P
    <3>1. sincePromotion' >= P
      BY <1>0, <1>1, <2>9 DEF AtMost
    <3> QED  BY <1>0, <2>3, <2>4, <2>5, <2>9, <3>1 DEF Slack
  <2>10. CASE ~Lone /\ ~(sincePromotion >= P)
    <3>1. sincePromotion' = sincePromotion + 1
      BY <1>0, <1>1, <2>10 DEF AtMost
    <3>2. Slack = RescueGap - sincePromotion
      BY <2>10 DEF Slack
    <3>3. Slack' = IF sincePromotion' >= P THEN Rem' ELSE RescueGap - sincePromotion'
      BY <2>5, <2>10 DEF Slack
    <3>4. Rem' + 1 <= Quantum[c]
      BY <1>0, <2>4
    <3> QED  BY <1>0, <2>4, <2>6, <2>7, <2>10, <3>1, <3>2, <3>3, <3>4
  <2> QED  BY <2>8, <2>9, <2>10
<1>5. Slack \in Int /\ Slack' \in Int /\ Slack' <= RescueGap /\ RescueGap \in Nat
  <2>1. TypeOK' /\ current' # NoTask
    BY <1>0, <1>1 DEF IInv
  <2> QED  BY <1>0, <2>1, SlackBounds, SlackBoundsNext, GapType
<1>6. \A u \in Queued : u \in Tasks /\ waited[u] \in Nat /\ waited'[u] = waited[u] + 1
  BY <1>0, <1>1, WaitsCount
<1>7. Queued \in SUBSET Tasks /\ current \notin Queued
  BY DEF IInv, OneOwner, Queued
<1>8. Aged \in [Tasks -> Nat] /\ Sorted(queues, Aged)
  <2>1. Aged \in [Tasks -> 0 .. WAIT_CAP] /\ Sorted(queues, Aged)
    BY AgedWaits, AgedSorted DEF IInv
  <2> QED  BY <2>1, SchedAssumption
<1> HIDE DEF used, c
<1>9. ASSUME NEW t \in Queued, waited'[t] >= L
      PROVE  waited'[t] - L + Slack' <= Room(Queued, waited', t)
  <2> DEFINE room == Room(Queued, waited, t)
             room1 == Room(Queued, waited', t)
  <2>1. AnyStarving(Aged)
    BY <1>0, <1>1, <1>8, <1>9, FrontStarves DEF AnyStarving
  <2>2. Slack' + 1 <= Slack
    BY <1>4, <2>1
  <2>3. Ahead(Queued, waited', t) = Ahead(Queued, waited, t)
    <3>1. \A u \in Queued : waited'[u] > waited'[t] - L <=> waited[u] > waited[t] - L
      BY <1>0, <1>6
    <3> QED  BY <3>1 DEF Ahead
  <2>4. room1 = room
    BY <2>3 DEF Room
  <2>5. room \in Int /\ RescueGap <= room
    BY <1>0, <1>7, RoomBounds
  <2>6. waited[t] >= L => waited[t] - L + Slack <= room
    BY <1>0, WaitsCount
  <2>7. waited[t] \in Nat /\ waited'[t] = waited[t] + 1
    BY <1>6
  <2> HIDE DEF room, room1
  <2>8. CASE waited[t] >= L
    <3> DEFINE x == waited[t] - L
    <3>1. x \in Int /\ x + Slack <= room
      BY <1>0, <2>6, <2>7, <2>8
    <3>2. waited'[t] - L = x + 1
      BY <1>0, <2>7
    <3> HIDE DEF x
    <3>3. x + 1 + Slack' <= room
      <4>1. 1 \in {0, 1} /\ 1 <= Slack /\ room <= room
        BY <1>0, <2>5, SlackBounds
      <4> QED  BY <1>5, <2>2, <2>5, <3>1, <4>1, PickFits
    <3> QED  BY <2>4, <3>2, <3>3 DEF room1
  <2>9. CASE ~(waited[t] >= L)
    <3>1. waited'[t] - L = 0
      BY <1>0, <1>9, <2>7, <2>9
    <3>2. waited'[t] - L + Slack' <= room
      BY <1>5, <2>5, <3>1
    <3> QED  BY <2>4, <3>2 DEF room1
  <2> QED  BY <2>8, <2>9
<1> QED
  BY <1>2, <1>9 DEF OnTime

(* Every step keeps the waits on time. *)
LEMMA OnTimeKeeps ==
  ASSUME ReclassTo = {}, ~BootMayTick, IInv, IInv', BootQuiet, OnTime, [Next]_vars
  PROVE  OnTime'
<1> SUFFICES ASSUME Roomy, current' # NoTask PROVE OnTime'
  BY DEF OnTime
<1>0. /\ TypeOK /\ L \in Nat \ {0} /\ waited \in [Tasks -> 0 .. WAIT_CAP]
      /\ sincePromotion \in 0 .. P /\ P \in Nat
  BY SchedAssumption, IntervalType DEF IInv, TypeOK, L, P
<1>1. CASE SpawnStamp \/ SpawnEnqueue \/ TickBoot \/ YieldFromBoot
  <2>1. current' = NoTask
    BY <1>1 DEF IInv, BootFirst, SpawnStamp, SpawnEnqueue, TickBoot, YieldFromBoot, PlanSwitchNoCurrent
  <2> QED  BY <2>1
<1>2. CASE RunUntilIdle
  <2>1. \A t \in Tasks : waited[t] = 0
    BY <1>2 DEF BootQuiet, RunUntilIdle
  <2>2. \A t \in Tasks : waited'[t] = 0
    BY <1>0, <1>2, <2>1 DEF RunUntilIdle, Dispatch
  <2>3. \A t \in Queued' : ~(waited'[t] >= L)
    BY <1>0, <2>2 DEF Queued
  <2> QED  BY <2>3 DEF OnTime
<1>3. CASE TickKeep
  BY <1>3, KeepOnTime
<1>4. CASE TickPreempt
  <2>1. /\ current # NoTask /\ class[current] \in Class /\ class' = class
        /\ PlanSwitch(Aged, AgedPromotion)
    BY <1>0, <1>4 DEF TickPreempt, TypeOK
  <2>2. ReadyClasses(queues) # {}
    BY <1>4, <2>1, PreemptFindsATask DEF TickPreempt
  <2>3. AgedPromotion \in 0 .. P /\ AgedPromotion = AtMost(sincePromotion + 1, P)
    BY <1>0, AgedWaits DEF AgedPromotion, P
  <2>4. Aged \in [Tasks -> Nat] /\ Sorted(queues, Aged)
    <3>1. Aged \in [Tasks -> 0 .. WAIT_CAP] /\ Sorted(queues, Aged)
      BY AgedWaits, AgedSorted DEF IInv
    <3> QED  BY <3>1, SchedAssumption
  <2>5. \A u \in Queued : Aged[u] = waited[u] + 1
    BY <2>1, WaitsCount
  <2>6. Timed(1, Aged, AgedPromotion)
    BY <2>3, <2>4, <2>5 DEF Timed
  <2> QED  BY <2>1, <2>2, <2>3, <2>6, PlanSwitchOnTime
<1>5. CASE Yield
  <2>1. /\ current # NoTask /\ ReadyClasses(queues) # {} /\ class' = class
        /\ PlanSwitch(waited, sincePromotion)
    BY <1>5 DEF Yield
  <2>2. Timed(0, waited, sincePromotion)
    <3>1. waited \in [Tasks -> Nat] /\ Sorted(queues, waited)
      BY <1>0, SchedAssumption DEF IInv, OldestFirst, Sorted
    <3>2. sincePromotion = AtMost(sincePromotion + 0, P)
      BY <1>0 DEF AtMost
    <3>3. \A u \in Queued : waited[u] = waited[u] + 0
      BY <3>1 DEF Queued
    <3> QED  BY <3>1, <3>2, <3>3 DEF Timed
  <2> QED  BY <1>0, <2>1, <2>2, PlanSwitchOnTime
<1>6. CASE ExitTask
  <2>1. current # NoTask /\ class' = class
    BY <1>6 DEF ExitTask
  <2>2. CASE ReadyClasses(queues) # {}
    <3>1. /\ Dispatch(PickNext(queues, waited, sincePromotion), waited)
          /\ queues' = PickNext(queues, waited, sincePromotion).queues
      BY <1>6, <2>2 DEF ExitTask
    <3> QED  BY <2>1, <2>2, <3>1, DispatchOnTime
  <2>3. CASE ReadyClasses(queues) = {}
    <3>1. current' = NoTask
      BY <1>6, <2>3 DEF ExitTask
    <3> QED  BY <3>1
  <2> QED  BY <2>2, <2>3
<1>7. CASE UNCHANGED vars
  BY <1>7 DEF vars, OnTime, Queued, Slack, Lone, Rem, HigherClassWaiting, Outranked, ReadyClasses
<1> QED
  BY <1>1, <1>2, <1>3, <1>4, <1>5, <1>6, <1>7 DEF Next, BootStep, Tick

(* What is on time is bounded. *)
LEMMA OnTimeIsBounded ==
  ASSUME IInv, BootQuiet, OnTime
  PROVE  EveryWaitBounded
<1> SUFFICES ASSUME RescueGap * (N - 1) < L, NEW t \in Queued
             PROVE  waited[t] <= RescueBound
  BY DEF EveryWaitBounded, L
<1>0. /\ TypeOK /\ t \in Tasks /\ L \in Nat \ {0} /\ WAIT_CAP \in Nat /\ waited[t] \in 0 .. WAIT_CAP
      /\ boot \in {"running", "stamped", "parked", "returned"}
  BY SchedAssumption DEF IInv, TypeOK, L, Queued
<1>1. RescueBound = L + RescueGap * (N - 1) /\ RescueGap * (N - 1) \in Int /\ 0 <= RescueGap * (N - 1)
  <2>1. RescueGap * (N - 1) \in Int /\ RescueGap * 0 <= RescueGap * (N - 1)
    BY GapGrows, SchedAssumption
  <2>2. RescueGap * 0 = 0
    BY GapType
  <2> QED  BY <2>1, <2>2 DEF RescueBound, L
<1>2. CASE ~Roomy
  BY <1>0, <1>1, <1>2 DEF Roomy
<1>3. CASE boot \in {"running", "stamped"}
  BY <1>0, <1>1, <1>3 DEF BootQuiet
<1>4. CASE Roomy /\ boot = "parked"
  <2>1. current # NoTask
    BY <1>4 DEF BootQuiet
  <2>2. waited[t] >= L => waited[t] - L + 1 <= RescueGap * (N - 1)
    BY <1>4, <2>1, WaitsCount
  <2> QED  BY <1>0, <1>1, <2>2
<1>5. CASE boot = "returned"
  <2>1. ReadyClasses(queues) = {}
    BY <1>5 DEF BootQuiet
  <2>2. \A c \in Class : Len(queues[c]) = 0
    BY <1>0, <2>1 DEF ReadyClasses
  <2> QED  BY <2>2 DEF Queued
<1> QED
  BY <1>0, <1>2, <1>3, <1>4, <1>5

(* Scheduler::pick_next and should_preempt: where the limit leaves room for a
   rescue of every other task, no task waits longer than the limit and a gap
   for each of the others, whatever classes, quanta and loads there are. *)
THEOREM WaitsBounded ==
  ASSUME ReclassTo = {}, ~BootMayTick
  PROVE  Spec => []EveryWaitBounded
<1>1. Init => BootQuiet /\ OnTime
  BY DEF Init, BootQuiet, OnTime
<1>2. IInv /\ IInv' /\ BootQuiet /\ OnTime /\ [Next]_vars => BootQuiet' /\ OnTime'
  BY OnTimeKeeps, QuietKeeps
<1>3. IInv /\ BootQuiet /\ OnTime => EveryWaitBounded
  BY OnTimeIsBounded
<1> QED
  BY <1>1, <1>2, <1>3, Invariance, PTL DEF Spec
-----------------------------------------------------------------------------
(***************************************************************************)
(* The realtime class's share.                                             *)
(*                                                                         *)
(* The argument.  A tick that gives the CPU below a ready realtime task is *)
(* booked, and then no other is within the interval, or it took the CPU    *)
(* from the only realtime task, which must get it back before it can lose  *)
(* it again.  So an unbooked tick follows a kept one; counting the kept    *)
(* ticks of a window against the unbooked bounds both.                     *)
(***************************************************************************)

AtMostOneRealtime == \A t, u \in RealtimeTasks : t = u

(* The fates of the latest ticks, and what they say of the present state. *)
ShareInv ==
  /\ recent \in [Window -> Fates]
  /\ \A i \in Window : recent[i] = "booked" => sincePromotion <= i
  /\ \A i, j \in Window : recent[i] = "booked" /\ recent[j] = "booked" => i = j
  /\ \A i \in Window \ {0} : recent[i - 1] = "unbooked" => recent[i] = "kept"
  /\ \A i \in Window : recent[i] # "kept" => current # NoTask
  /\ \A i \in Window : recent[i] = "unbooked" => AtMostOneRealtime
  /\ recent[0] # "kept" => class[current] # Realtime

(* pick_next passes over a realtime task only for a rescue it books. *)
LEMMA PickPasses ==
  ASSUME NEW q \in Queues, NEW w, NEW s \in 0 .. P, ReadyClasses(q) # {}
  PROVE  \E c \in ReadyClasses(q) :
           /\ PickNext(q, w, s).task = Head(q[c])
           /\ PickNext(q, w, s).queues = [q EXCEPT ![c] = Tail(@)]
           /\ PickNext(q, w, s).promoted \in BOOLEAN
           /\ PickNext(q, w, s).since \in {0, s}
           /\ PickNext(q, w, s).promoted => s = P /\ PickNext(q, w, s).since = 0
           /\ ~PickNext(q, w, s).promoted /\ c # Realtime => Realtime \notin ReadyClasses(q)
<1> DEFINE rescue == IF s >= PROMOTION_INTERVAL THEN StarvingClasses(q, w) ELSE {}
           k == IF rescue # {} THEN Lowest(rescue) ELSE Highest(ReadyClasses(q))
           outranked == rescue # {} /\ Outranked(q, k)
<1>0. P \in Nat \ {0} /\ PROMOTION_INTERVAL = P
  BY IntervalType DEF P
<1>1. ReadyClasses(q) \in SUBSET Class /\ rescue \in SUBSET ReadyClasses(q) /\ rescue \in SUBSET Class
  BY DEF ReadyClasses, StarvingClasses
<1>2. k \in ReadyClasses(q)
  BY <1>1, ClassExtremes
<1>3. PickNext(q, w, s) =
        [task     |-> Head(q[k]),
         queues   |-> [q EXCEPT ![k] = Tail(@)],
         promoted |-> outranked,
         since    |-> IF outranked THEN 0 ELSE s]
  BY DEF PickNext
<1>4. outranked \in BOOLEAN /\ (outranked => s = P)
  BY <1>0
<1>5. ASSUME ~outranked, k # Realtime PROVE Realtime \notin ReadyClasses(q)
  <2>1. CASE rescue # {}
    <3>1. ~(Realtime > k) \/ Realtime \notin ReadyClasses(q)
      BY <1>5, <2>1 DEF Outranked
    <3> QED  BY <1>1, <1>2, <1>5, <3>1 DEF Class, Realtime
  <2>2. CASE rescue = {}
    <3>1. k = Highest(ReadyClasses(q))
      BY <2>2
    <3>2. \E c \in ReadyClasses(q) : \A d \in ReadyClasses(q) : d <= c
      <4>1. ReadyClasses(q) # {} /\ \A d \in ReadyClasses(q) : d = 0 \/ d = 1 \/ d = 2
        BY <1>1 DEF Class
      <4>2. CASE 2 \in ReadyClasses(q)  BY <4>1, <4>2
      <4>3. CASE 2 \notin ReadyClasses(q) /\ 1 \in ReadyClasses(q)  BY <4>1, <4>3
      <4>4. CASE 2 \notin ReadyClasses(q) /\ 1 \notin ReadyClasses(q)  BY <4>1, <4>4
      <4> QED  BY <4>2, <4>3, <4>4
    <3>3. \A d \in ReadyClasses(q) : d <= k
      BY <3>1, <3>2 DEF Highest
    <3> QED  BY <1>1, <1>2, <1>5, <3>3 DEF Class, Realtime
  <2> QED  BY <2>1, <2>2
<1> HIDE DEF k, outranked
<1>6. /\ PickNext(q, w, s).task = Head(q[k])
      /\ PickNext(q, w, s).queues = [q EXCEPT ![k] = Tail(@)]
      /\ PickNext(q, w, s).promoted = outranked
      /\ PickNext(q, w, s).since = IF outranked THEN 0 ELSE s
  BY <1>3
<1> QED
  BY <1>2, <1>4, <1>5, <1>6

(* What a tick may do to the realtime class. *)
TickOutcome(fate) ==
  /\ fate \in Fates
  /\ fate # "kept" => current' # NoTask /\ class'[current'] # Realtime
  /\ fate = "booked" => AgedPromotion = P /\ sincePromotion' = 0
  /\ fate = "unbooked" => /\ current # NoTask /\ class[current] = Realtime
                          /\ queues[Realtime] = <<>>
  /\ sincePromotion' \in {0, AgedPromotion} \/ current = NoTask
  /\ current # NoTask => current' # NoTask /\ RealtimeTasks' = RealtimeTasks
  /\ current = NoTask => fate = "kept"

(* A tick that lets the running task go on takes nothing from it. *)
LEMMA KeepOutcome ==
  ASSUME IInv, TickKeep PROVE TickOutcome(Fate)
<1>0. /\ current # NoTask /\ current' = current /\ class' = class /\ queues' = queues
      /\ sincePromotion' = AgedPromotion
      /\ class[current] \in Class /\ Realtime \in Class
  BY DEF TickKeep, IInv, TypeOK, Class, Realtime
<1>1. ~HigherClassWaiting(class[current])
  BY DEF TickKeep, ShouldPreempt
<1>2. class[current] # Realtime => queues[Realtime] = <<>>
  <2>1. class[current] # Realtime => Realtime > class[current]
    BY <1>0 DEF Class, Realtime
  <2> QED  BY <1>0, <1>1, <2>1 DEF HigherClassWaiting, Outranked, ReadyClasses
<1>3. Fate = "kept"
  BY <1>0, <1>2 DEF Fate
<1>4. RealtimeTasks' = RealtimeTasks
  BY <1>0 DEF RealtimeTasks, Queued
<1> QED
  BY <1>0, <1>3, <1>4 DEF TickOutcome, Fates

(* A tick with no task current takes nothing. *)
LEMMA BootOutcome ==
  ASSUME IInv, TickBoot PROVE TickOutcome(Fate)
<1>1. current = NoTask /\ current' = NoTask
  BY DEF TickBoot, PlanSwitchNoCurrent
<1> QED
  BY <1>1 DEF TickOutcome, Fate, Fates

(* A tick that preempts takes the CPU from the realtime class in two ways. *)
LEMMA PreemptOutcome ==
  ASSUME IInv, TickPreempt PROVE TickOutcome(Fate)
<1> DEFINE s == AgedPromotion
           pick == PickNext(queues, Aged, s)
<1>0. /\ current # NoTask /\ class' = class /\ class[current] \in Class /\ Realtime \in Class
      /\ PlanSwitch(Aged, AgedPromotion)
      /\ promoted \in [Tasks -> BOOLEAN]
  BY DEF TickPreempt, IInv, TypeOK, Class, Realtime
<1>1. ReadyClasses(queues) # {}
  BY <1>0, PreemptFindsATask DEF TickPreempt
<1>2. /\ Queued = Members(queues) /\ current \notin Queued /\ current \in Tasks
      /\ NoTask \notin Tasks
      /\ queues \in Queues /\ Owned(queues, class, current)
  BY <1>0, Stages
<1>3. s \in 0 .. P
  BY AgedWaits, IntervalType DEF IInv, P
<1>4. PICK c \in ReadyClasses(queues) :
        /\ pick.task = Head(queues[c])
        /\ pick.queues = [queues EXCEPT ![c] = Tail(@)]
        /\ pick.promoted \in BOOLEAN
        /\ pick.since \in {0, s}
        /\ pick.promoted => s = P /\ pick.since = 0
        /\ ~pick.promoted /\ c # Realtime => Realtime \notin ReadyClasses(queues)
  BY <1>1, <1>2, <1>3, PickPasses
<1> DEFINE h == Head(queues[c])
           r == [queues EXCEPT ![c] = Tail(@)]
<1>5. h \in Tasks /\ r \in Queues /\ c \in Class
  BY <1>2, TakeType
<1>6. h \in Queued /\ Members(r) = Queued \ {h} /\ class[h] = c
  <2>1. h \in Queued /\ Members(r) = Queued \ {h}
    BY <1>2, TakeMembers
  <2>2. Len(queues[c]) \in Nat \ {0} /\ h = queues[c][1]
    BY <1>2, TakeType
  <2>3. class[queues[c][1]] = c
    BY <1>5, <2>2 DEF IInv, OneOwner
  <2> QED  BY <2>1, <2>2, <2>3
<1>7. /\ queues' = [r EXCEPT ![class[current]] = Append(@, current)] /\ current' = h
      /\ sincePromotion' = pick.since
      /\ promoted' = [promoted EXCEPT ![h] = pick.promoted, ![current] = FALSE]
  BY <1>0, <1>4 DEF PlanSwitch
<1> HIDE DEF h, r, pick, s
<1>8. h # current /\ h # NoTask /\ promoted'[h] = pick.promoted
  BY <1>0, <1>2, <1>5, <1>6, <1>7
<1>9. RealtimeTasks' = RealtimeTasks
  <2>1. Members(queues') = Members(r) \cup {current}
    BY <1>0, <1>2, <1>5, <1>7, PutMembers
  <2>2. Queued' = Members(queues')
    BY DEF Queued, Members
  <2>3. Queued' \cup {current'} = Queued \cup {current}
    BY <1>6, <1>7, <2>1, <2>2
  <2>4. \A t \in Tasks : (t = current' \/ t \in Queued') <=> (t = current \/ t \in Queued)
    BY <2>3
  <2> QED  BY <1>0, <2>4 DEF RealtimeTasks
<1>10. CASE c = Realtime
  <2>1. Fate = "kept"
    BY <1>0, <1>6, <1>7, <1>10 DEF Fate
  <2> QED  BY <1>0, <1>4, <1>7, <1>8, <1>9, <2>1 DEF TickOutcome, Fates, s
<1>11. CASE c # Realtime /\ pick.promoted
  <2>1. Fate \in {"kept", "booked"}
    BY <1>7, <1>8, <1>11 DEF Fate
  <2>2. class'[current'] # Realtime /\ s = P /\ sincePromotion' = 0
    BY <1>0, <1>4, <1>6, <1>7, <1>11
  <2> QED  BY <1>0, <1>7, <1>8, <1>9, <2>1, <2>2 DEF TickOutcome, Fates, s
<1>12. CASE c # Realtime /\ ~pick.promoted
  <2>1. queues[Realtime] = <<>>
    BY <1>0, <1>4, <1>12 DEF ReadyClasses
  <2>2. r[Realtime] = <<>>
    BY <1>0, <1>2, <1>12, <2>1 DEF r, Queues
  <2>3. class[current] # Realtime => queues'[Realtime] = <<>>
    BY <1>0, <1>5, <1>7, <2>2 DEF Queues
  <2>4. Fate = "kept" \/ (Fate = "unbooked" /\ class[current] = Realtime)
    BY <1>7, <1>8, <1>12, <2>3 DEF Fate
  <2>5. class'[current'] # Realtime
    BY <1>0, <1>6, <1>7, <1>12
  <2> QED  BY <1>0, <1>4, <1>7, <1>8, <1>9, <2>1, <2>4, <2>5 DEF TickOutcome, Fates, s
<1> QED
  BY <1>4, <1>10, <1>11, <1>12

(* What a tick does to the window. *)
LEMMA TickShare ==
  ASSUME IInv, ShareInv, TickOutcome(Fate), recent' = Pushed(Fate)
  PROVE  ShareInv'
<1>0. /\ P \in Nat \ {0} /\ Window = 0 .. P - 1 /\ 0 \in Window
      /\ sincePromotion \in 0 .. P /\ AgedPromotion = AtMost(sincePromotion + 1, P)
  BY IntervalType DEF Window, IInv, TypeOK, P, AgedPromotion
<1>1. /\ Fate \in Fates /\ recent \in [Window -> Fates]
      /\ recent' = [i \in Window |-> IF i = 0 THEN Fate ELSE recent[i - 1]]
  BY DEF ShareInv, TickOutcome, Pushed
<1> HIDE DEF Fate
<1>2. \A i \in Window \ {0} : i - 1 \in Window
  BY <1>0
<1>3. recent' \in [Window -> Fates]
  BY <1>1, <1>2
<1>4. recent'[0] = Fate /\ \A i \in Window \ {0} : recent'[i] = recent[i - 1]
  BY <1>0, <1>1
<1>5. CASE current = NoTask
  <2>1. Fate = "kept" /\ \A i \in Window : recent[i] = "kept"
    BY <1>5 DEF TickOutcome, ShareInv
  <2>2. \A i \in Window : recent'[i] = "kept"
    BY <1>2, <1>4, <2>1
  <2> QED  BY <1>0, <1>3, <2>2 DEF ShareInv
<1>6. CASE current # NoTask
  <2>1. /\ current' # NoTask /\ RealtimeTasks' = RealtimeTasks
        /\ sincePromotion' \in {0, AgedPromotion}
        /\ AgedPromotion \in Nat /\ AgedPromotion <= sincePromotion + 1
        /\ AgedPromotion = P => sincePromotion + 1 >= P
    BY <1>0, <1>6 DEF TickOutcome, AtMost
  <2>2. \A i \in Window : recent'[i] = "booked" => sincePromotion' <= i
    <3>1. ASSUME NEW i \in Window, recent'[i] = "booked" PROVE sincePromotion' <= i
      <4>1. CASE i = 0
        BY <1>0, <1>4, <3>1, <4>1 DEF TickOutcome
      <4>2. CASE i # 0
        <5>1. recent[i - 1] = "booked" /\ i - 1 \in Window
          BY <1>2, <1>4, <3>1, <4>2
        <5>2. sincePromotion <= i - 1
          BY <5>1 DEF ShareInv
        <5> QED  BY <1>0, <2>1, <5>2
      <4> QED  BY <4>1, <4>2
    <3> QED  BY <3>1
  <2>3. \A i, j \in Window : recent'[i] = "booked" /\ recent'[j] = "booked" => i = j
    <3>1. ASSUME NEW i \in Window \ {0}, recent'[i] = "booked" PROVE Fate # "booked"
      <4>1. recent[i - 1] = "booked" /\ i - 1 \in Window
        BY <1>2, <1>4, <3>1
      <4>2. sincePromotion <= i - 1
        BY <4>1 DEF ShareInv
      <4> QED  BY <1>0, <2>1, <4>2 DEF TickOutcome
    <3>2. ASSUME NEW i \in Window \ {0}, NEW j \in Window \ {0},
                 recent'[i] = "booked", recent'[j] = "booked"
          PROVE  i = j
      <4>1. recent[i - 1] = "booked" /\ recent[j - 1] = "booked" /\ i - 1 \in Window /\ j - 1 \in Window
        BY <1>2, <1>4, <3>2
      <4>2. i - 1 = j - 1
        BY <4>1 DEF ShareInv
      <4> QED  BY <1>0, <4>2
    <3> QED  BY <1>4, <3>1, <3>2
  <2>4. Fate = "unbooked" => recent[0] = "kept" /\ AtMostOneRealtime
    <3>1. SUFFICES ASSUME Fate = "unbooked" PROVE recent[0] = "kept" /\ AtMostOneRealtime
      OBVIOUS
    <3>2. class[current] = Realtime /\ queues[Realtime] = <<>>
      BY <3>1 DEF TickOutcome
    <3>3. recent[0] = "kept"
      BY <3>2 DEF ShareInv
    <3>4. ASSUME NEW t \in RealtimeTasks PROVE t = current
      <4>1. CASE t \in Queued
        <5>1. PICK c \in Class : \E i \in 1 .. Len(queues[c]) : queues[c][i] = t
          BY <4>1 DEF Queued
        <5>2. PICK i \in 1 .. Len(queues[c]) : queues[c][i] = t
          BY <5>1
        <5>3. class[queues[c][i]] = c
          BY DEF IInv, OneOwner
        <5>4. c = Realtime
          BY <3>4, <5>2, <5>3 DEF RealtimeTasks
        <5>5. Len(queues[c]) = 0
          BY <3>2, <5>4
        <5> QED  BY <5>2, <5>5
      <4> QED  BY <3>4, <4>1 DEF RealtimeTasks
    <3> QED  BY <3>3, <3>4 DEF AtMostOneRealtime
  <2>5. \A i \in Window \ {0} : recent'[i - 1] = "unbooked" => recent'[i] = "kept"
    <3>1. ASSUME NEW i \in Window \ {0}, recent'[i - 1] = "unbooked" PROVE recent'[i] = "kept"
      <4>1. CASE i = 1
        BY <1>4, <2>4, <3>1, <4>1
      <4>2. CASE i # 1
        <5>1. i - 1 \in Window \ {0}
          BY <1>0, <4>2
        <5>2. recent'[i - 1] = recent[(i - 1) - 1] /\ recent'[i] = recent[i - 1]
          BY <1>4, <5>1
        <5> QED  BY <3>1, <5>1, <5>2 DEF ShareInv
      <4> QED  BY <4>1, <4>2
    <3> QED  BY <3>1
  <2>6. \A i \in Window : recent'[i] = "unbooked" => AtMostOneRealtime'
    <3>1. ASSUME NEW i \in Window, recent'[i] = "unbooked" PROVE AtMostOneRealtime
      BY <1>2, <1>4, <2>4, <3>1 DEF ShareInv
    <3> QED  BY <2>1, <3>1 DEF AtMostOneRealtime
  <2>7. recent'[0] # "kept" => class'[current'] # Realtime
    BY <1>4 DEF TickOutcome
  <2> QED  BY <1>3, <2>1, <2>2, <2>3, <2>5, <2>6, <2>7 DEF ShareInv
<1> QED
  BY <1>5, <1>6

(* Every step keeps what the window says. *)
LEMMA ShareKeeps ==
  ASSUME IInv, ShareInv, [ShareNext]_<<vars, recent>> PROVE ShareInv'
<1>0. 0 \in Window
  BY IntervalType DEF Window, P
<1>1. CASE Tick /\ recent' = Pushed(Fate)
  <2>1. TickOutcome(Fate)
    BY <1>1, BootOutcome, KeepOutcome, PreemptOutcome DEF Tick
  <2> QED  BY <1>1, <2>1, TickShare
<1>2. CASE recent' = AllKept
  <2>1. recent' \in [Window -> Fates] /\ \A i \in Window : recent'[i] = "kept"
    BY <1>2 DEF AllKept, Fates
  <2> QED  BY <1>0, <2>1 DEF ShareInv
<1>3. CASE UNCHANGED <<vars, recent>>
  BY <1>3 DEF vars, ShareInv, AtMostOneRealtime, RealtimeTasks, Queued
<1> QED
  BY <1>1, <1>2, <1>3 DEF ShareNext

(* A window with an unbooked tick only after a kept one, and one booked tick. *)
LEMMA WindowCount ==
  ASSUME ShareInv
  PROVE  /\ IsFiniteSet(DonatedTicks) /\ Cardinality(DonatedTicks) \in Nat
         /\ Cardinality(DonatedTicks) <= P \div 2 + 1
         /\ (\A i \in Window : recent[i] # "unbooked") => Cardinality(DonatedTicks) <= 1
<1> DEFINE U == {i \in Window : recent[i] = "unbooked"}
           B == {i \in Window : recent[i] = "booked"}
           K == {i \in Window : recent[i] = "kept"}
           V == U \ {P - 1}
           f == [i \in V |-> i + 1]
<1>0. P \in Nat \ {0} /\ Window = 0 .. P - 1
  BY IntervalType DEF Window, P
<1>1. IsFiniteSet(Window) /\ Cardinality(Window) = P
  <2>1. 0 \in Int /\ P - 1 \in Int /\ ~(0 > P - 1) /\ (P - 1) - 0 + 1 = P
    BY <1>0
  <2> QED  BY <1>0, <2>1, FS_Interval
<1>2. /\ IsFiniteSet(U) /\ IsFiniteSet(B) /\ IsFiniteSet(K) /\ IsFiniteSet(DonatedTicks)
      /\ Cardinality(U) \in Nat /\ Cardinality(B) \in Nat /\ Cardinality(K) \in Nat
      /\ Cardinality(DonatedTicks) \in Nat
  <2>1. U \in SUBSET Window /\ B \in SUBSET Window /\ K \in SUBSET Window /\ DonatedTicks \in SUBSET Window
    BY DEF DonatedTicks
  <2> HIDE DEF U, B, K
  <2> QED  BY <1>1, <2>1, FS_Subset, FS_CardinalityType
<1>3. Cardinality(B) <= 1
  <2>1. CASE B = {}
    BY <2>1, FS_EmptySet
  <2>2. CASE B # {}
    <3>1. PICK i : i \in B
      BY <2>2
    <3>2. B = {i}
      BY <3>1 DEF ShareInv
    <3> QED  BY <3>2, FS_Singleton
  <2> QED  BY <2>1, <2>2
<1>4. /\ DonatedTicks = U \cup B /\ U \cap B = {}
      /\ Window = DonatedTicks \cup K /\ DonatedTicks \cap K = {}
  BY DEF ShareInv, Fates, DonatedTicks
<1>5. V \in SUBSET U /\ f \in Injection(V, K)
  <2>1. ASSUME NEW i \in V PROVE i + 1 \in K
    <3>1. i + 1 \in Window \ {0} /\ recent[(i + 1) - 1] = "unbooked"
      BY <1>0
    <3> QED  BY <3>1 DEF ShareInv
  <2>2. \A i, j \in V : i + 1 = j + 1 => i = j
    BY <1>0
  <2> QED  BY <2>1, <2>2 DEF Injection, IsInjective
<1> HIDE DEF U, B, K, f
<1>6. Cardinality(V) <= Cardinality(K)
  BY <1>2, <1>5, FS_Injection
<1>7. Cardinality(V) \in Nat /\ Cardinality(U) <= Cardinality(V) + 1
  <2>1. /\ IsFiniteSet(U \ {P - 1})
        /\ Cardinality(U \ {P - 1}) = IF P - 1 \in U THEN Cardinality(U) - 1 ELSE Cardinality(U)
    BY <1>2, FS_RemoveElement
  <2>2. Cardinality(U \ {P - 1}) \in Nat
    BY <2>1, FS_CardinalityType
  <2> QED  BY <1>2, <2>1, <2>2
<1> HIDE DEF V
<1>8. Cardinality(DonatedTicks) = Cardinality(U) + Cardinality(B)
  <2>1. Cardinality(U \cup B) = Cardinality(U) + Cardinality(B) - Cardinality(U \cap B)
    BY <1>2, FS_Union
  <2> QED  BY <1>2, <1>4, <2>1, FS_EmptySet
<1>9. P = Cardinality(DonatedTicks) + Cardinality(K)
  <2>1. Cardinality(DonatedTicks \cup K) =
          Cardinality(DonatedTicks) + Cardinality(K) - Cardinality(DonatedTicks \cap K)
    BY <1>2, FS_Union
  <2>2. Cardinality(DonatedTicks \cap K) = 0
    BY <1>4, FS_EmptySet
  <2>3. Cardinality(Window) = Cardinality(DonatedTicks \cup K)
    BY <1>4
  <2> QED  BY <1>1, <1>2, <2>1, <2>2, <2>3
<1>10. Cardinality(DonatedTicks) <= P \div 2 + 1
  <2>1. \A d, u, b, v, k, p \in Nat :
          d = u + b /\ b <= 1 /\ u <= v + 1 /\ v <= k /\ p = d + k => d <= p \div 2 + 1
    OBVIOUS
  <2>2. P \in Nat
    BY <1>0
  <2> QED  BY <1>2, <1>3, <1>6, <1>7, <1>8, <1>9, <2>1, <2>2
<1>11. (\A i \in Window : recent[i] # "unbooked") => Cardinality(DonatedTicks) <= 1
  <2>1. (\A i \in Window : recent[i] # "unbooked") => U = {}
    BY DEF U
  <2> QED  BY <1>2, <1>3, <1>8, <2>1, FS_EmptySet
<1> QED
  BY <1>2, <1>10, <1>11

(* So much of the CPU the realtime class may lose. *)
LEMMA ShareIsBounded ==
  ASSUME IInv, ShareInv PROVE RealtimeShare
<1>1. ASSUME Cardinality(RealtimeTasks) >= 2, NEW i \in Window, recent[i] = "unbooked"
      PROVE  FALSE
  <2>1. AtMostOneRealtime
    BY <1>1 DEF ShareInv
  <2>2. CASE RealtimeTasks = {}
    BY <1>1, <2>2, FS_EmptySet
  <2>3. CASE RealtimeTasks # {}
    <3>1. PICK t : t \in RealtimeTasks
      BY <2>3
    <3>2. RealtimeTasks = {t}
      BY <2>1, <3>1 DEF AtMostOneRealtime
    <3>3. Cardinality(RealtimeTasks) = 1
      BY <3>2, FS_Singleton
    <3> QED  BY <1>1, <3>3
  <2> QED  BY <2>2, <2>3
<1> QED
  BY <1>1, WindowCount DEF RealtimeShare, OneDonatedTick, P

(* Scheduler::should_preempt and pick_next: of PROMOTION_INTERVAL ticks in a
   row at most one is given below ready realtime tasks, as class.rs says,
   while there are two of them; with one, whose preemption pick_next books
   nowhere, no more than half of them and one.  For any number of tasks, any
   classes and changes of class, any quanta, and ticks from the first spawn. *)
THEOREM RealtimeKeepsItsShare == ShareSpec => []RealtimeShare
<1>1. ShareInit => IInv /\ ShareInv
  <2>1. ShareInit => IInv
    BY InitIInv DEF ShareInit
  <2>2. ShareInit => ShareInv
    <3>1. 0 \in Window
      BY IntervalType DEF Window, P
    <3> QED  BY <3>1 DEF ShareInit, ShareInv, AllKept, Fates
  <2> QED  BY <2>1, <2>2
<1>2. IInv /\ ShareInv /\ [ShareNext]_<<vars, recent>> => IInv' /\ ShareInv'
  <2>1. [ShareNext]_<<vars, recent>> => [Next]_vars
    BY DEF ShareNext, BetweenTicks, Next
  <2> QED  BY <2>1, NextIInv, ShareKeeps
<1>3. IInv /\ ShareInv => RealtimeShare
  BY ShareIsBounded
<1> QED
  BY <1>1, <1>2, <1>3, PTL DEF ShareSpec
=============================================================================
