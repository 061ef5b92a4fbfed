------------------------------- MODULE Sched -------------------------------
(***************************************************************************)
(* The scheduling policy of kernel/src/sched/task.rs: three class queues,  *)
(* quanta, preemption on the timer tick, and the rate-limited rescue of    *)
(* starved tasks.                                                          *)
(*                                                                         *)
(* The clock is relative.  The code stamps a task with ready_since when it *)
(* joins a queue and reads now - ready_since; the model keeps the          *)
(* difference, waited[t], and likewise sincePromotion for                  *)
(* now - last_promotion_tick.  Both are capped where no comparison in the  *)
(* code can tell larger values apart, so the state space is finite without *)
(* a bound on time.                                                        *)
(*                                                                         *)
(* Each action is one pass through a function that runs with interrupts    *)
(* off; Switch.tla models what happens around those passes.                *)
(***************************************************************************)
EXTENDS Integers, Sequences, FiniteSets

CONSTANTS
  N,                   \* number of tasks the boot context spawns, in order
  MayClass,            \* MayClass[t]: the classes task t may be spawned in
  Hogs,                \* tasks that never call yield_now or exit_task
  ReclassTo,           \* classes a task may pass to set_current_class
  BootMayTick,         \* can the timer fire before run_until_idle?
  Quantum,             \* Quantum[c]: SchedClass::quantum_ticks
  STARVATION_LIMIT,    \* class.rs STARVATION_LIMIT_TICKS
  PROMOTION_INTERVAL,  \* class.rs PROMOTION_INTERVAL_TICKS
  WAIT_CAP,            \* bound: waits are not told apart beyond this
  TICKS_CAP            \* bound: ticks_used is not told apart beyond this

Tasks == 1 .. N
NoTask == 0

(* SchedClass, by discriminant: a larger number is more urgent. *)
Class == 0 .. 2
Background == 0
Normal == 1
Realtime == 2

ASSUME SchedAssumption ==
  /\ N \in Nat \ {0}
  /\ MayClass \in [Tasks -> SUBSET Class]
  /\ \A t \in Tasks : MayClass[t] # {}
  /\ Hogs \subseteq Tasks
  /\ ReclassTo \subseteq Class
  /\ BootMayTick \in BOOLEAN
  /\ Quantum \in [Class -> Nat \ {0}]
  /\ STARVATION_LIMIT \in Nat \ {0}
  /\ PROMOTION_INTERVAL \in Nat \ {0}
  /\ WAIT_CAP \in Nat /\ WAIT_CAP > STARVATION_LIMIT
  /\ TICKS_CAP \in Nat /\ \A c \in Class : Quantum[c] <= TICKS_CAP

VARIABLES
  queues,          \* Scheduler::ready_queues, one sequence of tasks per class
  current,         \* Scheduler::current
  class,           \* Task::class
  waited,          \* now - Task::ready_since of a task that is waiting, else 0
  ticksUsed,       \* Task::ticks_used
  promoted,        \* Task::promoted
  sincePromotion,  \* now - Scheduler::last_promotion_tick
  boot,            \* where the boot context is in its program
  spawned          \* how many tasks it has put into a queue

vars == <<queues, current, class, waited, ticksUsed, promoted,
          sincePromotion, boot, spawned>>

-----------------------------------------------------------------------------
(* State helpers *)

AtMost(n, cap) == IF n < cap THEN n ELSE cap

Queued == {t \in Tasks : \E c \in Class : \E i \in 1 .. Len(queues[c]) : queues[c][i] = t}

ReadyClasses(q) == {c \in Class : q[c] # <<>>}

(* The boot context read the clock for this task and has not queued it. *)
Stamped(t) == boot = "stamped" /\ t = spawned + 1

Lowest(S) == CHOOSE c \in S : \A d \in S : c <= d
Highest(S) == CHOOSE c \in S : \A d \in S : d <= c

(* Classes whose front task has waited past the limit. *)
StarvingClasses(q, w) == {c \in ReadyClasses(q) : w[Head(q[c])] >= STARVATION_LIMIT}

-----------------------------------------------------------------------------
(* The policy *)

Outranked(q, c) == \E d \in ReadyClasses(q) : d > c

(* Scheduler::higher_class_waiting *)
HigherClassWaiting(c) == Outranked(queues, c)

(* Scheduler::any_starving.  Looks at the fronts only, and does not ask
   whether a rescue is allowed now. *)
AnyStarving(w) == StarvingClasses(queues, w) # {}

(* Faulty variants, used to show that the properties can fail: a pick_next
   that rescues on every tick, one that never rescues, and one that records
   the next allowed promotion instead of the last. *)
PickNextEveryTick(q, w, s) ==
  LET rescue == StarvingClasses(q, w)
      c == IF rescue # {} THEN Lowest(rescue) ELSE Highest(ReadyClasses(q))
      outranked == rescue # {} /\ Outranked(q, c)
  IN [task     |-> Head(q[c]),
      queues   |-> [q EXCEPT ![c] = Tail(@)],
      promoted |-> outranked,
      since    |-> IF outranked THEN 0 ELSE s]

PickNextNoRescue(q, w, s) ==
  LET c == Highest(ReadyClasses(q))
  IN [task |-> Head(q[c]), queues |-> [q EXCEPT ![c] = Tail(@)], promoted |-> FALSE, since |-> s]

PickNextBooksNext(q, w, s) ==
  LET rescue == IF s >= 0 THEN StarvingClasses(q, w) ELSE {}
      c == IF rescue # {} THEN Lowest(rescue) ELSE Highest(ReadyClasses(q))
      outranked == rescue # {} /\ Outranked(q, c)
  IN [task     |-> Head(q[c]),
      queues   |-> [q EXCEPT ![c] = Tail(@)],
      promoted |-> outranked,
      since    |-> IF outranked THEN -PROMOTION_INTERVAL ELSE s]

(* Scheduler::pick_next on queues q, waits w and time s since the last
   promotion; called only when some queue is not empty. *)
PickNext(q, w, s) ==
  LET rescue == IF s >= PROMOTION_INTERVAL THEN StarvingClasses(q, w) ELSE {}
      c == IF rescue # {} THEN Lowest(rescue) ELSE Highest(ReadyClasses(q))
      outranked == rescue # {} /\ Outranked(q, c)
  IN [task     |-> Head(q[c]),
      queues   |-> [q EXCEPT ![c] = Tail(@)],
      promoted |-> outranked,
      since    |-> IF outranked THEN 0 ELSE s]

(* Faulty variants: an urgent task waits for the quantum; the quantum is one
   tick too long. *)
ShouldPreemptAtQuantum(c, used, isPromoted, w) ==
  /\ used >= (IF isPromoted THEN 1 ELSE Quantum[c])
  /\ HigherClassWaiting(c) \/ queues[c] # <<>> \/ AnyStarving(w)

ShouldPreemptLate(c, used, isPromoted, w) ==
  \/ HigherClassWaiting(c)
  \/ /\ used > (IF isPromoted THEN 1 ELSE Quantum[c])
     /\ queues[c] # <<>> \/ AnyStarving(w)

(* Scheduler::should_preempt *)
ShouldPreempt(c, used, isPromoted, w) ==
  \/ HigherClassWaiting(c)
  \/ /\ used >= (IF isPromoted THEN 1 ELSE Quantum[c])
     /\ queues[c] # <<>> \/ AnyStarving(w)

(* Scheduler::record_dispatch and `current = Some(next)`.  The statistics it
   keeps are left out: no decision reads them. *)
Dispatch(pick, w) ==
  /\ current' = pick.task
  /\ waited' = [w EXCEPT ![pick.task] = 0]
  /\ ticksUsed' = [ticksUsed EXCEPT ![pick.task] = 0]
  /\ promoted' = [promoted EXCEPT ![pick.task] = pick.promoted]
  /\ sincePromotion' = pick.since

(* Faulty variant: the outgoing task goes to the front of its queue. *)
PlanSwitchToFront(w, s) ==
  LET pick == PickNext(queues, w, s)
  IN /\ queues' = [pick.queues EXCEPT ![class[current]] = <<current>> \o @]
     /\ current' = pick.task
     /\ waited' = [w EXCEPT ![pick.task] = 0, ![current] = 0]
     /\ ticksUsed' = [ticksUsed EXCEPT ![pick.task] = 0, ![current] = 0]
     /\ promoted' = [promoted EXCEPT ![pick.task] = pick.promoted, ![current] = FALSE]
     /\ sincePromotion' = pick.since

(* plan_switch with a running task, at waits w and promotion age s: the
   next task is picked, and the current one goes to the back of its queue
   with a fresh stamp (Scheduler::enqueue). *)
PlanSwitch(w, s) ==
  LET pick == PickNext(queues, w, s)
  IN /\ queues' = [pick.queues EXCEPT ![class[current]] = Append(@, current)]
     /\ current' = pick.task
     /\ waited' = [w EXCEPT ![pick.task] = 0, ![current] = 0]
     /\ ticksUsed' = [ticksUsed EXCEPT ![pick.task] = 0, ![current] = 0]
     /\ promoted' = [promoted EXCEPT ![pick.task] = pick.promoted, ![current] = FALSE]
     /\ sincePromotion' = pick.since

(* Faulty variant: the picked task is not put back. *)
PlanSwitchNoCurrentDrops(w, s) ==
  LET pick == PickNext(queues, w, s)
  IN /\ queues' = pick.queues
     /\ waited' = w
     /\ sincePromotion' = pick.since
     /\ UNCHANGED <<current, ticksUsed, promoted>>

(* plan_switch with nothing current: the picked task is pushed back to the
   front it came from, but pick_next may already have recorded a promotion. *)
PlanSwitchNoCurrent(w, s) ==
  LET pick == PickNext(queues, w, s)
  IN /\ queues' = [pick.queues EXCEPT ![class[pick.task]] = <<pick.task>> \o @]
     /\ waited' = w
     /\ sincePromotion' = pick.since
     /\ UNCHANGED <<current, ticksUsed, promoted>>

-----------------------------------------------------------------------------
Init ==
  /\ queues = [c \in Class |-> <<>>]
  /\ current = NoTask
  /\ class = [t \in Tasks |-> Normal]
  /\ waited = [t \in Tasks |-> 0]
  /\ ticksUsed = [t \in Tasks |-> 0]
  /\ promoted = [t \in Tasks |-> FALSE]
  /\ sincePromotion = 0
  /\ boot = "running"
  /\ spawned = 0

(* First half of spawn, spawn_in_class, spawn_with_context, spawn_process:
   build the Task and read the clock, with interrupts on. *)
SpawnStamp ==
  /\ boot = "running" /\ spawned < N
  /\ boot' = "stamped"
  /\ UNCHANGED <<queues, current, class, waited, ticksUsed, promoted,
                 sincePromotion, spawned>>

(* Second half: enqueue with interrupts off, under the stamp read before. *)
SpawnEnqueue ==
  /\ boot = "stamped"
  /\ \E c \in MayClass[spawned + 1] :
       /\ class' = [class EXCEPT ![spawned + 1] = c]
       /\ queues' = [queues EXCEPT ![c] = Append(@, spawned + 1)]
  /\ spawned' = spawned + 1
  /\ boot' = "running"
  /\ UNCHANGED <<current, waited, ticksUsed, promoted, sincePromotion>>

(* run_until_idle: the boot context dispatches a first task and parks. *)
RunUntilIdle ==
  /\ boot = "running" /\ spawned = N
  /\ LET pick == PickNext(queues, waited, sincePromotion)
     IN Dispatch(pick, waited) /\ queues' = pick.queues
  /\ boot' = "parked"
  /\ UNCHANGED <<class, spawned>>

(* The waits at the next tick. *)
Aged == [t \in Tasks |-> IF t \in Queued \/ Stamped(t)
                         THEN AtMost(waited[t] + 1, WAIT_CAP) ELSE waited[t]]

AgedPromotion == AtMost(sincePromotion + 1, PROMOTION_INTERVAL)

(* timer_interrupt_handler when no task is current.  Taken in Ring 0 it
   calls preempt, which finds nothing to preempt.  Taken in a Ring 3
   program that the boot context launched, it does not. *)
TickBoot ==
  /\ current = NoTask /\ (BootMayTick \/ boot = "returned")
  /\ \/ ReadyClasses(queues) # {} /\ PlanSwitchNoCurrent(Aged, AgedPromotion)
     \/ /\ waited' = Aged
        /\ sincePromotion' = AgedPromotion
        /\ UNCHANGED <<queues, current, ticksUsed, promoted>>
  /\ UNCHANGED <<class, boot, spawned>>

(* timer_interrupt_handler and preempt when the running task may go on. *)
TickKeep ==
  /\ current # NoTask
  /\ LET used == AtMost(ticksUsed[current] + 1, TICKS_CAP)
     IN /\ ~ShouldPreempt(class[current], used, promoted[current], Aged)
        /\ ticksUsed' = [ticksUsed EXCEPT ![current] = used]
  /\ waited' = Aged
  /\ sincePromotion' = AgedPromotion
  /\ UNCHANGED <<queues, current, class, promoted, boot, spawned>>

(* timer_interrupt_handler and preempt when it may not. *)
TickPreempt ==
  /\ current # NoTask
  /\ ShouldPreempt(class[current], ticksUsed[current] + 1, promoted[current], Aged)
  /\ PlanSwitch(Aged, AgedPromotion)
  /\ UNCHANGED <<class, boot, spawned>>

Tick == TickBoot \/ TickKeep \/ TickPreempt

(* yield_now of a kernel task or the yield syscall of a process.  With no
   other task ready it changes nothing. *)
Yield ==
  /\ current # NoTask /\ current \notin Hogs
  /\ ReadyClasses(queues) # {}
  /\ PlanSwitch(waited, sincePromotion)
  /\ UNCHANGED <<class, boot, spawned>>

(* yield_from_syscall made by a Ring 3 program of the boot context. *)
YieldFromBoot ==
  /\ current = NoTask /\ boot = "running"
  /\ ReadyClasses(queues) # {}
  /\ PlanSwitchNoCurrent(waited, sincePromotion)
  /\ UNCHANGED <<class, boot, spawned>>

(* exit_task: the next task runs, or the boot context resumes. *)
ExitTask ==
  /\ current # NoTask /\ current \notin Hogs
  /\ IF ReadyClasses(queues) # {}
     THEN LET pick == PickNext(queues, waited, sincePromotion)
          IN Dispatch(pick, waited) /\ queues' = pick.queues /\ boot' = boot
     ELSE /\ current' = NoTask
          /\ boot' = "returned"
          /\ UNCHANGED <<queues, waited, ticksUsed, promoted, sincePromotion>>
  /\ UNCHANGED <<class, spawned>>

(* Faulty variant: the class of any task may be set. *)
SetAnyClass(c) ==
  /\ current # NoTask
  /\ \E t \in Tasks : class' = [class EXCEPT ![t] = c]
  /\ UNCHANGED <<queues, current, waited, ticksUsed, promoted, sincePromotion,
                 boot, spawned>>

(* set_current_class, which acts on the running task only. *)
SetCurrentClass(c) ==
  /\ current # NoTask
  /\ class' = [class EXCEPT ![current] = c]
  /\ UNCHANGED <<queues, current, waited, ticksUsed, promoted, sincePromotion,
                 boot, spawned>>

BootStep == SpawnStamp \/ SpawnEnqueue \/ RunUntilIdle

Next ==
  \/ BootStep
  \/ Tick
  \/ Yield
  \/ YieldFromBoot
  \/ ExitTask
  \/ \E c \in ReclassTo : SetCurrentClass(c)

Spec == Init /\ [][Next]_vars

(* The timer keeps firing, and the boot program is not abandoned. *)
FairSpec == Spec /\ WF_vars(Tick) /\ WF_vars(BootStep)

-----------------------------------------------------------------------------
(* Properties *)

(* Every variable has its type; the clocks stay within their caps. *)
TypeOK ==
  /\ queues \in [Class -> Seq(Tasks)]
  /\ current \in Tasks \cup {NoTask}
  /\ class \in [Tasks -> Class]
  /\ waited \in [Tasks -> 0 .. WAIT_CAP]
  /\ ticksUsed \in [Tasks -> 0 .. TICKS_CAP]
  /\ promoted \in [Tasks -> BOOLEAN]
  /\ sincePromotion \in 0 .. PROMOTION_INTERVAL
  /\ boot \in {"running", "stamped", "parked", "returned"}
  /\ spawned \in 0 .. N

(* A task sits in at most one queue, once, in the queue of its own class,
   and never while it runs: the Box<Task> moves between current and the
   queues and has one owner. *)
OneOwner ==
  \A c, d \in Class : \A i \in 1 .. Len(queues[c]), j \in 1 .. Len(queues[d]) :
    /\ class[queues[c][i]] = c
    /\ queues[c][i] # current
    /\ queues[c][i] = queues[d][j] => c = d /\ i = j

(* Every queue is in order of waiting time, so the front is the task that
   has waited longest: what lets pick_next and any_starving look at nothing
   but the fronts. *)
OldestFirst ==
  \A c \in Class : \A i, j \in 1 .. Len(queues[c]) :
    i < j => waited[queues[c][i]] >= waited[queues[c][j]]

(* A task runs past a more urgent ready one for less than a tick: "a more
   urgent class does not wait for a quantum to expire". *)
UrgentFirst ==
  current # NoTask /\ HigherClassWaiting(class[current]) => ticksUsed[current] = 0

(* A task that has used up its quantum runs on only while no peer and no
   starving task wants the CPU. *)
QuantumBindsUnderContention ==
  current # NoTask /\ ticksUsed[current] >= Quantum[class[current]] =>
    queues[class[current]] = <<>> /\ ~AnyStarving(waited)

(* The scheduler implements the task life cycle: no task is lost, run twice
   or revived, and the CPU goes back to boot only when nothing is ready. *)
Life(t) ==
  IF t > spawned THEN "unborn"
  ELSE IF t = current THEN "running"
  ELSE IF t \in Queued THEN "ready"
  ELSE "dead"

Lifecycle == INSTANCE TaskLifecycle WITH life <- [t \in Tasks |-> Life(t)]

ImplementsLifecycle == Lifecycle!Spec

(* How far apart rescues can be.  The interval may run out just after a pick,
   and the next pick waits for the quantum of the task that was picked; a
   background task keeps the CPU from its equals for its own quantum. *)
RescueGap ==
  Highest({PROMOTION_INTERVAL - 1 + Quantum[c] : c \in Class \ {Background}}
          \cup {Quantum[Background]})

(* How long any task waits once the scheduler owns the CPU, when rescues can
   keep up with the tasks that may need them: the limit, and then one gap
   for each task that may be rescued before it. *)
RescueBound == STARVATION_LIMIT + RescueGap * (N - 1)

EveryWaitBounded ==
  RescueGap * (N - 1) < STARVATION_LIMIT => \A t \in Queued : waited[t] <= RescueBound

(* Every ready task is dispatched eventually, whatever the others do. *)
ReadyTasksRun == \A t \in Tasks : (t \in Queued) ~> (current = t)
=============================================================================
