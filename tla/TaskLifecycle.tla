--------------------------- MODULE TaskLifecycle ---------------------------
(***************************************************************************)
(* What the scheduler promises about tasks, with no queues, classes or     *)
(* clocks: a task is spawned once, is dispatched only when it is ready,    *)
(* gives the CPU back or ends, and never comes back from the dead.  At     *)
(* most one task runs.  The CPU returns to the boot context only when      *)
(* there is no ready task left.                                            *)
(*                                                                         *)
(* Sched.tla (kernel/src/sched/task.rs) is checked to implement it.        *)
(***************************************************************************)
CONSTANT Tasks

VARIABLE life       \* life[t]: where task t is in its life

Stage == {"unborn", "ready", "running", "dead"}

In(stage) == {t \in Tasks : life[t] = stage}

Init == life = [t \in Tasks |-> "unborn"]

(* A new task joins the ready ones. *)
Spawn(t) ==
  /\ life[t] = "unborn"
  /\ life' = [life EXCEPT ![t] = "ready"]

(* The boot context hands the CPU to a first task. *)
Start(t) ==
  /\ In("running") = {}
  /\ life[t] = "ready"
  /\ life' = [life EXCEPT ![t] = "running"]

(* The running task goes back to the ready ones and another one runs. *)
HandOver(t, u) ==
  /\ life[t] = "running"
  /\ life[u] = "ready"
  /\ life' = [life EXCEPT ![t] = "ready", ![u] = "running"]

(* The running task ends and another one runs. *)
RetireTo(t, u) ==
  /\ life[t] = "running"
  /\ life[u] = "ready"
  /\ life' = [life EXCEPT ![t] = "dead", ![u] = "running"]

(* The last task ends. *)
RetireLast(t) ==
  /\ life[t] = "running"
  /\ In("ready") = {}
  /\ life' = [life EXCEPT ![t] = "dead"]

Next ==
  \E t \in Tasks :
    \/ Spawn(t)
    \/ Start(t)
    \/ RetireLast(t)
    \/ \E u \in Tasks : HandOver(t, u) \/ RetireTo(t, u)

Spec == Init /\ [][Next]_life
=============================================================================
