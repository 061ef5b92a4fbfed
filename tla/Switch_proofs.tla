--------------------------- MODULE Switch_proofs ---------------------------
(***************************************************************************)
(* Proofs about Switch.tla, for any number of tasks and processes.         *)
(*                                                                         *)
(* The argument.  Between run_until_idle's pick and its switch, interrupts *)
(* are on and `current` is a task whose stack the CPU is not on yet.  A    *)
(* tick there saves the boot context under that task's name: from then on  *)
(* the task's Task leads to the boot context, and only next_stack leads to *)
(* its own.  Acting(t) is the context that runs in the name of task t, and *)
(* the invariant says that every saved stack pointer, the Switch being     *)
(* performed and the CPU itself agree with it.  The rest ties the life of  *)
(* a task (ready, current, zombie, freed) to the place its program is at.  *)
(***************************************************************************)
EXTENDS Switch, TLAPS

(* Where the program of a kernel task, and of a process, may be. *)
KernelPlaces == {"start", "run", "dead"}
ProcessPlaces == KernelPlaces \cup {"entering", "published", "armed", "user", "ended", "left"}

(* A Switch that plan_switch or exit_task has built. *)
Plan(p) ==
  /\ p.to \in Contexts /\ p.out \in Tasks \cup {None}
  /\ p.rsp0.stack \in Contexts /\ p.cr3 \in Contexts

Types ==
  /\ current \in Tasks \cup {None}
  /\ ready \subseteq Tasks
  /\ zombie \in Tasks \cup {None}
  /\ saved \in [Tasks -> Contexts]
  /\ bootSaved \in {None, Boot}
  /\ bootNext \in Tasks \cup {None}
  /\ slot \in [Tasks -> Tasks \cup {None}]
  /\ cpu \in Contexts
  /\ intr \in BOOLEAN
  /\ cr3 \in Contexts
  /\ rsp0.stack \in Contexts
  /\ pc \in [Contexts -> ProcessPlaces \cup {"calling", "window", "switching", "parked", "done"}]
  /\ how \in [Contexts -> {"none", "fresh", "yield", "tick", "boot"}]
  /\ pending # NoSwitch => Plan(pending)
  /\ freed \subseteq Tasks
  /\ spaces \subseteq Procs

(* run_until_idle has picked its first task and not switched to it yet. *)
Picked == pc[Boot] \in {"window", "switching"}
(* The context that runs, or will be resumed, in the name of task t. *)
Acting(t) == IF Picked /\ t = bootNext THEN Boot ELSE t

(* Every task is ready, current, the zombie or freed, and only one of these. *)
EachTaskOnce ==
  /\ \A t \in Tasks : t \in ready \/ t = current \/ t = zombie \/ t \in freed
  /\ ready \cap freed = {} /\ current \notin ready \cup freed /\ zombie \notin ready \cup freed
  /\ current # None => current # zombie

(* Where a program is decides whether its task is dead, whether its supervisor
   slot is set and whether its address space exists. *)
Programs ==
  \A t \in Tasks :
    /\ pc[t] \in IF t \in Procs THEN ProcessPlaces ELSE KernelPlaces
    /\ pc[t] = "dead" <=> t \in freed \/ t = zombie
    /\ slot[t] = IF pc[t] \in {"published", "armed", "user"} THEN t ELSE None
    /\ t \in spaces <=> t \in Procs /\ pc[t] \notin {"run", "dead"}
    /\ how[t] \in {"fresh", "yield", "tick"}

(* What run_until_idle's progress says about everything else. *)
BootPhases ==
  /\ pc[Boot] \in {"calling", "window", "switching", "parked", "done"}
  /\ pc[Boot] = "calling" => cpu = Boot /\ current = None /\ ready = Tasks /\ pending = NoSwitch
  /\ Picked => bootNext \in ready \cup {current}
  /\ Picked /\ cpu # Boot => how[Boot] = "tick"
  /\ pc[Boot] = "window" /\ pending # NoSwitch => how[Boot] = "tick"
  /\ pc[Boot] = "switching" => cpu = Boot /\ pending = NoSwitch /\ ~intr
  /\ pc[Boot] = "parked" => how[Boot] = "boot" 
  /\ bootSaved = IF pc[Boot] \in {"parked", "done"} THEN Boot ELSE None
  /\ current = None => /\ pc[Boot] \in {"calling", "parked", "done"}
                       /\ pc[Boot] # "calling" => ready = {}
  /\ pc[Boot] = "done" => cpu = Boot /\ current = None /\ zombie = None /\ pending = NoSwitch

(* Saved stack pointers, the Switch being performed and the CPU agree with
   the scheduler's idea of who runs. *)
Agreement ==
  /\ \A t \in ready \ {pending.out} : saved[t] = Acting(t)
  /\ pending = NoSwitch => cpu = IF current = None THEN Boot ELSE Acting(current)
  /\ pending # NoSwitch =>
       /\ pending.to = IF current = None THEN Boot ELSE Acting(current)
       /\ pending.cr3 = IF current = None THEN KernelRoot ELSE Root(current)
       /\ pending.rsp0 = IF current = None THEN Stack(Boot, TRUE) ELSE KernelRsp0(current)
       /\ ~intr
       /\ IF pending.out = None THEN zombie # None /\ cpu = zombie
          ELSE pending.out \in ready /\ cpu = Acting(pending.out)

(* RSP0 and CR3 are those of the task that runs, wherever it relies on them. *)
Registers ==
  /\ rsp0.stack \in {Boot} \cup (IF pending = NoSwitch THEN {current} ELSE {pending.out, zombie})
  /\ pending = NoSwitch /\ cpu \in Procs =>
       /\ pc[cpu] \in {"armed", "user"} => rsp0 = Stack(cpu, TRUE)
       /\ pc[cpu] \in {"start", "entering", "published", "armed", "user", "ended"} => cr3 = cpu
  /\ MaskedOnlyInSwitch

(* The inductive invariant. *)
IInv == Types /\ EachTaskOnce /\ Programs /\ BootPhases /\ Agreement /\ Registers

-----------------------------------------------------------------------------
(* Tasks, the boot context and "none" are told apart. *)
LEMMA Apart ==
  /\ Boot \notin Tasks /\ None \notin Tasks /\ None # Boot /\ None \notin Contexts
  /\ Boot \in Contexts /\ KernelRoot = Boot /\ Tasks \subseteq Contexts /\ Procs \subseteq Tasks
  /\ ~Plan(NoSwitch)
BY SwitchAssumption DEF Boot, None, Tasks, Contexts, KernelRoot, NoSwitch, Plan

(* The kernel starts in the invariant. *)
LEMMA InitIInv == Init => IInv
<1> SUFFICES ASSUME Init PROVE IInv
  OBVIOUS
<1> USE Apart
<1>1. Types
  BY DEF Init, Types, Stack, ProcessPlaces, KernelPlaces, Contexts
<1>2. EachTaskOnce
  BY DEF Init, EachTaskOnce
<1>3. Programs
  BY DEF Init, Programs, ProcessPlaces, KernelPlaces, Contexts
<1>4. BootPhases
  BY DEF Init, BootPhases, Picked, Contexts
<1>5. Agreement
  BY DEF Init, Agreement, Picked, Contexts, Acting
<1>6. Registers
  BY DEF Init, Registers, Picked, Contexts, Stack, MaskedOnlyInSwitch
<1> QED BY <1>1, <1>2, <1>3, <1>4, <1>5, <1>6 DEF IInv

-----------------------------------------------------------------------------
(* Planning a switch keeps the invariant, whether a tick or a yield asks for
   it; h is how the context on the CPU will have been suspended. *)
LEMMA PlanKeeps ==
  ASSUME IInv, pending = NoSwitch, current # None, NEW n \in ready, PlanSwitch(n),
         intr' = FALSE, NEW h \in {"tick", "yield"}, cpu = Boot => h = "tick",
         intr,
         how' = [how EXCEPT ![cpu] = h],
         UNCHANGED <<zombie, saved, bootSaved, bootNext, slot, cpu, cr3, rsp0, pc, freed, spaces>>
  PROVE  IInv'
<1> USE Apart DEF IInv
<1>0. n \in Tasks /\ current \in Tasks /\ n # current
  BY DEF Types, EachTaskOnce
<1>1. Plan(pending') /\ pending' # NoSwitch
  BY <1>0 DEF PlanSwitch, Types, Plan, Root, KernelRsp0, Stack
<1>2. Types'
  BY <1>0, <1>1 DEF PlanSwitch, Types, Plan
<1>3. EachTaskOnce'
  BY <1>0 DEF PlanSwitch, Types, EachTaskOnce
<1>4. Programs'
  BY <1>0 DEF Types, Programs, Contexts
<1>5. BootPhases'
  <2>1. cpu = Acting(current) /\ pc[Boot] # "calling" /\ pc[Boot] # "done" /\ pc[Boot] # "switching"
    BY <1>0 DEF BootPhases, Agreement
  <2>2. pc[Boot] = "window" => how'[Boot] = "tick"
    BY <1>0, <2>1 DEF BootPhases, Types, Picked, Acting
  <2>3. pc[Boot] # "window" => how'[Boot] = how[Boot]
    BY <1>0, <2>1 DEF BootPhases, Types, Picked, Acting
  <2> QED
    BY <1>0, <1>1, <2>1, <2>2, <2>3 DEF PlanSwitch, BootPhases, Picked
<1>6. Agreement'
  <2>1. \A t \in ready : saved[t] = Acting(t)
    BY <1>0 DEF Agreement, NoSwitch, Types
  <2>2. /\ cpu = Acting(current) /\ Acting(current)' = Acting(n)
        /\ \A t \in Tasks : Acting(t)' = Acting(t)
    BY <1>0 DEF Agreement, Acting, Picked, PlanSwitch
  <2> QED
    BY <1>0, <1>1, <2>1, <2>2 DEF PlanSwitch, Types, Agreement, KernelRsp0, Root, Stack
<1>7. Registers'
  BY <1>0, <1>1 DEF PlanSwitch, Types, Registers, MaskedOnlyInSwitch
<1> QED BY <1>2, <1>3, <1>4, <1>5, <1>6, <1>7

(* The timer interrupt, also in run_until_idle's window. *)
LEMMA TickKeeps == IInv /\ Tick => IInv'
<1> SUFFICES ASSUME IInv, Tick PROVE IInv'
  OBVIOUS
<1> USE Apart
<1>1. pending = NoSwitch /\ current # None /\ intr
  BY DEF IInv, Agreement, Tick
<1>2. PICK n \in ready : PlanSwitch(n)
  BY DEF Tick
<1> QED
  BY <1>1, <1>2, PlanKeeps DEF Tick

(* A task whose program takes a step is the current one, with interrupts on. *)
LEMMA RunningTask ==
  ASSUME IInv, NEW t \in Tasks, NEW where, Running(t, where)
  PROVE  /\ pending = NoSwitch /\ current = t /\ cpu = t /\ pc[t] = where
         /\ intr /\ pc[Boot] \in {"window", "parked"} /\ (Picked => t # bootNext)
         /\ t \notin ready /\ t \notin freed /\ t # zombie
<1> USE Apart DEF IInv
<1>1. pending = NoSwitch /\ cpu = t /\ pc[t] = where
  BY DEF Running
<1>2. current = t /\ (Picked => t # bootNext)
  BY <1>1 DEF Agreement, Acting, Types
<1>3. intr
  BY <1>1 DEF Registers, MaskedOnlyInSwitch, BootPhases
<1>4. pc[Boot] \in {"window", "parked"}
  BY <1>1, <1>2 DEF BootPhases
<1>5. t \notin ready /\ t \notin freed /\ t # zombie
  BY <1>2 DEF EachTaskOnce
<1> QED BY <1>1, <1>2, <1>3, <1>4, <1>5

(* yield_now and the yield syscall. *)
LEMMA YieldKeeps == ASSUME NEW t \in Tasks PROVE IInv /\ Yield(t) => IInv'
<1> SUFFICES ASSUME IInv, Yield(t) PROVE IInv'
  OBVIOUS
<1> USE Apart
<1>1. pending = NoSwitch /\ current = t /\ cpu = t /\ intr
  BY RunningTask DEF Yield
<1>2. PICK n \in ready : PlanSwitch(n)
  BY DEF Yield
<1>3. UNCHANGED <<zombie, saved, bootSaved, bootNext, slot, cpu, cr3, rsp0, pc, freed, spaces>>
      /\ intr' = FALSE /\ how' = [how EXCEPT ![cpu] = "yield"]
  BY <1>1 DEF Yield
<1>4. current # None /\ cpu # Boot
  BY <1>1
<1> QED
  BY <1>1, <1>2, <1>3, <1>4, PlanKeeps

(* perform_switch loads what the plan says and lands where Acting says. *)
LEMMA PerformSwitchKeeps == IInv /\ PerformSwitch => IInv'
<1> SUFFICES ASSUME IInv, PerformSwitch PROVE IInv'
  OBVIOUS
<1> USE Apart DEF IInv
<1>0. /\ Plan(pending) /\ pending # NoSwitch /\ pending' = NoSwitch /\ pending'.out = None
      /\ pc[Boot] # "switching" /\ pc[Boot] # "calling" /\ pc[Boot] # "done"
  BY DEF PerformSwitch, Types, NoSwitch, BootPhases
<1>1. Types'
  BY <1>0 DEF PerformSwitch, Types, RestoredIF, Plan
<1>2. EachTaskOnce'
  BY DEF PerformSwitch, EachTaskOnce
<1>3. Programs'
  BY DEF PerformSwitch, Programs
<1>4. BootPhases'
  BY <1>0 DEF PerformSwitch, BootPhases, Picked, Agreement
<1>5. Agreement'
  BY <1>0 DEF PerformSwitch, Agreement, Picked, Acting, Types, Plan
<1>6. Registers'
  <2>1. rsp0'.stack \in {Boot, current}
    BY <1>0 DEF PerformSwitch, Agreement, KernelRsp0, Stack
  <2>2. cpu' \in Procs => current = cpu'
    BY <1>0 DEF PerformSwitch, Agreement, Acting, Types
  <2>3. cpu' \in Procs /\ pc[cpu'] \in {"armed", "user"} => rsp0' = Stack(cpu', TRUE)
    BY <1>0, <2>2 DEF PerformSwitch, Agreement, Programs, KernelRsp0, Stack
  <2>4. cpu' \in Procs => cr3' = cpu'
    BY <1>0, <2>2 DEF PerformSwitch, Agreement, Root
  <2>5. MaskedOnlyInSwitch'
    <3>1. intr' = RestoredIF(pending.to)
      BY DEF PerformSwitch
    <3>2. CASE pending.to \in Tasks
      BY <3>1, <3>2 DEF Programs, RestoredIF, MaskedOnlyInSwitch
    <3>3. CASE pending.to = Boot
      BY <1>0, <3>1, <3>3 DEF PerformSwitch, BootPhases, RestoredIF, MaskedOnlyInSwitch
    <3> QED BY <1>0, <3>2, <3>3 DEF Plan, Contexts
  <2> QED BY <1>0, <2>1, <2>3, <2>4, <2>5 DEF PerformSwitch, Registers
<1> QED BY <1>1, <1>2, <1>3, <1>4, <1>5, <1>6

-----------------------------------------------------------------------------
(* run_until_idle picks its first task. *)
LEMMA RunPickKeeps == IInv /\ RunPick => IInv'
<1> SUFFICES ASSUME IInv, RunPick PROVE IInv'
  OBVIOUS
<1> USE Apart DEF IInv
<1>0. PICK n \in ready : ready' = ready \ {n} /\ current' = n /\ bootNext' = saved[n]
  BY DEF RunPick
<1>1. /\ cpu = Boot /\ pc[Boot] = "calling" /\ pending = NoSwitch /\ current = None
      /\ pc'[Boot] = "window" /\ n \in Tasks /\ pc' = [pc EXCEPT ![Boot] = "window"]
      /\ pending.out = None
      /\ UNCHANGED <<zombie, saved, bootSaved, slot, cpu, intr, cr3, rsp0, how, pending, freed, spaces>>
  BY <1>0 DEF RunPick, Running, Goto, BootPhases, Types, NoSwitch
<1>2. \A t \in Tasks : saved[t] = t /\ t \in ready /\ pc'[t] = pc[t]
  BY <1>1 DEF Agreement, BootPhases, Acting, Picked, Types
<1>3. intr
  BY <1>1 DEF Registers, MaskedOnlyInSwitch
<1>4. Types'
  BY <1>0, <1>1, <1>2 DEF Types
<1>5. EachTaskOnce'
  BY <1>0, <1>1 DEF EachTaskOnce
<1>6. Programs'
  BY <1>1, <1>2 DEF Programs
<1>7. BootPhases'
  BY <1>0, <1>1, <1>2, <1>3 DEF BootPhases, Picked
<1>8. Agreement'
  BY <1>0, <1>1, <1>2 DEF Agreement, Picked, Acting
<1>9. Registers'
  BY <1>0, <1>1, <1>3 DEF Registers, MaskedOnlyInSwitch, Types
<1> QED BY <1>4, <1>5, <1>6, <1>7, <1>8, <1>9

(* run_until_idle masks interrupts. *)
LEMMA RunDisableKeeps == IInv /\ RunDisable => IInv'
<1> SUFFICES ASSUME IInv, RunDisable PROVE IInv'
  OBVIOUS
<1> USE Apart DEF IInv
<1>1. /\ cpu = Boot /\ pc[Boot] = "window" /\ pending = NoSwitch
      /\ pc'[Boot] = "switching" /\ pc' = [pc EXCEPT ![Boot] = "switching"] /\ intr' = FALSE
      /\ UNCHANGED <<current, ready, zombie, saved, bootSaved, bootNext, slot, cpu, cr3, rsp0, how,
                     pending, freed, spaces>>
  BY DEF RunDisable, Running, Goto, Types
<1>2. \A t \in Tasks : pc'[t] = pc[t]
  BY <1>1 DEF Types
<1>4. Types'
  BY <1>1, <1>2 DEF Types
<1>5. EachTaskOnce'
  BY <1>1 DEF EachTaskOnce
<1>6. Programs'
  BY <1>1, <1>2 DEF Programs
<1>7. BootPhases'
  BY <1>1, <1>2 DEF BootPhases, Picked
<1>8. Agreement'
  BY <1>1, <1>2 DEF Agreement, Picked, Acting, KernelRsp0, Root
<1>9. Registers'
  BY <1>1 DEF Registers, MaskedOnlyInSwitch, Types
<1> QED BY <1>4, <1>5, <1>6, <1>7, <1>8, <1>9

(* run_until_idle switches: whoever else ran meanwhile, the task it picked is
   current again, so next_stack is still the stack to go to. *)
LEMMA RunSwitchKeeps == IInv /\ RunSwitch => IInv'
<1> SUFFICES ASSUME IInv, RunSwitch PROVE IInv'
  OBVIOUS
<1> USE Apart DEF IInv
<1>1. /\ cpu = Boot /\ pc[Boot] = "switching" /\ pending = NoSwitch /\ pending.out = None
      /\ pc'[Boot] = "parked" /\ pc' = [pc EXCEPT ![Boot] = "parked"]
      /\ how' = [how EXCEPT ![Boot] = "boot"] /\ how'[Boot] = "boot"
      /\ rsp0' = KernelRsp0(current) /\ cr3' = Root(current) /\ bootSaved' = Boot /\ cpu' = bootNext
      /\ intr' = RestoredIF(bootNext)
      /\ UNCHANGED <<current, ready, zombie, saved, bootNext, slot, pending, freed, spaces>>
  BY DEF RunSwitch, Running, Goto, Types, NoSwitch
<1>2. bootNext = current /\ current \in Tasks
  BY <1>1 DEF Agreement, BootPhases, Acting, Picked, Types
<1>3. \A t \in Tasks : pc'[t] = pc[t] /\ how'[t] = how[t]
  BY <1>1 DEF Types
<1>4. intr'
  BY <1>1, <1>2 DEF RestoredIF, Programs
<1>5. Types'
  BY <1>1, <1>2, <1>4 DEF Types, KernelRsp0, Stack, Root
<1>6. EachTaskOnce'
  BY <1>1 DEF EachTaskOnce
<1>7. Programs'
  BY <1>1, <1>3 DEF Programs
<1>8. BootPhases'
  BY <1>1, <1>2 DEF BootPhases, Picked
<1>9. Agreement'
  <2>1. \A t \in ready : saved[t] = t
    BY <1>1, <1>2 DEF Agreement, Acting, EachTaskOnce, Types
  <2> QED BY <1>1, <1>2, <2>1 DEF Agreement, Picked, Acting
<1>10. Registers'
  <2>1. rsp0' = Stack(current, slot[current] # None) /\ cr3' = Root(current) /\ cpu' = current
    BY <1>1, <1>2 DEF KernelRsp0
  <2>2. pc'[current] \in {"armed", "user"} => rsp0' = Stack(current, TRUE)
    BY <1>2, <1>3, <2>1 DEF Programs
  <2>3. current \in Procs => cr3' = current
    BY <2>1 DEF Root
  <2>4. rsp0'.stack = current'
    BY <1>1, <2>1 DEF Stack
  <2> QED BY <1>1, <1>4, <2>1, <2>2, <2>3, <2>4 DEF Registers, MaskedOnlyInSwitch
<1> QED BY <1>5, <1>6, <1>7, <1>8, <1>9, <1>10

(* run_until_idle returns. *)
LEMMA RunReturnKeeps == IInv /\ RunReturn => IInv'
<1> SUFFICES ASSUME IInv, RunReturn PROVE IInv'
  OBVIOUS
<1> USE Apart DEF IInv
<1>1. /\ cpu = Boot /\ pc[Boot] = "parked" /\ pending = NoSwitch
      /\ pc'[Boot] = "done" /\ pc' = [pc EXCEPT ![Boot] = "done"] /\ intr' = TRUE /\ zombie' = None
      /\ freed' = (IF zombie = None THEN freed ELSE freed \cup {zombie})
      /\ UNCHANGED <<current, ready, saved, bootSaved, bootNext, slot, cpu, cr3, rsp0, how, pending,
                     spaces>>
  BY DEF RunReturn, Running, Goto, Types
<1>2. current = None /\ ready = {}
  BY <1>1 DEF Agreement, BootPhases, Acting, Picked, Types
<1>3. \A t \in Tasks : pc'[t] = pc[t]
  BY <1>1 DEF Types
<1>4. Types'
  BY <1>1 DEF Types
<1>5. EachTaskOnce'
  BY <1>1, <1>2 DEF EachTaskOnce
<1>6. Programs'
  BY <1>1, <1>3 DEF Programs, Types
<1>7. BootPhases'
  BY <1>1, <1>2 DEF BootPhases, Picked
<1>8. Agreement'
  BY <1>1, <1>2 DEF Agreement
<1>9. Registers'
  BY <1>1, <1>2 DEF Registers, MaskedOnlyInSwitch, Types
<1> QED BY <1>4, <1>5, <1>6, <1>7, <1>8, <1>9

-----------------------------------------------------------------------------
(* A step of the running task's own program that keeps it on the CPU. *)
LEMMA OwnStepKeeps ==
  ASSUME IInv, NEW t \in Tasks, NEW from, NEW to, Running(t, from), Programs',
         pc' = [pc EXCEPT ![t] = to],
         to \in IF t \in Procs THEN ProcessPlaces ELSE KernelPlaces,
         slot' \in [Tasks -> Tasks \cup {None}], spaces' \subseteq Procs,
         intr' = TRUE, cr3' \in Contexts,
         rsp0' \in {rsp0, Stack(t, TRUE)},
         to \in {"armed", "user"} => rsp0' = Stack(t, TRUE),
         to \in {"start", "entering", "published", "armed", "user", "ended"} /\ t \in Procs => cr3' = t,
         UNCHANGED <<current, ready, zombie, saved, bootSaved, bootNext, cpu, how, pending, freed>>
  PROVE  IInv'
<1> USE Apart
<1>1. /\ pending = NoSwitch /\ current = t /\ cpu = t /\ pc[t] = from
      /\ intr /\ pc[Boot] \in {"window", "parked"} /\ (Picked => t # bootNext)
  BY RunningTask
<1> USE DEF IInv
<1>2. pc'[Boot] = pc[Boot] /\ pc'[t] = to
  BY DEF Types
<1>3. rsp0'.stack \in {Boot, t}
  BY <1>1 DEF Registers, Stack, Types
<1>4. Types'
  BY <1>1, <1>3 DEF Types, ProcessPlaces, KernelPlaces
<1>5. EachTaskOnce'
  BY DEF EachTaskOnce
<1>6. BootPhases'
  BY <1>1, <1>2 DEF BootPhases, Picked
<1>7. Agreement'
  BY <1>1, <1>2 DEF Agreement, Picked, Acting
<1>8. Registers'
  BY <1>1, <1>2, <1>3 DEF Registers, MaskedOnlyInSwitch
<1> QED BY <1>4, <1>5, <1>6, <1>7, <1>8

(* A task starts. *)
LEMMA EnterKeeps == ASSUME NEW t \in Tasks PROVE IInv /\ Enter(t) => IInv'
<1> SUFFICES ASSUME IInv, Enter(t) PROVE IInv'
  OBVIOUS
<1> USE Apart
<1> DEFINE to == IF t \in Procs THEN "entering" ELSE "run"
<1>1. /\ pending = NoSwitch /\ current = t /\ cpu = t /\ pc[t] = "start" /\ intr
      /\ t \notin freed /\ t # zombie /\ Running(t, "start")
      /\ pc' = [pc EXCEPT ![t] = to] /\ Types /\ Programs /\ Registers
      /\ UNCHANGED <<current, ready, zombie, saved, bootSaved, bootNext, slot, cpu, intr, cr3, rsp0,
                 how, pending, freed, spaces>>
  BY RunningTask DEF Enter, Goto, IInv
<1>2. Programs'
  BY <1>1 DEF Programs, Types, ProcessPlaces, KernelPlaces
<1>3. to \in IF t \in Procs THEN ProcessPlaces ELSE KernelPlaces
  BY DEF ProcessPlaces, KernelPlaces
<1>4. t \in Procs => cr3 = t
  BY <1>1 DEF Registers
<1>5. slot' \in [Tasks -> Tasks \cup {None}] /\ spaces' \subseteq Procs /\ cr3' \in Contexts /\ intr' = TRUE
  BY <1>1 DEF Types
<1> HIDE DEF to
<1> QED
  BY <1>1, <1>2, <1>3, <1>4, <1>5, OwnStepKeeps DEF to

(* The supervisor slot is published. *)
LEMMA PublishFrameKeeps == ASSUME NEW t \in Procs PROVE IInv /\ PublishFrame(t) => IInv'
<1> SUFFICES ASSUME IInv, PublishFrame(t) PROVE IInv'
  OBVIOUS
<1> USE Apart
<1>1. /\ pending = NoSwitch /\ current = t /\ cpu = t /\ pc[t] = "entering" /\ intr
      /\ t \notin freed /\ t # zombie /\ Running(t, "entering") /\ t \in Tasks
      /\ Types /\ Programs /\ Registers
  BY RunningTask DEF PublishFrame, IInv
<1>2. /\ pc' = [pc EXCEPT ![t] = "published"] /\ intr' = TRUE /\ slot' = [slot EXCEPT ![t] = t]
      /\ UNCHANGED <<cr3, rsp0, spaces>>
      /\ UNCHANGED <<current, ready, zombie, saved, bootSaved, bootNext, cpu, how, pending, freed>>
  BY <1>1 DEF PublishFrame, Goto, Types, Programs
<1>3. Programs'
  BY <1>1, <1>2 DEF Programs, Types, ProcessPlaces, KernelPlaces
<1>4. "published" \in ProcessPlaces
  BY DEF ProcessPlaces, KernelPlaces
<1>5. "published" # "left" /\ "published" # "run" => cr3' = t
  BY <1>1, <1>2 DEF Registers
<1>6. "published" \in {"armed", "user"} => rsp0' = Stack(t, TRUE)
  BY <1>1, <1>2 DEF Registers
<1>7. slot' \in [Tasks -> Tasks \cup {None}] /\ spaces' \subseteq Procs /\ cr3' \in Contexts
  BY <1>1, <1>2 DEF Types
<1> QED
  BY <1>1, <1>2, <1>3, <1>4, <1>5, <1>6, <1>7, OwnStepKeeps

(* RSP0 is written. *)
LEMMA ArmRsp0Keeps == ASSUME NEW t \in Procs PROVE IInv /\ ArmRsp0(t) => IInv'
<1> SUFFICES ASSUME IInv, ArmRsp0(t) PROVE IInv'
  OBVIOUS
<1> USE Apart
<1>1. /\ pending = NoSwitch /\ current = t /\ cpu = t /\ pc[t] = "published" /\ intr
      /\ t \notin freed /\ t # zombie /\ Running(t, "published") /\ t \in Tasks
      /\ Types /\ Programs /\ Registers
  BY RunningTask DEF ArmRsp0, IInv
<1>2. /\ pc' = [pc EXCEPT ![t] = "armed"] /\ intr' = TRUE /\ rsp0' = Stack(t, TRUE)
      /\ UNCHANGED <<cr3, slot, spaces>>
      /\ UNCHANGED <<current, ready, zombie, saved, bootSaved, bootNext, cpu, how, pending, freed>>
  BY <1>1 DEF ArmRsp0, Goto, Types, Programs
<1>3. Programs'
  BY <1>1, <1>2 DEF Programs, Types, ProcessPlaces, KernelPlaces
<1>4. "armed" \in ProcessPlaces
  BY DEF ProcessPlaces, KernelPlaces
<1>5. "armed" # "left" /\ "armed" # "run" => cr3' = t
  BY <1>1, <1>2 DEF Registers
<1>6. "armed" \in {"armed", "user"} => rsp0' = Stack(t, TRUE)
  BY <1>1, <1>2 DEF Registers
<1>7. slot' \in [Tasks -> Tasks \cup {None}] /\ spaces' \subseteq Procs /\ cr3' \in Contexts
  BY <1>1, <1>2 DEF Types
<1> QED
  BY <1>1, <1>2, <1>3, <1>4, <1>5, <1>6, <1>7, OwnStepKeeps

(* The program is entered. *)
LEMMA EnterRing3Keeps == ASSUME NEW t \in Procs PROVE IInv /\ EnterRing3(t) => IInv'
<1> SUFFICES ASSUME IInv, EnterRing3(t) PROVE IInv'
  OBVIOUS
<1> USE Apart
<1>1. /\ pending = NoSwitch /\ current = t /\ cpu = t /\ pc[t] = "armed" /\ intr
      /\ t \notin freed /\ t # zombie /\ Running(t, "armed") /\ t \in Tasks
      /\ Types /\ Programs /\ Registers
  BY RunningTask DEF EnterRing3, IInv
<1>2. /\ pc' = [pc EXCEPT ![t] = "user"] /\ intr' = TRUE
      /\ UNCHANGED <<cr3, rsp0, slot, spaces>>
      /\ UNCHANGED <<current, ready, zombie, saved, bootSaved, bootNext, cpu, how, pending, freed>>
  BY <1>1 DEF EnterRing3, Goto, Types, Programs
<1>3. Programs'
  BY <1>1, <1>2 DEF Programs, Types, ProcessPlaces, KernelPlaces
<1>4. "user" \in ProcessPlaces
  BY DEF ProcessPlaces, KernelPlaces
<1>5. "user" # "left" /\ "user" # "run" => cr3' = t
  BY <1>1, <1>2 DEF Registers
<1>6. "user" \in {"armed", "user"} => rsp0' = Stack(t, TRUE)
  BY <1>1, <1>2 DEF Registers
<1>7. slot' \in [Tasks -> Tasks \cup {None}] /\ spaces' \subseteq Procs /\ cr3' \in Contexts
  BY <1>1, <1>2 DEF Types
<1> QED
  BY <1>1, <1>2, <1>3, <1>4, <1>5, <1>6, <1>7, OwnStepKeeps

(* end_program comes back through the slot of the same task. *)
LEMMA EndProgramKeeps == ASSUME NEW t \in Procs PROVE IInv /\ EndProgram(t) => IInv'
<1> SUFFICES ASSUME IInv, EndProgram(t) PROVE IInv'
  OBVIOUS
<1> USE Apart
<1>1. /\ pending = NoSwitch /\ current = t /\ cpu = t /\ pc[t] = "user" /\ intr
      /\ t \notin freed /\ t # zombie /\ Running(t, "user") /\ t \in Tasks
      /\ Types /\ Programs /\ Registers
  BY RunningTask DEF EndProgram, IInv
<1>2. /\ pc' = [pc EXCEPT ![t] = "ended"] /\ intr' = TRUE /\ slot' = [slot EXCEPT ![t] = None]
      /\ UNCHANGED <<cr3, rsp0, spaces>>
      /\ UNCHANGED <<current, ready, zombie, saved, bootSaved, bootNext, cpu, how, pending, freed>>
  BY <1>1 DEF EndProgram, Goto, Types, Programs
<1>3. Programs'
  BY <1>1, <1>2 DEF Programs, Types, ProcessPlaces, KernelPlaces
<1>4. "ended" \in ProcessPlaces
  BY DEF ProcessPlaces, KernelPlaces
<1>5. "ended" # "left" /\ "ended" # "run" => cr3' = t
  BY <1>1, <1>2 DEF Registers
<1>6. "ended" \in {"armed", "user"} => rsp0' = Stack(t, TRUE)
  BY <1>1, <1>2 DEF Registers
<1>7. slot' \in [Tasks -> Tasks \cup {None}] /\ spaces' \subseteq Procs /\ cr3' \in Contexts
  BY <1>1, <1>2 DEF Types
<1> QED
  BY <1>1, <1>2, <1>3, <1>4, <1>5, <1>6, <1>7, OwnStepKeeps

(* process_entry loads the kernel root. *)
LEMMA LeaveSpaceKeeps == ASSUME NEW t \in Procs PROVE IInv /\ LeaveSpace(t) => IInv'
<1> SUFFICES ASSUME IInv, LeaveSpace(t) PROVE IInv'
  OBVIOUS
<1> USE Apart
<1>1. /\ pending = NoSwitch /\ current = t /\ cpu = t /\ pc[t] = "ended" /\ intr
      /\ t \notin freed /\ t # zombie /\ Running(t, "ended") /\ t \in Tasks
      /\ Types /\ Programs /\ Registers
  BY RunningTask DEF LeaveSpace, IInv
<1>2. /\ pc' = [pc EXCEPT ![t] = "left"] /\ intr' = TRUE /\ cr3' = KernelRoot
      /\ UNCHANGED <<rsp0, slot, spaces>>
      /\ UNCHANGED <<current, ready, zombie, saved, bootSaved, bootNext, cpu, how, pending, freed>>
  BY <1>1 DEF LeaveSpace, Goto, Types, Programs
<1>3. Programs'
  BY <1>1, <1>2 DEF Programs, Types, ProcessPlaces, KernelPlaces
<1>4. "left" \in ProcessPlaces
  BY DEF ProcessPlaces, KernelPlaces
<1>5. "left" # "left" /\ "left" # "run" => cr3' = t
  BY <1>1, <1>2 DEF Registers
<1>6. "left" \in {"armed", "user"} => rsp0' = Stack(t, TRUE)
  BY <1>1, <1>2 DEF Registers
<1>7. slot' \in [Tasks -> Tasks \cup {None}] /\ spaces' \subseteq Procs /\ cr3' \in Contexts
  BY <1>1, <1>2 DEF Types
<1> QED
  BY <1>1, <1>2, <1>3, <1>4, <1>5, <1>6, <1>7, OwnStepKeeps

(* process_entry drops the address space. *)
LEMMA DropSpaceKeeps == ASSUME NEW t \in Procs PROVE IInv /\ DropSpace(t) => IInv'
<1> SUFFICES ASSUME IInv, DropSpace(t) PROVE IInv'
  OBVIOUS
<1> USE Apart
<1>1. /\ pending = NoSwitch /\ current = t /\ cpu = t /\ pc[t] = "left" /\ intr
      /\ t \notin freed /\ t # zombie /\ Running(t, "left") /\ t \in Tasks
      /\ Types /\ Programs /\ Registers
  BY RunningTask DEF DropSpace, IInv
<1>2. /\ pc' = [pc EXCEPT ![t] = "run"] /\ intr' = TRUE /\ spaces' = spaces \ {t}
      /\ UNCHANGED <<cr3, rsp0, slot>>
      /\ UNCHANGED <<current, ready, zombie, saved, bootSaved, bootNext, cpu, how, pending, freed>>
  BY <1>1 DEF DropSpace, Goto, Types, Programs
<1>3. Programs'
  BY <1>1, <1>2 DEF Programs, Types, ProcessPlaces, KernelPlaces
<1>4. "run" \in ProcessPlaces
  BY DEF ProcessPlaces, KernelPlaces
<1>5. "run" # "left" /\ "run" # "run" => cr3' = t
  BY <1>1, <1>2 DEF Registers
<1>6. "run" \in {"armed", "user"} => rsp0' = Stack(t, TRUE)
  BY <1>1, <1>2 DEF Registers
<1>7. slot' \in [Tasks -> Tasks \cup {None}] /\ spaces' \subseteq Procs /\ cr3' \in Contexts
  BY <1>1, <1>2 DEF Types
<1> QED
  BY <1>1, <1>2, <1>3, <1>4, <1>5, <1>6, <1>7, OwnStepKeeps

(* exit_task: the current task becomes the zombie, the previous one is freed. *)
LEMMA ExitTaskKeeps == ASSUME NEW t \in Tasks PROVE IInv /\ ExitTask(t) => IInv'
<1> SUFFICES ASSUME IInv, ExitTask(t) PROVE IInv'
  OBVIOUS
<1> USE Apart
<1>0. /\ pending = NoSwitch /\ current = t /\ cpu = t /\ pc[t] = "run" /\ intr
      /\ pc[Boot] \in {"window", "parked"} /\ (Picked => t # bootNext)
      /\ t \notin ready /\ t \notin freed /\ t # zombie
  BY RunningTask DEF ExitTask
<1>1. /\ pending = NoSwitch /\ current = t /\ cpu = t /\ pc[t] = "run" /\ intr
      /\ pc[Boot] \in {"window", "parked"} /\ (Picked => t # bootNext)
      /\ t \notin ready /\ t \notin freed /\ t # zombie /\ pending.out = None
  BY <1>0 DEF NoSwitch
<1> USE DEF IInv
<1>2. /\ zombie' = t /\ intr' = FALSE /\ pc' = [pc EXCEPT ![t] = "dead"] /\ t \notin spaces
      /\ freed' = (IF zombie = None THEN freed ELSE freed \cup {zombie})
      /\ UNCHANGED <<saved, bootSaved, bootNext, slot, cpu, cr3, rsp0, how, spaces>>
  BY <1>1 DEF ExitTask, Goto, Types
<1>3. pc'[Boot] = pc[Boot] /\ pc'[t] = "dead" /\ \A u \in Tasks : u # t => pc'[u] = pc[u]
  BY <1>2 DEF Types
<1>4. Programs'
  BY <1>1, <1>2, <1>3 DEF Programs, Types, ProcessPlaces, KernelPlaces
<1>5. CASE \E n \in ready :
             /\ current' = n
             /\ ready' = ready \ {n}
             /\ pending' = [to |-> saved[n], out |-> None, rsp0 |-> KernelRsp0(n), cr3 |-> Root(n)]
  <2>0. PICK n \in ready :
             /\ current' = n
             /\ ready' = ready \ {n}
             /\ pending' = [to |-> saved[n], out |-> None, rsp0 |-> KernelRsp0(n), cr3 |-> Root(n)]
    BY <1>5
  <2>1. n \in Tasks /\ n # t /\ n # zombie /\ n \notin freed
    BY <1>1 DEF Types, EachTaskOnce
  <2>2. /\ Plan(pending') /\ pending' # NoSwitch /\ pending'.out = None /\ pending'.to = Acting(n)
        /\ pending'.cr3 = Root(n) /\ pending'.rsp0 = KernelRsp0(n)
    BY <1>1, <2>0, <2>1 DEF Types, Plan, Root, KernelRsp0, Stack, Agreement
  <2>3. Types'
    BY <1>2, <2>0, <2>1, <2>2 DEF Types, ProcessPlaces, KernelPlaces
  <2>4. EachTaskOnce'
    BY <1>1, <1>2, <2>0, <2>1 DEF EachTaskOnce, Types
  <2>5. BootPhases'
    BY <1>1, <1>2, <1>3, <2>0, <2>1, <2>2 DEF BootPhases, Picked
  <2>6. Agreement'
    BY <1>1, <1>2, <1>3, <2>0, <2>1, <2>2 DEF Agreement, Picked, Acting, KernelRsp0, Stack, Root, Types
  <2>7. Registers'
    BY <1>1, <1>2, <1>3, <2>0, <2>2 DEF Registers, MaskedOnlyInSwitch
  <2> QED BY <1>4, <2>3, <2>4, <2>5, <2>6, <2>7
<1>6. CASE /\ ready = {}
           /\ current' = None
           /\ pending' = [to |-> bootSaved, out |-> None, rsp0 |-> Stack(Boot, TRUE),
                          cr3 |-> KernelRoot]
           /\ UNCHANGED ready
  <2>1. pc[Boot] = "parked" /\ bootSaved = Boot
    BY <1>1, <1>6 DEF BootPhases, Picked
  <2>2. /\ Plan(pending') /\ pending' # NoSwitch /\ pending'.out = None /\ pending'.to = Boot
        /\ pending'.cr3 = KernelRoot /\ pending'.rsp0 = Stack(Boot, TRUE)
    BY <1>6, <2>1 DEF Plan, Stack
  <2>3. Types'
    BY <1>2, <1>6, <2>2 DEF Types, ProcessPlaces, KernelPlaces
  <2>4. EachTaskOnce'
    BY <1>1, <1>2, <1>6 DEF EachTaskOnce, Types
  <2>5. BootPhases'
    BY <1>1, <1>2, <1>3, <1>6, <2>1, <2>2 DEF BootPhases, Picked
  <2>6. Agreement'
    BY <1>1, <1>2, <1>3, <1>6, <2>2 DEF Agreement, Stack
  <2>7. Registers'
    BY <1>1, <1>2, <1>3, <1>6, <2>2 DEF Registers, MaskedOnlyInSwitch
  <2> QED BY <1>4, <2>3, <2>4, <2>5, <2>6, <2>7
<1> QED
  BY <1>5, <1>6 DEF ExitTask

-----------------------------------------------------------------------------
(* Every step keeps the invariant. *)
LEMMA NextIInv == IInv /\ [Next]_vars => IInv'
<1> SUFFICES ASSUME IInv, [Next]_vars PROVE IInv'
  OBVIOUS
<1>1. CASE PerformSwitch \/ Tick
  BY <1>1, PerformSwitchKeeps, TickKeeps
<1>2. CASE RunPick \/ RunDisable \/ RunSwitch \/ RunReturn
  BY <1>2, RunPickKeeps, RunDisableKeeps, RunSwitchKeeps, RunReturnKeeps
<1>3. CASE \E t \in Tasks : Yield(t) \/ Enter(t) \/ ExitTask(t)
  BY <1>3, YieldKeeps, EnterKeeps, ExitTaskKeeps
<1>4. CASE \E t \in Procs : PublishFrame(t) \/ ArmRsp0(t) \/ EnterRing3(t)
                            \/ EndProgram(t) \/ LeaveSpace(t) \/ DropSpace(t)
  BY <1>4, PublishFrameKeeps, ArmRsp0Keeps, EnterRing3Keeps, EndProgramKeeps, LeaveSpaceKeeps,
     DropSpaceKeeps
<1>5. CASE UNCHANGED vars
  <2>1. Types' /\ EachTaskOnce' /\ Programs'
    BY <1>5 DEF vars, IInv, Types, EachTaskOnce, Programs
  <2>2. BootPhases'
    BY <1>5 DEF vars, IInv, BootPhases, Picked
  <2>3. Agreement'
    BY <1>5 DEF vars, IInv, Agreement, Acting, Picked, KernelRsp0
  <2>4. Registers'
    BY <1>5 DEF vars, IInv, Registers, MaskedOnlyInSwitch
  <2> QED BY <2>1, <2>2, <2>3, <2>4 DEF IInv
<1> QED
  BY <1>1, <1>2, <1>3, <1>4, <1>5 DEF Next, Finished

(* The inductive invariant holds in every reachable state, for any number of
   tasks and any subset of them that are processes. *)
THEOREM Invariance == Spec => []IInv
<1> QED BY InitIInv, NextIInv, PTL DEF Spec

(* run_until_idle returns only when every task and every address space has
   been reclaimed. *)
THEOREM Reclaimed == Spec => []AllReclaimed
<1>1. IInv => AllReclaimed
  <2> SUFFICES ASSUME IInv, pc[Boot] = "done" PROVE freed = Tasks /\ spaces = {} /\ current = None
    BY DEF AllReclaimed
  <2> USE Apart DEF IInv
  <2>1. current = None /\ zombie = None /\ ready = {}
    BY DEF BootPhases
  <2>2. freed = Tasks
    <3>1. freed \subseteq Tasks
      BY DEF Types
    <3>2. \A t \in Tasks : t # None
      OBVIOUS
    <3>3. \A t \in Tasks : t \in freed
      BY <2>1, <3>2 DEF EachTaskOnce
    <3> QED  BY <3>1, <3>3
  <2>3. spaces = {}
    BY <2>2 DEF Programs, Types
  <2> QED BY <2>1, <2>2, <2>3
<1> QED BY <1>1, Invariance, PTL

(* Interrupts are masked only inside a switch. *)
THEOREM Unmasked == Spec => []MaskedOnlyInSwitch
<1>1. IInv => MaskedOnlyInSwitch
  BY DEF IInv, Registers
<1> QED BY <1>1, Invariance, PTL

(* While interrupts are on the CPU is on the stack of the task the scheduler
   calls current, but for run_until_idle's window. *)
THEOREM CurrentRuns == Spec => []CurrentIsRunning
<1>1. IInv => CurrentIsRunning
  BY Apart DEF IInv, Agreement, CurrentIsRunning, Acting, Picked, BootPhases
<1> QED BY <1>1, Invariance, PTL

(* Ring 3 is only ever entered and re-entered with the running task's own RSP0,
   page tables and supervisor slot, whatever was preempted in between. *)
THEOREM Ring3 == Spec => []Ring3Sound
<1>1. IInv => Ring3Sound
  <2> SUFFICES ASSUME IInv, pending = NoSwitch, cpu \in Procs, pc[cpu] = "user"
               PROVE  current = cpu /\ rsp0 = Stack(cpu, TRUE) /\ cr3 = cpu /\ slot[cpu] = cpu
    BY DEF Ring3Sound
  <2>1. Running(cpu, "user") /\ cpu \in Tasks
    BY Apart DEF Running
  <2>2. current = cpu
    BY <2>1, RunningTask
  <2>3. rsp0 = Stack(cpu, TRUE) /\ cr3 = cpu
    BY DEF IInv, Registers
  <2>4. slot[cpu] = cpu
    BY <2>1 DEF IInv, Programs
  <2> QED BY <2>2, <2>3, <2>4
<1> QED BY <1>1, Invariance, PTL

-----------------------------------------------------------------------------
(* The four places a suspended context is kept, one by one. *)
LEMMA KeptIs ==
  ASSUME NEW k
  PROVE  k \in Kept <=>
           \/ \E t \in ready \ {pending.out} : k = <<"task", t, saved[t]>>
           \/ Picked /\ k = <<"bootNext", Boot, bootNext>>
           \/ pc[Boot] = "parked" /\ cpu # Boot /\ k = <<"bootSaved", Boot, bootSaved>>
           \/ pending # NoSwitch /\ pending.to # bootSaved /\ k = <<"pending", Boot, pending.to>>
BY DEF Kept, Picked

(* No stack in use, suspended or loaded in RSP0 has been released. *)
THEOREM Stacks == Spec => []NoReleasedStack
<1>1. IInv => NoReleasedStack
  <2> SUFFICES ASSUME IInv PROVE NoReleasedStack
    OBVIOUS
  <2> USE Apart DEF IInv
  <2>1. cpu \notin freed
    BY DEF Agreement, Acting, EachTaskOnce, Types
  <2>2. rsp0.stack \notin freed
    BY DEF Registers, EachTaskOnce, Types, Agreement
  <2>3. ASSUME NEW k \in Kept PROVE k[3] \notin freed
    <3>1. CASE \E t \in ready \ {pending.out} : k = <<"task", t, saved[t]>>
      BY <3>1 DEF Agreement, Acting, EachTaskOnce, Types
    <3>2. CASE Picked /\ k = <<"bootNext", Boot, bootNext>>
      BY <3>2 DEF BootPhases, EachTaskOnce, Types
    <3>3. CASE pc[Boot] = "parked" /\ cpu # Boot /\ k = <<"bootSaved", Boot, bootSaved>>
      BY <3>3 DEF BootPhases, Types
    <3>4. CASE pending # NoSwitch /\ pending.to # bootSaved /\ k = <<"pending", Boot, pending.to>>
      BY <3>4 DEF Agreement, Acting, EachTaskOnce, Types
    <3> QED BY <2>3, <3>1, <3>2, <3>3, <3>4, KeptIs
  <2> QED BY <2>1, <2>2, <2>3 DEF NoReleasedStack
<1> QED BY <1>1, Invariance, PTL

(* The contexts kept there, by the tasks in whose names they will run. *)
LEMMA KeptUnder ==
  ASSUME IInv, NEW k \in Kept
  PROVE  \/ \E t \in ready \ {pending.out} : k = <<"task", t, Acting(t)>>
         \/ Picked /\ k = <<"bootNext", Boot, bootNext>>
         \/ pc[Boot] = "parked" /\ cpu # Boot /\ k = <<"bootSaved", Boot, Boot>>
         \/ /\ current \in Tasks /\ pending # NoSwitch
            /\ k = <<"pending", Boot, Acting(current)>>
            /\ pc[Boot] = "parked" => Acting(current) # Boot
<1> USE Apart DEF IInv
<1>1. CASE \E t \in ready \ {pending.out} : k = <<"task", t, saved[t]>>
  BY <1>1 DEF Agreement
<1>2. CASE pc[Boot] = "parked" /\ cpu # Boot /\ k = <<"bootSaved", Boot, bootSaved>>
  BY <1>2 DEF BootPhases
<1>3. CASE pending # NoSwitch /\ pending.to # bootSaved /\ k = <<"pending", Boot, pending.to>>
  <2>1. current # None
    BY <1>3 DEF Agreement, BootPhases
  <2> QED BY <1>3, <2>1 DEF Agreement, BootPhases, Types
<1> QED BY <1>1, <1>2, <1>3, KeptIs

(* No two tasks share a context, and a picked task's own is nobody else's. *)
LEMMA ActingFacts ==
  ASSUME IInv
  PROVE  /\ \A t, u \in Tasks : Acting(t) = Acting(u) => t = u
         /\ Picked => /\ bootNext \in Tasks
                      /\ pc[Boot] # "parked"
                      /\ \A t \in Tasks : Acting(t) # bootNext
         /\ \A t \in Tasks : pc[Boot] = "parked" => Acting(t) # Boot
         /\ \A t \in Tasks : Acting(t) \in {t, Boot} /\ (Acting(t) = Boot => Picked)
<1> USE Apart DEF IInv
<1>1. Picked => bootNext \in Tasks /\ pc[Boot] # "parked"
  BY DEF BootPhases, Types, Picked
<1> QED BY <1>1 DEF Acting

(* Every suspended context is kept in exactly one place, the running one in
   none: none is lost, none can be resumed twice. *)
THEOREM KeptOnce == Spec => []ContextsKeptOnce
<1>1. ASSUME IInv, NEW k \in Kept, NEW l \in Kept, k[3] = l[3]
      PROVE  k = l
  <2> USE Apart
  <2>0. ready \subseteq Tasks /\ (current \in Tasks => current \notin ready)
    BY <1>1 DEF IInv, Types, EachTaskOnce
  <2>1. CASE \E t \in ready \ {pending.out} : k = <<"task", t, Acting(t)>>
    BY <1>1, <2>0, <2>1, KeptUnder, ActingFacts
  <2>2. CASE Picked /\ k = <<"bootNext", Boot, bootNext>>
    BY <1>1, <2>0, <2>2, KeptUnder, ActingFacts
  <2>3. CASE pc[Boot] = "parked" /\ cpu # Boot /\ k = <<"bootSaved", Boot, Boot>>
    BY <1>1, <2>0, <2>3, KeptUnder, ActingFacts
  <2>4. CASE /\ current \in Tasks /\ pending # NoSwitch
             /\ k = <<"pending", Boot, Acting(current)>>
             /\ pc[Boot] = "parked" => Acting(current) # Boot
    BY <1>1, <2>0, <2>4, KeptUnder, ActingFacts
  <2> QED BY <1>1, <2>1, <2>2, <2>3, <2>4, KeptUnder
<1>2. ASSUME IInv, NEW k \in Kept
      PROVE  k[3] \in Contexts \ (Dead \cup {cpu})
  <2> USE Apart
  <2>0. /\ ready \subseteq Tasks /\ freed \subseteq Tasks /\ zombie \in Tasks \cup {None}
        /\ \A t \in ready : t \notin Dead
        /\ current \in Tasks => current \notin Dead /\ current \notin ready
        /\ Picked => bootNext \in ready \cup {current} /\ bootNext \in Tasks
    BY <1>2, ActingFacts DEF IInv, Types, EachTaskOnce, Dead, BootPhases
  <2>01. \/ cpu = Boot /\ ~Picked
         \/ pending = NoSwitch /\ current \in Tasks /\ cpu = Acting(current)
         \/ pending # NoSwitch /\ pending.out \in ready /\ cpu = Acting(pending.out)
         \/ pending # NoSwitch /\ cpu \in Dead /\ cpu = zombie
    BY <1>2 DEF IInv, Agreement, Types, Dead, BootPhases, Picked
  <2>02. Boot \notin Dead
    BY <2>0 DEF Dead
  <2>1. CASE \E t \in ready \ {pending.out} : k = <<"task", t, Acting(t)>>
    BY <1>2, <2>0, <2>01, <2>02, <2>1, ActingFacts
  <2>2. CASE Picked /\ k = <<"bootNext", Boot, bootNext>>
    BY <1>2, <2>0, <2>01, <2>02, <2>2, ActingFacts
  <2>3. CASE pc[Boot] = "parked" /\ cpu # Boot /\ k = <<"bootSaved", Boot, Boot>>
    BY <1>2, <2>0, <2>01, <2>02, <2>3, ActingFacts
  <2>4. CASE /\ current \in Tasks /\ pending # NoSwitch
             /\ k = <<"pending", Boot, Acting(current)>>
             /\ pc[Boot] = "parked" => Acting(current) # Boot
    BY <1>2, <2>0, <2>01, <2>02, <2>4, ActingFacts
  <2> QED BY <1>2, <2>1, <2>2, <2>3, <2>4, KeptUnder
<1>3. ASSUME IInv, NEW c \in Contexts \ (Dead \cup {cpu})
      PROVE  \E k \in Kept : k[3] = c
  <2> USE Apart DEF IInv
  <2>0. pending = NoSwitch => pending.out = None
    BY DEF NoSwitch
  <2>1. CASE c = Boot
    <3>1. pc[Boot] = "parked" => <<"bootSaved", Boot, bootSaved>> \in Kept /\ bootSaved = Boot
      BY <1>3, <2>1, KeptIs DEF BootPhases
    <3>2. ASSUME Picked, bootNext \in ready
          PROVE  <<"task", bootNext, Boot>> \in Kept
      <4>0. Acting(bootNext) = Boot /\ bootNext # None
        BY <1>3, <3>2 DEF Acting, Types
      <4>1. bootNext # pending.out
        BY <1>3, <2>0, <2>1, <4>0 DEF Agreement
      <4>2. saved[bootNext] = Boot
        BY <1>3, <3>2, <4>0, <4>1 DEF Agreement
      <4> QED BY <3>2, <4>1, <4>2, KeptIs
    <3>3. ASSUME Picked, bootNext = current, current \in Tasks
          PROVE  <<"pending", Boot, Boot>> \in Kept
      <4>1. Acting(current) = Boot /\ current # None /\ bootSaved = None
        BY <1>3, <3>3 DEF Acting, BootPhases, Picked
      <4>2. pending # NoSwitch /\ pending.to = Boot
        BY <1>3, <2>1, <4>1 DEF Agreement
      <4> QED BY <4>1, <4>2, KeptIs
    <3>4. pc[Boot] = "parked" \/ (Picked /\ bootNext \in Tasks /\ bootNext \in ready \cup {current})
      BY <1>3, <2>1, ActingFacts DEF BootPhases, Picked
    <3> QED BY <2>1, <3>1, <3>2, <3>3, <3>4
  <2>2. CASE c # Boot
    <3>1. c \in Tasks /\ (c \in ready \/ c = current)
      BY <1>3, <2>2 DEF Contexts, Dead, EachTaskOnce
    <3>2. CASE Picked /\ c = bootNext
      <4>1. <<"bootNext", Boot, c>> \in Kept
        BY <3>2, KeptIs
      <4> QED BY <4>1
    <3>3. CASE ~(Picked /\ c = bootNext) /\ c \in ready
      <4>1. c # pending.out /\ Acting(c) = c
        BY <1>3, <2>0, <3>1, <3>3 DEF Agreement, Acting
      <4>2. saved[c] = c
        BY <1>3, <3>3, <4>1 DEF Agreement
      <4>3. <<"task", c, c>> \in Kept
        BY <3>3, <4>1, <4>2, KeptIs
      <4> QED BY <4>3
    <3>4. CASE ~(Picked /\ c = bootNext) /\ c = current
      <4>1. Acting(c) = c /\ bootSaved # c
        BY <1>3, <2>2, <3>1, <3>4 DEF Acting, BootPhases
      <4>2. pending # NoSwitch /\ pending.to = c
        BY <1>3, <3>1, <3>4, <4>1 DEF Agreement
      <4>3. <<"pending", Boot, c>> \in Kept
        BY <4>1, <4>2, KeptIs
      <4> QED BY <4>3
    <3> QED BY <3>1, <3>2, <3>3, <3>4
  <2> QED BY <2>1, <2>2
<1>4. IInv => ContextsKeptOnce
  BY <1>1, <1>2, <1>3 DEF ContextsKeptOnce
<1> QED BY <1>4, Invariance, PTL
=============================================================================
