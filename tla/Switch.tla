------------------------------- MODULE Switch -------------------------------
(***************************************************************************)
(* Context switching on one core: kernel/src/sched/task.rs (plan_switch,   *)
(* perform_switch, context_switch, yield_inner, preempt, exit_task,        *)
(* run_until_idle), kernel/src/arch/x86_64/usermode.rs (run_program,       *)
(* end_program) and process_entry of kernel/src/process.rs.                *)
(*                                                                         *)
(* A context is a stack with a suspended or running computation on it:     *)
(* one per task, and the boot context.  The registers that a switch must   *)
(* get right are variables: which stack the CPU executes on, IF, CR3, TSS  *)
(* RSP0.  A step is a stretch of code that a timer interrupt cannot split: *)
(* one statement where IF is set, a whole masked section where it is not.  *)
(* Which ready task is picked is left open here; Sched.tla has the policy. *)
(***************************************************************************)
EXTENDS Integers, FiniteSets

CONSTANTS
  N,       \* number of tasks; all are spawned when the model starts
  Procs    \* the tasks made by spawn_process, with an address space

Tasks == 1 .. N
Boot == 0
None == -1
Contexts == Tasks \cup {Boot}
KernelRoot == 0

ASSUME SwitchAssumption == N \in Nat \ {0} /\ Procs \subseteq Tasks

VARIABLES
  current,    \* Scheduler::current
  ready,      \* the tasks in Scheduler::ready_queues
  zombie,     \* Scheduler::zombie
  saved,      \* Task::stack_pointer: the context it leads to
  bootSaved,  \* Scheduler::boot_stack_pointer, None for 0
  bootNext,   \* the local next_stack of run_until_idle
  slot,       \* Task::supervisor_rsp: the context to return to from Ring 3
  cpu,        \* the context whose stack the CPU executes on
  intr,       \* RFLAGS.IF
  cr3,        \* the task whose root is loaded, or KernelRoot
  rsp0,       \* TSS RSP0: a stack, and if it spares the frames in use there
  pc,         \* where each context is in its program
  how,        \* how each suspended context was suspended
  pending,    \* the Switch built by plan_switch and not yet performed
  freed,      \* tasks dropped: their kernel stack slot is released
  spaces      \* processes whose address space has not been dropped

vars == <<current, ready, zombie, saved, bootSaved, bootNext, slot, cpu, intr,
          cr3, rsp0, pc, how, pending, freed, spaces>>

Stack(ctx, spares) == [stack |-> ctx, spares |-> spares]

NoSwitch == [to |-> None, out |-> None, rsp0 |-> Stack(Boot, TRUE), cr3 |-> KernelRoot]

(* Faulty variant: always the top of the stack. *)
KernelRsp0Top(t) == Stack(t, FALSE)

(* Task::kernel_rsp0: below the frames of run_program while a Ring 3 program
   runs on this task, else the top of the stack. *)
KernelRsp0(t) == Stack(t, slot[t] # None)

(* Task::address_space_root, or the kernel's for a kernel task. *)
Root(t) == IF t \in Procs THEN t ELSE KernelRoot

(* Faulty variant: a new task starts with the flags of whoever switched. *)
RestoredIFNotFresh(ctx) == how[ctx] \in {"yield", "tick"}

(* The IF bit a context gets back when it is resumed.  A new task pops
   INITIAL_RFLAGS; a yielding one re-enables interrupts in yield_inner or
   leaves the syscall by iretq; a preempted one leaves the handler by
   iretq; the boot context resumes in run_until_idle with IF clear. *)
RestoredIF(ctx) == how[ctx] \in {"fresh", "yield", "tick"}

Init ==
  /\ current = None
  /\ ready = Tasks
  /\ zombie = None
  /\ saved = [t \in Tasks |-> t]
  /\ bootSaved = None
  /\ bootNext = None
  /\ slot = [t \in Tasks |-> None]
  /\ cpu = Boot
  /\ intr = TRUE
  /\ cr3 = KernelRoot
  /\ rsp0 = Stack(Boot, TRUE)
  /\ pc = [c \in Contexts |-> IF c = Boot THEN "calling" ELSE "start"]
  /\ how = [c \in Contexts |-> IF c = Boot THEN "none" ELSE "fresh"]
  /\ pending = NoSwitch
  /\ freed = {}
  /\ spaces = Procs

-----------------------------------------------------------------------------
(* Switching *)

Running(ctx, where) == pending = NoSwitch /\ cpu = ctx /\ pc[ctx] = where

Goto(ctx, where) == pc' = [pc EXCEPT ![ctx] = where]

(* plan_switch with n picked: the current task is queued, n becomes current,
   and the values the switch needs are read out of n's Task. *)
PlanSwitch(n) ==
  /\ n \in ready
  /\ ready' = (ready \ {n}) \cup {current}
  /\ current' = n
  /\ pending' = [to |-> saved[n], out |-> current, rsp0 |-> KernelRsp0(n), cr3 |-> Root(n)]

(* perform_switch and context_switch: RSP0, CR3, then the stack. *)
PerformSwitch ==
  /\ pending # NoSwitch
  /\ rsp0' = pending.rsp0
  /\ cr3' = pending.cr3
  /\ saved' = IF pending.out \in Tasks THEN [saved EXCEPT ![pending.out] = cpu] ELSE saved
  /\ cpu' = pending.to
  /\ intr' = RestoredIF(pending.to)
  /\ pending' = NoSwitch
  /\ UNCHANGED <<current, ready, zombie, bootSaved, bootNext, slot, pc, how, freed, spaces>>

(* The timer interrupt, when preempt decides to switch.  It is taken on the
   stack in use, or on RSP0 when it leaves Ring 3. *)
Tick ==
  /\ intr /\ current # None
  /\ \E n \in ready : PlanSwitch(n)
  /\ intr' = FALSE
  /\ how' = [how EXCEPT ![cpu] = "tick"]
  /\ UNCHANGED <<zombie, saved, bootSaved, bootNext, slot, cpu, cr3, rsp0, pc, freed, spaces>>

(* Faulty variant: the plan is made inside without_interrupts, which sets IF
   before the switch is performed. *)
YieldUnmasked(t) ==
  /\ Running(t, IF t \in Procs THEN "user" ELSE "run")
  /\ \E n \in ready : PlanSwitch(n)
  /\ how' = [how EXCEPT ![t] = "yield"]
  /\ UNCHANGED <<zombie, saved, bootSaved, bootNext, slot, cpu, intr, cr3, rsp0, pc, freed, spaces>>

(* yield_now of a kernel task, or the yield syscall of a process. *)
Yield(t) ==
  /\ Running(t, IF t \in Procs THEN "user" ELSE "run")
  /\ \E n \in ready : PlanSwitch(n)
  /\ intr' = FALSE
  /\ how' = [how EXCEPT ![t] = "yield"]
  /\ UNCHANGED <<zombie, saved, bootSaved, bootNext, slot, cpu, cr3, rsp0, pc, freed, spaces>>

-----------------------------------------------------------------------------
(* The boot context: run_until_idle *)

(* Pick a first task and make it current, inside without_interrupts, which
   sets IF again at its end. *)
RunPick ==
  /\ Running(Boot, "calling")
  /\ \E n \in ready :
       /\ ready' = ready \ {n}
       /\ current' = n
       /\ bootNext' = saved[n]
  /\ Goto(Boot, "window")
  /\ UNCHANGED <<zombie, saved, bootSaved, slot, cpu, intr, cr3, rsp0, how, pending, freed, spaces>>

(* interrupts::disable() *)
RunDisable ==
  /\ Running(Boot, "window")
  /\ intr' = FALSE
  /\ Goto(Boot, "switching")
  /\ UNCHANGED <<current, ready, zombie, saved, bootSaved, bootNext, slot, cpu, cr3, rsp0, how,
                 pending, freed, spaces>>

(* Faulty variant: the stack to switch to is read again, after the window. *)
RunSwitchRereads ==
  /\ Running(Boot, "switching")
  /\ rsp0' = KernelRsp0(current)
  /\ cr3' = Root(current)
  /\ bootSaved' = Boot
  /\ cpu' = saved[current]
  /\ intr' = RestoredIF(saved[current])
  /\ how' = [how EXCEPT ![Boot] = "boot"]
  /\ Goto(Boot, "parked")
  /\ UNCHANGED <<current, ready, zombie, saved, bootNext, slot, pending, freed, spaces>>

(* Build the Switch from the current task and perform it. *)
RunSwitch ==
  /\ Running(Boot, "switching")
  /\ rsp0' = KernelRsp0(current)
  /\ cr3' = Root(current)
  /\ bootSaved' = Boot
  /\ cpu' = bootNext
  /\ intr' = RestoredIF(bootNext)
  /\ how' = [how EXCEPT ![Boot] = "boot"]
  /\ Goto(Boot, "parked")
  /\ UNCHANGED <<current, ready, zombie, saved, bootNext, slot, pending, freed, spaces>>

(* Faulty variant: the last zombie is not reaped. *)
RunReturnNoReap ==
  /\ Running(Boot, "parked")
  /\ intr' = TRUE
  /\ Goto(Boot, "done")
  /\ UNCHANGED <<current, ready, zombie, saved, bootSaved, bootNext, slot, cpu, cr3, rsp0, how,
                 pending, freed, spaces>>

(* Resumed by the last exit_task: restore IF and reap_zombie. *)
RunReturn ==
  /\ Running(Boot, "parked")
  /\ intr' = TRUE
  /\ freed' = IF zombie = None THEN freed ELSE freed \cup {zombie}
  /\ zombie' = None
  /\ Goto(Boot, "done")
  /\ UNCHANGED <<current, ready, saved, bootSaved, bootNext, slot, cpu, cr3, rsp0, how, pending,
                 spaces>>

-----------------------------------------------------------------------------
(* A task's own program *)

(* The first instructions of a task: the entry point of a kernel task, or
   process_entry up to its call of run_program. *)
Enter(t) ==
  /\ Running(t, "start")
  /\ Goto(t, IF t \in Procs THEN "entering" ELSE "run")
  /\ UNCHANGED <<current, ready, zombie, saved, bootSaved, bootNext, slot, cpu, intr, cr3, rsp0,
                 how, pending, freed, spaces>>

(* enter_usermode_and_wait publishes its frame in the supervisor slot of the
   task that was current when run_program asked for it, ... *)
PublishFrame(t) ==
  /\ Running(t, "entering")
  /\ slot' = [slot EXCEPT ![t] = t]
  /\ Goto(t, "published")
  /\ UNCHANGED <<current, ready, zombie, saved, bootSaved, bootNext, cpu, intr, cr3, rsp0, how,
                 pending, freed, spaces>>

(* ... writes RSP0 ... *)
ArmRsp0(t) ==
  /\ Running(t, "published")
  /\ rsp0' = Stack(t, TRUE)
  /\ Goto(t, "armed")
  /\ UNCHANGED <<current, ready, zombie, saved, bootSaved, bootNext, slot, cpu, intr, cr3, how,
                 pending, freed, spaces>>

(* ... and leaves for Ring 3 with IF set. *)
EnterRing3(t) ==
  /\ Running(t, "armed")
  /\ intr' = TRUE
  /\ Goto(t, "user")
  /\ UNCHANGED <<current, ready, zombie, saved, bootSaved, bootNext, slot, cpu, cr3, rsp0, how,
                 pending, freed, spaces>>

(* The program exits or faults: end_program takes the resume point of the
   current task, run_program clears it there and restores IF. *)
EndProgram(t) ==
  /\ Running(t, "user")
  /\ LET resumed == slot[current]
     IN /\ resumed # None
        /\ cpu' = resumed
        /\ slot' = [slot EXCEPT ![resumed] = None]
        /\ Goto(resumed, "ended")
  /\ intr' = TRUE
  /\ UNCHANGED <<current, ready, zombie, saved, bootSaved, bootNext, cr3, rsp0, how, pending,
                 freed, spaces>>

(* process_entry: address_space::restore(kernel_root()) ... *)
LeaveSpace(t) ==
  /\ Running(t, "ended")
  /\ cr3' = KernelRoot
  /\ Goto(t, "left")
  /\ UNCHANGED <<current, ready, zombie, saved, bootSaved, bootNext, slot, cpu, intr, rsp0, how,
                 pending, freed, spaces>>

(* ... drop(context), which frees the page tables, root last ... *)
DropSpace(t) ==
  /\ Running(t, "left")
  /\ spaces' = spaces \ {t}
  /\ Goto(t, "run")
  /\ UNCHANGED <<current, ready, zombie, saved, bootSaved, bootNext, slot, cpu, intr, cr3, rsp0,
                 how, pending, freed>>

(* Faulty variant: a task drops itself instead of becoming the zombie. *)
ExitTaskDropsSelf(t) ==
  /\ Running(t, "run") /\ (t \in Procs => t \notin spaces)
  /\ current # None
  /\ intr' = FALSE
  /\ freed' = freed \cup {current}
  /\ Goto(t, "dead")
  /\ \/ \E n \in ready :
          /\ current' = n
          /\ ready' = ready \ {n}
          /\ pending' = [to |-> saved[n], out |-> None, rsp0 |-> KernelRsp0(n), cr3 |-> Root(n)]
     \/ /\ ready = {}
        /\ current' = None
        /\ pending' = [to |-> bootSaved, out |-> None, rsp0 |-> Stack(Boot, TRUE),
                       cr3 |-> KernelRoot]
        /\ UNCHANGED ready
  /\ UNCHANGED <<zombie, saved, bootSaved, bootNext, slot, cpu, cr3, rsp0, how, spaces>>

(* ... and exit_task, as for a kernel task: the current task becomes the
   zombie, the one before it is dropped, and the CPU goes to the next task
   or back to the boot context. *)
ExitTask(t) ==
  /\ Running(t, "run") /\ (t \in Procs => t \notin spaces)
  /\ current # None
  /\ intr' = FALSE
  /\ zombie' = current
  /\ freed' = IF zombie = None THEN freed ELSE freed \cup {zombie}
  /\ Goto(t, "dead")
  /\ \/ \E n \in ready :
          /\ current' = n
          /\ ready' = ready \ {n}
          /\ pending' = [to |-> saved[n], out |-> None, rsp0 |-> KernelRsp0(n), cr3 |-> Root(n)]
     \/ /\ ready = {}
        /\ current' = None
        /\ pending' = [to |-> bootSaved, out |-> None, rsp0 |-> Stack(Boot, TRUE),
                       cr3 |-> KernelRoot]
        /\ UNCHANGED ready
  /\ UNCHANGED <<saved, bootSaved, bootNext, slot, cpu, cr3, rsp0, how, spaces>>

(* The boot context goes on with its own program. *)
Finished == pc[Boot] = "done" /\ UNCHANGED vars

Next ==
  \/ PerformSwitch \/ Tick
  \/ RunPick \/ RunDisable \/ RunSwitch \/ RunReturn \/ Finished
  \/ \E t \in Tasks :
       \/ Yield(t) \/ Enter(t) \/ ExitTask(t)
  \/ \E t \in Procs :
       \/ PublishFrame(t) \/ ArmRsp0(t) \/ EnterRing3(t)
       \/ EndProgram(t) \/ LeaveSpace(t) \/ DropSpace(t)

Spec == Init /\ [][Next]_vars

-----------------------------------------------------------------------------
(* Properties *)

Dead == freed \cup ({zombie} \ {None})

(* Where the suspended contexts are kept: in the Task of every ready task
   (the outgoing task's is written by the switch itself), in next_stack and
   boot_stack_pointer of run_until_idle, and in a Switch being performed. *)
Kept ==
  {<<"task", t, saved[t]>> : t \in ready \ {pending.out}}
    \cup {<<"bootNext", Boot, c>> : c \in IF pc[Boot] \in {"window", "switching"} THEN {bootNext} ELSE {}}
    \cup {<<"bootSaved", Boot, c>> : c \in IF pc[Boot] = "parked" /\ cpu # Boot THEN {bootSaved} ELSE {}}
    \cup {<<"pending", Boot, c>> : c \in IF pending # NoSwitch /\ pending.to # bootSaved
                                         THEN {pending.to} ELSE {}}

(* Every suspended context is kept in exactly one place and the running one
   in none: no context is lost, and none can be resumed twice. *)
ContextsKeptOnce ==
  /\ \A k, l \in Kept : k[3] = l[3] => k = l
  /\ {k[3] : k \in Kept} = (Contexts \ (Dead \cup {cpu}))

(* The CPU, the suspended contexts and RSP0 never use a kernel stack that
   has been released: a dying task's stack outlives the switch off it. *)
NoReleasedStack ==
  /\ cpu \notin freed
  /\ rsp0.stack \notin freed
  /\ \A k \in Kept : k[3] \notin freed

(* In Ring 3 the current task is the one running; the next interrupt will
   land on its own kernel stack, below the frames of run_program; its own
   address space is loaded; and end_program will find its own frame. *)
Ring3Sound ==
  pending = NoSwitch /\ cpu \in Procs /\ pc[cpu] = "user" =>
    /\ current = cpu
    /\ rsp0 = Stack(cpu, TRUE)
    /\ cr3 = cpu
    /\ slot[cpu] = cpu

(* Interrupts are masked only inside a switch, never while a task or a
   program runs. *)
MaskedOnlyInSwitch ==
  ~intr => pending # NoSwitch \/ pc[Boot] = "switching" \/ (cpu = Boot /\ pc[Boot] = "parked")

(* With interrupts on, the task the scheduler calls current is the one whose
   stack the CPU is on, but for run_until_idle between its pick and its cli. *)
CurrentIsRunning ==
  intr /\ current # None => cpu = current \/ (cpu = Boot /\ pc[Boot] = "window")

(* run_until_idle returns with every task dropped and every address space
   torn down. *)
AllReclaimed == pc[Boot] = "done" => freed = Tasks /\ spaces = {} /\ current = None

(* address_space.rs, of restore: "`root` must be a PML4 frame that is still
   live". *)
LoadedRootIsLive == cr3 # KernelRoot => cr3 \in spaces
=============================================================================
