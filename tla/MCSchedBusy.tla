---------------------------- MODULE MCSchedBusy ----------------------------
(***************************************************************************)
(* The scheduler with the constants of kernel/src/sched/class.rs under a   *)
(* load that never yields: RealtimeHogs realtime tasks, one normal task    *)
(* and the rest in the background, like task_latency_probe and             *)
(* task_background_hog in kernel/src/main.rs.  All of it is timer driven.  *)
(***************************************************************************)
EXTENDS Sched, TLC

CONSTANT RealtimeHogs

BusyClasses ==
  [t \in Tasks |-> IF t <= RealtimeHogs THEN {Realtime}
                   ELSE IF t = RealtimeHogs + 1 THEN {Normal}
                   ELSE {Background}]
AllTasks == Tasks
KernelQuantum == (Background :> 6) @@ (Normal :> 3) @@ (Realtime :> 1)

BusySpec == Init /\ [][Tick \/ BootStep]_vars /\ WF_vars(Tick \/ BootStep)

(* class.rs, of PROMOTION_INTERVAL_TICKS: "A starved task still runs; it may
   simply have to wait a few more ticks for its turn". *)
StarvedTasksStillRun == ReadyTasksRun
=============================================================================
