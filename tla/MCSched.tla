------------------------------ MODULE MCSched ------------------------------
(* Instances of Sched.tla for TLC. *)
EXTENDS Sched, TLC

AnyClass == [t \in Tasks |-> Class]

(* Two tasks that are realtime or normal, the others below or beside them. *)
TwoUrgent == [t \in Tasks |-> IF t <= 2 THEN {Normal, Realtime} ELSE {Background, Normal}]

ScaledQuantum == (Background :> 3) @@ (Normal :> 2) @@ (Realtime :> 1)
=============================================================================
