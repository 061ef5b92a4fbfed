----------------------------- MODULE SchedShare -----------------------------
(***************************************************************************)
(* What the lower classes cost the realtime class, in ticks.  The comment  *)
(* on PROMOTION_INTERVAL_TICKS in kernel/src/sched/class.rs promises a     *)
(* share of the CPU; it is about windows of ticks, so the scheduler of     *)
(* Sched.tla gets a history variable with the fate of the latest ticks.    *)
(* The variable only watches: every behaviour of Sched has one here.       *)
(***************************************************************************)
EXTENDS Sched

VARIABLE recent    \* recent[i]: the fate of the tick i ticks before the last

(* A window is as long as the gap the scheduler keeps between rescues. *)
Window == 0 .. PROMOTION_INTERVAL - 1

(* "booked" and "unbooked": the tick handed the CPU below the realtime class
   while a realtime task was ready, and pick_next recorded a promotion for
   it or did not.  "kept": it did neither. *)
Fates == {"kept", "booked", "unbooked"}

(* The fate of the tick that this step is. *)
Fate ==
  IF current' # NoTask /\ class'[current'] # Realtime /\ queues'[Realtime] # <<>>
  THEN IF promoted'[current'] THEN "booked" ELSE "unbooked"
  ELSE "kept"

Pushed(fate) == [i \in Window |-> IF i = 0 THEN fate ELSE recent[i - 1]]

AllKept == [i \in Window |-> "kept"]

(* A window is a run of ticks with nothing between them, as under the hogs of
   kernel_main's latency test: what a task gives away by a yield, an exit or
   a change of class is not taken from the realtime class. *)
BetweenTicks == Next /\ ~Tick

ShareInit == Init /\ recent = AllKept

ShareNext ==
  \/ Tick /\ recent' = Pushed(Fate)
  \/ BetweenTicks /\ recent' = AllKept

ShareSpec == ShareInit /\ [][ShareNext]_<<vars, recent>>

-----------------------------------------------------------------------------
(* Properties *)

RealtimeTasks == {t \in Tasks : class[t] = Realtime /\ (t = current \/ t \in Queued)}

DonatedTicks == {i \in Window : recent[i] # "kept"}

(* class.rs, of PROMOTION_INTERVAL_TICKS: the cost to the realtime class is
   "at most one donated tick in every five". *)
OneDonatedTick == Cardinality(DonatedTicks) <= 1

(* How far that goes.  With two or more realtime tasks it holds.  With one it
   does not: should_preempt (task.rs:612) takes the CPU from it for any
   starved task, without asking whether a rescue is allowed, and pick_next,
   which does not see the preempted task in any queue, books no promotion.
   While anybody starves the lower classes get every other tick, and the
   booked rescue of the interval besides, but never more: of five ticks up to
   three, where the comment promises at most one. *)
RealtimeShare ==
  /\ Cardinality(RealtimeTasks) >= 2 => OneDonatedTick
  /\ Cardinality(DonatedTicks) <= PROMOTION_INTERVAL \div 2 + 1
=============================================================================
