---------------------------- MODULE MCSchedShare ----------------------------
(* Instances of SchedShare.tla for TLC. *)
EXTENDS MCSched, SchedShare
=============================================================================
