------------------------------ MODULE MCSwitch ------------------------------
(* Instances of Switch.tla for TLC.  The processes can be exchanged; the
   tasks cannot be made model values because they share a type with Boot. *)
EXTENDS Switch

TwoProcs == {1, 2}
=============================================================================
