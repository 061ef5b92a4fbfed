----------------------------- MODULE MCDesktop -----------------------------
(* An instance of Desktop.tla for TLC: two applications with windows and a
   game that owns the whole content area; a screen of ordinary size and one
   so small that a few windows crowd it. *)
EXTENDS Desktop, TLC

CONSTANTS app, tool, game

Byte(sync, overflow, buttons, moved) ==
  [sync |-> sync, overflow |-> overflow, buttons |-> buttons, moved |-> moved]

(* Idle, left down, right down, an overflow with left down, and a movement
   that cannot be taken for a first byte. *)
Bytes == {Byte(TRUE, FALSE, {}, FALSE), Byte(TRUE, FALSE, {"left"}, TRUE),
          Byte(TRUE, FALSE, {"right"}, FALSE), Byte(TRUE, TRUE, {"left"}, FALSE),
          Byte(FALSE, FALSE, {}, TRUE)}

SmallAndLarge == {<<1280, 800>>, <<19, 37>>}

(* A window of the first size has as many pixels as half of the large screen. *)
SomeSizes == {<<1262, 384>>, <<14, 22>>}

Mixes == {[events |-> 4, surfaces |-> 0, procs |-> {app}],
          [events |-> 0, surfaces |-> 3, procs |-> {app, tool}],
          [events |-> 0, surfaces |-> 2, procs |-> {app, game}],
          [events |-> 1, surfaces |-> 1, procs |-> {app}]}
=============================================================================
