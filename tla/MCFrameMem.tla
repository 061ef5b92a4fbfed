---------------------------- MODULE MCFrameMem ----------------------------
(* Instances of FrameMem.tla for TLC. *)
EXTENDS FrameMem, TLC

(* The image and the stack are far apart and share no table. *)
Paths == [p \in {"image", "stack"} |-> IF p = "stack" THEN <<"p1s">> ELSE <<"p1i">>]

Stack == [pages |-> <<"stack">>, checked |-> FALSE]
Image(pages) == [pages |-> pages, checked |-> TRUE]

(* A good image, one whose segments share a page, one that covers the
   stack. *)
Good == <<Image(<<"image">>), Stack>>
Sharing == <<Image(<<"image">>), Image(<<"image">>), Stack>>
Covering == <<Image(<<"stack">>), Stack>>

AllImages == {Good, Sharing, Covering}

Loads == Permutations(Spaces)
=============================================================================
