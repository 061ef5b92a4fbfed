---------------------------- MODULE MCServices -----------------------------
(* An instance of Services.tla for TLC: a service, its client or successor,
   and a game without IPC rights; one file and one directory. *)
EXTENDS Services, TLC

CONSTANTS aFile, aDirectory

Realms == <<HOME, HOME, GAMING>>
Archive == {aFile, aDirectory}
Mixes == {[handles |-> 1, sent |-> 3, open |-> 0, longest |-> 1],
          [handles |-> 1, sent |-> 2, open |-> 0, longest |-> 3],
          [handles |-> 3, sent |-> 1, open |-> 0, longest |-> 0],
          [handles |-> 1, sent |-> 1, open |-> 1, longest |-> 1],
          [handles |-> 0, sent |-> 0, open |-> 3, longest |-> 2]}
Namesakes == Permutations(Names)
Sizes == (aFile :> 2) @@ (aDirectory :> 0)
=============================================================================
