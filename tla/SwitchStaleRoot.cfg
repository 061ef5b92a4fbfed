CONSTANTS
  N = 2
  Procs <- TwoProcs
SPECIFICATION Spec
INVARIANT LoadedRootIsLive
