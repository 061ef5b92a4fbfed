CONSTANTS
  N = 3
  Procs <- TwoProcs
SPECIFICATION Spec
INVARIANTS
  ContextsKeptOnce
  NoReleasedStack
  Ring3Sound
  MaskedOnlyInSwitch
  CurrentIsRunning
  AllReclaimed
