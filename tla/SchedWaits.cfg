\* Two tasks at or above two others; rescues can keep up with all four.
CONSTANTS
  N = 4
  MayClass <- TwoUrgent
  Hogs = {}
  ReclassTo = {}
  BootMayTick = FALSE
  Quantum <- ScaledQuantum
  STARVATION_LIMIT = 16
  PROMOTION_INTERVAL = 4
  WAIT_CAP = 32
  TICKS_CAP = 3
SPECIFICATION ShareSpec
INVARIANTS
  RealtimeShare
  UrgentFirst
  QuantumBindsUnderContention
  EveryWaitBounded
