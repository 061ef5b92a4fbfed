\* Three tasks of any class that may change it, and ticks from the first spawn on.
CONSTANTS
  N = 3
  MayClass <- AnyClass
  Hogs = {}
  ReclassTo = {0, 2}
  BootMayTick = TRUE
  Quantum <- ScaledQuantum
  STARVATION_LIMIT = 4
  PROMOTION_INTERVAL = 2
  WAIT_CAP = 5
  TICKS_CAP = 3
SPECIFICATION FairSpec
INVARIANTS
  TypeOK
  OneOwner
  OldestFirst
PROPERTIES
  ImplementsLifecycle
  ReadyTasksRun
