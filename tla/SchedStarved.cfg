\* Two realtime hogs, one normal task, eleven background hogs.
CONSTANTS
  N = 14
  RealtimeHogs = 2
  MayClass <- BusyClasses
  Hogs <- AllTasks
  ReclassTo = {}
  BootMayTick = FALSE
  Quantum <- KernelQuantum
  STARVATION_LIMIT = 50
  PROMOTION_INTERVAL = 5
  WAIT_CAP = 60
  TICKS_CAP = 6
SPECIFICATION BusySpec
PROPERTY StarvedTasksStillRun
