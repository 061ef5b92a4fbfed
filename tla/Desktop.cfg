CONSTANTS
  QUEUE_CAPACITY = 2
  MouseBytes <- Bytes
  PollSizes = {1, 2}
  Procs = {app, tool, game}
  app = app
  tool = tool
  game = game
  Exclusive = {game}
  Screens <- SmallAndLarge
  Requests <- SomeSizes
  Budgets <- Mixes
SPECIFICATION Spec
CHECK_DEADLOCK FALSE
INVARIANTS
  TilesApart
  BuffersFit
  BarNamesTop
  SurfacesAgree
  EventsInOrder
  EdgesComplete
