CONSTANTS
  Processes = 3
  RealmOf <- Realms
  Names = {net, web}
  net = net
  web = web
  aFile = aFile
  aDirectory = aDirectory
  Nodes <- Archive
  SizeOf <- Sizes
  QUEUE_DEPTH = 2
  MAX_MESSAGE = 2
  MAX_PORTS = 2
  Budgets <- Mixes
SPECIFICATION Spec
SYMMETRY Namesakes
CHECK_DEADLOCK FALSE
INVARIANTS
  TypeOK
  FilesAgree
  PortsAgree
  HandlesKeepMeaning
  AcceptedInOrder
  RightsBind
