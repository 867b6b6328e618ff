SPECIFICATION FairSpec
CONSTANTS
  NetIo = NetIo
  NetLogic = NetLogic
  NoOne = NoOne
  Clients = {c1, c2}
  GAME_LOGIC_SERVICE_NUM = 3
  Backlog = 2
  MaxSocket = 5
  MayFail = TRUE
INVARIANTS
  PoolReady
  Wired
PROPERTIES
  AllRunning
  ClientAnswered
CHECK_DEADLOCK FALSE
