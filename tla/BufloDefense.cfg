SPECIFICATION FairSpec
CONSTANTS
  CellSize = 2
  BodySize = 1
  L = 2
  Discipline <- AllRules
  MayExpire = {}
  PumpSizes = {0, 2}
  WriteGrain = 2
  MaxSessions = 2
  MaxSpdy = 2
  MaxCells = 3
  SocketCells = 1
CHECK_DEADLOCK FALSE
INVARIANTS
  ChecksHold
  DoneMeansBothDone
  ServerFollows
  ReapIsSafe
PROPERTIES
  ImplementsSession
  StopIsAnswered
