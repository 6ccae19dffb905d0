SPECIFICATION FairSpec
CONSTANTS
  CellSize = 2
  BodySize = 1
  L = 2
  Discipline <- AllRules
  MayExpire = {"SSP"}
  PumpSizes = {0, 1}
  WriteGrain = 2
  MaxSessions = 1
  MaxSpdy = 1
  MaxCells = 2
  SocketCells = 1
CHECK_DEADLOCK FALSE
PROPERTY StopIsAnswered
