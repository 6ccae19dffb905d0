SPECIFICATION Spec
CONSTANTS
  CellSize = 3
  BodySize = 2
  L = 2
  Roles = {"CSP", "SSP"}
  PumpSizes = {0, 1, 3}
  PeerFlags <- MCPeerFlags
  StopWhilePending = FALSE
  MaxSpdy = 3
  MaxCells = 3
  SocketCells = 1
CHECK_DEADLOCK FALSE
INVARIANTS
  OutbufAccounting
  DummyIsWhole
  WriteMonitoring
  NothingStranded
PROPERTIES
  StreamOnlyGrows
  PacedWhileActive
  BacklogShrinks
