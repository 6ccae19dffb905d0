SPECIFICATION RelaySpec
CONSTANTS
  Confs <- MCConfs
  MaxUnits = 2
CHECK_DEADLOCK FALSE
INVARIANTS
  RelayIsSafe
  Delivery
PROPERTIES
  EndsTogether
  DataArrives
