SPECIFICATION Spec
CONSTANTS
  Confs <- MCConfs
  MaxLoads = 2
  MaxReqs = 2
  MaxOpen = 2
INVARIANTS
  DriverIsSafe
PROPERTIES
  LoadsGoOn
CHECK_DEADLOCK FALSE
