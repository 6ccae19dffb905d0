SPECIFICATION Spec
CONSTANTS
  MaxCalls = 3
  Timed <- TimedIds
INVARIANTS
  CallsAreSafe
PROPERTIES
  ImplementsCallTable
CHECK_DEADLOCK FALSE
