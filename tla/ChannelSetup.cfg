SPECIFICATION Spec
CONSTANTS
  Routes = {"direct", "socks"}
  Versions = {9, 10}
  ShortReads = FALSE
  MaxData = 3
INVARIANTS
  SetupIsSafe
PROPERTIES
  SetupEnds
  AnswersArrive
CHECK_DEADLOCK FALSE
