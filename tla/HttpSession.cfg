SPECIFICATION Spec
CONSTANTS
  Req <- MCReq
  Size <- MCSize
  Site <- MCSite
  Conn = {c1, c2, c3}
  MaxConns = 2
  None = None
INVARIANTS
  SessionIsSafe
  WaitingMeansBusy
PROPERTIES
  RendererSees
  RequestsEnd
CHECK_DEADLOCK FALSE
