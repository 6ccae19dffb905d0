SPECIFICATION ExchangeSpec
CONSTANTS
  N = 4
  ReqBody <- MCReqBody
  RspBody <- MCRspBody
INVARIANTS
  ExchangeIsSafe
PROPERTIES
  AllAnswered
CHECK_DEADLOCK FALSE
