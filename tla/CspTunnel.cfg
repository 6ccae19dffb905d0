SPECIFICATION TunnelSpec
CONSTANTS
  a = a
  b = b
  Client = {a, b}
  Options <- MCOptions
  MaxChannels = 3
  MaxBytes = 3
INVARIANTS
  StatsExact
  TunnelIsSafe
PROPERTIES
  OldChannelReplaced
CHECK_DEADLOCK FALSE
