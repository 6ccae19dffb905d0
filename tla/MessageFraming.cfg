SPECIFICATION FramingSpec
CONSTANTS
  HeaderSize = 2
  Lengths <- BodyLengths
  MaxMessages = 3
  ReadSizes <- Reads
INVARIANTS
  NoStall
PROPERTIES
  ImplementsFifo
CHECK_DEADLOCK FALSE
