SPECIFICATION UartSpec
CONSTANTS
  Bits = 2
  Depth = 4
  BaudDiv = 3
  Bytes <- MCBytes
INVARIANTS
  UartTypeOK
  PollInv
  NoOverflow
  DrainMeansSent
PROPERTIES
  ImplementsChannel
