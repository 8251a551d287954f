SPECIFICATION Spec
CONSTANTS
  Parts <- MCParts
  MaxParts = 3
  MaxMessages = 2
  PointerByte = 7
  FloatWidths = {8, 20}
  Line = 4
INVARIANTS TypeOK Room InStep NothingRejected RoundTrip PrintRoom PrintedWhole
CHECK_DEADLOCK FALSE
