SPECIFICATION FdFairSpec
CONSTANTS
  BufSize = 2
  PipeSize = 2
  MaxBytes = 5
  MaxRequest = 3
  Retries = 1
  MaxConns = 2
  FdSize = 2
  Putback = 2
INVARIANTS TypeOK EofIsTheEnd FdTypeOK UngetIsWhatWasGot RoomForOne
PROPERTIES ImplementsStream ShortReadExplained CallsEnd
