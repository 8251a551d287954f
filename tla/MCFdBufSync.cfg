SPECIFICATION FdFairSpec
CONSTANTS
  BufSize = 2
  PipeSize = 2
  MaxBytes = 2
  MaxRequest = 1
  Retries = 0
  MaxConns = 2
  FdSize = 3
  Putback = 2
PROPERTIES SuccessIsProgress
