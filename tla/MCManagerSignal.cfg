SPECIFICATION FairSpec
CONSTANTS
  MaxWorkers = 2
  PollTimeout = FALSE
  WaitMayFail = FALSE
  MaxWaits = 1
  MaxCloses = 1
  Main = Main
  c1 = c1
  c2 = c2
  Closers <- MCOther
  HostOf <- MCOtherOn
  MinLevels <- MCTrace
  Other = Other
  NoOne = NoOne
PROPERTIES StopAfterClose
CHECK_DEADLOCK FALSE
