SPECIFICATION FairSpec
CONSTANTS
  MaxWorkers = 2
  PollTimeout = TRUE
  WaitMayFail = TRUE
  MaxWaits = 2
  MaxCloses = 2
  Main = Main
  c1 = c1
  c2 = c2
  Closers <- MCHandlers
  HostOf <- MCHandlersOn
  MinLevels <- MCLevels
  Other = Other
  NoOne = NoOne
INVARIANTS TypeOK CountAtWait WaitedThenGone SignalsLiveThreads
PROPERTIES StopAfterClose ImplementsLoop
CHECK_DEADLOCK FALSE
