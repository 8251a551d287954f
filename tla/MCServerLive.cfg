SPECIFICATION FairSpec
CONSTANTS
  s1 = s1
  s2 = s2
  c1 = c1
  c2 = c2
  Servers <- MCServers
  Conns <- MCConns
  FdLimit = 3
  BufferSize = 1
  AddMayFail = FALSE
  AcceptMayFail = FALSE
  Failing <- MCNone
  NoConn = NoConn
INVARIANTS NoLeak
PROPERTIES EveryoneAccepted DataHandled StopClosesAll ImplementsLoop
