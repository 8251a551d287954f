SPECIFICATION Spec
CONSTANTS
  s1 = s1
  s2 = s2
  c1 = c1
  c2 = c2
  Servers <- MCServers
  Conns <- MCConns
  FdLimit = 2
  BufferSize = 1
  AddMayFail = TRUE
  AcceptMayFail = TRUE
  Failing <- MCServers
  NoConn = NoConn
SYMMETRY MCSymmetry
INVARIANTS TypeOK TouchesOwn HandlerStateIsCurrent ErrorsCounted
