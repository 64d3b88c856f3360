SPECIFICATION FairSpec
CONSTANTS
  c1 = c1
  c2 = c2
  p1 = p1
  p2 = p2
  Clients = {c1, c2}
  IPs = {p1, p2}
  IPOf <- MCTwoIPs
  Timeout = 1
  None = None
  Pieces <- MCPieces
  Inputs <- MCInputs
  MaxStates = 1
  MaxPerIP = 1
  QueueSize = 1
  MaxPendingPkts = 2
  MaxPendingBytes = 2
  BatchSize = 1
  MaxArrivals = 2
  NCand = 2
  Refusing = {1}
  Undialable = {}
  MaxEntries = 1
  Sockets = {s1, s2}
CHECK_DEADLOCK FALSE
INVARIANT NoSocketForJunk
PROPERTIES ReadLoopReturns ShutdownCompletes
