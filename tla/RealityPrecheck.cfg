SPECIFICATION Spec
CONSTANTS
  c1 = c1
  c2 = c2
  p1 = p1
  Clients = {c1, c2}
  IPs = {p1}
  IPOf <- MCIPOf
  Pieces <- MCPieces
  Inputs <- MCInputs
  MaxStates = 1
  MaxPerIP = 1
  QueueSize = 2
  MaxPendingPkts = 2
  MaxPendingBytes = 2
  Timeout = 1
  BatchSize = 2
  MaxArrivals = 3
  None = None
  MaxCryptoBytes = 5
  MaxCryptoRanges = 2
  HeaderLen = 2
  CryptoBytes = {0, 1, 4}
CHECK_DEADLOCK FALSE
INVARIANTS TypeOK PerIPCounts AdmittedProved HoldBounded StickyPath Reassembles
PROPERTY ImplementsGate
