SPECIFICATION FairSpec
CONSTANTS
  Load <- MCLoad
  Closers = {"client"}
  SendWindow = 1
  RecvWindow = 2
  MaxNet = 2
INVARIANTS AckIsKept EndIsClean
PROPERTIES ImplementsLine ClosingEnds
CHECK_DEADLOCK FALSE
