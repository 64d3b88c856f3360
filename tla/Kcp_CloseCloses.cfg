SPECIFICATION FairSpec
CONSTANTS
  Load <- MCLoad
  Closers = {"client", "server"}
  SendWindow = 1
  RecvWindow = 2
  MaxNet = 1
PROPERTY CloseCloses
CHECK_DEADLOCK FALSE
