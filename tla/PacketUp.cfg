SPECIFICATION FairSpec
CONSTANTS
  d1 = d1
  d2 = d2
  up = up
  Dials <- MCDials
  Users <- MCUsers
  Main = d1
  Up = up
  Limit = 0
  MaxWrite = 2
  MaxUnits = 2
  MaxPost = 1
  Concurrency = 0
  Connections = 0
  Reuse = 2
  ReqTimes = 3
  MaxClients = 3
  MaxFaults = 1
CHECK_DEADLOCK FALSE
INVARIANTS OpenDialKeepsTransport RetiredIsShut
PROPERTIES UploadCompletes WriterIsReleased
