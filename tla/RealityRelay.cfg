SPECIFICATION FairSpec
CONSTANTS
  c1 = c1
  c2 = c2
  p1 = p1
  Clients = {c1, c2}
  IPs = {p1}
  IPOf <- MCIPOf
  NCand = 3
  Refusing = {1}
  Undialable = {2}
  MaxEntries = 2
  MaxPerIP = 1
  Timeout = 1
  Sockets = {s1, s2, s3}
  None = None
CHECK_DEADLOCK FALSE
INVARIANTS TypeOK PerIPCounts OneSocketPerFlow HealthyNeverSkipped PanicsOnlyInClose
PROPERTY IdleFlowReaped
