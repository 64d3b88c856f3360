SPECIFICATION Spec
CONSTANTS
  c1 = c1
  c2 = c2
  p1 = p1
  Clients = {c1, c2}
  IPs = {p1}
  IPOf <- MCIPOf
  NCand = 2
  Refusing = {1}
  Undialable = {2}
  MaxEntries = 2
  MaxPerIP = 2
  Timeout = 1
  Sockets = {s1, s2}
  None = None
INVARIANT ReapNeverPanics
CHECK_DEADLOCK FALSE
