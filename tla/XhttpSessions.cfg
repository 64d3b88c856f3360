SPECIFICATION FairSpec
CONSTANTS
  g1 = g1
  g2 = g2
  p1 = p1
  u1 = u1
  o1 = o1
  Gets <- MCGets
  Posts <- MCPosts
  Streams <- MCStreams
  Ones <- MCOnes
  Writers <- MCWriters
  MaxSessions = 2
  MaxRequests = 3
  MaxWrites = 3
  Threshold = 2
CHECK_DEADLOCK FALSE
INVARIANTS ServedIsReachable NothingStranded
PROPERTIES SilentAfterReturn SessionEnds
