SPECIFICATION FairSpec
CONSTANTS
  p0 = p0
  p1 = p1
  q1 = q1
  p2 = p2
  s1 = s1
  s2 = s2
  Posts = {p0, p1, q1, p2}
  Streams = {s1, s2}
  SeqOf <- MCSeqOf
  LenOf <- MCLenOf
  MaxPackets = 1
  None = None
INVARIANTS InOrder AckedIsKept HeapBounded
PROPERTIES CloseReleases Delivered ImplementsStream
CONSTRAINT MCOneSession
CHECK_DEADLOCK FALSE
