SPECIFICATION FairManagerSpec
CONSTANTS
  MaxStarts = 1
  MaxTail = 1
PROPERTIES StartEnds
CHECK_DEADLOCK FALSE
