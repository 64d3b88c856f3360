SPECIFICATION TuiSpec
CONSTANTS
  p1 = p1
  p2 = p2
  n1 = n1
  n2 = n2
  Procs <- MCProcs
  Names <- MCNames
  MaxTries = 2
  MaxOps = 3
  MaxFaults = 1
  MaxStarts = 3
  MaxTail = 2
CHECK_DEADLOCK FALSE
INVARIANTS NoUpdateLost CurrentIsExplained KernelIsOwned QuitLeavesNothing
PROPERTIES LeftoverIsCleared StopEnds
