SPECIFICATION FairSpec
CONSTANTS
  N = 3
  Total = 2
  Aborters = {}
  Faults = {}
PROPERTY MainReturns
CHECK_DEADLOCK FALSE
