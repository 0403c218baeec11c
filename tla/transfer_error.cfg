SPECIFICATION FairSpec
CONSTANTS
  N = 2
  Total = 2
  Aborters = {}
  Faults = {"io"}
PROPERTY ThreadsEnd
CHECK_DEADLOCK FALSE
