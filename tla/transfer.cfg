SPECIFICATION FairSpec
CONSTANTS
  a1 = a1
  N = 2
  Total = 3
  Aborters = {a1}
  Faults = {"short", "final", "interrupt"}
INVARIANTS TypeOK
PROPERTIES MainReturns ThreadsEnd NotifyCompletes
CHECK_DEADLOCK FALSE
