SPECIFICATION Spec
CONSTANTS
  a1 = a1
  N = 2
  Total = 2
  Aborters = {a1}
  Faults = {}
INVARIANT ReportedClosed
CHECK_DEADLOCK FALSE
