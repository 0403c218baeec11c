SPECIFICATION Spec
CONSTANTS
  a1 = a1
  N = 3
  Total = 4
  Aborters = {a1}
  Faults = {"io", "short", "close", "final", "open", "interrupt"}
INVARIANTS FinalLast AbortedNotFinalized SuccessComplete FinalizedUnlessQuit
CHECK_DEADLOCK FALSE
