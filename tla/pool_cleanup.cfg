SPECIFICATION Spec
CONSTANTS
  w1 = w1  h1 = h1
  c1 = c1  c2 = c2  c3 = c3
  NoClient = NoClient
  NoConn = NoConn
  Clients = {w1, h1}
  Handles = {h1}
  Lookups = {}
  Conns = {c1, c2, c3}
  Timeouts = {120}
  Faults = {"net", "oserror"}
  Refresh = FALSE
  UseTicket = FALSE
  UseCleanup = TRUE
  DoConfigure = FALSE
  MaxUnread = 1
VIEW LiveView
SYMMETRY Symmetry
INVARIANTS IdleClean CleanedOut
