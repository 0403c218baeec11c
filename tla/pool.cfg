SPECIFICATION Spec
CONSTANTS
  w1 = w1  h1 = h1  v1 = v1
  c1 = c1  c2 = c2
  NoClient = NoClient
  NoConn = NoConn
  Clients = {w1, h1, v1}
  Handles = {h1}
  Lookups = {v1}
  Conns = {c1, c2}
  Timeouts = {10, 120}
  Faults = {"net", "server"}
  Refresh = FALSE
  UseTicket = FALSE
  UseCleanup = FALSE
  DoConfigure = FALSE
  MaxUnread = 2
VIEW LiveView
SYMMETRY Symmetry
INVARIANTS TypeOK Exclusive IdleUsable OwnReply TimeoutCurrent 
PROPERTY ImplementsLease
