SPECIFICATION FairSpec
CONSTANTS
  w1 = w1  h1 = h1
  c1 = c1  c2 = c2
  NoClient = NoClient
  NoConn = NoConn
  Clients = {w1, h1}
  Handles = {h1}
  Lookups = {}
  Conns = {c1, c2}
  Timeouts = {120}
  Faults = {"net", "server"}
  Refresh = TRUE
  UseTicket = TRUE
  UseCleanup = FALSE
  DoConfigure = FALSE
  MaxUnread = 1
INVARIANTS  TicketBeforeUse
PROPERTY GetEnds
