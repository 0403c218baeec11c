--------------------------- MODULE ConnectionPool ---------------------------
(***************************************************************************)
(* The connection pool of one iRODSSession: irods/pool.py, the request and *)
(* failure paths of irods/connection.py that move a connection in or out   *)
(* of the pool, and the teardown loop of iRODSSession.cleanup().           *)
(*                                                                         *)
(* A client is one activity of one thread: a block                         *)
(*     with session.pool.get_connection() as conn: conn.send; conn.recv    *)
(* or, for the members of Handles, an open data object whose raw file      *)
(* keeps its connection from open() to close() (irods/data_object.py); or, *)
(* for the members of Lookups, the first read of Manager.server_version in *)
(* a thread that has no connection yet (irods/manager/__init__.py).        *)
(* get_connection() holds the pool's RLock while it connects, logs in and  *)
(* applies the ticket, so it is several steps: other clients go on using   *)
(* the connections they already have, cleanup() takes its snapshot without *)
(* the lock, and the only thing that must wait is whoever needs the lock.  *)
(*                                                                         *)
(* The reply stream of a connection is two counters: requests the server   *)
(* has not answered (pend) and answers nobody has read (inbox).  A reply   *)
(* read while pend + inbox > 1 belongs to an earlier request.              *)
(*                                                                         *)
(* An operator X_Y beside X is X with a plausible bug Y; no specification  *)
(* uses it, and the properties are shown to notice it.                     *)
(***************************************************************************)
EXTENDS Integers, FiniteSets

CONSTANTS
  Clients,      \* activities that use the pool
  Handles,      \* those that are open data objects, not "with" blocks
  Lookups,      \* those that only look up the version of the server
  Conns,        \* identities of Connection objects
  NoClient,     \* the lock is free
  NoConn,       \* the local variable conn is not bound
  Timeouts,     \* values of the pool's default timeout
  Faults,       \* subset of {"net", "server", "oserror", "interrupt"}
  Refresh,      \* Pool.refresh_connection
  UseTicket,    \* a ticket may be supplied to the session
  UseCleanup,   \* session.cleanup() may be called
  DoConfigure,  \* cleanup() ends by building another pool
  MaxUnread     \* bound: requests of one connection whose reply is not read

ASSUME HandlesAssumption == Handles \subseteq Clients
ASSUME LookupsAssumption == Lookups \subseteq Clients \ Handles
ASSUME NoClientAssumption == NoClient \notin Clients
ASSUME NoConnAssumption == NoConn \notin Conns
ASSUME TimeoutsAssumption == Timeouts # {}
ASSUME FlagsAssumption == /\ Refresh \in BOOLEAN /\ UseTicket \in BOOLEAN
                          /\ UseCleanup \in BOOLEAN /\ DoConfigure \in BOOLEAN
ASSUME MaxUnreadAssumption == MaxUnread \in Nat \ {0}

VARIABLES
  active, idle,   \* Pool.active, Pool.idle
  lock,           \* the client inside get_connection, which owns Pool._lock
  pc, held,       \* where each client is, and its local conn
  newConn,        \* get_connection's new_conn (one at a time: under the lock)
  open,           \* connections whose socket is not None
  pend, inbox,    \* the reply stream of each connection
  refused,        \* connections whose last reply carried an error code
  stale,          \* connections older than connection_refresh_time
  ticket,         \* session.ticket__ is set
  applied,        \* session.ticket_applied
  poolTimeout,    \* Pool.connection_timeout
  sockTimeout,    \* the timeout of each socket
  snap, todo,     \* cleanup(): the set it iterates over, and what is left of it
  cur, cpc,       \* cleanup(): the connection it is at, and where it is
  retired,        \* session.pool is another pool by now
  asked, changed, \* history: the ticket was set when the client called
                  \* get_connection; the default timeout was set since
  looked          \* history: connections whose client was a look-up

poolVars == <<active, idle>>
streamVars == <<open, pend, inbox, refused>>
ticketVars == <<ticket, applied>>
timeVars == <<poolTimeout, sockTimeout>>
cleanVars == <<snap, todo, cur, cpc, retired>>
historyVars == <<asked, changed, looked>>
vars == <<active, idle, lock, pc, held, newConn, open, pend, inbox, refused,
          stale, ticket, applied, poolTimeout, sockTimeout, snap, todo, cur,
          cpc, retired, asked, changed, looked>>

NetFault == "net" \in Faults          \* a send or a receive fails or times out
ServerFault == "server" \in Faults    \* the server answers with an error code
OSFault == "oserror" \in Faults       \* unwrap() or shutdown() raises in disconnect()
InterruptFault == "interrupt" \in Faults  \* an exception is thrown into recv()

GetPcs == {"refresh", "connect", "login", "add", "ticket", "ticketWait",
           "ticketDrop", "adjust"}
HoldPcs == {"hold", "wait", "closeWait", "closed", "drop", "raised"}
Pcs == {"out", "enter", "known"} \cup GetPcs \cup HoldPcs

Held(c) == \E cl \in Clients : held[cl] = c

(***************************************************************************)
(* A connection nothing refers to has run Connection.__del__, which        *)
(* disconnects it; its identity can be used for another object.            *)
(***************************************************************************)
Unreferenced(c) == c \notin active \cup idle \cup snap /\ ~Held(c)

Unread(c) == pend[c] + inbox[c]

Init ==
  /\ active = {} /\ idle = {}
  /\ lock = NoClient
  /\ pc = [cl \in Clients |-> "out"]
  /\ held = [cl \in Clients |-> NoConn]
  /\ newConn = FALSE
  /\ open = {} /\ refused = {} /\ stale = {}
  /\ pend = [c \in Conns |-> 0]
  /\ inbox = [c \in Conns |-> 0]
  /\ ticket = FALSE /\ applied = {}
  /\ poolTimeout \in Timeouts
  /\ sockTimeout = [c \in Conns |-> poolTimeout]
  /\ snap = {} /\ todo = {} /\ cur = NoConn /\ cpc = "off" /\ retired = FALSE
  /\ asked = [cl \in Clients |-> FALSE]
  /\ changed = [cl \in Clients |-> FALSE]
  /\ looked = {}

(***************************************************************************)
(* Pool.release_connection(conn, destroy), under the lock.                 *)
(***************************************************************************)
ReleasedActive_KeepsDestroyed(c, destroy) == IF destroy THEN active ELSE active \ {c}

ReleasedActive(c, destroy) == active \ {c}

ReleasedIdle_AnyConn(c, destroy) == IF destroy THEN idle \ {c} ELSE idle \cup {c}

ReleasedIdle_ActiveOnly(c, destroy) ==
  IF c \in active /\ ~destroy THEN idle \cup {c} ELSE idle

ReleasedIdle(c, destroy) ==
  IF c \in active THEN (IF destroy THEN idle ELSE idle \cup {c})
  ELSE IF destroy THEN idle \ {c} ELSE idle

ReleaseConnection(c, destroy) ==
  /\ active' = ReleasedActive(c, destroy)
  /\ idle' = ReleasedIdle(c, destroy)

(***************************************************************************)
(* The lock is an RLock: its owner may take it again.                      *)
(***************************************************************************)
MayLock_NotReentrant(cl) == lock = NoClient

MayLock(cl) == lock \in {NoClient, cl}

\* recv() waits for a whole reply.
ReplyReady_DoesNotWait(c) == c \in open

ReplyReady(c) == c \in open /\ inbox[c] > 0

-----------------------------------------------------------------------------
(* Pool.get_connection *)

(***************************************************************************)
(* An exception leaves get_connection: the lock is released and the local  *)
(* conn is gone.  What active and idle hold by then stays there.           *)
(***************************************************************************)
GetRaises(cl) ==
  /\ lock' = NoClient
  /\ held' = [held EXCEPT ![cl] = NoConn]
  /\ pc' = [pc EXCEPT ![cl] = "out"]

CallGet(cl) ==
  /\ pc[cl] = "out" /\ ~retired
  /\ pc' = [pc EXCEPT ![cl] = "enter"]
  /\ asked' = [asked EXCEPT ![cl] = ticket]
  /\ changed' = [changed EXCEPT ![cl] = FALSE]
  /\ UNCHANGED <<poolVars, lock, held, newConn, streamVars, stale, ticketVars,
                 timeVars, cleanVars, looked>>

\* idle.pop() finds a connection; a stale one goes to the refresh branch.
AfterPop(c) == IF Refresh /\ c \in stale THEN "refresh" ELSE "add"

PopIdle(cl) ==
  /\ pc[cl] = "enter" /\ lock = NoClient
  /\ lock' = cl
  /\ newConn' = FALSE
  /\ \E c \in idle :
       /\ idle' = idle \ {c}
       /\ held' = [held EXCEPT ![cl] = c]
       /\ pc' = [pc EXCEPT ![cl] = AfterPop(c)]
  /\ UNCHANGED <<active, streamVars, stale, ticketVars, timeVars, cleanVars,
                 historyVars>>

\* idle.pop() raises KeyError.
PopNothing(cl) ==
  /\ pc[cl] = "enter" /\ lock = NoClient /\ idle = {}
  /\ lock' = cl
  /\ newConn' = FALSE
  /\ pc' = [pc EXCEPT ![cl] = "connect"]
  /\ UNCHANGED <<poolVars, held, streamVars, stale, ticketVars, timeVars,
                 cleanVars, historyVars>>

\* conn.disconnect() on the stale connection.  disconnect() ends with socket
\* None whatever happens; when its send fails, release(True) finds conn in
\* neither set and the NetworkException leaves get_connection.
RefreshDisconnect(cl) ==
  /\ pc[cl] = "refresh"
  /\ open' = open \ {held[cl]}
  /\ \/ /\ held' = [held EXCEPT ![cl] = NoConn]
        /\ pc' = [pc EXCEPT ![cl] = "connect"]
        /\ UNCHANGED lock
     \/ /\ NetFault /\ held[cl] \in open
        /\ GetRaises(cl)
  /\ UNCHANGED <<poolVars, newConn, pend, inbox, refused, stale, ticketVars,
                 timeVars, cleanVars, historyVars>>

\* The state a new Connection object starts in; ticket_applied has weak keys,
\* so it is not among them.
FreshConnection(c) ==
  /\ open' = open \cup {c}
  /\ pend' = [pend EXCEPT ![c] = 0]
  /\ inbox' = [inbox EXCEPT ![c] = 0]
  /\ refused' = refused \ {c}
  /\ applied' = applied \ {c}
  /\ sockTimeout' = [sockTimeout EXCEPT ![c] = poolTimeout]

\* Connection._connect: the socket takes the pool's default timeout.
Connect(cl) ==
  /\ pc[cl] = "connect"
  /\ \/ \E c \in Conns :
          /\ Unreferenced(c)
          /\ FreshConnection(c)
          /\ held' = [held EXCEPT ![cl] = c]
          /\ pc' = [pc EXCEPT ![cl] = "login"]
          /\ stale' = stale \ {c} /\ looked' = looked \ {c}
          /\ UNCHANGED lock
     \/ /\ NetFault
        /\ GetRaises(cl)
        /\ UNCHANGED <<streamVars, applied, sockTimeout, stale, looked>>
  /\ UNCHANGED <<poolVars, newConn, ticket, poolTimeout, cleanVars, asked,
                 changed>>

\* The rest of _connect and of __init__: the exchanges of the startup pack, of
\* the negotiation and of the login read every reply they ask for.  A failure
\* loses the new object, which is in neither set.
Login(cl) ==
  /\ pc[cl] = "login"
  /\ \/ /\ newConn' = TRUE
        /\ pc' = [pc EXCEPT ![cl] = "add"]
        /\ UNCHANGED <<lock, held>>
     \/ /\ NetFault \/ ServerFault
        /\ GetRaises(cl)
        /\ UNCHANGED newConn
  /\ UNCHANGED <<poolVars, streamVars, stale, ticketVars, timeVars, cleanVars,
                 historyVars>>

\* active.add(conn), then the test of line 116.
NeedsTicket_NewOnly(c) == ticket /\ newConn

NeedsTicket(c) == ticket /\ c \notin applied

Add(cl) ==
  /\ pc[cl] = "add"
  /\ active' = active \cup {held[cl]}
  /\ pc' = [pc EXCEPT ![cl] = IF NeedsTicket(held[cl]) THEN "ticket" ELSE "adjust"]
  /\ UNCHANGED <<idle, lock, held, newConn, streamVars, stale, ticketVars,
                 timeVars, cleanVars, historyVars>>

TicketSend(cl) ==
  /\ pc[cl] = "ticket"
  /\ \/ /\ held[cl] \in open
        /\ pend' = [pend EXCEPT ![held[cl]] = @ + 1]
        /\ pc' = [pc EXCEPT ![cl] = "ticketWait"]
     \/ /\ NetFault \/ held[cl] \notin open
        /\ pc' = [pc EXCEPT ![cl] = "ticketDrop"]
        /\ UNCHANGED pend
  /\ UNCHANGED <<poolVars, lock, held, newConn, open, inbox, refused, stale,
                 ticketVars, timeVars, cleanVars, historyVars>>

\* A reply without an error is recorded; an error leaves get_connection with
\* conn in active.
TicketRecv(cl) ==
  /\ pc[cl] = "ticketWait" /\ ReplyReady(held[cl])
  /\ inbox' = [inbox EXCEPT ![held[cl]] = @ - 1]
  /\ \/ /\ applied' = applied \cup {held[cl]}
        /\ refused' = refused \ {held[cl]}
        /\ pc' = [pc EXCEPT ![cl] = "adjust"]
        /\ UNCHANGED <<lock, held>>
     \/ /\ ServerFault
        /\ refused' = refused \cup {held[cl]}
        /\ GetRaises(cl)
        /\ UNCHANGED applied
  /\ UNCHANGED <<poolVars, newConn, open, pend, stale, ticket, timeVars,
                 cleanVars, historyVars>>

\* recv() fails: a timeout or a lost connection is a socket.error, while a
\* socket that cleanup() has already set to None gives an AttributeError and
\* an exception thrown into the thread (KeyboardInterrupt) goes straight out.
TicketRecvFails(cl) ==
  /\ pc[cl] = "ticketWait"
  /\ \/ /\ NetFault \/ held[cl] \notin open
        /\ pc' = [pc EXCEPT ![cl] = "ticketDrop"]
        /\ UNCHANGED <<lock, held>>
     \/ /\ held[cl] \notin open \/ InterruptFault
        /\ GetRaises(cl)
  /\ UNCHANGED <<poolVars, newConn, streamVars, stale, ticketVars, timeVars,
                 cleanVars, historyVars>>

\* send() or recv() calls release(True) before it raises NetworkException:
\* the client already owns the lock.
TicketDrop(cl) ==
  /\ pc[cl] = "ticketDrop" /\ MayLock(cl)
  /\ ReleaseConnection(held[cl], TRUE)
  /\ GetRaises(cl)
  /\ UNCHANGED <<newConn, streamVars, stale, ticketVars, timeVars, cleanVars,
                 historyVars>>

\* _adjust_timeout_to_pool_default for a connection that was idle (which
\* raises AttributeError when its socket is None), and the return.
AdjustedTimeout_NewOnly(c) == IF newConn THEN poolTimeout ELSE sockTimeout[c]

AdjustedTimeout(c) == IF newConn THEN sockTimeout[c] ELSE poolTimeout

Adjust(cl) ==
  /\ pc[cl] = "adjust"
  /\ \/ /\ newConn \/ held[cl] \in open
        /\ sockTimeout' = [sockTimeout EXCEPT ![held[cl]] = AdjustedTimeout(held[cl])]
        /\ pc' = [pc EXCEPT ![cl] = "hold"]
        /\ lock' = NoClient
        /\ UNCHANGED held
     \/ /\ ~newConn /\ held[cl] \notin open
        /\ GetRaises(cl)
        /\ UNCHANGED sockTimeout
  /\ UNCHANGED <<poolVars, newConn, streamVars, stale, ticketVars, poolTimeout,
                 cleanVars, historyVars>>

-----------------------------------------------------------------------------
(* What a client does with the connection it got *)

\* conn.send(...) succeeds; for an open data object it may be close_file().
Request(cl) ==
  /\ pc[cl] = "hold" /\ cl \notin Lookups /\ held[cl] \in open
  /\ Unread(held[cl]) < MaxUnread
  /\ pend' = [pend EXCEPT ![held[cl]] = @ + 1]
  /\ \/ pc' = [pc EXCEPT ![cl] = "wait"]
     \/ cl \in Handles /\ pc' = [pc EXCEPT ![cl] = "closeWait"]
  /\ UNCHANGED <<poolVars, lock, held, newConn, open, inbox, refused, stale,
                 ticketVars, timeVars, cleanVars, historyVars>>

\* sendall() raises (AttributeError too: the except clause is bare).
RequestFails(cl) ==
  /\ pc[cl] = "hold" /\ cl \notin Lookups /\ (NetFault \/ held[cl] \notin open)
  /\ pc' = [pc EXCEPT ![cl] = "drop"]
  /\ UNCHANGED <<poolVars, lock, held, newConn, streamVars, stale, ticketVars,
                 timeVars, cleanVars, historyVars>>

\* conn.recv() reads the next reply of the stream; a negative int_info raises.
AfterRecv(cl) == IF pc[cl] = "closeWait" THEN "closed" ELSE "hold"

Recv(cl) ==
  /\ pc[cl] \in {"wait", "closeWait"}
  /\ ReplyReady(held[cl])
  /\ inbox' = [inbox EXCEPT ![held[cl]] = @ - 1]
  /\ \/ /\ refused' = refused \ {held[cl]}
        /\ pc' = [pc EXCEPT ![cl] = AfterRecv(cl)]
     \/ /\ ServerFault
        /\ refused' = refused \cup {held[cl]}
        /\ pc' = [pc EXCEPT ![cl] = "raised"]
  /\ UNCHANGED <<poolVars, lock, held, newConn, open, pend, stale, ticketVars,
                 timeVars, cleanVars, historyVars>>

\* A socket error or a timeout: release(True), then NetworkException.
RecvFailed_NoRelease(cl) ==
  (NetFault \/ held[cl] \notin open) /\ pc' = [pc EXCEPT ![cl] = "raised"]

RecvFailed(cl) == (NetFault \/ held[cl] \notin open) /\ pc' = [pc EXCEPT ![cl] = "drop"]

\* recv() fails.  Only socket errors and timeouts release the connection:
\* the AttributeError of a socket that is None does not, nor does an
\* exception thrown into the thread that waits.
RecvFails(cl) ==
  /\ pc[cl] \in {"wait", "closeWait"}
  /\ \/ RecvFailed(cl)
     \/ /\ held[cl] \notin open \/ InterruptFault
        /\ pc' = [pc EXCEPT ![cl] = "raised"]
  /\ UNCHANGED <<poolVars, lock, held, newConn, streamVars, stale, ticketVars,
                 timeVars, cleanVars, historyVars>>

\* release(True) in send() or recv(); NetworkException goes to the caller.
Dropped_NotDestroyed(cl) == ReleaseConnection(held[cl], FALSE)

Dropped(cl) == ReleaseConnection(held[cl], TRUE)

Drop(cl) ==
  /\ pc[cl] = "drop" /\ MayLock(cl)
  /\ Dropped(cl)
  /\ pc' = [pc EXCEPT ![cl] = "raised"]
  /\ UNCHANGED <<lock, held, newConn, streamVars, stale, ticketVars, timeVars,
                 cleanVars, historyVars>>

\* A data object is open: BufferedRandom.close() flushes and closes again
\* after an error, on the same connection.
Retry(cl) ==
  /\ cl \in Handles /\ pc[cl] = "raised"
  /\ pc' = [pc EXCEPT ![cl] = "hold"]
  /\ UNCHANGED <<poolVars, lock, held, newConn, streamVars, stale, ticketVars,
                 timeVars, cleanVars, historyVars>>

\* Connection.__exit__, on the way out of the block, normal or not; and the
\* end of iRODSDataObjectFileRaw.close(), which only a close_file() (or
\* _close_replica()) that succeeded reaches.
Leaving(cl) ==
  \/ cl \in Handles /\ pc[cl] = "closed"
  \/ cl \notin Handles \cup Lookups /\ pc[cl] \in {"hold", "raised"}

Leave(cl) ==
  /\ Leaving(cl) /\ MayLock(cl)
  /\ ReleaseConnection(held[cl], FALSE)
  /\ held' = [held EXCEPT ![cl] = NoConn]
  /\ pc' = [pc EXCEPT ![cl] = "out"]
  /\ UNCHANGED <<lock, newConn, streamVars, stale, ticketVars, timeVars,
                 cleanVars, historyVars>>

\* The program lets go of a data object whose close() raised: nobody calls
\* conn.release().
Abandon(cl) ==
  /\ cl \in Handles /\ pc[cl] = "raised"
  /\ held' = [held EXCEPT ![cl] = NoConn]
  /\ pc' = [pc EXCEPT ![cl] = "out"]
  /\ UNCHANGED <<poolVars, lock, newConn, streamVars, stale, ticketVars,
                 timeVars, cleanVars, historyVars>>

\* Manager.server_version reads the version off the connection it was lent
\* and never gives it back; the manager does not ask again.
KeepVersion(cl) ==
  /\ cl \in Lookups /\ pc[cl] = "hold"
  /\ looked' = looked \cup {held[cl]}
  /\ held' = [held EXCEPT ![cl] = NoConn]
  /\ pc' = [pc EXCEPT ![cl] = "known"]
  /\ UNCHANGED <<poolVars, lock, newConn, streamVars, stale, ticketVars,
                 timeVars, cleanVars, asked, changed>>

-----------------------------------------------------------------------------
(* The server, the clock, and the setters of the session *)

ServerReply(c) ==
  /\ pend[c] > 0 /\ c \in open
  /\ pend' = [pend EXCEPT ![c] = @ - 1]
  /\ inbox' = [inbox EXCEPT ![c] = @ + 1]
  /\ UNCHANGED <<poolVars, lock, pc, held, newConn, open, refused, stale,
                 ticketVars, timeVars, cleanVars, historyVars>>

GrowOld(c) ==
  /\ Refresh /\ c \in open
  /\ stale' = stale \cup {c}
  /\ UNCHANGED <<poolVars, lock, pc, held, newConn, streamVars, ticketVars,
                 timeVars, cleanVars, historyVars>>

\* Ticket.supply()
SupplyTicket ==
  /\ UseTicket
  /\ ticket' = TRUE
  /\ UNCHANGED <<poolVars, lock, pc, held, newConn, streamVars, stale, applied,
                 timeVars, cleanVars, historyVars>>

\* session.connection_timeout = t
SetTimeout(t) ==
  /\ poolTimeout' = t
  /\ changed' = [cl \in Clients |-> changed[cl] \/ t # poolTimeout]
  /\ UNCHANGED <<poolVars, lock, pc, held, newConn, streamVars, stale,
                 ticketVars, sockTimeout, cleanVars, asked, looked>>

-----------------------------------------------------------------------------
(* iRODSSession.cleanup() *)

CleanupStart ==
  /\ UseCleanup /\ cpc = "off" /\ ~retired
  /\ snap' = active \cup idle
  /\ todo' = active \cup idle
  /\ cpc' = "loop"
  /\ UNCHANGED <<poolVars, lock, pc, held, newConn, streamVars, stale,
                 ticketVars, timeVars, cur, retired, historyVars>>

\* conn.disconnect().  Its send may fail, and then release(True) comes before
\* the socket is set to None; an OSError of unwrap() or shutdown() leaves
\* cleanup(), with the rest of the snapshot not visited.
CleanupDisconnect ==
  /\ cpc = "loop"
  /\ \E c \in todo :
       \/ /\ open' = open \ {c}
          /\ cur' = c
          /\ cpc' = "release"
          /\ UNCHANGED <<snap, todo>>
       \/ /\ NetFault /\ c \in open
          /\ cur' = c
          /\ cpc' = "sendFailed"
          /\ UNCHANGED <<snap, todo, open>>
       \/ /\ OSFault /\ c \in open
          /\ open' = open \ {c}
          /\ cpc' = "off" /\ snap' = {} /\ todo' = {}
          /\ UNCHANGED cur
  /\ UNCHANGED <<poolVars, lock, pc, held, newConn, pend, inbox, refused, stale,
                 ticketVars, timeVars, retired, historyVars>>

CleanupSendFailed ==
  /\ cpc = "sendFailed" /\ lock = NoClient
  /\ ReleaseConnection(cur, TRUE)
  /\ open' = open \ {cur}
  /\ cpc' = "release"
  /\ UNCHANGED <<lock, pc, held, newConn, pend, inbox, refused, stale,
                 ticketVars, timeVars, snap, todo, cur, retired, historyVars>>

\* conn.release(True)
CleanupRelease ==
  /\ cpc = "release" /\ lock = NoClient
  /\ ReleaseConnection(cur, TRUE)
  /\ todo' = todo \ {cur}
  /\ cur' = NoConn
  /\ cpc' = "loop"
  /\ UNCHANGED <<lock, pc, held, newConn, streamVars, stale, ticketVars,
                 timeVars, snap, retired, historyVars>>

\* The loop is over; with do_configure the session gets another pool.
CleanupEnd ==
  /\ cpc = "loop" /\ todo = {}
  /\ cpc' = "off" /\ snap' = {}
  /\ retired' = DoConfigure
  /\ UNCHANGED <<poolVars, lock, pc, held, newConn, streamVars, stale,
                 ticketVars, timeVars, todo, cur, historyVars>>

-----------------------------------------------------------------------------
\* The steps a client takes inside get_connection, with the lock.
GetStep(cl) ==
  \/ RefreshDisconnect(cl) \/ Connect(cl) \/ Login(cl) \/ Add(cl)
  \/ TicketSend(cl) \/ TicketRecv(cl) \/ TicketRecvFails(cl) \/ TicketDrop(cl)
  \/ Adjust(cl)

TakeLock(cl) == PopIdle(cl) \/ PopNothing(cl)

UseStep(cl) ==
  \/ Request(cl) \/ RequestFails(cl) \/ Recv(cl) \/ RecvFails(cl) \/ Drop(cl)
  \/ Retry(cl) \/ Leave(cl) \/ Abandon(cl) \/ KeepVersion(cl)

CleanupStep ==
  \/ CleanupStart \/ CleanupDisconnect \/ CleanupSendFailed \/ CleanupRelease
  \/ CleanupEnd

Next ==
  \/ \E cl \in Clients : CallGet(cl) \/ TakeLock(cl) \/ GetStep(cl) \/ UseStep(cl)
  \/ \E c \in Conns : ServerReply(c) \/ GrowOld(c)
  \/ SupplyTicket
  \/ \E t \in Timeouts : SetTimeout(t)
  \/ CleanupStep

Spec == Init /\ [][Next]_vars

(***************************************************************************)
(* Inside the lock every step ends: a socket operation either completes or *)
(* reaches the connection timeout (120 seconds unless the program changes  *)
(* it).  A thread that waits for the lock gets it sooner or later.         *)
(***************************************************************************)
FairSpec ==
  /\ Spec
  /\ \A cl \in Clients : WF_vars(GetStep(cl)) /\ SF_vars(TakeLock(cl))

-----------------------------------------------------------------------------
TypeOK ==
  /\ active \subseteq Conns /\ idle \subseteq Conns
  /\ lock \in Clients \cup {NoClient}
  /\ pc \in [Clients -> Pcs]
  /\ held \in [Clients -> Conns \cup {NoConn}]
  /\ newConn \in BOOLEAN
  /\ open \subseteq Conns /\ refused \subseteq Conns /\ stale \subseteq Conns
  /\ pend \in [Conns -> Nat] /\ inbox \in [Conns -> Nat]
  /\ ticket \in BOOLEAN /\ applied \subseteq Conns
  /\ poolTimeout \in Timeouts
  /\ sockTimeout \in [Conns -> Timeouts]
  /\ snap \subseteq Conns /\ todo \subseteq snap
  /\ cur \in Conns \cup {NoConn}
  /\ cpc \in {"off", "loop", "sendFailed", "release"}
  /\ retired \in BOOLEAN
  /\ asked \in [Clients -> BOOLEAN] /\ changed \in [Clients -> BOOLEAN]
  /\ looked \subseteq Conns

(***************************************************************************)
(* One connection serves one activity at a time: two clients never have    *)
(* the same one, and none that a client has is waiting in idle to be given *)
(* to another.  Clients release the same connection twice as a matter of   *)
(* course: release(True) in recv(), then release() in __exit__.            *)
(***************************************************************************)
Exclusive ==
  /\ \A a, b \in Clients : a # b /\ held[a] # NoConn => held[a] # held[b]
  /\ \A a \in Clients : held[a] \notin idle

(***************************************************************************)
(* What get_connection may give to the next client: its socket is there    *)
(* and no reply to an earlier request is on its way.                       *)
(***************************************************************************)
IdleUsable == \A c \in idle : c \in open /\ Unread(c) = 0

(***************************************************************************)
(* The same while cleanup() runs beside the clients: an idle connection    *)
(* may have been disconnected under them, but one that still has a socket  *)
(* owes no reply.                                                          *)
(***************************************************************************)
IdleClean == \A c \in idle \cap open : Unread(c) = 0

(***************************************************************************)
(* The reply a client waits for is the next one of the stream, unless it   *)
(* goes on using a data object after a NetworkException; such a connection *)
(* is in neither set of the pool any more, so the replies it mixes up are  *)
(* nobody else's.                                                          *)
(***************************************************************************)
OwnReply ==
  \A cl \in Clients : pc[cl] \in {"wait", "closeWait", "ticketWait"} =>
    \/ Unread(held[cl]) = 1
    \/ cl \in Handles /\ held[cl] \notin active \cup idle

(***************************************************************************)
(* Pool.active is the set of connections in use.  A connection with a      *)
(* socket stays there with no user, and out of reach of every later        *)
(* get_connection, for two reasons alone: the server refused its last      *)
(* request, which was the ticket request of get_connection or the close of *)
(* a data object, and these do not give the connection back; or it was     *)
(* lent to Manager.server_version.                                         *)
(***************************************************************************)
LeaksKnown == \A c \in active \cap open : ~Held(c) => c \in refused \cup looked

(***************************************************************************)
(* A client that asked for a connection when the session had a ticket uses *)
(* a connection on which the server has accepted the ticket.               *)
(***************************************************************************)
TicketBeforeUse ==
  \A cl \in Clients :
    pc[cl] \in {"hold", "wait", "closeWait"} /\ asked[cl] => held[cl] \in applied

(***************************************************************************)
(* The socket of a connection in use has the pool's default timeout, be it *)
(* new or reused, unless the default was set since the client asked.       *)
(***************************************************************************)
TimeoutCurrent ==
  \A cl \in Clients :
    pc[cl] \in {"hold", "wait", "closeWait"} /\ ~changed[cl] =>
      sockTimeout[held[cl]] = poolTimeout

(***************************************************************************)
(* A connection cleanup() is done with is disconnected and in no set of    *)
(* the pool, whatever the clients that were using it, or were about to get *)
(* it, do in the meantime.                                                 *)
(***************************************************************************)
CleanedOut ==
  \A c \in snap \ todo : c \notin active \cup idle \cup open

(***************************************************************************)
(* Every call of get_connection returns a connection or raises.            *)
(***************************************************************************)
GetEnds == \A cl \in Clients : pc[cl] = "enter" ~> pc[cl] \in HoldPcs \cup {"out"}
=============================================================================
