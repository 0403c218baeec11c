------------------------ MODULE ConnectionPoolProofs ------------------------
(***************************************************************************)
(* Theorems of ConnectionPool, for every set of clients and connections,   *)
(* with or without cleanup(), tickets, refresh and failures.               *)
(*                                                                         *)
(* Exclusive is inductive once the types are known: a connection leaves    *)
(* idle as it gets its user, a new one is an object nobody refers to, and  *)
(* only release(False), with which its user lets go of it, puts one back.  *)
(*                                                                         *)
(* That no reply goes to the wrong request is not: whether the stream of a *)
(* connection is clean depends on where its user is, so StreamInv states   *)
(* for every point of a client's program how many replies are owed to it.  *)
(***************************************************************************)
EXTENDS ConnectionPoolLease, TLAPS

\* The local conn is bound exactly between the pop and the end of the use.
HeldInv ==
  \A cl \in Clients :
    IF pc[cl] \in {"out", "enter", "connect", "known"} THEN held[cl] = NoConn
                                              ELSE held[cl] \in Conns

StreamAt(cl) ==
  /\ pc[cl] \in {"login", "add", "ticket", "adjust"} /\ held[cl] \in open =>
       Unread(held[cl]) = 0
  /\ pc[cl] = "ticketWait" => Unread(held[cl]) = 1
  /\ /\ pc[cl] \in {"wait", "closeWait"}
     /\ held[cl] \in active \/ cl \notin Handles
     => Unread(held[cl]) = 1
  /\ /\ pc[cl] = "hold"
     /\ held[cl] \in open
     /\ held[cl] \in active \/ cl \notin Handles
     => Unread(held[cl]) = 0
  /\ pc[cl] \in {"closed", "raised"} /\ held[cl] \in active \cap open =>
       Unread(held[cl]) = 0

\* Where each client is, and the replies owed on the connection it has.
StreamInv == \A cl \in Clients : StreamAt(cl)

USE NoClientAssumption, NoConnAssumption
USE DEF poolVars, streamVars, ticketVars, timeVars, cleanVars, historyVars

-----------------------------------------------------------------------------
(* Types, and the exclusive use of a connection *)

Safe == TypeOK /\ HeldInv /\ Exclusive

LEMMA InitSafe == Init => Safe
<1> SUFFICES ASSUME Init PROVE Safe
  OBVIOUS
<1>1. TypeOK
  BY DEF Init, TypeOK, Pcs
<1>2. HeldInv /\ Exclusive
  BY DEF Init, HeldInv, Exclusive
<1> QED
  BY <1>1, <1>2 DEF Safe

LEMMA TakeLockSafe ==
  ASSUME Safe, NEW cl \in Clients, TakeLock(cl)
  PROVE  Safe'
<1>1. CASE PopIdle(cl)
  <2>1. TypeOK'
    BY <1>1, ZenonT(60) DEF Safe, TypeOK, HeldInv, Pcs, GetPcs, HoldPcs,
           PopIdle, AfterPop
  <2>2. HeldInv'
    BY <1>1 DEF Safe, TypeOK, HeldInv, PopIdle, AfterPop
  <2>3. Exclusive'
    BY <1>1 DEF Safe, TypeOK, HeldInv, Exclusive,
           PopIdle, AfterPop
  <2> QED
    BY <2>1, <2>2, <2>3 DEF Safe
<1>2. CASE PopNothing(cl)
  <2>1. TypeOK'
    BY <1>2 DEF Safe, TypeOK, HeldInv, Pcs, GetPcs, HoldPcs,
           PopNothing
  <2>2. HeldInv'
    BY <1>2 DEF Safe, TypeOK, HeldInv, PopNothing
  <2>3. Exclusive'
    BY <1>2 DEF Safe, TypeOK, HeldInv, Exclusive,
           PopNothing
  <2> QED
    BY <2>1, <2>2, <2>3 DEF Safe
<1> QED
  BY <1>1, <1>2 DEF TakeLock

LEMMA GetStepSafe ==
  ASSUME Safe, NEW cl \in Clients, GetStep(cl)
  PROVE  Safe'
<1>1. CASE RefreshDisconnect(cl)
  <2>1. TypeOK'
    BY <1>1 DEF Safe, TypeOK, HeldInv, Pcs, GetPcs, HoldPcs,
           RefreshDisconnect, GetRaises
  <2>2. HeldInv'
    BY <1>1 DEF Safe, TypeOK, HeldInv, RefreshDisconnect, GetRaises
  <2>3. Exclusive'
    BY <1>1 DEF Safe, TypeOK, HeldInv, Exclusive,
           RefreshDisconnect, GetRaises
  <2> QED
    BY <2>1, <2>2, <2>3 DEF Safe
<1>2. CASE Connect(cl)
  <2>1. TypeOK'
    BY <1>2 DEF Safe, TypeOK, HeldInv, Pcs, GetPcs, HoldPcs,
           Connect, GetRaises, FreshConnection, Unreferenced, Held
  <2>2. HeldInv'
    BY <1>2 DEF Safe, TypeOK, HeldInv, Connect, GetRaises, FreshConnection, Unreferenced, Held
  <2>3. Exclusive'
    BY <1>2 DEF Safe, TypeOK, HeldInv, Exclusive,
           Connect, GetRaises, FreshConnection, Unreferenced, Held
  <2> QED
    BY <2>1, <2>2, <2>3 DEF Safe
<1>3. CASE Login(cl)
  <2>1. TypeOK'
    BY <1>3 DEF Safe, TypeOK, HeldInv, Pcs, GetPcs, HoldPcs,
           Login, GetRaises
  <2>2. HeldInv'
    BY <1>3 DEF Safe, TypeOK, HeldInv, Login, GetRaises
  <2>3. Exclusive'
    BY <1>3 DEF Safe, TypeOK, HeldInv, Exclusive,
           Login, GetRaises
  <2> QED
    BY <2>1, <2>2, <2>3 DEF Safe
<1>4. CASE Add(cl)
  <2>1. TypeOK'
    BY <1>4 DEF Safe, TypeOK, HeldInv, Pcs, GetPcs, HoldPcs,
           Add, NeedsTicket
  <2>2. HeldInv'
    BY <1>4 DEF Safe, TypeOK, HeldInv, Add, NeedsTicket
  <2>3. Exclusive'
    BY <1>4 DEF Safe, TypeOK, HeldInv, Exclusive,
           Add, NeedsTicket
  <2> QED
    BY <2>1, <2>2, <2>3 DEF Safe
<1>5. CASE TicketSend(cl)
  <2>1. TypeOK'
    BY <1>5 DEF Safe, TypeOK, HeldInv, Pcs, GetPcs, HoldPcs,
           TicketSend
  <2>2. HeldInv'
    BY <1>5 DEF Safe, TypeOK, HeldInv, TicketSend
  <2>3. Exclusive'
    BY <1>5 DEF Safe, TypeOK, HeldInv, Exclusive,
           TicketSend
  <2> QED
    BY <2>1, <2>2, <2>3 DEF Safe
<1>6. CASE TicketRecv(cl)
  <2>1. TypeOK'
    BY <1>6 DEF Safe, TypeOK, HeldInv, Pcs, GetPcs, HoldPcs,
           TicketRecv, GetRaises, ReplyReady
  <2>2. HeldInv'
    BY <1>6 DEF Safe, TypeOK, HeldInv, TicketRecv, GetRaises, ReplyReady
  <2>3. Exclusive'
    BY <1>6 DEF Safe, TypeOK, HeldInv, Exclusive,
           TicketRecv, GetRaises, ReplyReady
  <2> QED
    BY <2>1, <2>2, <2>3 DEF Safe
<1>7. CASE TicketRecvFails(cl)
  <2>1. TypeOK'
    BY <1>7 DEF Safe, TypeOK, HeldInv, Pcs, GetPcs, HoldPcs,
           TicketRecvFails, GetRaises
  <2>2. HeldInv'
    BY <1>7 DEF Safe, TypeOK, HeldInv, TicketRecvFails, GetRaises
  <2>3. Exclusive'
    BY <1>7 DEF Safe, TypeOK, HeldInv, Exclusive,
           TicketRecvFails, GetRaises
  <2> QED
    BY <2>1, <2>2, <2>3 DEF Safe
<1>8. CASE TicketDrop(cl)
  <2>1. TypeOK'
    BY <1>8 DEF Safe, TypeOK, HeldInv, Pcs, GetPcs, HoldPcs,
           TicketDrop, GetRaises, ReleaseConnection, ReleasedActive, ReleasedIdle
  <2>2. HeldInv'
    BY <1>8 DEF Safe, TypeOK, HeldInv, TicketDrop, GetRaises, ReleaseConnection, ReleasedActive, ReleasedIdle
  <2>3. Exclusive'
    BY <1>8 DEF Safe, TypeOK, HeldInv, Exclusive,
           TicketDrop, GetRaises, ReleaseConnection, ReleasedActive, ReleasedIdle
  <2> QED
    BY <2>1, <2>2, <2>3 DEF Safe
<1>9. CASE Adjust(cl)
  <2>1. TypeOK'
    BY <1>9 DEF Safe, TypeOK, HeldInv, Pcs, GetPcs, HoldPcs,
           Adjust, GetRaises, AdjustedTimeout
  <2>2. HeldInv'
    BY <1>9 DEF Safe, TypeOK, HeldInv, Adjust, GetRaises, AdjustedTimeout
  <2>3. Exclusive'
    BY <1>9 DEF Safe, TypeOK, HeldInv, Exclusive,
           Adjust, GetRaises, AdjustedTimeout
  <2> QED
    BY <2>1, <2>2, <2>3 DEF Safe
<1> QED
  BY <1>1, <1>2, <1>3, <1>4, <1>5, <1>6, <1>7, <1>8, <1>9 DEF GetStep

LEMMA UseStepSafe ==
  ASSUME Safe, NEW cl \in Clients, UseStep(cl)
  PROVE  Safe'
<1>1. CASE Request(cl)
  <2>1. TypeOK'
    BY <1>1 DEF Safe, TypeOK, HeldInv, Pcs, GetPcs, HoldPcs,
           Request
  <2>2. HeldInv'
    BY <1>1 DEF Safe, TypeOK, HeldInv, Request
  <2>3. Exclusive'
    BY <1>1 DEF Safe, TypeOK, HeldInv, Exclusive,
           Request
  <2> QED
    BY <2>1, <2>2, <2>3 DEF Safe
<1>2. CASE RequestFails(cl)
  <2>1. TypeOK'
    BY <1>2 DEF Safe, TypeOK, HeldInv, Pcs, GetPcs, HoldPcs,
           RequestFails
  <2>2. HeldInv'
    BY <1>2 DEF Safe, TypeOK, HeldInv, RequestFails
  <2>3. Exclusive'
    BY <1>2 DEF Safe, TypeOK, HeldInv, Exclusive,
           RequestFails
  <2> QED
    BY <2>1, <2>2, <2>3 DEF Safe
<1>3. CASE Recv(cl)
  <2>1. TypeOK'
    BY <1>3 DEF Safe, TypeOK, HeldInv, Pcs, GetPcs, HoldPcs,
           Recv, AfterRecv, ReplyReady
  <2>2. HeldInv'
    BY <1>3 DEF Safe, TypeOK, HeldInv, Recv, AfterRecv, ReplyReady
  <2>3. Exclusive'
    BY <1>3 DEF Safe, TypeOK, HeldInv, Exclusive,
           Recv, AfterRecv, ReplyReady
  <2> QED
    BY <2>1, <2>2, <2>3 DEF Safe
<1>4. CASE RecvFails(cl)
  <2>1. TypeOK'
    BY <1>4 DEF Safe, TypeOK, HeldInv, Pcs, GetPcs, HoldPcs,
           RecvFails, RecvFailed
  <2>2. HeldInv'
    BY <1>4 DEF Safe, TypeOK, HeldInv, RecvFails, RecvFailed
  <2>3. Exclusive'
    BY <1>4 DEF Safe, TypeOK, HeldInv, Exclusive,
           RecvFails, RecvFailed
  <2> QED
    BY <2>1, <2>2, <2>3 DEF Safe
<1>5. CASE Drop(cl)
  <2>1. TypeOK'
    BY <1>5 DEF Safe, TypeOK, HeldInv, Pcs, GetPcs, HoldPcs,
           Drop, Dropped, ReleaseConnection, ReleasedActive, ReleasedIdle
  <2>2. HeldInv'
    BY <1>5 DEF Safe, TypeOK, HeldInv, Drop, Dropped, ReleaseConnection, ReleasedActive, ReleasedIdle
  <2>3. Exclusive'
    BY <1>5 DEF Safe, TypeOK, HeldInv, Exclusive,
           Drop, Dropped, ReleaseConnection, ReleasedActive, ReleasedIdle
  <2> QED
    BY <2>1, <2>2, <2>3 DEF Safe
<1>6. CASE Retry(cl)
  <2>1. TypeOK'
    BY <1>6 DEF Safe, TypeOK, HeldInv, Pcs, GetPcs, HoldPcs,
           Retry
  <2>2. HeldInv'
    BY <1>6 DEF Safe, TypeOK, HeldInv, Retry
  <2>3. Exclusive'
    BY <1>6 DEF Safe, TypeOK, HeldInv, Exclusive,
           Retry
  <2> QED
    BY <2>1, <2>2, <2>3 DEF Safe
<1>7. CASE Leave(cl)
  <2>1. TypeOK'
    BY <1>7 DEF Safe, TypeOK, HeldInv, Pcs, GetPcs, HoldPcs,
           Leave, ReleaseConnection, ReleasedActive, ReleasedIdle, Leaving
  <2>2. HeldInv'
    BY <1>7 DEF Safe, TypeOK, HeldInv, Leave, ReleaseConnection, ReleasedActive, ReleasedIdle, Leaving
  <2>3. Exclusive'
    BY <1>7 DEF Safe, TypeOK, HeldInv, Exclusive,
           Leave, ReleaseConnection, ReleasedActive, ReleasedIdle, Leaving
  <2> QED
    BY <2>1, <2>2, <2>3 DEF Safe
<1>8. CASE Abandon(cl)
  <2>1. TypeOK'
    BY <1>8 DEF Safe, TypeOK, HeldInv, Pcs, GetPcs, HoldPcs,
           Abandon
  <2>2. HeldInv'
    BY <1>8 DEF Safe, TypeOK, HeldInv, Abandon
  <2>3. Exclusive'
    BY <1>8 DEF Safe, TypeOK, HeldInv, Exclusive,
           Abandon
  <2> QED
    BY <2>1, <2>2, <2>3 DEF Safe
<1>9. CASE KeepVersion(cl)
  <2>1. TypeOK'
    BY <1>9 DEF Safe, TypeOK, HeldInv, Pcs, GetPcs, HoldPcs,
           KeepVersion
  <2>2. HeldInv'
    BY <1>9 DEF Safe, TypeOK, HeldInv, KeepVersion
  <2>3. Exclusive'
    BY <1>9 DEF Safe, TypeOK, HeldInv, Exclusive,
           KeepVersion
  <2> QED
    BY <2>1, <2>2, <2>3 DEF Safe
<1> QED
  BY <1>1, <1>2, <1>3, <1>4, <1>5, <1>6, <1>7, <1>8, <1>9 DEF UseStep

\* The steps that move no connection.
Quiet ==
  \/ \E cl \in Clients : CallGet(cl)
  \/ \E c \in Conns : ServerReply(c) \/ GrowOld(c)
  \/ SupplyTicket
  \/ \E t \in Timeouts : SetTimeout(t)

LEMMA QuietSafe == ASSUME Safe, Quiet PROVE Safe'
<1>1. ASSUME NEW cl \in Clients, CallGet(cl) PROVE Safe'
  BY <1>1 DEF Safe, TypeOK, HeldInv, Exclusive, Pcs, CallGet
<1>2. ASSUME NEW c \in Conns, ServerReply(c) \/ GrowOld(c) PROVE Safe'
  BY <1>2 DEF Safe, TypeOK, HeldInv, Exclusive, ServerReply, GrowOld
<1>3. CASE SupplyTicket
  BY <1>3 DEF Safe, TypeOK, HeldInv, Exclusive, SupplyTicket
<1>4. ASSUME NEW t \in Timeouts, SetTimeout(t) PROVE Safe'
  <2>1. changed' \in [Clients -> BOOLEAN]
    BY <1>4 DEF Safe, TypeOK, SetTimeout
  <2> QED
    BY <1>4, <2>1 DEF Safe, TypeOK, HeldInv, Exclusive, SetTimeout
<1> QED
  BY <1>1, <1>2, <1>3, <1>4 DEF Quiet

LEMMA CleanupSafe ==
  ASSUME Safe, CleanupStep
  PROVE  Safe'
<1>1. CASE CleanupStart
  BY <1>1 DEF Safe, TypeOK, HeldInv, Exclusive,
         CleanupStart
<1>2. CASE CleanupDisconnect
  BY <1>2 DEF Safe, TypeOK, HeldInv, Exclusive,
         CleanupDisconnect
<1>3. CASE CleanupSendFailed
  BY <1>3 DEF Safe, TypeOK, HeldInv, Exclusive,
         CleanupSendFailed, ReleaseConnection, ReleasedActive, ReleasedIdle
<1>4. CASE CleanupRelease
  BY <1>4 DEF Safe, TypeOK, HeldInv, Exclusive,
         CleanupRelease, ReleaseConnection, ReleasedActive, ReleasedIdle
<1>5. CASE CleanupEnd
  BY <1>5, FlagsAssumption DEF Safe, TypeOK, HeldInv, Exclusive,
         CleanupEnd
<1> QED
  BY <1>1, <1>2, <1>3, <1>4, <1>5 DEF CleanupStep

LEMMA StutterSafe == ASSUME Safe, UNCHANGED vars PROVE Safe'
  BY DEF Safe, TypeOK, HeldInv, Exclusive, vars

LEMMA NextCases ==
  ASSUME Next
  PROVE  \/ \E cl \in Clients : TakeLock(cl) \/ GetStep(cl) \/ UseStep(cl)
         \/ Quiet \/ CleanupStep
  BY DEF Next, Quiet

LEMMA SpecSafe == Spec => []Safe
<1>1. Safe /\ [Next]_vars => Safe'
  BY NextCases, TakeLockSafe, GetStepSafe, UseStepSafe, QuietSafe, CleanupSafe,
     StutterSafe
<1> QED
  BY <1>1, InitSafe, PTL DEF Spec

(***************************************************************************)
(* Every variable keeps its type.                                          *)
(***************************************************************************)
THEOREM TypeCorrect == Spec => []TypeOK
  BY SpecSafe, PTL DEF Safe

(***************************************************************************)
(* Whatever the interleaving of clients, failures and cleanup(): no two    *)
(* clients have the same connection, and none that is in use is idle.      *)
(***************************************************************************)
THEOREM OneUser == Spec => []Exclusive
  BY SpecSafe, PTL DEF Safe

-----------------------------------------------------------------------------
(* Replies go to the request they answer *)

Clean == Safe /\ StreamInv /\ IdleClean

LEMMA InitClean == Init => StreamInv /\ IdleClean
  BY DEF Init, StreamInv, StreamAt, IdleClean

LEMMA TakeLockClean ==
  ASSUME Clean, "interrupt" \notin Faults, NEW cl \in Clients, TakeLock(cl)
  PROVE  StreamInv' /\ IdleClean'
<1>1. CASE PopIdle(cl)
  <2>1. ASSUME NEW o \in Clients, o # cl PROVE StreamAt(o)'
    BY <1>1, <2>1 DEF Clean, Safe, TypeOK, HeldInv, Exclusive, StreamInv, StreamAt,
       Unread, PopIdle, AfterPop
  <2>2. StreamAt(cl)'
    BY <1>1 DEF Clean, Safe, TypeOK, IdleClean, StreamAt, Unread, PopIdle, AfterPop
  <2>3. IdleClean'
    BY <1>1 DEF Clean, Safe, TypeOK, HeldInv, Exclusive, StreamInv, StreamAt, IdleClean,
       Unread, PopIdle, AfterPop
  <2> QED
    BY <2>1, <2>2, <2>3 DEF StreamInv
<1>2. CASE PopNothing(cl)
  <2>1. ASSUME NEW o \in Clients, o # cl PROVE StreamAt(o)'
    BY <1>2, <2>1 DEF Clean, Safe, TypeOK, HeldInv, Exclusive, StreamInv, StreamAt,
       Unread, PopNothing
  <2>2. StreamAt(cl)'
    BY <1>2 DEF Clean, Safe, TypeOK, HeldInv, StreamInv, StreamAt, Unread, InterruptFault,
       PopNothing
  <2>3. IdleClean'
    BY <1>2 DEF Clean, Safe, TypeOK, HeldInv, Exclusive, StreamInv, StreamAt, IdleClean,
       Unread, PopNothing
  <2> QED
    BY <2>1, <2>2, <2>3 DEF StreamInv
<1> QED
  BY <1>1, <1>2 DEF TakeLock

LEMMA GetStepClean ==
  ASSUME Clean, "interrupt" \notin Faults, NEW cl \in Clients, GetStep(cl)
  PROVE  StreamInv' /\ IdleClean'
<1>1. CASE RefreshDisconnect(cl)
  <2>1. ASSUME NEW o \in Clients, o # cl PROVE StreamAt(o)'
    BY <1>1, <2>1 DEF Clean, Safe, TypeOK, HeldInv, Exclusive, StreamInv, StreamAt,
       Unread, RefreshDisconnect, GetRaises
  <2>2. StreamAt(cl)'
    BY <1>1 DEF Clean, Safe, TypeOK, HeldInv, StreamInv, StreamAt, Unread, InterruptFault,
       RefreshDisconnect, GetRaises
  <2>3. IdleClean'
    BY <1>1 DEF Clean, Safe, TypeOK, HeldInv, Exclusive, StreamInv, StreamAt, IdleClean,
       Unread, RefreshDisconnect, GetRaises
  <2> QED
    BY <2>1, <2>2, <2>3 DEF StreamInv
<1>2. CASE Connect(cl)
  <2>1. ASSUME NEW o \in Clients, o # cl PROVE StreamAt(o)'
    BY <1>2, <2>1 DEF Clean, Safe, TypeOK, HeldInv, Exclusive, StreamInv, StreamAt,
       Unread, Connect, GetRaises, FreshConnection, Unreferenced, Held
  <2>2. StreamAt(cl)'
    BY <1>2 DEF Clean, Safe, TypeOK, HeldInv, StreamInv, StreamAt, Unread, InterruptFault,
       Connect, GetRaises, FreshConnection, Unreferenced, Held
  <2>3. IdleClean'
    BY <1>2 DEF Clean, Safe, TypeOK, HeldInv, Exclusive, StreamInv, StreamAt, IdleClean,
       Unread, Connect, GetRaises, FreshConnection, Unreferenced, Held
  <2> QED
    BY <2>1, <2>2, <2>3 DEF StreamInv
<1>3. CASE Login(cl)
  <2>1. ASSUME NEW o \in Clients, o # cl PROVE StreamAt(o)'
    BY <1>3, <2>1 DEF Clean, Safe, TypeOK, HeldInv, Exclusive, StreamInv, StreamAt,
       Unread, Login, GetRaises
  <2>2. StreamAt(cl)'
    BY <1>3 DEF Clean, Safe, TypeOK, HeldInv, StreamInv, StreamAt, Unread, InterruptFault,
       Login, GetRaises
  <2>3. IdleClean'
    BY <1>3 DEF Clean, Safe, TypeOK, HeldInv, Exclusive, StreamInv, StreamAt, IdleClean,
       Unread, Login, GetRaises
  <2> QED
    BY <2>1, <2>2, <2>3 DEF StreamInv
<1>4. CASE Add(cl)
  <2>1. ASSUME NEW o \in Clients, o # cl PROVE StreamAt(o)'
    BY <1>4, <2>1 DEF Clean, Safe, TypeOK, HeldInv, Exclusive, StreamInv, StreamAt,
       Unread, Add, NeedsTicket
  <2>2. StreamAt(cl)'
    BY <1>4 DEF Clean, Safe, TypeOK, HeldInv, StreamInv, StreamAt, Unread, InterruptFault,
       Add, NeedsTicket
  <2>3. IdleClean'
    BY <1>4 DEF Clean, Safe, TypeOK, HeldInv, Exclusive, StreamInv, StreamAt, IdleClean,
       Unread, Add, NeedsTicket
  <2> QED
    BY <2>1, <2>2, <2>3 DEF StreamInv
<1>5. CASE TicketSend(cl)
  <2>1. ASSUME NEW o \in Clients, o # cl PROVE StreamAt(o)'
    BY <1>5, <2>1 DEF Clean, Safe, TypeOK, HeldInv, Exclusive, StreamInv, StreamAt,
       Unread, TicketSend
  <2>2. StreamAt(cl)'
    BY <1>5 DEF Clean, Safe, TypeOK, HeldInv, StreamInv, StreamAt, Unread, InterruptFault,
       TicketSend
  <2>3. IdleClean'
    BY <1>5 DEF Clean, Safe, TypeOK, HeldInv, Exclusive, StreamInv, StreamAt, IdleClean,
       Unread, TicketSend
  <2> QED
    BY <2>1, <2>2, <2>3 DEF StreamInv
<1>6. CASE TicketRecv(cl)
  <2>1. ASSUME NEW o \in Clients, o # cl PROVE StreamAt(o)'
    BY <1>6, <2>1 DEF Clean, Safe, TypeOK, HeldInv, Exclusive, StreamInv, StreamAt,
       Unread, TicketRecv, GetRaises, ReplyReady
  <2>2. StreamAt(cl)'
    BY <1>6 DEF Clean, Safe, TypeOK, HeldInv, StreamInv, StreamAt, Unread, InterruptFault,
       TicketRecv, GetRaises, ReplyReady
  <2>3. IdleClean'
    BY <1>6 DEF Clean, Safe, TypeOK, HeldInv, Exclusive, StreamInv, StreamAt, IdleClean,
       Unread, TicketRecv, GetRaises, ReplyReady
  <2> QED
    BY <2>1, <2>2, <2>3 DEF StreamInv
<1>7. CASE TicketRecvFails(cl)
  <2>1. ASSUME NEW o \in Clients, o # cl PROVE StreamAt(o)'
    BY <1>7, <2>1 DEF Clean, Safe, TypeOK, HeldInv, Exclusive, StreamInv, StreamAt,
       Unread, TicketRecvFails, GetRaises
  <2>2. StreamAt(cl)'
    BY <1>7 DEF Clean, Safe, TypeOK, HeldInv, StreamInv, StreamAt, Unread, InterruptFault,
       TicketRecvFails, GetRaises
  <2>3. IdleClean'
    BY <1>7 DEF Clean, Safe, TypeOK, HeldInv, Exclusive, StreamInv, StreamAt, IdleClean,
       Unread, TicketRecvFails, GetRaises
  <2> QED
    BY <2>1, <2>2, <2>3 DEF StreamInv
<1>8. CASE TicketDrop(cl)
  <2>1. ASSUME NEW o \in Clients, o # cl PROVE StreamAt(o)'
    BY <1>8, <2>1 DEF Clean, Safe, TypeOK, HeldInv, Exclusive, StreamInv, StreamAt,
       Unread, TicketDrop, GetRaises, ReleaseConnection, ReleasedActive, ReleasedIdle
  <2>2. StreamAt(cl)'
    BY <1>8 DEF Clean, Safe, TypeOK, HeldInv, StreamInv, StreamAt, Unread, InterruptFault,
       TicketDrop, GetRaises, ReleaseConnection, ReleasedActive, ReleasedIdle
  <2>3. IdleClean'
    BY <1>8 DEF Clean, Safe, TypeOK, HeldInv, Exclusive, StreamInv, StreamAt, IdleClean,
       Unread, TicketDrop, GetRaises, ReleaseConnection, ReleasedActive, ReleasedIdle
  <2> QED
    BY <2>1, <2>2, <2>3 DEF StreamInv
<1>9. CASE Adjust(cl)
  <2>1. ASSUME NEW o \in Clients, o # cl PROVE StreamAt(o)'
    BY <1>9, <2>1 DEF Clean, Safe, TypeOK, HeldInv, Exclusive, StreamInv, StreamAt,
       Unread, Adjust, GetRaises, AdjustedTimeout
  <2>2. StreamAt(cl)'
    BY <1>9 DEF Clean, Safe, TypeOK, HeldInv, StreamInv, StreamAt, Unread, InterruptFault,
       Adjust, GetRaises, AdjustedTimeout
  <2>3. IdleClean'
    BY <1>9 DEF Clean, Safe, TypeOK, HeldInv, Exclusive, StreamInv, StreamAt, IdleClean,
       Unread, Adjust, GetRaises, AdjustedTimeout
  <2> QED
    BY <2>1, <2>2, <2>3 DEF StreamInv
<1> QED
  BY <1>1, <1>2, <1>3, <1>4, <1>5, <1>6, <1>7, <1>8, <1>9 DEF GetStep

LEMMA UseStepClean ==
  ASSUME Clean, "interrupt" \notin Faults, NEW cl \in Clients, UseStep(cl)
  PROVE  StreamInv' /\ IdleClean'
<1>1. CASE Request(cl)
  <2>1. ASSUME NEW o \in Clients, o # cl PROVE StreamAt(o)'
    BY <1>1, <2>1 DEF Clean, Safe, TypeOK, HeldInv, Exclusive, StreamInv, StreamAt,
       Unread, Request
  <2>2. StreamAt(cl)'
    BY <1>1 DEF Clean, Safe, TypeOK, HeldInv, StreamInv, StreamAt, Unread, InterruptFault,
       Request
  <2>3. IdleClean'
    BY <1>1 DEF Clean, Safe, TypeOK, HeldInv, Exclusive, StreamInv, StreamAt, IdleClean,
       Unread, Request
  <2> QED
    BY <2>1, <2>2, <2>3 DEF StreamInv
<1>2. CASE RequestFails(cl)
  <2>1. ASSUME NEW o \in Clients, o # cl PROVE StreamAt(o)'
    BY <1>2, <2>1 DEF Clean, Safe, TypeOK, HeldInv, Exclusive, StreamInv, StreamAt,
       Unread, RequestFails
  <2>2. StreamAt(cl)'
    BY <1>2 DEF Clean, Safe, TypeOK, HeldInv, StreamInv, StreamAt, Unread, InterruptFault,
       RequestFails
  <2>3. IdleClean'
    BY <1>2 DEF Clean, Safe, TypeOK, HeldInv, Exclusive, StreamInv, StreamAt, IdleClean,
       Unread, RequestFails
  <2> QED
    BY <2>1, <2>2, <2>3 DEF StreamInv
<1>3. CASE Recv(cl)
  <2>1. ASSUME NEW o \in Clients, o # cl PROVE StreamAt(o)'
    BY <1>3, <2>1 DEF Clean, Safe, TypeOK, HeldInv, Exclusive, StreamInv, StreamAt,
       Unread, Recv, AfterRecv, ReplyReady
  <2>2. StreamAt(cl)'
    BY <1>3 DEF Clean, Safe, TypeOK, HeldInv, StreamInv, StreamAt, Unread, InterruptFault,
       Recv, AfterRecv, ReplyReady
  <2>3. IdleClean'
    BY <1>3 DEF Clean, Safe, TypeOK, HeldInv, Exclusive, StreamInv, StreamAt, IdleClean,
       Unread, Recv, AfterRecv, ReplyReady
  <2> QED
    BY <2>1, <2>2, <2>3 DEF StreamInv
<1>4. CASE RecvFails(cl)
  <2>1. ASSUME NEW o \in Clients, o # cl PROVE StreamAt(o)'
    BY <1>4, <2>1 DEF Clean, Safe, TypeOK, HeldInv, Exclusive, StreamInv, StreamAt,
       Unread, RecvFails, RecvFailed
  <2>2. StreamAt(cl)'
    BY <1>4 DEF Clean, Safe, TypeOK, HeldInv, StreamInv, StreamAt, Unread, InterruptFault,
       RecvFails, RecvFailed
  <2>3. IdleClean'
    BY <1>4 DEF Clean, Safe, TypeOK, HeldInv, Exclusive, StreamInv, StreamAt, IdleClean,
       Unread, RecvFails, RecvFailed
  <2> QED
    BY <2>1, <2>2, <2>3 DEF StreamInv
<1>5. CASE Drop(cl)
  <2>1. ASSUME NEW o \in Clients, o # cl PROVE StreamAt(o)'
    BY <1>5, <2>1 DEF Clean, Safe, TypeOK, HeldInv, Exclusive, StreamInv, StreamAt,
       Unread, Drop, Dropped, ReleaseConnection, ReleasedActive, ReleasedIdle
  <2>2. StreamAt(cl)'
    BY <1>5 DEF Clean, Safe, TypeOK, HeldInv, StreamInv, StreamAt, Unread, InterruptFault,
       Drop, Dropped, ReleaseConnection, ReleasedActive, ReleasedIdle
  <2>3. IdleClean'
    BY <1>5 DEF Clean, Safe, TypeOK, HeldInv, Exclusive, StreamInv, StreamAt, IdleClean,
       Unread, Drop, Dropped, ReleaseConnection, ReleasedActive, ReleasedIdle
  <2> QED
    BY <2>1, <2>2, <2>3 DEF StreamInv
<1>6. CASE Retry(cl)
  <2>1. ASSUME NEW o \in Clients, o # cl PROVE StreamAt(o)'
    BY <1>6, <2>1 DEF Clean, Safe, TypeOK, HeldInv, Exclusive, StreamInv, StreamAt,
       Unread, Retry
  <2>2. StreamAt(cl)'
    BY <1>6 DEF Clean, Safe, TypeOK, HeldInv, StreamInv, StreamAt, Unread, InterruptFault,
       Retry
  <2>3. IdleClean'
    BY <1>6 DEF Clean, Safe, TypeOK, HeldInv, Exclusive, StreamInv, StreamAt, IdleClean,
       Unread, Retry
  <2> QED
    BY <2>1, <2>2, <2>3 DEF StreamInv
<1>7. CASE Leave(cl)
  <2>1. ASSUME NEW o \in Clients, o # cl PROVE StreamAt(o)'
    BY <1>7, <2>1 DEF Clean, Safe, TypeOK, HeldInv, Exclusive, StreamInv, StreamAt,
       Unread, Leave, ReleaseConnection, ReleasedActive, ReleasedIdle, Leaving
  <2>2. StreamAt(cl)'
    BY <1>7 DEF Clean, Safe, TypeOK, HeldInv, StreamInv, StreamAt, Unread, InterruptFault,
       Leave, ReleaseConnection, ReleasedActive, ReleasedIdle, Leaving
  <2>3. IdleClean'
    BY <1>7 DEF Clean, Safe, TypeOK, HeldInv, Exclusive, StreamInv, StreamAt, IdleClean,
       Unread, Leave, ReleaseConnection, ReleasedActive, ReleasedIdle, Leaving
  <2> QED
    BY <2>1, <2>2, <2>3 DEF StreamInv
<1>8. CASE Abandon(cl)
  <2>1. ASSUME NEW o \in Clients, o # cl PROVE StreamAt(o)'
    BY <1>8, <2>1 DEF Clean, Safe, TypeOK, HeldInv, Exclusive, StreamInv, StreamAt,
       Unread, Abandon
  <2>2. StreamAt(cl)'
    BY <1>8 DEF Clean, Safe, TypeOK, HeldInv, StreamInv, StreamAt, Unread, InterruptFault,
       Abandon
  <2>3. IdleClean'
    BY <1>8 DEF Clean, Safe, TypeOK, HeldInv, Exclusive, StreamInv, StreamAt, IdleClean,
       Unread, Abandon
  <2> QED
    BY <2>1, <2>2, <2>3 DEF StreamInv
<1>9. CASE KeepVersion(cl)
  <2>1. ASSUME NEW o \in Clients, o # cl PROVE StreamAt(o)'
    BY <1>9, <2>1 DEF Clean, Safe, TypeOK, HeldInv, Exclusive, StreamInv, StreamAt,
       Unread, KeepVersion
  <2>2. StreamAt(cl)'
    BY <1>9 DEF Clean, Safe, TypeOK, HeldInv, StreamInv, StreamAt, Unread, InterruptFault,
       KeepVersion
  <2>3. IdleClean'
    BY <1>9 DEF Clean, Safe, TypeOK, HeldInv, Exclusive, StreamInv, StreamAt, IdleClean,
       Unread, KeepVersion
  <2> QED
    BY <2>1, <2>2, <2>3 DEF StreamInv
<1> QED
  BY <1>1, <1>2, <1>3, <1>4, <1>5, <1>6, <1>7, <1>8, <1>9 DEF UseStep

LEMMA QuietClean == ASSUME Clean, Quiet PROVE StreamInv' /\ IdleClean'
<1>1. ASSUME NEW cl \in Clients, CallGet(cl) PROVE StreamInv' /\ IdleClean'
  BY <1>1 DEF Clean, Safe, TypeOK, StreamInv, StreamAt, IdleClean, Unread, CallGet
<1>2. ASSUME NEW c \in Conns, ServerReply(c) PROVE StreamInv' /\ IdleClean'
  <2>1. \A x \in Conns : Unread(x)' = Unread(x)
    BY <1>2 DEF Clean, Safe, TypeOK, Unread, ServerReply
  <2> QED
    BY <1>2, <2>1 DEF Clean, Safe, TypeOK, HeldInv, StreamInv, StreamAt, IdleClean, ServerReply
<1>3. ASSUME NEW c \in Conns, GrowOld(c) PROVE StreamInv' /\ IdleClean'
  BY <1>3 DEF Clean, StreamInv, StreamAt, IdleClean, Unread, GrowOld
<1>4. CASE SupplyTicket
  BY <1>4 DEF Clean, StreamInv, StreamAt, IdleClean, Unread, SupplyTicket
<1>5. ASSUME NEW t \in Timeouts, SetTimeout(t) PROVE StreamInv' /\ IdleClean'
  BY <1>5 DEF Clean, StreamInv, StreamAt, IdleClean, Unread, SetTimeout
<1> QED
  BY <1>1, <1>2, <1>3, <1>4, <1>5 DEF Quiet

LEMMA CleanupClean == ASSUME Clean, CleanupStep PROVE StreamInv' /\ IdleClean'
<1>1. CASE CleanupStart
  BY <1>1 DEF Clean, Safe, TypeOK, HeldInv, StreamInv, StreamAt, IdleClean, Unread,
     CleanupStart
<1>2. CASE CleanupDisconnect
  BY <1>2 DEF Clean, Safe, TypeOK, HeldInv, StreamInv, StreamAt, IdleClean, Unread,
     CleanupDisconnect
<1>3. CASE CleanupSendFailed
  BY <1>3 DEF Clean, Safe, TypeOK, HeldInv, StreamInv, StreamAt, IdleClean, Unread,
     CleanupSendFailed, ReleaseConnection, ReleasedActive, ReleasedIdle
<1>4. CASE CleanupRelease
  BY <1>4 DEF Clean, Safe, TypeOK, HeldInv, StreamInv, StreamAt, IdleClean, Unread,
     CleanupRelease, ReleaseConnection, ReleasedActive, ReleasedIdle
<1>5. CASE CleanupEnd
  BY <1>5 DEF Clean, Safe, TypeOK, HeldInv, StreamInv, StreamAt, IdleClean, Unread,
     CleanupEnd
<1> QED
  BY <1>1, <1>2, <1>3, <1>4, <1>5 DEF CleanupStep

LEMMA SpecClean == ASSUME "interrupt" \notin Faults PROVE Spec => []Clean
<1>1. Clean /\ [Next]_vars => Clean'
  <2> SUFFICES ASSUME Clean, [Next]_vars PROVE Clean'
    OBVIOUS
  <2>1. Safe'
    BY NextCases, TakeLockSafe, GetStepSafe, UseStepSafe, QuietSafe, CleanupSafe,
       StutterSafe DEF Clean
  <2>2. CASE Next
    BY <2>1, <2>2, NextCases, TakeLockClean, GetStepClean, UseStepClean, QuietClean,
       CleanupClean DEF Clean
  <2>3. CASE UNCHANGED vars
    BY <2>1, <2>3 DEF Clean, StreamInv, StreamAt, IdleClean, Unread, vars
  <2> QED
    BY <2>2, <2>3
<1>2. Init => Clean
  BY InitSafe, InitClean DEF Clean
<1> QED
  BY <1>1, <1>2, PTL DEF Spec

(***************************************************************************)
(* As long as nothing is thrown into a thread that waits for a reply, a    *)
(* connection that is given to the next client owes no reply, even when    *)
(* cleanup() runs beside the clients.                                      *)
(***************************************************************************)
THEOREM CleanWhenIdle ==
  ASSUME "interrupt" \notin Faults
  PROVE  Spec => []IdleClean
  BY SpecClean, PTL DEF Clean

(***************************************************************************)
(* Under the same assumption every client reads the reply to its own last  *)
(* request, but for a data object that is used after a NetworkException    *)
(* took its connection out of the pool.                                    *)
(***************************************************************************)
THEOREM RepliesMatch ==
  ASSUME "interrupt" \notin Faults
  PROVE  Spec => []OwnReply
<1>1. Clean => OwnReply
  BY DEF Clean, Safe, TypeOK, HeldInv, Exclusive, StreamInv, StreamAt, OwnReply
<1> QED
  BY <1>1, SpecClean, PTL

-----------------------------------------------------------------------------
(***************************************************************************)
(* What a client gets from the pool (the ticket, the timeout, a socket),   *)
(* what the pool keeps, and what cleanup() has disconnected.               *)
(*                                                                         *)
(* None of these properties is inductive.  Each has an invariant of its    *)
(* own that says what is already true on the way to it: at which point of  *)
(* get_connection the timeout is right, that the two sets of the pool      *)
(* never meet, that the lock keeps clients out of the window in which      *)
(* cleanup() has closed a connection and not removed it yet.               *)
(***************************************************************************)

\* The lock belongs to the client inside get_connection, and to nobody else.
LockInv == \A cl \in Clients : pc[cl] \in GetPcs <=> lock = cl

\* A connection is in one set of the pool at most, and the one a client is
\* about to add is not in active yet.
SetsInv ==
  /\ \A c \in active : c \notin idle
  /\ \A cl \in Clients :
       pc[cl] \in {"refresh", "login", "add"} => held[cl] \notin active

\* A new connection has the timeout from the start, an idle one once it was
\* adjusted; newConn tells the two apart for the owner of the lock.
TimeAt(cl) ==
  \/ changed[cl]
  \/ sockTimeout[held[cl]] = poolTimeout
  \/ /\ pc[cl] # "login" /\ pc[cl] \notin HoldPcs
     /\ ~newConn \/ pc[cl] \notin {"add", "ticket", "ticketWait", "adjust"}
TimeInv == \A cl \in Clients : TimeAt(cl)

\* A ticket is never taken back, and what passes the test of get_connection
\* has it applied.
TicketInv ==
  \A cl \in Clients :
    asked[cl] =>
      ticket /\ (pc[cl] \in HoldPcs \cup {"adjust"} => held[cl] \in applied)

\* The connections cleanup() is done with, and the one it is at.
VisitedInv ==
  /\ CleanedOut
  /\ \A cl \in Clients : held[cl] \in snap \ todo => pc[cl] \in HoldPcs
  /\ cpc \in {"sendFailed", "release"} => cur \in todo
  /\ cpc = "release" => cur \notin open

\* A client that raised can let go of its connection at any moment.
LeakInv ==
  /\ LeaksKnown
  /\ \A cl \in Clients :
       pc[cl] = "raised" /\ held[cl] \in active \cap open => held[cl] \in refused

\* Without cleanup() only disconnect() under the lock closes a socket.
OpenInv ==
  /\ cpc = "off" /\ snap = {}
  /\ active \cup idle \subseteq open
  /\ \A cl \in Clients : held[cl] # NoConn => held[cl] \in open
  /\ \A cl \in Clients :
       pc[cl] \in {"ticket", "ticketWait", "ticketDrop", "adjust"} => held[cl] \in active

\* What the steps below use of the type invariant.
Shape ==
  /\ active \subseteq Conns
  /\ pc \in [Clients -> Pcs]
  /\ held \in [Clients -> Conns \cup {NoConn}]
  /\ sockTimeout \in [Conns -> Timeouts] /\ poolTimeout \in Timeouts
  /\ snap \subseteq Conns /\ todo \subseteq snap
  /\ asked \in [Clients -> BOOLEAN] /\ changed \in [Clients -> BOOLEAN]

Kept == Shape /\ HeldInv /\ Exclusive

LEMMA SafeKept == Safe => Kept
  BY DEF Safe, TypeOK, Kept, Shape

LEMMA LockStep ==
  ASSUME Kept, Kept', LockInv, [Next]_vars
  PROVE  LockInv'
<1>1. ASSUME NEW cl \in Clients, TakeLock(cl) PROVE LockInv'
  BY <1>1 DEF TakeLock, PopIdle, AfterPop, PopNothing, Kept, Shape, LockInv,
         GetPcs
<1>2. ASSUME NEW cl \in Clients, GetStep(cl) PROVE LockInv'
  BY <1>2 DEF GetStep, RefreshDisconnect, GetRaises, Connect, Login, Add,
         TicketSend, TicketRecv, TicketRecvFails, TicketDrop,
         ReleaseConnection, ReleasedActive, ReleasedIdle, Adjust, Kept, Shape,
         LockInv, GetPcs
<1>3. ASSUME NEW cl \in Clients, UseStep(cl) PROVE LockInv'
  BY <1>3 DEF UseStep, Request, RequestFails, Recv, AfterRecv, RecvFails,
         RecvFailed, Drop, ReleaseConnection, ReleasedActive, ReleasedIdle,
         Retry, Leave, Leaving, Abandon, KeepVersion, Kept, Shape, LockInv, GetPcs
<1>4. CASE Quiet
  BY <1>4 DEF Quiet, CallGet, ServerReply, GrowOld, SupplyTicket, SetTimeout,
         Kept, Shape, LockInv, GetPcs
<1>5. CASE CleanupStep
  BY <1>5 DEF CleanupStep, CleanupStart, CleanupDisconnect, CleanupSendFailed,
         CleanupRelease, CleanupEnd, LockInv
<1>6. CASE UNCHANGED vars
  BY <1>6 DEF LockInv, vars
<1> QED
  BY <1>1, <1>2, <1>3, <1>4, <1>5, <1>6, NextCases

LEMMA SetsStep ==
  ASSUME Kept, Kept', SetsInv, [Next]_vars
  PROVE  SetsInv'
<1>1. ASSUME NEW cl \in Clients, TakeLock(cl) PROVE SetsInv'
  BY <1>1 DEF TakeLock, PopIdle, PopNothing, Kept, Shape, SetsInv
<1>2. ASSUME NEW cl \in Clients, GetStep(cl) PROVE SetsInv'
  BY <1>2 DEF GetStep, RefreshDisconnect, GetRaises, Connect, Unreferenced,
         Login, Add, TicketSend, TicketRecv, TicketRecvFails, TicketDrop,
         ReleaseConnection, ReleasedActive, ReleasedIdle, Adjust, Kept, Shape,
         Exclusive, SetsInv
<1>3. ASSUME NEW cl \in Clients, UseStep(cl) PROVE SetsInv'
  BY <1>3 DEF UseStep, Request, RequestFails, Recv, AfterRecv, RecvFails,
         RecvFailed, Drop, Dropped, ReleaseConnection, ReleasedActive,
         ReleasedIdle, Retry, Leave, Abandon, KeepVersion, Kept, Shape, SetsInv
<1>4. CASE Quiet
  BY <1>4 DEF Quiet, CallGet, ServerReply, GrowOld, SupplyTicket, SetTimeout,
         Kept, Shape, SetsInv
<1>5. CASE CleanupStep
  BY <1>5 DEF CleanupStep, CleanupStart, CleanupDisconnect, CleanupSendFailed,
         ReleaseConnection, ReleasedActive, ReleasedIdle, CleanupRelease,
         CleanupEnd, SetsInv
<1>6. CASE UNCHANGED vars
  BY <1>6 DEF SetsInv, vars
<1> QED
  BY <1>1, <1>2, <1>3, <1>4, <1>5, <1>6, NextCases

LEMMA TimeStep ==
  ASSUME Kept, Kept', TimeInv, LockInv, [Next]_vars
  PROVE  TimeInv'
<1>1. ASSUME NEW cl \in Clients, TakeLock(cl) PROVE TimeInv'
  BY <1>1 DEF TakeLock, PopIdle, AfterPop, PopNothing, Kept, Shape, TimeInv,
         TimeAt, HoldPcs
<1>2. ASSUME NEW cl \in Clients, GetStep(cl) PROVE TimeInv'
  BY <1>2 DEF GetStep, RefreshDisconnect, GetRaises, Connect, FreshConnection,
         Login, Add, TicketSend, TicketRecv, TicketRecvFails, TicketDrop,
         ReleaseConnection, ReleasedActive, ReleasedIdle, Adjust,
         AdjustedTimeout, Kept, Shape, HeldInv, TimeInv, TimeAt, LockInv,
         GetPcs, HoldPcs
<1>3. ASSUME NEW cl \in Clients, UseStep(cl) PROVE TimeInv'
  BY <1>3 DEF UseStep, Request, RequestFails, Recv, RecvFails, RecvFailed,
         Drop, ReleaseConnection, ReleasedActive, ReleasedIdle, Retry, Leave,
         Abandon, KeepVersion, Kept, Shape, TimeInv, TimeAt, HoldPcs
<1>4. CASE Quiet
  BY <1>4 DEF Quiet, CallGet, ServerReply, GrowOld, SupplyTicket, SetTimeout,
         Kept, Shape, TimeInv, TimeAt, HoldPcs
<1>5. CASE CleanupStep
  BY <1>5 DEF CleanupStep, CleanupStart, CleanupDisconnect, CleanupSendFailed,
         CleanupRelease, CleanupEnd, TimeInv, TimeAt
<1>6. CASE UNCHANGED vars
  BY <1>6 DEF TimeInv, TimeAt, vars
<1> QED
  BY <1>1, <1>2, <1>3, <1>4, <1>5, <1>6, NextCases

LEMMA TicketStep ==
  ASSUME Kept, Kept', TicketInv, [Next]_vars
  PROVE  TicketInv'
<1>1. ASSUME NEW cl \in Clients, TakeLock(cl) PROVE TicketInv'
  BY <1>1 DEF TakeLock, PopIdle, AfterPop, PopNothing, Kept, Shape, TicketInv,
         HoldPcs
<1>2. ASSUME NEW cl \in Clients, GetStep(cl) PROVE TicketInv'
  BY <1>2 DEF GetStep, RefreshDisconnect, GetRaises, Connect, FreshConnection,
         Unreferenced, Held, Login, Add, NeedsTicket, TicketSend, TicketRecv,
         TicketRecvFails, TicketDrop, ReleaseConnection, ReleasedActive,
         ReleasedIdle, Adjust, Kept, Shape, TicketInv, HoldPcs
<1>3. ASSUME NEW cl \in Clients, UseStep(cl) PROVE TicketInv'
  BY <1>3 DEF UseStep, Request, RequestFails, Recv, RecvFails, RecvFailed,
         Drop, ReleaseConnection, ReleasedActive, ReleasedIdle, Retry, Leave,
         Abandon, KeepVersion, Kept, Shape, TicketInv, HoldPcs
<1>4. CASE Quiet
  BY <1>4 DEF Quiet, CallGet, ServerReply, GrowOld, SupplyTicket, SetTimeout,
         Kept, Shape, TicketInv, HoldPcs
<1>5. CASE CleanupStep
  BY <1>5 DEF CleanupStep, CleanupStart, CleanupDisconnect, CleanupSendFailed,
         ReleaseConnection, ReleasedActive, ReleasedIdle, CleanupRelease,
         CleanupEnd, TicketInv
<1>6. CASE UNCHANGED vars
  BY <1>6 DEF TicketInv, vars
<1> QED
  BY <1>1, <1>2, <1>3, <1>4, <1>5, <1>6, NextCases

LEMMA VisitedStep ==
  ASSUME Kept, Kept', VisitedInv, LockInv, SetsInv, [Next]_vars
  PROVE  VisitedInv'
<1>1. ASSUME NEW cl \in Clients, TakeLock(cl) PROVE VisitedInv'
  BY <1>1 DEF TakeLock, PopIdle, PopNothing, Kept, Shape, HeldInv, VisitedInv,
         CleanedOut
<1>2. ASSUME NEW cl \in Clients, GetStep(cl) PROVE VisitedInv'
  BY <1>2 DEF GetStep, RefreshDisconnect, GetRaises, Connect, FreshConnection,
         Unreferenced, Login, Add, TicketSend, TicketRecv, TicketRecvFails,
         TicketDrop, ReleaseConnection, ReleasedActive, ReleasedIdle, Adjust,
         Kept, Shape, VisitedInv, CleanedOut, HoldPcs
<1>3. ASSUME NEW cl \in Clients, UseStep(cl) PROVE VisitedInv'
  BY <1>3 DEF UseStep, Request, RequestFails, Recv, AfterRecv, RecvFails,
         RecvFailed, Drop, Dropped, ReleaseConnection, ReleasedActive,
         ReleasedIdle, Retry, Leave, Abandon, KeepVersion, Kept, Shape, VisitedInv,
         CleanedOut, HoldPcs
<1>4. CASE Quiet
  BY <1>4 DEF Quiet, CallGet, ServerReply, GrowOld, SupplyTicket, SetTimeout,
         Kept, Shape, HeldInv, VisitedInv, CleanedOut
<1>5. CASE CleanupStep
  <2>1. CASE CleanupStart
    BY <2>1 DEF CleanupStart, VisitedInv, CleanedOut
  <2>2. CASE CleanupDisconnect
    BY <2>2 DEF CleanupDisconnect, VisitedInv, CleanedOut
  <2>3. CASE CleanupSendFailed
    BY <2>3 DEF CleanupSendFailed, ReleaseConnection, ReleasedActive,
           ReleasedIdle, VisitedInv, CleanedOut
  <2>4. CASE CleanupRelease
    <3>1. \A cl \in Clients : held[cl] = cur => pc[cl] \in HoldPcs
      BY <2>4 DEF CleanupRelease, Kept, Shape, HeldInv, VisitedInv, LockInv,
             Pcs
    <3>2. cur \in todo /\ cur \notin open
      BY <2>4 DEF CleanupRelease, VisitedInv
    <3>3. cur \notin active' \cup idle'
      BY <2>4 DEF CleanupRelease, ReleaseConnection, ReleasedActive,
             ReleasedIdle, SetsInv
    <3>4. active' \subseteq active /\ idle' \subseteq idle
      BY <2>4 DEF CleanupRelease, ReleaseConnection, ReleasedActive,
             ReleasedIdle
    <3> QED
      BY <2>4, <3>1, <3>2, <3>3, <3>4 DEF CleanupRelease, VisitedInv,
             CleanedOut
  <2>5. CASE CleanupEnd
    BY <2>5 DEF CleanupEnd, VisitedInv, CleanedOut
  <2> QED
    BY <1>5, <2>1, <2>2, <2>3, <2>4, <2>5 DEF CleanupStep
<1>6. CASE UNCHANGED vars
  BY <1>6 DEF VisitedInv, CleanedOut, vars
<1> QED
  BY <1>1, <1>2, <1>3, <1>4, <1>5, <1>6, NextCases

LEMMA LeakStep ==
  ASSUME Kept, Kept', LeakInv, SetsInv, "interrupt" \notin Faults, [Next]_vars
  PROVE  LeakInv'
<1>1. ASSUME NEW cl \in Clients, TakeLock(cl) PROVE LeakInv'
  <2>1. CASE PopIdle(cl)
    <3>1. ASSUME NEW c \in active \cap open, ~Held(c)' PROVE ~Held(c)
      BY <2>1, <3>1 DEF PopIdle, Kept, Shape, HeldInv, Held
    <3> QED
      BY <2>1, <3>1 DEF PopIdle, AfterPop, LeakInv, LeaksKnown
  <2>2. CASE PopNothing(cl)
    BY <2>2 DEF PopNothing, LeakInv, LeaksKnown, Held
  <2> QED
    BY <1>1, <2>1, <2>2 DEF TakeLock
<1>2. ASSUME NEW cl \in Clients, GetStep(cl) PROVE LeakInv'
  <2>1. CASE RefreshDisconnect(cl)
    BY <2>1 DEF RefreshDisconnect, GetRaises, Kept, Shape, LeakInv,
           LeaksKnown, Held
  <2>2. CASE Connect(cl)
    <3>1. ASSUME NEW c \in active \cap open, ~Held(c)' PROVE ~Held(c)
      BY <2>2, <3>1 DEF Connect, GetRaises, Kept, Shape, HeldInv, Held
    <3> QED
      BY <2>2, <3>1 DEF Connect, GetRaises, FreshConnection, Unreferenced,
             Kept, Shape, LeakInv, LeaksKnown
  <2>3. CASE Login(cl)
    BY <2>3 DEF Login, GetRaises, Kept, Shape, LeakInv, LeaksKnown, Held,
           SetsInv
  <2>4. CASE Add(cl)
    BY <2>4 DEF Add, Kept, Shape, Exclusive, LeakInv, LeaksKnown, Held
  <2>5. CASE TicketSend(cl)
    BY <2>5 DEF TicketSend, Kept, Shape, LeakInv, LeaksKnown, Held
  <2>6. CASE TicketRecv(cl)
    BY <2>6 DEF TicketRecv, GetRaises, Kept, Shape, Exclusive, LeakInv,
           LeaksKnown, Held
  <2>7. CASE TicketRecvFails(cl)
    BY <2>7 DEF TicketRecvFails, GetRaises, Kept, Shape, LeakInv,
           LeaksKnown, Held, InterruptFault
  <2>8. CASE TicketDrop(cl)
    BY <2>8 DEF TicketDrop, GetRaises, ReleaseConnection, ReleasedActive,
           LeakInv, LeaksKnown, Held
  <2>9. CASE Adjust(cl)
    BY <2>9 DEF Adjust, GetRaises, Kept, Shape, LeakInv, LeaksKnown, Held
  <2> QED
    BY <1>2, <2>1, <2>2, <2>3, <2>4, <2>5, <2>6, <2>7, <2>8, <2>9 DEF GetStep
<1>3. ASSUME NEW cl \in Clients, UseStep(cl) PROVE LeakInv'
  BY <1>3 DEF UseStep, Request, RequestFails, Recv, AfterRecv, RecvFails,
         RecvFailed, Drop, Dropped, ReleaseConnection, ReleasedActive,
         ReleasedIdle, Retry, Leave, Abandon, KeepVersion, Kept, Shape, Exclusive, LeakInv,
         LeaksKnown, Held, InterruptFault
<1>4. CASE Quiet
  BY <1>4 DEF Quiet, CallGet, ServerReply, GrowOld, SupplyTicket, SetTimeout,
         Kept, Shape, LeakInv, LeaksKnown, Held
<1>5. CASE CleanupStep
  BY <1>5 DEF CleanupStep, CleanupStart, CleanupDisconnect, CleanupSendFailed,
         ReleaseConnection, ReleasedActive, CleanupRelease, CleanupEnd,
         LeakInv, LeaksKnown, Held
<1>6. CASE UNCHANGED vars
  BY <1>6 DEF LeakInv, LeaksKnown, Held, vars
<1> QED
  BY <1>1, <1>2, <1>3, <1>4, <1>5, <1>6, NextCases

LEMMA OpenStep ==
  ASSUME Kept, Kept', OpenInv, SetsInv, ~UseCleanup, [Next]_vars
  PROVE  OpenInv'
<1>1. ASSUME NEW cl \in Clients, TakeLock(cl) PROVE OpenInv'
  BY <1>1 DEF TakeLock, PopIdle, AfterPop, PopNothing, Kept, Shape, OpenInv
<1>2. ASSUME NEW cl \in Clients, GetStep(cl) PROVE OpenInv'
  BY <1>2 DEF GetStep, RefreshDisconnect, GetRaises, Connect, FreshConnection,
         Login, Add, TicketSend, TicketRecv, TicketRecvFails, TicketDrop,
         ReleaseConnection, ReleasedActive, ReleasedIdle, Adjust, Kept, Shape,
         Exclusive, OpenInv, SetsInv
<1>3. ASSUME NEW cl \in Clients, UseStep(cl) PROVE OpenInv'
  BY <1>3 DEF UseStep, Request, RequestFails, Recv, AfterRecv, RecvFails,
         RecvFailed, Drop, Dropped, ReleaseConnection, ReleasedActive,
         ReleasedIdle, Retry, Leave, Abandon, KeepVersion, Kept, Shape, Exclusive, OpenInv
<1>4. CASE Quiet
  BY <1>4 DEF Quiet, CallGet, ServerReply, GrowOld, SupplyTicket, SetTimeout,
         Kept, Shape, OpenInv
<1>5. CASE CleanupStep
  BY <1>5 DEF CleanupStep, CleanupStart, CleanupDisconnect, CleanupSendFailed,
         CleanupRelease, CleanupEnd, OpenInv
<1>6. CASE UNCHANGED vars
  BY <1>6 DEF OpenInv, vars
<1> QED
  BY <1>1, <1>2, <1>3, <1>4, <1>5, <1>6, NextCases

-----------------------------------------------------------------------------
Served == Safe /\ LockInv /\ SetsInv /\ TimeInv /\ TicketInv /\ VisitedInv

LEMMA InitServed == Init => Served
<1>1. Init => LockInv /\ SetsInv /\ TimeInv /\ TicketInv
  BY DEF Init, LockInv, SetsInv, TimeInv, TimeAt, TicketInv, GetPcs, HoldPcs
<1>2. Init => VisitedInv
  BY DEF Init, VisitedInv, CleanedOut
<1> QED
  BY <1>1, <1>2, InitSafe DEF Served

LEMMA NextServed == ASSUME Served, [Next]_vars PROVE Served'
<1>1. Safe'
  BY NextCases, TakeLockSafe, GetStepSafe, UseStepSafe, QuietSafe, CleanupSafe,
     StutterSafe DEF Served
<1>2. Kept /\ Kept'
  BY <1>1, SafeKept DEF Served, Safe, TypeOK, Kept, Shape
<1> QED
  BY <1>1, <1>2, LockStep, SetsStep, TimeStep, TicketStep, VisitedStep DEF
         Served

LEMMA SpecServed == Spec => []Served
  BY InitServed, NextServed, PTL DEF Spec

(***************************************************************************)
(* Whatever else happens, the connection a client uses has the timeout the *)
(* pool had when the client asked, or a newer one.                         *)
(***************************************************************************)
THEOREM TimeoutHolds == Spec => []TimeoutCurrent
<1>1. Served => TimeoutCurrent
  BY DEF Served, TimeInv, TimeAt, TimeoutCurrent, HoldPcs
<1> QED
  BY <1>1, SpecServed, PTL

(***************************************************************************)
(* A client that asked when the session had a ticket only ever uses a      *)
(* connection on which the ticket was accepted.                            *)
(***************************************************************************)
THEOREM TicketHolds == Spec => []TicketBeforeUse
<1>1. Served => TicketBeforeUse
  BY DEF Served, TicketInv, TicketBeforeUse, HoldPcs
<1> QED
  BY <1>1, SpecServed, PTL

(***************************************************************************)
(* What cleanup() has visited stays disconnected and outside the pool,     *)
(* with any number of clients at work on the same connections.             *)
(***************************************************************************)
THEOREM CleanedOutHolds == Spec => []CleanedOut
<1>1. Served => CleanedOut
  BY DEF Served, VisitedInv
<1> QED
  BY <1>1, SpecServed, PTL

(***************************************************************************)
(* As long as nothing is thrown into a thread that waits for a reply, only *)
(* a refused request and a look-up of the version leave a connection in    *)
(* active that nobody uses.                                                *)
(***************************************************************************)
THEOREM LeakHolds ==
  ASSUME "interrupt" \notin Faults
  PROVE  Spec => []LeaksKnown
<1>1. Init => LeakInv
  BY DEF Init, LeakInv, LeaksKnown
<1>2. Served /\ Served' /\ LeakInv /\ [Next]_vars => LeakInv'
  <2> SUFFICES ASSUME Served, Served', LeakInv, [Next]_vars PROVE LeakInv'
    OBVIOUS
  <2>1. Kept /\ Kept' /\ SetsInv
    BY SafeKept DEF Served, Safe, TypeOK, Kept, Shape
  <2> QED
    BY <2>1, LeakStep
<1>3. LeakInv => LeaksKnown
  BY DEF LeakInv
<1> QED
  BY <1>1, <1>2, <1>3, SpecServed, PTL DEF Spec

\* What the pool holds when cleanup() is not used.
LEMMA SpecOpen == ASSUME ~UseCleanup PROVE Spec => []OpenInv
<1>1. Init => OpenInv
  BY DEF Init, OpenInv
<1>2. Served /\ Served' /\ OpenInv /\ [Next]_vars => OpenInv'
  <2> SUFFICES ASSUME Served, Served', OpenInv, [Next]_vars PROVE OpenInv'
    OBVIOUS
  <2>1. Kept /\ Kept' /\ SetsInv
    BY SafeKept DEF Served, Safe, TypeOK, Kept, Shape
  <2> QED
    BY <2>1, OpenStep
<1> QED
  BY <1>1, <1>2, SpecServed, PTL DEF Spec

(***************************************************************************)
(* Without cleanup(), and with nothing thrown into recv(), an idle         *)
(* connection has its socket and owes no reply.                            *)
(***************************************************************************)
THEOREM IdleUsableHolds ==
  ASSUME ~UseCleanup, "interrupt" \notin Faults
  PROVE  Spec => []IdleUsable
<1>1. OpenInv /\ IdleClean => IdleUsable
  BY DEF OpenInv, IdleClean, IdleUsable
<1> QED
  BY <1>1, SpecOpen, CleanWhenIdle, PTL

-----------------------------------------------------------------------------
(***************************************************************************)
(* ConnectionPool implements ConnectionLease: a proof of the refinement    *)
(* that the run "pool" checks on a small instance.                         *)
(*                                                                         *)
(* A step of a client moves the one connection it holds, pops or makes     *)
(* (Apart), so it is enough to see what the step is for this connection    *)
(* (MoveStep, LeaseStep).  LeaseOf chooses a client; that only one can be  *)
(* chosen is Exclusive, that a connection is given back with no reply owed *)
(* is StreamInv, that one which is lent owes none is IdleClean.            *)
(***************************************************************************)

\* One step as a connection sees it.
LeaseStep(c) ==
  \/ LeaseOf(c)' = LeaseOf(c) /\ Unread(c)' = Unread(c)
  \/ LeaseOf(c) = "gone" /\ LeaseOf(c)' \in Clients /\ Unread(c)' = 0
  \/ /\ LeaseOf(c) = "spare" /\ LeaseOf(c)' \in Clients
     /\ Unread(c) = 0 /\ Unread(c)' = Unread(c)
  \/ /\ LeaseOf(c) # "spare" /\ LeaseOf(c)' = LeaseOf(c)
     /\ Unread(c)' \in {Unread(c) - 1, Unread(c) + 1} /\ Unread(c)' >= 0
  \/ /\ LeaseOf(c) \in Clients /\ LeaseOf(c)' = "spare"
     /\ Unread(c) = 0 /\ Unread(c)' = Unread(c)
  \/ /\ LeaseOf(c) # "gone" /\ LeaseOf(c)' = "gone"
     /\ Unread(c)' \in {Unread(c), Unread(c) - 1}

\* A step of the lease changes one connection.
LEMMA OneConnection ==
  ASSUME NEW d \in Conns, LeaseStep(d), \A c \in Conns : Unread(c) \in Nat,
         \A c \in Conns : c # d => LeaseOf(c)' = LeaseOf(c) /\ Unread(c)' = Unread(c)
  PROVE  [Lease!Next]_Lease!vars
<1> DEFINE lse == [c \in Conns |-> LeaseOf(c)]
           owd == [c \in Conns |-> Unread(c)]
<1>1. /\ lse[d] = LeaseOf(d) /\ owd[d] = Unread(d)
      /\ lse' = [lse EXCEPT ![d] = LeaseOf(d)']
      /\ owd' = [owd EXCEPT ![d] = Unread(d)']
  OBVIOUS
<1>2. LeaseOf(d)' = LeaseOf(d) => lse' = lse
  BY <1>1
<1>3. Unread(d)' = Unread(d) => owd' = owd
  BY <1>1
<1> HIDE DEF lse, owd
<1> QED
  BY <1>1, <1>2, <1>3 DEF LeaseStep, Lease!Next, Lease!vars, Lease!Make,
     Lease!Lend, Lease!Exchange, Lease!GiveBack, Lease!GiveUp, lse, owd

\* What LeaseOf says of a connection that no other client has.
Status(cl, c) ==
  IF c \in idle THEN "spare" ELSE IF Leases(cl, c) THEN cl ELSE "gone"

\* A step of client cl moves connection c at most.
Apart(cl, d) ==
  /\ held[cl] \in {d, NoConn} /\ held'[cl] \in {d, NoConn}
  /\ \A o \in Clients : o # cl => held[o] # d /\ held'[o] = held[o] /\ pc'[o] = pc[o]
  /\ \A c \in Conns : c # d => (c \in active' <=> c \in active) /\ (c \in idle' <=> c \in idle)

LEMMA LeaseIs ==
  ASSUME Exclusive, NEW c \in Conns
  PROVE  /\ c \in idle => LeaseOf(c) = "spare"
         /\ \A cl \in Clients : Leases(cl, c) => LeaseOf(c) = cl
         /\ c \notin idle /\ (\A cl \in Clients : ~Leases(cl, c)) => LeaseOf(c) = "gone"
<1>1. ASSUME NEW cl \in Clients, Leases(cl, c) PROVE LeaseOf(c) = cl
  <2>1. \A o \in Clients : Leases(o, c) => o = cl
    BY <1>1 DEF Exclusive, Leases
  <2>2. c \notin idle
    BY <1>1 DEF Exclusive, Leases
  <2> QED
    BY <1>1, <2>1, <2>2 DEF LeaseOf
<1> QED
  BY <1>1 DEF LeaseOf

LEMMA LeaseIsNext ==
  ASSUME Exclusive', NEW c \in Conns
  PROVE  /\ c \in idle' => LeaseOf(c)' = "spare"
         /\ \A cl \in Clients : Leases(cl, c)' => LeaseOf(c)' = cl
         /\ c \notin idle' /\ (\A cl \in Clients : ~Leases(cl, c)') => LeaseOf(c)' = "gone"
<1>1. ASSUME NEW cl \in Clients, Leases(cl, c)' PROVE LeaseOf(c)' = cl
  <2>1. \A o \in Clients : Leases(o, c)' => o = cl
    BY <1>1 DEF Exclusive, Leases
  <2>2. c \notin idle'
    BY <1>1 DEF Exclusive, Leases
  <2> QED
    BY <1>1, <2>1, <2>2 DEF LeaseOf
<1> QED
  BY <1>1 DEF LeaseOf

LEMMA SameLease ==
  ASSUME Exclusive, Exclusive', NEW c \in Conns, c \in idle' <=> c \in idle,
         \A cl \in Clients : Leases(cl, c)' <=> Leases(cl, c)
  PROVE  LeaseOf(c)' = LeaseOf(c)
  BY LeaseIs, LeaseIsNext

LEMMA OneClient ==
  ASSUME Exclusive, Exclusive', NEW cl \in Clients, NEW d \in Conns, Apart(cl, d)
  PROVE  /\ LeaseOf(d) = Status(cl, d) /\ LeaseOf(d)' = Status(cl, d)'
         /\ \A c \in Conns : c # d => LeaseOf(c)' = LeaseOf(c)
<1>1. LeaseOf(d) = Status(cl, d)
  BY LeaseIs DEF Apart, Status, Leases
<1>2. LeaseOf(d)' = Status(cl, d)'
  BY LeaseIsNext DEF Apart, Status, Leases
<1>3. ASSUME NEW c \in Conns, c # d PROVE LeaseOf(c)' = LeaseOf(c)
  <2>1. \A o \in Clients : Leases(o, c)' <=> Leases(o, c)
    BY <1>3 DEF Apart, Leases
  <2> QED
    BY <1>3, <2>1, SameLease DEF Apart
<1> QED
  BY <1>1, <1>2, <1>3

\* What the steps below use of the type invariant, besides Shape.
Counters == idle \subseteq Conns /\ pend \in [Conns -> Nat] /\ inbox \in [Conns -> Nat]

LEMMA GetApart ==
  ASSUME Kept, NEW cl \in Clients, held[cl] \in Conns, GetStep(cl), pc[cl] # "connect"
  PROVE  Apart(cl, held[cl])
<1>1. /\ held' = held \/ held' = [held EXCEPT ![cl] = NoConn]
      /\ \E p \in Pcs : pc' = [pc EXCEPT ![cl] = p]
  BY DEF GetStep, RefreshDisconnect, GetRaises, Connect, Login, Add,
     TicketSend, TicketRecv, TicketRecvFails, TicketDrop, Adjust, Pcs, GetPcs,
     HoldPcs
<1>2. \A c \in Conns : c # held[cl] => (c \in active' <=> c \in active) /\ (c \in idle' <=> c \in idle)
  BY DEF GetStep, RefreshDisconnect, Connect, Login, Add, TicketSend,
     TicketRecv, TicketRecvFails, TicketDrop, ReleaseConnection,
     ReleasedActive, ReleasedIdle, Adjust
<1> QED
  BY <1>1, <1>2 DEF Kept, Shape, HeldInv, Exclusive, Apart

LEMMA GetUnread ==
  ASSUME Counters, NEW cl \in Clients, held[cl] \in Conns, GetStep(cl), pc[cl] # "connect"
  PROVE  \A c \in Conns : c # held[cl] => Unread(c)' = Unread(c)
  BY DEF GetStep, RefreshDisconnect, Connect, Login, Add, TicketSend,
     TicketRecv, TicketRecvFails, TicketDrop, Adjust, Counters, Unread

LEMMA UseApart ==
  ASSUME Kept, NEW cl \in Clients, held[cl] \in Conns, UseStep(cl)
  PROVE  Apart(cl, held[cl])
<1>1. /\ held' = held \/ held' = [held EXCEPT ![cl] = NoConn]
      /\ \E p \in Pcs : pc' = [pc EXCEPT ![cl] = p]
  BY DEF UseStep, Request, RequestFails, Recv, AfterRecv, RecvFails,
     RecvFailed, Drop, Retry, Leave, Abandon, KeepVersion, Pcs, GetPcs, HoldPcs
<1>2. \A c \in Conns : c # held[cl] => (c \in active' <=> c \in active) /\ (c \in idle' <=> c \in idle)
  BY DEF UseStep, Request, RequestFails, Recv, RecvFails, RecvFailed, Drop,
     Dropped, ReleaseConnection, ReleasedActive, ReleasedIdle, Retry, Leave,
     Abandon, KeepVersion
<1> QED
  BY <1>1, <1>2 DEF Kept, Shape, HeldInv, Exclusive, Apart

LEMMA UseUnread ==
  ASSUME Counters, NEW cl \in Clients, held[cl] \in Conns, UseStep(cl)
  PROVE  \A c \in Conns : c # held[cl] => Unread(c)' = Unread(c)
  BY DEF UseStep, Request, RequestFails, Recv, RecvFails, Drop, Retry, Leave,
     Abandon, KeepVersion, Counters, Unread

\* What a client does, as the connection it has sees it.
MoveStep(cl, d) ==
  \/ Status(cl, d)' = Status(cl, d) /\ Unread(d)' = Unread(d)
  \/ /\ Status(cl, d) # "spare" /\ Status(cl, d)' = Status(cl, d)
     /\ Unread(d)' \in {Unread(d) - 1, Unread(d) + 1} /\ Unread(d)' >= 0
  \/ /\ Status(cl, d) = cl /\ Status(cl, d)' = "spare"
     /\ Unread(d) = 0 /\ Unread(d)' = Unread(d)
  \/ /\ Status(cl, d) # "gone" /\ Status(cl, d)' = "gone"
     /\ Unread(d)' \in {Unread(d), Unread(d) - 1}

LEMMA HolderStatus ==
  ASSUME Kept, NEW cl \in Clients, held[cl] \in Conns
  PROVE  /\ Status(cl, held[cl]) \in {cl, "gone"} /\ cl \notin {"spare", "gone"}
         /\ pc[cl] \in GetPcs \/ held[cl] \in active => Status(cl, held[cl]) = cl
  BY LeaseNamesAssumption DEF Kept, Exclusive, Status, Leases

LEMMA GetMove ==
  ASSUME Kept, Counters, SetsInv, OpenInv, NEW cl \in Clients, NEW d \in Conns,
         held[cl] = d, GetStep(cl), pc[cl] # "connect"
  PROVE  MoveStep(cl, d)
<1>1. CASE RefreshDisconnect(cl)
  <2>1. Status(cl, d)' = "gone"
    BY <1>1 DEF RefreshDisconnect, GetRaises, SetsInv, Kept, Shape, Exclusive,
       Status, Leases
  <2>2. Unread(d)' = Unread(d)
    BY <1>1 DEF RefreshDisconnect, Unread
  <2> QED
    BY <2>1, <2>2, HolderStatus DEF MoveStep
<1>2. CASE Login(cl)
  <2>1. Status(cl, d)' = "gone" \/ Status(cl, d)' = Status(cl, d)
    BY <1>2 DEF Login, GetRaises, GetPcs, SetsInv, Kept, Shape, Exclusive,
       Status, Leases
  <2>2. Unread(d)' = Unread(d)
    BY <1>2 DEF Login, Unread
  <2> QED
    BY <2>1, <2>2, HolderStatus DEF MoveStep
<1>3. CASE Add(cl)
  <2>1. Status(cl, d)' = Status(cl, d)
    BY <1>3 DEF Add, GetPcs, SetsInv, Kept, Shape, Exclusive, Status, Leases
  <2>2. Unread(d)' = Unread(d)
    BY <1>3 DEF Add, Unread
  <2> QED
    BY <2>1, <2>2, HolderStatus DEF MoveStep
<1>4. CASE TicketSend(cl)
  <2>1. Status(cl, d)' = Status(cl, d)
    BY <1>4 DEF TicketSend, GetPcs, SetsInv, Kept, Shape, Exclusive, Status,
       Leases
  <2>2. \/ Unread(d)' = Unread(d)
        \/ Unread(d)' \in {Unread(d) - 1, Unread(d) + 1} /\ Unread(d)' >= 0
    BY <1>4 DEF TicketSend, Counters, Unread
  <2> QED
    BY <2>1, <2>2, HolderStatus DEF MoveStep
<1>5. CASE TicketRecv(cl)
  <2>1. Status(cl, d)' = "gone" \/ Status(cl, d)' = Status(cl, d)
    BY <1>5 DEF TicketRecv, GetRaises, GetPcs, Kept, Shape, Exclusive, Status,
       Leases
  <2>2. Unread(d)' = Unread(d) - 1 /\ Unread(d) \in Nat \ {0}
    BY <1>5 DEF TicketRecv, ReplyReady, Counters, Unread
  <2>3. Status(cl, d) = cl
    BY <1>5, HolderStatus DEF TicketRecv, GetPcs
  <2> QED
    BY <2>1, <2>2, <2>3, HolderStatus DEF MoveStep
<1>6. CASE TicketRecvFails(cl)
  <2>1. Status(cl, d)' = "gone" \/ Status(cl, d)' = Status(cl, d)
    BY <1>6 DEF TicketRecvFails, GetRaises, GetPcs, SetsInv, Kept, Shape,
       Exclusive, Status, Leases
  <2>2. Unread(d)' = Unread(d)
    BY <1>6 DEF TicketRecvFails, Unread
  <2> QED
    BY <2>1, <2>2, HolderStatus DEF MoveStep
<1>7. CASE TicketDrop(cl)
  <2>1. Status(cl, d)' = "gone"
    BY <1>7 DEF TicketDrop, GetRaises, GetPcs, SetsInv, ReleaseConnection,
       ReleasedActive, ReleasedIdle, Kept, Shape, Exclusive, Status, Leases
  <2>2. Unread(d)' = Unread(d)
    BY <1>7 DEF TicketDrop, Unread
  <2> QED
    BY <2>1, <2>2, HolderStatus DEF MoveStep
<1>8. CASE Adjust(cl)
  <2>1. Status(cl, d)' = "gone" \/ Status(cl, d)' = Status(cl, d)
    BY <1>8 DEF Adjust, GetRaises, GetPcs, HoldPcs, OpenInv, Kept, Shape,
       Exclusive, Status, Leases
  <2>2. Unread(d)' = Unread(d)
    BY <1>8 DEF Adjust, Unread
  <2> QED
    BY <2>1, <2>2, HolderStatus DEF MoveStep
<1> QED
  BY <1>1, <1>2, <1>3, <1>4, <1>5, <1>6, <1>7, <1>8 DEF GetStep, Connect

LEMMA UseMove ==
  ASSUME Kept, Counters, StreamInv, SetsInv, OpenInv, NEW cl \in Clients,
         NEW d \in Conns, held[cl] = d, UseStep(cl)
  PROVE  MoveStep(cl, d)
<1>1. CASE Request(cl)
  <2>1. Status(cl, d)' = Status(cl, d)
    BY <1>1 DEF Request, GetPcs, Kept, Shape, Exclusive, Status, Leases
  <2>2. Unread(d)' \in {Unread(d) - 1, Unread(d) + 1} /\ Unread(d)' >= 0
    BY <1>1 DEF Request, Counters, Unread
  <2> QED
    BY <2>1, <2>2, HolderStatus DEF MoveStep
<1>2. CASE RequestFails(cl)
  <2>1. Status(cl, d)' = Status(cl, d)
    BY <1>2 DEF RequestFails, GetPcs, Kept, Shape, Exclusive, Status, Leases
  <2>2. Unread(d)' = Unread(d)
    BY <1>2 DEF RequestFails, Unread
  <2> QED
    BY <2>1, <2>2, HolderStatus DEF MoveStep
<1>3. CASE Recv(cl)
  <2>1. Status(cl, d)' = Status(cl, d)
    BY <1>3 DEF Recv, AfterRecv, GetPcs, Kept, Shape, Exclusive, Status,
       Leases
  <2>2. Unread(d)' = Unread(d) - 1 /\ Unread(d) \in Nat \ {0}
    BY <1>3 DEF Recv, ReplyReady, Counters, Unread
  <2> QED
    BY <2>1, <2>2, HolderStatus DEF MoveStep
<1>4. CASE RecvFails(cl)
  <2>1. Status(cl, d)' = Status(cl, d)
    BY <1>4 DEF RecvFails, RecvFailed, GetPcs, Kept, Shape, Exclusive, Status,
       Leases
  <2>2. Unread(d)' = Unread(d)
    BY <1>4 DEF RecvFails, Unread
  <2> QED
    BY <2>1, <2>2, HolderStatus DEF MoveStep
<1>5. CASE Drop(cl)
  <2>1. Status(cl, d)' = "gone"
    BY <1>5 DEF Drop, Dropped, ReleaseConnection, ReleasedActive,
       ReleasedIdle, GetPcs, SetsInv, Kept, Shape, Exclusive, Status, Leases
  <2>2. Unread(d)' = Unread(d)
    BY <1>5 DEF Drop, Unread
  <2> QED
    BY <2>1, <2>2, HolderStatus DEF MoveStep
<1>6. CASE Retry(cl)
  <2>1. Status(cl, d)' = Status(cl, d)
    BY <1>6 DEF Retry, GetPcs, Kept, Shape, Exclusive, Status, Leases
  <2>2. Unread(d)' = Unread(d)
    BY <1>6 DEF Retry, Unread
  <2> QED
    BY <2>1, <2>2, HolderStatus DEF MoveStep
<1>7. CASE Leave(cl)
  <2>1. Unread(d)' = Unread(d)
    BY <1>7 DEF Leave, Unread
  <2>2. CASE d \in active
    <3>1. Unread(d) = 0
      BY <1>7, <2>2 DEF Leave, Leaving, StreamInv, StreamAt, OpenInv, Kept,
         HeldInv
    <3>2. Status(cl, d)' = "spare"
      BY <1>7, <2>2 DEF Leave, ReleaseConnection, ReleasedIdle, Status
    <3> QED
      BY <2>1, <2>2, <3>1, <3>2, HolderStatus DEF MoveStep
  <2>3. CASE d \notin active
    <3>1. Status(cl, d)' = "gone"
      BY <1>7, <2>3 DEF Leave, ReleaseConnection, ReleasedIdle, Kept, Shape,
         Exclusive, Status, Leases
    <3> QED
      BY <2>1, <3>1 DEF MoveStep
  <2> QED
    BY <2>2, <2>3
<1>8. CASE Abandon(cl)
  <2>1. Status(cl, d)' = "gone"
    BY <1>8 DEF Abandon, Kept, Shape, Exclusive, Status, Leases
  <2>2. Unread(d)' = Unread(d)
    BY <1>8 DEF Abandon, Unread
  <2> QED
    BY <2>1, <2>2, HolderStatus DEF MoveStep
<1>9. CASE KeepVersion(cl)
  <2>1. Status(cl, d)' = "gone"
    BY <1>9 DEF KeepVersion, Kept, Shape, Exclusive, Status, Leases
  <2>2. Unread(d)' = Unread(d)
    BY <1>9 DEF KeepVersion, Unread
  <2> QED
    BY <2>1, <2>2, HolderStatus DEF MoveStep
<1> QED
  BY <1>1, <1>2, <1>3, <1>4, <1>5, <1>6, <1>7, <1>8, <1>9 DEF UseStep

-----------------------------------------------------------------------------
(* Every step of the pool is a step of the lease, or none *)

LEMMA UnreadNat == ASSUME Counters PROVE \A c \in Conns : Unread(c) \in Nat
  BY DEF Counters, Unread

LEMMA NothingMoves ==
  ASSUME Exclusive, Exclusive',
         \A c \in Conns : (c \in idle' <=> c \in idle) /\ Unread(c)' = Unread(c),
         \A c \in Conns, cl \in Clients : Leases(cl, c)' <=> Leases(cl, c)
  PROVE  UNCHANGED Lease!vars
<1>1. \A c \in Conns : LeaseOf(c)' = LeaseOf(c)
  BY SameLease
<1> QED
  BY <1>1 DEF Lease!vars

LEMMA HeldMoves ==
  ASSUME Kept, Kept', Counters, NEW cl \in Clients, NEW d \in Conns, Apart(cl, d),
         MoveStep(cl, d), cl \notin {"spare", "gone"},
         \A c \in Conns : c # d => Unread(c)' = Unread(c)
  PROVE  [Lease!Next]_Lease!vars
<1>1. /\ LeaseOf(d) = Status(cl, d) /\ LeaseOf(d)' = Status(cl, d)'
      /\ \A c \in Conns : c # d => LeaseOf(c)' = LeaseOf(c)
  BY OneClient DEF Kept
<1>2. LeaseStep(d)
  BY <1>1 DEF MoveStep, LeaseStep
<1> QED
  BY <1>1, <1>2, OneConnection, UnreadNat

LEMMA TakeLockLease ==
  ASSUME Kept, Kept', Counters, IdleClean, OpenInv, NEW cl \in Clients, TakeLock(cl)
  PROVE  [Lease!Next]_Lease!vars
<1>1. CASE PopIdle(cl)
  <2>1. PICK d \in idle : /\ idle' = idle \ {d}
                          /\ held' = [held EXCEPT ![cl] = d]
                          /\ pc' = [pc EXCEPT ![cl] = AfterPop(d)]
    BY <1>1 DEF PopIdle
  <2>2. d \in Conns /\ d \in open /\ held[cl] = NoConn
    BY <1>1, <2>1 DEF PopIdle, Counters, OpenInv, Kept, HeldInv
  <2>3. Apart(cl, d) /\ \A c \in Conns : Unread(c)' = Unread(c)
    BY <1>1, <2>1, <2>2 DEF PopIdle, Kept, Shape, Exclusive, Apart, Unread
  <2>4. /\ LeaseOf(d) = Status(cl, d) /\ LeaseOf(d)' = Status(cl, d)'
        /\ \A c \in Conns : c # d => LeaseOf(c)' = LeaseOf(c)
    BY <2>2, <2>3, OneClient DEF Kept
  <2>5. Status(cl, d) = "spare" /\ Status(cl, d)' = cl
    BY <2>1, <2>2 DEF Status, Leases, AfterPop, GetPcs, Kept, Shape
  <2>6. Unread(d) = 0
    BY <2>1, <2>2 DEF IdleClean
  <2>7. LeaseStep(d)
    BY <2>2, <2>3, <2>4, <2>5, <2>6 DEF LeaseStep
  <2> QED
    BY <2>2, <2>3, <2>4, <2>7, OneConnection, UnreadNat
<1>2. CASE PopNothing(cl)
  <2>1. held[cl] = NoConn
    BY <1>2 DEF PopNothing, Kept, HeldInv
  <2>2. \A c \in Conns : (c \in idle' <=> c \in idle) /\ Unread(c)' = Unread(c)
    BY <1>2 DEF PopNothing, Unread
  <2>3. \A c \in Conns, o \in Clients : Leases(o, c)' <=> Leases(o, c)
    BY <1>2, <2>1 DEF PopNothing, Leases, Kept, Shape
  <2> QED
    BY <2>2, <2>3, NothingMoves DEF Kept
<1> QED
  BY <1>1, <1>2 DEF TakeLock

LEMMA ConnectLease ==
  ASSUME Kept, Kept', Counters, NEW cl \in Clients, Connect(cl)
  PROVE  [Lease!Next]_Lease!vars
<1>1. held[cl] = NoConn /\ pc[cl] = "connect"
  BY DEF Connect, Kept, HeldInv
<1>2. ASSUME NEW d \in Conns, Unreferenced(d), FreshConnection(d),
             held' = [held EXCEPT ![cl] = d], pc' = [pc EXCEPT ![cl] = "login"]
      PROVE  [Lease!Next]_Lease!vars
  <2>1. Apart(cl, d)
    BY <1>1, <1>2 DEF Connect, Unreferenced, Held, Kept, Shape, Apart
  <2>2. Unread(d)' = 0 /\ \A c \in Conns : c # d => Unread(c)' = Unread(c)
    BY <1>2 DEF FreshConnection, Counters, Unread
  <2>3. /\ LeaseOf(d) = Status(cl, d) /\ LeaseOf(d)' = Status(cl, d)'
        /\ \A c \in Conns : c # d => LeaseOf(c)' = LeaseOf(c)
    BY <2>1, OneClient DEF Kept
  <2>4. Status(cl, d) = "gone" /\ Status(cl, d)' = cl
    BY <1>1, <1>2 DEF Connect, Unreferenced, Held, Status, Leases, GetPcs,
       Kept, Shape
  <2>5. LeaseStep(d)
    BY <2>2, <2>3, <2>4 DEF LeaseStep
  <2> QED
    BY <2>2, <2>3, <2>5, OneConnection, UnreadNat
<1>3. CASE GetRaises(cl) /\ UNCHANGED <<streamVars, applied, sockTimeout, stale>>
  <2>1. \A c \in Conns : (c \in idle' <=> c \in idle) /\ Unread(c)' = Unread(c)
    BY <1>3 DEF Connect, Unread
  <2>2. \A c \in Conns, o \in Clients : Leases(o, c)' <=> Leases(o, c)
    BY <1>1, <1>3 DEF Connect, GetRaises, Leases, Kept, Shape
  <2> QED
    BY <2>1, <2>2, NothingMoves DEF Kept
<1> QED
  BY <1>2, <1>3 DEF Connect

LEMMA ClientLease ==
  ASSUME Kept, Kept', Counters, StreamInv, SetsInv, OpenInv, NEW cl \in Clients,
         GetStep(cl) \/ UseStep(cl)
  PROVE  [Lease!Next]_Lease!vars
<1>1. CASE pc[cl] = "connect"
  BY <1>1, ConnectLease DEF GetStep, UseStep, RefreshDisconnect, Login, Add,
     TicketSend, TicketRecv, TicketRecvFails, TicketDrop, Adjust, Request,
     RequestFails, Recv, RecvFails, Drop, Retry, Leave, Leaving, Abandon, KeepVersion
<1>2. CASE pc[cl] # "connect"
  <2>1. pc[cl] \notin {"out", "enter", "connect", "known"}
    BY <1>2 DEF GetStep, Connect, UseStep, RefreshDisconnect, Login, Add,
       TicketSend, TicketRecv, TicketRecvFails, TicketDrop, Adjust, Request,
       RequestFails, Recv, RecvFails, Drop, Retry, Leave, Leaving, Abandon, KeepVersion
  <2>2. PICK d \in Conns : held[cl] = d
    BY <2>1 DEF Kept, HeldInv
  <2>3. Apart(cl, d) /\ \A c \in Conns : c # d => Unread(c)' = Unread(c)
    BY <1>2, <2>2, GetApart, GetUnread, UseApart, UseUnread
  <2>4. MoveStep(cl, d)
    BY <1>2, <2>2, GetMove, UseMove
  <2> QED
    BY <2>2, <2>3, <2>4, HolderStatus, HeldMoves
<1> QED
  BY <1>1, <1>2

LEMMA QuietLease ==
  ASSUME Kept, Kept', Counters, Quiet
  PROVE  UNCHANGED Lease!vars
<1>1. idle' = idle /\ active' = active /\ held' = held
  BY DEF Quiet, CallGet, ServerReply, GrowOld, SupplyTicket, SetTimeout
<1>2. \A c \in Conns : Unread(c)' = Unread(c)
  BY DEF Quiet, CallGet, ServerReply, GrowOld, SupplyTicket, SetTimeout,
     Counters, Unread
<1>3. \A cl \in Clients : pc'[cl] \in GetPcs <=> pc[cl] \in GetPcs
  BY DEF Quiet, CallGet, ServerReply, GrowOld, SupplyTicket, SetTimeout, Kept,
     Shape, GetPcs
<1>4. \A c \in Conns, cl \in Clients : Leases(cl, c)' <=> Leases(cl, c)
  BY <1>1, <1>3 DEF Leases
<1> QED
  BY <1>1, <1>2, <1>4, NothingMoves DEF Kept

LEMMA NextLease ==
  ASSUME Kept, Kept', Counters, StreamInv, IdleClean, SetsInv, OpenInv, ~UseCleanup, [Next]_vars
  PROVE  [Lease!Next]_Lease!vars
<1>1. ~CleanupStep
  BY DEF CleanupStep, CleanupStart, CleanupDisconnect, CleanupSendFailed,
     CleanupRelease, CleanupEnd, OpenInv
<1>2. CASE UNCHANGED vars
  BY <1>2, NothingMoves DEF vars, Leases, Unread, Kept
<1>3. CASE Next
  BY <1>1, <1>3, NextCases, TakeLockLease, ClientLease, QuietLease
<1> QED
  BY <1>2, <1>3

(***************************************************************************)
(* Without cleanup(), and with nothing thrown into recv(), the pool lends  *)
(* connections as ConnectionLease says, for any number of clients and      *)
(* connections.                                                            *)
(***************************************************************************)
THEOREM Refinement ==
  ASSUME ~UseCleanup, "interrupt" \notin Faults
  PROVE  Spec => ImplementsLease
<1>1. Init => Lease!Init
  BY DEF Init, Lease!Init, LeaseOf, Leases, Unread
<1>2. Clean /\ Clean' /\ Served /\ OpenInv /\ [Next]_vars => [Lease!Next]_Lease!vars
  <2> SUFFICES ASSUME Clean, Clean', Served, OpenInv, [Next]_vars
               PROVE  [Lease!Next]_Lease!vars
    OBVIOUS
  <2>1. Kept /\ Counters /\ StreamInv /\ IdleClean /\ SetsInv
    BY SafeKept DEF Clean, Served, Safe, TypeOK, Counters
  <2>2. Kept'
    BY DEF Clean, Safe, TypeOK, Kept, Shape
  <2> QED
    BY <2>1, <2>2, NextLease
<1> QED
  BY <1>1, <1>2, SpecClean, SpecServed, SpecOpen, PTL DEF Spec,
     ImplementsLease, Lease!Spec
=============================================================================
