--------------------------- MODULE ConnectionLease --------------------------
(***************************************************************************)
(* What the pool promises, without locks, tickets or failures: a           *)
(* connection is lent to one client at a time, and only while no reply is  *)
(* owed on it; one that is given up is never lent again.                   *)
(***************************************************************************)
EXTENDS Integers

CONSTANTS Clients, Conns

VARIABLES
  lease,   \* "spare", the client it is lent to, or "gone"
  owed     \* replies that have not been read

vars == <<lease, owed>>

Init == lease = [c \in Conns |-> "gone"] /\ owed = [c \in Conns |-> 0]

\* A new connection is made for a client.
Make(c, cl) ==
  /\ lease[c] = "gone"
  /\ lease' = [lease EXCEPT ![c] = cl]
  /\ owed' = [owed EXCEPT ![c] = 0]

Lend(c, cl) ==
  /\ lease[c] = "spare" /\ owed[c] = 0
  /\ lease' = [lease EXCEPT ![c] = cl]
  /\ UNCHANGED owed

\* Its client, or the server that answers it; one that is given up too.
Exchange(c) ==
  /\ lease[c] # "spare"
  /\ \E n \in {owed[c] - 1, owed[c] + 1} : n >= 0 /\ owed' = [owed EXCEPT ![c] = n]
  /\ UNCHANGED lease

GiveBack(c) ==
  /\ lease[c] \in Clients /\ owed[c] = 0
  /\ lease' = [lease EXCEPT ![c] = "spare"]
  /\ UNCHANGED owed

GiveUp(c) ==
  /\ lease[c] # "gone"
  /\ lease' = [lease EXCEPT ![c] = "gone"]
  /\ owed' \in {owed, [owed EXCEPT ![c] = owed[c] - 1]}

Next ==
  \E c \in Conns :
    \/ \E cl \in Clients : Make(c, cl) \/ Lend(c, cl)
    \/ Exchange(c) \/ GiveBack(c) \/ GiveUp(c)

Spec == Init /\ [][Next]_vars
=============================================================================
