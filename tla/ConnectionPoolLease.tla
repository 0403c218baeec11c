------------------------- MODULE ConnectionPoolLease -------------------------
(* The refinement mapping from the pool to the lease it promises.            *)
EXTENDS ConnectionPool

ASSUME LeaseNamesAssumption == {"spare", "gone"} \cap Clients = {}

(***************************************************************************)
(* The lease of a connection: its user is the client that holds it, as     *)
(* long as the pool does not count it as given up.  The steps of           *)
(* get_connection before active.add belong to the lease.                   *)
(***************************************************************************)
Leases(cl, c) == held[cl] = c /\ (c \in active \/ pc[cl] \in GetPcs)

LeaseOf(c) ==
  IF c \in idle THEN "spare"
  ELSE IF \E cl \in Clients : Leases(cl, c)
  THEN CHOOSE cl \in Clients : Leases(cl, c)
  ELSE "gone"

Lease == INSTANCE ConnectionLease
  WITH lease <- [c \in Conns |-> LeaseOf(c)], owed <- [c \in Conns |-> Unread(c)]

(***************************************************************************)
(* The pool implements the lease contract: see ConnectionLease.            *)
(***************************************************************************)
ImplementsLease == Lease!Spec
=============================================================================
