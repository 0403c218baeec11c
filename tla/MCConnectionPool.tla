-------------------------- MODULE MCConnectionPool --------------------------
(* ConnectionPool, with its refinement mapping, on a small instance.         *)
EXTENDS ConnectionPoolLease, TLC

(***************************************************************************)
(* A connection nothing refers to is gone: what its object was like makes  *)
(* no difference, so states that differ in that alone are explored once.   *)
(***************************************************************************)
Live == {c \in Conns : ~Unreferenced(c)}
LiveView ==
  <<active, idle, lock, pc, held, newConn, open \cap Live, refused \cap Live,
    stale \cap Live, applied \cap Live, [c \in Live |-> <<pend[c], inbox[c]>>],
    [c \in Live |-> sockTimeout[c]], ticket, poolTimeout, cleanVars, asked, changed,
    looked \cap Live>>

Symmetry == Permutations(Conns)
=============================================================================
