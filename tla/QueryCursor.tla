---------------------------- MODULE QueryCursor ----------------------------
(***************************************************************************)
(* GenQuery of one session (query.py): execute, all, one, first, and the   *)
(* batches an iteration fetches.  A server agent, one per connection,      *)
(* keeps an open cursor for a query whose rows did not fit in one answer;  *)
(* the client must fetch on or close it through the same connection, but   *)
(* asks the pool for any connection each time.                             *)
(***************************************************************************)
EXTENDS Naturals, Sequences, SequencesExt, FiniteSets, FiniteSetsExt

CONSTANTS Askers,     \* threads that query
          Agents,     \* bound: connections the session may make
          TotalRows,  \* rows each query selects
          BatchSize   \* IRODS_QUERY_LIMIT

ASSUME QueryAssumption ==
  /\ TotalRows \in Nat /\ BatchSize \in Nat \ {0}
  /\ "none" \notin Askers /\ "none" \notin Agents

Ways == {"batches", "all", "one", "first", "specific"}
NoCursor == [by |-> "none", at |-> 0]

VARIABLES
  idleAgents,  \* Pool.idle
  made,        \* connections made so far
  cursors,     \* agent -> index -> the asker whose query it is, and its next row
  way,         \* how each asker asks
  qpc,         \* "idle", "first", "next", "close", "yielded", "ended" or "raised"
  lent,        \* the connection of a request that is under way, or "none"
  cont,        \* continue_index of the last result set
  rows,        \* rows handed to the caller
  home,        \* history: the connection the query began on
  astray       \* history: a request of the query went to another connection

askVars == <<way, qpc, cont, rows>>
queryVars == <<idleAgents, made, cursors, askVars, lent, home, astray>>
Indexes == 1..Cardinality(Askers)

QueryInit ==
  /\ idleAgents = {} /\ made = {}
  /\ cursors = [a \in Agents |-> [i \in Indexes |-> NoCursor]]
  /\ way \in [Askers -> Ways] /\ qpc = [q \in Askers |-> "idle"]
  /\ lent = [q \in Askers |-> "none"] /\ cont = [q \in Askers |-> 0]
  /\ rows = [q \in Askers |-> <<>>]
  /\ home = [q \in Askers |-> "none"] /\ astray = [q \in Askers |-> FALSE]

QGoto(q, p) == qpc' = [qpc EXCEPT ![q] = p]

-----------------------------------------------------------------------------
(* The agent: what it answers, and the cursors it has afterwards. *)

MaxRows(q) == IF way[q] = "first" THEN 1 ELSE BatchSize
Answer(q, from, n, index) == [rows |-> [i \in 1..n |-> from + i], index |-> index]

(* New rows from a position; a cursor stays if rows remain. *)
Fetch(q, agent, from, index, owner) ==
  LET n == Min({MaxRows(q), TotalRows - from})
      more == from + n < TotalRows
  IN [reply |-> Answer(q, from, n, IF more THEN index ELSE 0),
      cursors |-> [cursors EXCEPT ![agent][index] =
                     IF more THEN [by |-> owner, at |-> from + n] ELSE NoCursor]]

(* An agent has as many indexes as there are askers here: a bound. *)
FreeIndex(agent) == CHOOSE i \in Indexes : cursors[agent][i] = NoCursor
HasFree(agent) == \E i \in Indexes : cursors[agent][i] = NoCursor

-----------------------------------------------------------------------------
(* The client *)

StartQuery(q) ==
  /\ qpc[q] = "idle"
  /\ QGoto(q, "first")
  /\ UNCHANGED <<idleAgents, made, cursors, way, cont, rows, lent, home, astray>>

(* get_connection of execute: idle.pop() takes any; if there is none, a new  *)
(* connection, which has an agent of its own.                              *)
Asking == {"first", "next", "close"}
Candidates == IF idleAgents # {} THEN idleAgents ELSE Agents \ made

Lend(q) ==
  /\ qpc[q] \in Asking /\ lent[q] = "none"
  /\ \E a \in Candidates :
       /\ lent' = [lent EXCEPT ![q] = a] /\ idleAgents' = idleAgents \ {a} /\ made' = made \cup {a}
       /\ home' = IF home[q] = "none" THEN [home EXCEPT ![q] = a] ELSE home
       /\ astray' = [astray EXCEPT ![q] = @ \/ (home[q] # "none" /\ a # home[q])]
  /\ UNCHANGED <<cursors, askVars>>

Release(q) ==
  /\ lent' = [lent EXCEPT ![q] = "none"]
  /\ idleAgents' = idleAgents \cup {lent[q]}
  /\ UNCHANGED <<made, way, home, astray>>

(* A mutation of Handed. *)
Handed_LastDropped(q, batch) ==
  /\ rows' = IF batch.index = 0 THEN rows ELSE [rows EXCEPT ![q] = @ \o batch.rows]
  /\ cont' = [cont EXCEPT ![q] = batch.index]
  /\ QGoto(q, IF batch.index = 0 THEN "ended"
              ELSE IF way[q] \in {"batches", "specific"} THEN "yielded" ELSE "close")

(***************************************************************************)
(* What the caller does with a result set: an iteration yields it; all()   *)
(* and its like close the cursor, if there is one, and return.             *)
(***************************************************************************)
Handed(q, batch) ==
  /\ rows' = [rows EXCEPT ![q] = @ \o batch.rows]
  /\ cont' = [cont EXCEPT ![q] = batch.index]
  /\ QGoto(q, IF way[q] \in {"batches", "specific"} THEN "yielded"
              ELSE IF batch.index > 0 THEN "close" ELSE "ended")

(* No rows at all is CAT_NO_ROWS_FOUND, which execute turns into no rows. *)
FirstBatch(q) ==
  /\ qpc[q] = "first" /\ lent[q] # "none" /\ HasFree(lent[q])
  /\ LET f == Fetch(q, lent[q], 0, FreeIndex(lent[q]), q) IN
     cursors' = f.cursors /\ Handed(q, f.reply)
  /\ Release(q)

(***************************************************************************)
(* The continuation names an index; whose cursor this is on the agent that *)
(* is asked is not looked at.  Without one there the agent reports an      *)
(* error, and so does a close.                                             *)
(***************************************************************************)
Asked(q) == cursors[lent[q]][cont[q]]

NextBatch(q) ==
  /\ qpc[q] = "next" /\ lent[q] # "none" /\ Asked(q) # NoCursor
  /\ LET f == Fetch(q, lent[q], Asked(q).at, cont[q], Asked(q).by) IN
     cursors' = f.cursors /\ Handed(q, f.reply)
  /\ Release(q)

CloseCursor(q) ==
  /\ qpc[q] = "close" /\ lent[q] # "none" /\ Asked(q) # NoCursor
  /\ cursors' = [cursors EXCEPT ![lent[q]][cont[q]] = NoCursor]
  /\ QGoto(q, "ended") /\ Release(q)
  /\ UNCHANGED <<cont, rows>>

CursorUnknown(q) ==
  /\ qpc[q] \in {"next", "close"} /\ lent[q] # "none" /\ Asked(q) = NoCursor
  /\ QGoto(q, "raised") /\ Release(q)
  /\ UNCHANGED <<cursors, cont, rows>>

(* A network error: recv() disconnects, and the agent ends with its cursors. *)
RequestBreaks(q) ==
  /\ qpc[q] \in Asking /\ lent[q] # "none"
  /\ cursors' = [cursors EXCEPT ![lent[q]] = [i \in Indexes |-> NoCursor]]
  /\ lent' = [lent EXCEPT ![q] = "none"]
  /\ QGoto(q, "raised")
  /\ UNCHANGED <<idleAgents, made, way, cont, rows, home, astray>>

(* The caller of an iteration asks for more ... *)
Resume(q) ==
  /\ qpc[q] = "yielded"
  /\ QGoto(q, IF cont[q] > 0 THEN "next" ELSE "ended")
  /\ UNCHANGED <<idleAgents, made, cursors, way, cont, rows, lent, home, astray>>

(* A mutation of ClosesOnExit. *)
ClosesOnExit_Never(q) == FALSE

(* ... or drops it: GeneratorExit closes the cursor, but a SpecificQuery   *)
(* has no such clause.                                                     *)
ClosesOnExit(q) == way[q] = "batches"

Abandon(q) ==
  /\ qpc[q] = "yielded"
  /\ QGoto(q, IF cont[q] > 0 /\ ClosesOnExit(q) THEN "close" ELSE "ended")
  /\ UNCHANGED <<idleAgents, made, cursors, way, cont, rows, lent, home, astray>>

QueryNext ==
  \E q \in Askers :
    StartQuery(q) \/ Lend(q) \/ FirstBatch(q) \/ NextBatch(q) \/ CloseCursor(q)
      \/ CursorUnknown(q) \/ RequestBreaks(q) \/ Resume(q) \/ Abandon(q)
QuerySpec == QueryInit /\ [][QueryNext]_queryVars

-----------------------------------------------------------------------------
(***************************************************************************)
(* Rows an iteration, all() or one() hands out are the rows of its own     *)
(* query, each once and in order, and an iteration that ran to its end has *)
(* them all -- as long as every query kept to one connection.              *)
(* (Query._all: "accurately reflect the enumeration of sub-objects".)      *)
(***************************************************************************)
NoneAstray == \A q \in Askers : ~astray[q]
RowsOnce ==
  NoneAstray => \A q \in Askers :
    /\ rows[q] = [i \in 1..Len(rows[q]) |-> i]
    /\ qpc[q] = "ended" /\ cont[q] = 0 =>
         Len(rows[q]) = IF way[q] = "first" THEN Min({1, TotalRows}) ELSE TotalRows

(***************************************************************************)
(* A query that is over has no cursor left at the server, however it was   *)
(* asked and wherever it was dropped, unless it was a SpecificQuery        *)
(* dropped half-way or some query's request went to a wrong connection.    *)
(***************************************************************************)
CursorsClosed ==
  NoneAstray =>
    \A a \in Agents : \A i \in Indexes :
      LET q == cursors[a][i].by IN
      q # "none" /\ way[q] # "specific" => qpc[q] \notin {"idle", "ended", "raised"}
=============================================================================
