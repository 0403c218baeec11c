------------------------------ MODULE ObjectIO ------------------------------
(***************************************************************************)
(* Calls of one session on one data object: DataObjectManager.open with    *)
(* its redirect to another host, put and get (manager/                     *)
(* data_object_manager.py), the raw file of data_object.py, cleanup and    *)
(* clone of the session, and what happens at the exit of the program       *)
(* (session.py, at_client_exit.py).  The transfer of a large file is one   *)
(* step here; ParallelTransfer models it.                                  *)
(***************************************************************************)
EXTENDS Naturals, Sequences, FiniteSets, SequencesExt

CONSTANTS Callers,  \* threads, each with one call
          Hosts,    \* hosts a server may redirect to
          Plans,    \* what the threads may call
          BeforeHooks, AfterHooks  \* functions registered for the exit, in order

(***************************************************************************)
(* A call; open(.., "r") and open(.., "w") return a file to the caller,    *)
(* put and get close it themselves.                                        *)
(***************************************************************************)
CallType ==
  [op : {"read", "write", "put", "get"},
   force : BOOLEAN,     \* FORCE_FLAG_KW, or force_put_by_default
   managed : BOOLEAN,   \* auto_close
   redirect : BOOLEAN,  \* allow_redirect, with a server that can tell the host
   big : BOOLEAN,       \* should_parallelize_transfer
   into : BOOLEAN,      \* the path of the put is a collection
   all : BOOLEAN,       \* ALL_KW
   regChksum : BOOLEAN] \* REG_CHKSUM_KW

ASSUME ObjectAssumption ==
  /\ Plans \subseteq [Callers -> CallType] /\ IsFiniteSet(Callers)
  /\ "home" \notin Hosts /\ {"base", "none", "dead", "cut"} \cap Callers = {}
  /\ BeforeHooks \in Seq(Range(BeforeHooks)) /\ AfterHooks \in Seq(Range(AfterHooks))

VARIABLES
  call,      \* what each thread calls
  at,        \* where its call is
  conn,      \* session whose connection it holds; "none"; "dead" after a cleanup,
             \* "cut" after the one at exit
  severed,   \* session in whose connection it holds a failed cleanup left no socket
  dirty,     \* its file has bytes that are not yet written
  active,    \* connections in Pool.active, per session
  version,   \* the manager knows the server's version
  host,      \* account.host of each session: the base, and each caller's clone
  override,  \* do_configure["_overrides"], which all clones share
  remote,    \* the data object: "absent", "old", "theirs", "partial" or "ours"
  local,     \* the local file of each get; "theirs" when another process made it
  other,     \* another client has yet to create the object
  exit,      \* stage of the exit
  hooks,     \* functions still to run in this stage
  lost,      \* history: sessions in whose pool a failed call left a connection
  looked,    \* history: connections taken to look up the version
  target,    \* history: the host a redirect named
  crossed,   \* history: threads whose stored host another redirect overwrote
  clash,     \* history: the object, or file, was there when the call overwrote it
  late,      \* history: it appeared when the call was past its look for one
  ran,       \* history: functions run at exit, and how many connections there were
  skipped    \* history: what a failure at the exit, not of its own making, left out:
             \* "nothing", "files" and sessions, or only "sessions"

hostVars == <<host, override, crossed>>
sessVars == <<active, version, hostVars, looked>>
dataVars == <<remote, local, other, clash, late>>
exitVars == <<exit, hooks, ran, skipped>>
ioVars == <<at, conn, severed, dirty, lost, target>>
objVars == <<call, ioVars, sessVars, dataVars, exitVars>>

Sessions == {"base"} \cup Callers
Over == {"returned", "raised", "closed"}
Writes(h) == call[h].op \in {"write", "put"}

ObjectInit ==
  /\ call \in Plans
  /\ at = [h \in Callers |-> "begin"] /\ conn = [h \in Callers |-> "none"]
  /\ severed = [h \in Callers |-> "none"]
  /\ dirty = [h \in Callers |-> FALSE]
  /\ active = [s \in Sessions |-> 0] /\ version = FALSE
  /\ host = [s \in Sessions |-> IF s = "base" THEN "home" ELSE "none"] /\ override = "none"
  /\ crossed = {}
  /\ remote \in {"absent", "old"} /\ other = TRUE
  /\ local \in [Callers -> {"absent", "old"}]
  /\ \A h \in Callers : call[h].op # "get" => local[h] = "absent"
  /\ exit = "running" /\ hooks = <<>>
  /\ lost = [h \in Callers |-> "none"] /\ looked = 0 /\ target = [h \in Callers |-> "none"]
  /\ clash = [h \in Callers |-> FALSE] /\ late = [h \in Callers |-> FALSE]
  /\ ran = <<>> /\ skipped = "nothing"

OGoto(h, p) == at' = [at EXCEPT ![h] = p]
Hold(h, s) == conn' = [conn EXCEPT ![h] = s]

(* The connection goes back to its pool, or out of it, which is the same to *)
(* Pool.active.  One that a cleanup has taken out is no longer there.        *)
Released(h) == IF conn[h] \in Sessions THEN [active EXCEPT ![conn[h]] = @ - 1] ELSE active
Usable(h) == conn[h] \in Sessions /\ severed[h] # conn[h]
Strand(h) == lost' = [lost EXCEPT ![h] = IF conn[h] \in Sessions THEN conn[h] ELSE "none"]
GiveBack(h) == active' = Released(h) /\ Hold(h, "none")

-----------------------------------------------------------------------------
(* put and get up to the open *)

(* A mutation of Refused. *)
Refused_Never(h) == FALSE

(***************************************************************************)
(* Without the force flag put asks the catalog whether the object is       *)
(* there, but not when it puts into a collection; _download asks the local *)
(* disk.  The open is a later step.                                        *)
(***************************************************************************)
Refused(h) ==
  /\ ~call[h].force
  /\ \/ call[h].op = "put" /\ ~call[h].into /\ remote # "absent"
     \/ call[h].op = "get" /\ local[h] # "absent"

Check(h) ==
  /\ at[h] = "begin" /\ exit = "running" /\ call[h].op \in {"put", "get"}
  /\ \/ OGoto(h, "raised") /\ UNCHANGED version
     \/ /\ ~Refused(h) /\ version' = TRUE
        /\ OGoto(h, IF call[h].op = "put" /\ call[h].big THEN "transfer" ELSE "get")
  /\ UNCHANGED <<call, conn, severed, dirty, lost, target, active, hostVars, looked, dataVars, exitVars>>

(***************************************************************************)
(* open reads Manager.server_version first: with no connection in this     *)
(* thread yet it takes one from the pool, and never gives it back.         *)
(***************************************************************************)
OpenStarts(h) ==
  /\ at[h] = "begin" /\ exit = "running" /\ call[h].op \in {"read", "write"}
  /\ OGoto(h, IF version THEN "get" ELSE "look")
  /\ UNCHANGED <<call, conn, severed, dirty, lost, target, sessVars, dataVars, exitVars>>

LookUp(h) ==
  /\ at[h] = "look"
  /\ \/ /\ active' = [active EXCEPT !["base"] = @ + 1] /\ looked' = looked + 1
        /\ version' = TRUE /\ OGoto(h, "get")
     \/ OGoto(h, "raised") /\ UNCHANGED <<active, looked, version>>
  /\ UNCHANGED <<call, conn, severed, dirty, lost, target, hostVars, dataVars, exitVars>>

GetConnection(h) ==
  /\ at[h] = "get"
  /\ \/ /\ active' = [active EXCEPT !["base"] = @ + 1] /\ Hold(h, "base")
        /\ OGoto(h, IF call[h].redirect THEN "where" ELSE "send")
     \/ OGoto(h, "raised") /\ UNCHANGED <<active, conn>>
  /\ UNCHANGED <<call, severed, dirty, lost, target, version, hostVars, looked, dataVars, exitVars>>

(* GET_RESOURCE_INFO_FOR_OPERATION: this host or another one. *)
AskWhere(h) ==
  /\ at[h] = "where" /\ Usable(h)
  /\ \/ OGoto(h, "send") /\ UNCHANGED target
     \/ \E b \in Hosts : OGoto(h, "clone") /\ target' = [target EXCEPT ![h] = b]
  /\ UNCHANGED <<call, conn, severed, dirty, lost, sessVars, dataVars, exitVars>>

(***************************************************************************)
(* The redirect.  clone copies the session and puts the new host into the  *)
(* dictionary that all clones share; making the account reads it there, or *)
(* fails over the environment or the password file, and then the first     *)
(* connection is not given back.                                           *)
(***************************************************************************)
StoreHost(h) ==
  /\ at[h] = "clone" /\ OGoto(h, "configure")
  /\ override' = target[h]
  /\ crossed' = crossed \cup {g \in Callers : at[g] = "configure" /\ target[g] # target[h]}
  /\ UNCHANGED <<call, conn, severed, dirty, lost, target, active, version, host, looked, dataVars, exitVars>>

MakeAccount(h) ==
  /\ at[h] = "configure"
  /\ \/ OGoto(h, "hop") /\ host' = [host EXCEPT ![h] = override] /\ UNCHANGED <<conn, lost>>
     \/ OGoto(h, "raised") /\ Hold(h, "none") /\ Strand(h) /\ UNCHANGED host
  /\ UNCHANGED <<call, severed, dirty, target, active, version, override, crossed, looked, dataVars, exitVars>>

(* A mutation of HopReleases. *)
HopReleases_Not(h) == active

(* The first connection is given back, and one of the clone's pool taken. *)
HopReleases(h) == Released(h)

Hop(h) ==
  /\ at[h] = "hop"
  /\ \/ /\ active' = [HopReleases(h) EXCEPT ![h] = 1]
        /\ Hold(h, h) /\ OGoto(h, "send")
     \/ active' = HopReleases(h) /\ Hold(h, "none") /\ OGoto(h, "raised")
  /\ UNCHANGED <<call, severed, dirty, lost, target, version, hostVars, looked, dataVars, exitVars>>

(***************************************************************************)
(* DATA_OBJ_OPEN.  Opening for writing creates or truncates the object; a  *)
(* failing open raises and leaves the connection in Pool.active.  Puts     *)
(* that are past their look do not see an object that appears.             *)
(***************************************************************************)
Appears(r) ==
  late' = [g \in Callers |->
             late[g] \/ (call[g].op = "put" /\ at[g] # "begin" /\ remote = "absent" /\ r # "absent")]

OpenObject(h) ==
  /\ at[h] = "send" /\ Usable(h) /\ (Writes(h) \/ remote # "absent")
  /\ OGoto(h, IF call[h].op = "get" THEN "download" ELSE "open")
  /\ remote' = (IF Writes(h) THEN "partial" ELSE remote) /\ Appears(remote')
  /\ clash' = IF call[h].op = "put" THEN [clash EXCEPT ![h] = remote # "absent"] ELSE clash
  /\ dirty' = IF call[h].op = "put" THEN [dirty EXCEPT ![h] = TRUE] ELSE dirty
  /\ UNCHANGED <<call, conn, severed, lost, target, sessVars, local, other, exitVars>>

OpenRefused(h) ==
  /\ at[h] \in {"where", "send"} /\ Usable(h)
  /\ OGoto(h, "raised") /\ Hold(h, "none") /\ Strand(h)
  /\ UNCHANGED <<call, severed, dirty, target, sessVars, dataVars, exitVars>>

(* A network error anywhere before the file is closed. *)
NetworkFails(h) ==
  /\ at[h] \in {"where", "send"}
  /\ GiveBack(h) /\ OGoto(h, "raised")
  /\ UNCHANGED <<call, severed, dirty, lost, target, version, hostVars, looked, dataVars, exitVars>>

-----------------------------------------------------------------------------
(* The file in use *)

WriteFile(h) ==
  /\ at[h] = "open" /\ call[h].op = "write" /\ ~dirty[h] /\ exit = "running"
  /\ dirty' = [dirty EXCEPT ![h] = TRUE]
  /\ UNCHANGED <<call, at, conn, severed, lost, target, sessVars, dataVars, exitVars>>

(* _download: the local file is truncated, then filled. *)
Download(h) ==
  /\ at[h] = "download"
  /\ clash' = [clash EXCEPT ![h] = local[h] # "absent"]
  /\ \/ Usable(h) /\ local' = [local EXCEPT ![h] = "filled"] /\ dirty' = dirty
     \/ local' = [local EXCEPT ![h] = "partial"] /\ dirty' = [dirty EXCEPT ![h] = TRUE]
  /\ OGoto(h, "open")
  /\ UNCHANGED <<call, conn, severed, lost, target, sessVars, remote, other, late, exitVars>>

(* Another process of this machine makes the file that get is to fill. *)
LocalAppears(h) ==
  /\ exit = "running" /\ call[h].op = "get" /\ local[h] = "absent"
  /\ local' = [local EXCEPT ![h] = "theirs"]
  /\ late' = [late EXCEPT ![h] = @ \/ at[h] # "begin"]
  /\ UNCHANGED <<call, ioVars, sessVars, remote, other, clash, exitVars>>

(***************************************************************************)
(* close: the buffer is flushed; then the raw file is closed and only then *)
(* is the connection released.  If the flush fails with an error reply the *)
(* raw file is closed all the same.  An error reply to the close leaves    *)
(* the connection in Pool.active.                                          *)
(***************************************************************************)
Result(h, ok) ==
  IF ~ok \/ (call[h].op = "get" /\ dirty[h]) THEN "raised"
  ELSE IF call[h].op = "put" THEN "stored"
  ELSE IF call[h].op = "get" THEN "lookup" ELSE "closed"

CloseSteps(h) ==
  \/ Usable(h) /\ GiveBack(h) /\ OGoto(h, Result(h, TRUE)) /\ UNCHANGED lost
       /\ remote' = IF dirty[h] /\ Writes(h) THEN "ours" ELSE remote
  \/ GiveBack(h) /\ OGoto(h, "raised") /\ UNCHANGED <<lost, remote>>
  \/ /\ Usable(h)
     /\ Hold(h, "none") /\ Strand(h) /\ OGoto(h, "raised")
     /\ UNCHANGED <<active, remote>>

Close(h) ==
  /\ at[h] = "open" /\ exit = "running"
  /\ CloseSteps(h) /\ dirty' = [dirty EXCEPT ![h] = FALSE]
  /\ UNCHANGED <<call, severed, target, version, hostVars, looked, local, other, clash, late, exitVars>>

(***************************************************************************)
(* A large put: parallel_put opens, writes and closes; whatever it raises  *)
(* or returns but True becomes an exception.                               *)
(***************************************************************************)
Transfer(h) ==
  /\ at[h] = "transfer"
  /\ \/ remote' = "ours" /\ OGoto(h, "stored")
     \/ remote' \in {remote, "partial"} /\ OGoto(h, "raised")
  /\ Appears(remote') /\ clash' = [clash EXCEPT ![h] = remote # "absent" /\ remote' # remote]
  /\ UNCHANGED <<call, conn, severed, dirty, lost, target, sessVars, local, other, exitVars>>

(* ALL_KW: the options of the replication, without REG_CHKSUM_KW, which the *)
(* code deletes whether it is there or not; then the replication.           *)
Replicates(h) == call[h].regChksum
Stored(h) ==
  /\ at[h] = "stored"
  /\ \/ (call[h].all => Replicates(h)) /\ OGoto(h, "returned")
     \/ call[h].all /\ OGoto(h, "raised")
  /\ UNCHANGED <<call, conn, severed, dirty, lost, target, sessVars, dataVars, exitVars>>

(* get ends with a query for the replicas. *)
FinalLookup(h) ==
  /\ at[h] = "lookup"
  /\ OGoto(h, IF remote = "absent" THEN "raised" ELSE "returned")
  /\ UNCHANGED <<call, conn, severed, dirty, lost, target, sessVars, dataVars, exitVars>>

OtherCreates ==
  /\ other /\ exit = "running" /\ remote = "absent"
  /\ remote' = "theirs" /\ Appears(remote') /\ other' = FALSE
  /\ UNCHANGED <<call, ioVars, sessVars, local, clash, exitVars>>

-----------------------------------------------------------------------------
(* A mutation of Reconfigured. *)
Reconfigured_Afresh(s) == IF override = "none" THEN "home" ELSE override

(***************************************************************************)
(* cleanup of a session: its connections end, and a new pool is made for   *)
(* the account configure has cached.  An OSError of a disconnect ends the  *)
(* loop: the connections in gone, and n of those the version was looked up *)
(* with, are out of the old pool; the one that failed has no socket, and   *)
(* stays there with the others.                                            *)
(***************************************************************************)
Reconfigured(s) == host[s]

Cleaned(s, became) ==
  /\ active' = [active EXCEPT ![s] = 0]
  /\ conn' = [h \in Callers |-> IF conn[h] = s THEN became ELSE conn[h]]
  /\ lost' = [h \in Callers |-> IF lost[h] = s THEN "none" ELSE lost[h]]
  /\ looked' = IF s = "base" THEN 0 ELSE looked
  /\ host' = [host EXCEPT ![s] = Reconfigured(s)]
  /\ UNCHANGED severed

CleanedPartly(s, gone, n, became) ==
  /\ n \in 0..(IF s = "base" THEN looked ELSE 0)
  /\ active' = [active EXCEPT ![s] = @ - Cardinality({h \in gone : conn[h] = s})
                                       - Cardinality({h \in gone : lost[h] = s}) - n]
  /\ conn' = [h \in Callers |-> IF h \in gone /\ conn[h] = s THEN became ELSE conn[h]]
  /\ lost' = [h \in Callers |-> IF h \in gone /\ lost[h] = s THEN "none" ELSE lost[h]]
  /\ looked' = looked - n
  /\ \/ UNCHANGED severed
     \/ \E h \in Callers \ gone : conn[h] = s /\ severed' = [severed EXCEPT ![h] = s]
  /\ UNCHANGED host
Failing(s, became) ==
  \E gone \in SUBSET Callers, n \in 0..looked : CleanedPartly(s, gone, n, became)

Cleanup(s) ==
  /\ exit = "running" /\ host[s] # "none" /\ active[s] > 0
  /\ Cleaned(s, "dead") \/ Failing(s, "dead")
  /\ UNCHANGED <<call, at, dirty, target, version, override, crossed, dataVars, exitVars>>

(***************************************************************************)
(* The exit, when the threads are done: registered functions before, last  *)
(* one first, exceptions only logged; the managed files, then the          *)
(* sessions; registered functions after.  A close or a cleanup that fails  *)
(* ends the stage: what was to come of files and sessions is left out.     *)
(***************************************************************************)
Stage(s, fs) == exit' = s /\ hooks' = fs
OnlyExit == UNCHANGED <<call, ioVars, sessVars, dataVars>>

ExitBegins ==
  /\ exit = "running" /\ \A h \in Callers : at[h] \in Over \cup {"begin", "open"}
  /\ \A h \in Callers : at[h] = "open" => call[h].op \in {"read", "write"}
  /\ Stage("before", BeforeHooks)
  /\ UNCHANGED <<ran, skipped>> /\ OnlyExit

Live == \E s \in Sessions : active[s] > 0
RunHook ==
  /\ exit \in {"before", "after"} /\ hooks # <<>>
  /\ ran' = Append(ran, [hook |-> Last(hooks), live |-> Live]) /\ hooks' = Front(hooks)
  /\ UNCHANGED <<exit, skipped>> /\ OnlyExit

StageEnds ==
  /\ exit \in {"before", "after"} /\ hooks = <<>>
  /\ Stage(IF exit = "before" THEN "files" ELSE "gone", <<>>)
  /\ UNCHANGED <<ran, skipped>> /\ OnlyExit

ToClose(h) == at[h] = "open" /\ call[h].managed
CloseAtExit(h) ==
  /\ exit = "files" /\ ToClose(h)
  /\ CloseSteps(h) /\ dirty' = [dirty EXCEPT ![h] = FALSE]
  /\ IF at'[h] = "raised"
     THEN Stage("after", AfterHooks) /\ skipped' = IF conn[h] = "cut" THEN "nothing" ELSE "files"
     ELSE UNCHANGED <<exit, hooks, skipped>>
  /\ UNCHANGED <<call, severed, target, version, hostVars, looked, local, other, clash, late, ran>>

(* A mutation of CleanupAtExit. *)
CleanupAtExit_First(s) ==
  /\ exit = "files" /\ active[s] > 0
  /\ Cleaned(s, "cut")
  /\ UNCHANGED <<call, at, dirty, target, version, override, crossed, dataVars, exitVars>>

CleanupAtExit(s) ==
  /\ exit = "files" /\ (\A h \in Callers : ~ToClose(h)) /\ host[s] # "none"
  /\ \/ active[s] > 0 /\ Cleaned(s, "cut") /\ UNCHANGED <<exit, hooks, skipped>>
     \/ Failing(s, "cut") /\ Stage("after", AfterHooks) /\ skipped' = "sessions"
  /\ UNCHANGED <<call, at, dirty, target, version, override, crossed, dataVars, ran>>

CleanedUp ==
  /\ exit = "files" /\ (\A h \in Callers : ~ToClose(h)) /\ ~Live
  /\ Stage("after", AfterHooks)
  /\ UNCHANGED <<ran, skipped>> /\ OnlyExit

ObjectNext ==
  \/ \E h \in Callers :
       \/ Check(h) \/ OpenStarts(h) \/ LookUp(h) \/ GetConnection(h) \/ AskWhere(h)
       \/ StoreHost(h) \/ MakeAccount(h) \/ Hop(h) \/ OpenObject(h) \/ LocalAppears(h)
       \/ OpenRefused(h) \/ NetworkFails(h) \/ WriteFile(h) \/ Download(h) \/ Close(h)
       \/ Transfer(h) \/ Stored(h) \/ FinalLookup(h) \/ CloseAtExit(h)
  \/ \E s \in Sessions : Cleanup(s) \/ CleanupAtExit(s)
  \/ OtherCreates \/ ExitBegins \/ RunHook \/ StageEnds \/ CleanedUp
ObjectSpec == ObjectInit /\ [][ObjectNext]_objVars

-----------------------------------------------------------------------------
(***************************************************************************)
(* The connections in the pools are those that files and calls hold, one   *)
(* for each call that failed while it held one, and those the version was  *)
(* looked up with: a call that succeeds leaves none behind, redirected or  *)
(* not (open, iRODSDataObjectFileRaw.close).                               *)
(***************************************************************************)
AccountedFor ==
  /\ \A s \in Sessions :
       active[s] = Cardinality({h \in Callers : conn[h] = s}) + Cardinality({h \in Callers : lost[h] = s})
                     + (IF s = "base" THEN looked ELSE 0)
  /\ \A h \in Callers : (lost[h] # "none" => at[h] = "raised") /\ (at[h] \in Over => conn[h] = "none")

(***************************************************************************)
(* A session keeps its host: a clone for a redirect, and its dictionary    *)
(* shared with the others, moves neither the base session nor a clone that *)
(* has its account, also when they are cleaned up and configured again;    *)
(* only a clone that has yet to make its account can be given the host of  *)
(* another redirect (clone, cleanup, _configure_account).                  *)
(***************************************************************************)
HostKept ==
  /\ host["base"] = "home"
  /\ \A h \in Callers \ crossed : host[h] # "none" => host[h] = target[h]

(***************************************************************************)
(* README.md: open makes its connection directly to whichever server is    *)
(* found to host the selected replica.  Two redirects at a time share one  *)
(* place for the host, so that a connection can go to the other's.         *)
(***************************************************************************)
RedirectReached == \A h \in Callers : conn[h] = h => host[h] = target[h]

(***************************************************************************)
(* put overwrites an object, and get a file, only with the force flag,     *)
(* unless it appeared after the call had looked, or the put was given a    *)
(* collection, where it does not look.  A put that returned had the object *)
(* written, for what another writer has not truncated since.               *)
(***************************************************************************)
OverwriteForced ==
  \A h \in Callers :
    /\ clash[h] => call[h].force \/ late[h] \/ (call[h].op = "put" /\ call[h].into)
    /\ at[h] = "returned" /\ call[h].op = "put" =>
         remote = "ours" \/ \E g \in Callers \ {h} : Writes(g)

(***************************************************************************)
(* At the exit the managed files are closed and flushed while their        *)
(* sessions still have their connections, clones of redirected ones too,   *)
(* unless a close fails; no connection is left, unless a close or a        *)
(* cleanup fails; and the registered functions run in their stages, last   *)
(* registered first, whatever fails (_cleanup_remaining_sessions,          *)
(* _call_cleanup_functions).                                               *)
(***************************************************************************)
FlushedAtExit ==
  exit = "gone" =>
    /\ [i \in 1..Len(ran) |-> ran[i].hook] = Reverse(BeforeHooks) \o Reverse(AfterHooks)
    /\ skipped # "files" => \A h \in Callers : call[h].managed => at[h] # "open" /\ ~dirty[h]
    /\ skipped = "nothing" => ~Live /\ \A i \in 1..Len(AfterHooks) : ~ran[Len(BeforeHooks) + i].live
=============================================================================
