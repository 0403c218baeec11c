--------------------------- MODULE ObjectIOProofs ---------------------------
(***************************************************************************)
(* Theorems of ObjectIO, for every set of threads, calls and hosts, and    *)
(* every list of functions registered for the exit.                        *)
(***************************************************************************)
EXTENDS ObjectIO, FiniteSetTheorems, SequenceTheorems, TLAPS

Places == Over \cup {"begin", "look", "get", "where", "clone", "configure", "hop", "send",
                     "download", "open", "transfer", "stored", "lookup"}

ObjTypes ==
  /\ call \in [Callers -> CallType] /\ at \in [Callers -> Places]
  /\ conn \in [Callers -> Sessions \cup {"none", "dead", "cut"}]
  /\ lost \in [Callers -> Sessions \cup {"none"}]
  /\ severed \in [Callers -> Sessions \cup {"none"}]
  /\ active \in [Sessions -> Int] /\ looked \in Nat /\ version \in BOOLEAN
  /\ host \in [Sessions -> Hosts \cup {"home", "none"}]
  /\ target \in [Callers -> Hosts \cup {"none"}] /\ override \in Hosts \cup {"none"}
  /\ crossed \in SUBSET Callers
  /\ dirty \in [Callers -> BOOLEAN] /\ clash \in [Callers -> BOOLEAN]
  /\ late \in [Callers -> BOOLEAN]
  /\ other \in BOOLEAN /\ skipped \in {"nothing", "files", "sessions"}
  /\ remote \in {"absent", "old", "theirs", "partial", "ours"}
  /\ local \in [Callers -> {"absent", "old", "theirs", "partial", "filled"}]
  /\ exit \in {"running", "before", "files", "after", "gone"}

\* A thread holds a connection only while its call is at a place that has one,
\* and one of its own clone only after the redirect.
OwnSessions ==
  \A h \in Callers :
    /\ conn[h] # "none" => at[h] \in {"where", "clone", "configure", "hop", "send", "download", "open"}
    /\ conn[h] \in Sessions => conn[h] \in {"base", h}
    /\ conn[h] = h => at[h] \in {"send", "download", "open"}
    /\ lost[h] # "none" => at[h] = "raised"
    /\ lost[h] \in {"none", "base", h}

HeldOf(s) == {h \in Callers : conn[h] = s}
LostOf(s) == {h \in Callers : lost[h] = s}

Counted ==
  \A s \in Sessions :
    active[s] = Cardinality(HeldOf(s)) + Cardinality(LostOf(s))
                  + (IF s = "base" THEN looked ELSE 0)

\* A redirect happens once in a call, and before it the clone has no host;
\* a host that was stored is read back, unless another was stored over it.
Early == {"begin", "look", "get", "where", "clone", "configure"}
Redirects ==
  /\ host["base"] = "home"
  /\ \A h \in Callers :
       /\ host[h] # "none" /\ h \notin crossed => host[h] = target[h]
       /\ at[h] \in Early => host[h] = "none"
       /\ at[h] = "configure" /\ h \notin crossed => override = target[h]

\* Where a call of each kind can be.
CallPlaces ==
  \A h \in Callers :
    /\ at[h] \in {"download", "lookup"} => call[h].op = "get"
    /\ at[h] \in {"transfer", "stored"} => call[h].op = "put"
    /\ call[h].op = "put" /\ at[h] = "open" => dirty[h]
    /\ dirty[h] => at[h] = "open"

\* What the check without the force flag has seen is still so.
OnTheWay == {"look", "get", "where", "clone", "configure", "hop", "send", "transfer"}
Unforced ==
  \A h \in Callers : ~call[h].force /\ ~late[h] =>
    /\ call[h].op = "put" /\ ~call[h].into /\ at[h] \in OnTheWay => remote = "absent"
    /\ call[h].op = "get" /\ at[h] \in OnTheWay \cup {"download"} => local[h] = "absent"
Written ==
  \A h \in Callers :
    at[h] \in {"stored", "returned"} /\ call[h].op = "put" =>
      remote = "ours" \/ \E g \in Callers \ {h} : Writes(g)
Opened == \A h \in Callers : at[h] = "open" /\ Writes(h) => remote # "absent"
Clashes ==
  \A h \in Callers : clash[h] => call[h].force \/ late[h] \/ (call[h].op = "put" /\ call[h].into)

\* The exit: no call is under way, and what its stages have done.
AtExit ==
  /\ exit # "running" => \A h \in Callers :
       at[h] \in Over \cup {"begin", "open"} /\ (at[h] = "open" => call[h].op \in {"read", "write"})
  /\ \A h \in Callers : conn[h] = "cut" => exit # "running" /\ ~ToClose(h)
  /\ exit \in {"running", "before", "files"} => skipped = "nothing"
  /\ exit \in {"after", "gone"} /\ skipped # "files" => \A h \in Callers : ~ToClose(h)
  /\ exit \in {"after", "gone"} /\ skipped = "nothing" => ~Live

Order == Reverse(BeforeHooks) \o Reverse(AfterHooks)
Pending == IF exit = "after" THEN AfterHooks ELSE BeforeHooks
Before == Len(BeforeHooks)
HookTypes ==
  /\ ran \in Seq([hook : Range(BeforeHooks) \cup Range(AfterHooks), live : BOOLEAN])
  /\ hooks \in Seq(Range(BeforeHooks) \cup Range(AfterHooks))
HooksInOrder ==
  /\ exit = "running" => Len(ran) = 0
  /\ exit \in {"before", "after"} =>
       /\ Len(hooks) <= Len(Pending)
       /\ \A i \in 1..Len(hooks) : hooks[i] = Pending[i]
       /\ Len(ran) + Len(hooks) = Len(Pending) + (IF exit = "after" THEN Before ELSE 0)
  /\ exit = "files" => Len(ran) = Before
  /\ exit = "gone" => Len(ran) = Before + Len(AfterHooks)
  /\ \A i \in 1..Len(ran) : ran[i].hook = Order[i]
  /\ exit \in {"after", "gone"} /\ skipped = "nothing" =>
       \A i \in 1..Len(ran) : i > Before => ~ran[i].live
-----------------------------------------------------------------------------
(* The types, and what each place of a call implies *)

(* The initial state has the types. *)
LEMMA InitTypes == ObjectInit => ObjTypes
<1> SUFFICES ASSUME ObjectInit PROVE ObjTypes
  OBVIOUS
<1>1. call \in [Callers -> CallType]
  BY ObjectAssumption DEF ObjectInit
<1>2. host \in [Sessions -> Hosts \cup {"home", "none"}]
  BY DEF ObjectInit
<1>3. conn \in [Callers -> Sessions \cup {"none", "dead", "cut"}] /\ lost \in [Callers -> Sessions \cup {"none"}]
  BY DEF ObjectInit
<1>4. at \in [Callers -> Places] /\ active \in [Sessions -> Int] /\ crossed \in SUBSET Callers
  BY DEF ObjectInit, Places
<1> QED
  BY <1>1, <1>2, <1>3, <1>4, ZenonT(60) DEF ObjectInit, ObjTypes

\* What giving a connection back does to the counters.
LEMMA ReleasedType ==
  ASSUME ObjTypes, NEW h \in Callers
  PROVE  Released(h) \in [Sessions -> Int]
  BY DEF ObjTypes, Released, Sessions

\* What a cleanup that fails takes out of the pool.
LEMMA PartlyType ==
  ASSUME ObjTypes, NEW s \in Sessions, NEW gone \in SUBSET Callers, NEW n \in 0..looked,
         NEW became \in {"dead", "cut"}, CleanedPartly(s, gone, n, became)
  PROVE  /\ active' \in [Sessions -> Int] /\ looked' \in Nat /\ host' = host
         /\ conn' \in [Callers -> Sessions \cup {"none", "dead", "cut"}]
         /\ lost' \in [Callers -> Sessions \cup {"none"}]
         /\ severed' \in [Callers -> Sessions \cup {"none"}]
<1>1. /\ IsFiniteSet({h \in gone : conn[h] = s}) /\ IsFiniteSet({h \in gone : lost[h] = s})
  BY ObjectAssumption, FS_Subset
<1>2. PICK a \in Nat : a = Cardinality({h \in gone : conn[h] = s})
  BY <1>1, FS_CardinalityType
<1>3. PICK b \in Nat : b = Cardinality({h \in gone : lost[h] = s})
  BY <1>1, FS_CardinalityType
<1>4. active' = [active EXCEPT ![s] = @ - a - b - n] /\ looked' = looked - n
  BY <1>2, <1>3 DEF CleanedPartly
<1>5. active' \in [Sessions -> Int] /\ looked' \in Nat
  BY <1>4 DEF ObjTypes
<1>6. /\ conn' \in [Callers -> Sessions \cup {"none", "dead", "cut"}]
      /\ lost' \in [Callers -> Sessions \cup {"none"}]
  BY DEF CleanedPartly, ObjTypes
<1>7. severed' \in [Callers -> Sessions \cup {"none"}]
  BY DEF CleanedPartly, ObjTypes
<1> QED
  BY <1>5, <1>6, <1>7 DEF CleanedPartly

(* Every step keeps the types. *)
LEMMA TypesStep ==
  ASSUME ObjTypes, [ObjectNext]_objVars
  PROVE  ObjTypes'
<1> USE DEF ObjTypes
<1>1. ASSUME NEW h \in Callers, Check(h) PROVE ObjTypes'
  <2>1. at' \in [Callers -> Places]
    BY <1>1 DEF Check, OGoto, Places, Over
  <2>2. version' \in BOOLEAN
    BY <1>1 DEF Check
  <2> QED
    BY <1>1, <2>1, <2>2 DEF Check, hostVars, dataVars, exitVars
<1>2. ASSUME NEW h \in Callers, OpenStarts(h) PROVE ObjTypes'
  BY <1>2 DEF OpenStarts, OGoto, Places, Over, hostVars, sessVars, dataVars, exitVars
<1>22. ASSUME NEW h \in Callers, LookUp(h) PROVE ObjTypes'
  <2>1. active' \in [Sessions -> Int] /\ looked' \in Nat /\ version' \in BOOLEAN
    <3>1. "base" \in Sessions
      BY DEF Sessions
    <3>2. CASE active' = [active EXCEPT !["base"] = @ + 1] /\ looked' = looked + 1 /\ version' = TRUE
      BY <3>1, <3>2
    <3>3. CASE UNCHANGED <<active, looked, version>>
      BY <3>3
    <3> QED
      BY <1>22, <3>2, <3>3 DEF LookUp
  <2>2. at' \in [Callers -> Places]
    BY <1>22 DEF LookUp, OGoto, Places, Over
  <2> QED
    BY <1>22, <2>1, <2>2 DEF LookUp, hostVars, dataVars, exitVars
<1>3. ASSUME NEW h \in Callers, GetConnection(h) PROVE ObjTypes'
  <2>1. "base" \in Sessions
    BY DEF Sessions
  <2>3. conn' \in [Callers -> Sessions \cup {"none", "dead", "cut"}]
    BY <1>3, <2>1 DEF GetConnection, Hold
  <2>4. active' \in [Sessions -> Int]
    BY <1>3, <2>1 DEF GetConnection
  <2>2. at' \in [Callers -> Places]
    BY <1>3 DEF GetConnection, OGoto, Places, Over
  <2> QED
    BY <1>3, <2>2, <2>3, <2>4 DEF GetConnection, hostVars, dataVars, exitVars
<1>4. ASSUME NEW h \in Callers, AskWhere(h) \/ StoreHost(h) PROVE ObjTypes'
  BY <1>4 DEF AskWhere, StoreHost, OGoto, Places, Over, hostVars, sessVars, dataVars, exitVars
<1>19. ASSUME NEW h \in Callers, MakeAccount(h) PROVE ObjTypes'
  <2>1. /\ conn' \in [Callers -> Sessions \cup {"none", "dead", "cut"}]
        /\ lost' \in [Callers -> Sessions \cup {"none"}]
    BY <1>19 DEF MakeAccount, Hold, Strand
  <2>2. host' \in [Sessions -> Hosts \cup {"home", "none"}]
    BY <1>19 DEF MakeAccount
  <2>3. at' \in [Callers -> Places]
    BY <1>19 DEF MakeAccount, OGoto, Places, Over
  <2> QED
    BY <1>19, <2>1, <2>2, <2>3 DEF MakeAccount, dataVars, exitVars
<1>5. ASSUME NEW h \in Callers, Hop(h) PROVE ObjTypes'
  <2>1. active' \in [Sessions -> Int]
    <3>1. Released(h) \in [Sessions -> Int] /\ h \in Sessions
      BY <1>5, ReleasedType DEF Sessions
    <3>2. active' = Released(h) \/ active' = [Released(h) EXCEPT ![h] = 1]
      BY <1>5 DEF Hop, HopReleases
    <3> QED
      BY <3>1, <3>2
  <2>2. conn' \in [Callers -> Sessions \cup {"none", "dead", "cut"}]
    BY <1>5 DEF Hop, Hold, Sessions
  <2>3. at' \in [Callers -> Places]
    BY <1>5 DEF Hop, OGoto, Places, Over
  <2> QED
    BY <1>5, <2>1, <2>2, <2>3 DEF Hop, hostVars, dataVars, exitVars
<1>20. \A x : Appears(x) => late' \in [Callers -> BOOLEAN]
  BY DEF Appears
<1>6. ASSUME NEW h \in Callers, OpenObject(h) PROVE ObjTypes'
  <2>1. late' \in [Callers -> BOOLEAN]
    BY <1>6, <1>20 DEF OpenObject
  <2> QED
    BY <1>6, <2>1 DEF OpenObject, OGoto, Places, Over, hostVars, sessVars, exitVars
<1>7. ASSUME NEW h \in Callers, OpenRefused(h) PROVE ObjTypes'
  BY <1>7 DEF OpenRefused, OGoto, Hold, Strand, Places, Over, hostVars, sessVars, dataVars, exitVars
<1>8. ASSUME NEW h \in Callers, NetworkFails(h) PROVE ObjTypes'
  BY <1>8, ReleasedType DEF NetworkFails, GiveBack, OGoto, Hold, Places, Over, hostVars, dataVars, exitVars
<1>9. ASSUME NEW h \in Callers, WriteFile(h) PROVE ObjTypes'
  BY <1>9 DEF WriteFile, hostVars, sessVars, dataVars, exitVars
<1>10. ASSUME NEW h \in Callers, Download(h) PROVE ObjTypes'
  <2>1. local' \in [Callers -> {"absent", "old", "theirs", "partial", "filled"}]
    BY <1>10 DEF Download
  <2>2. clash' \in [Callers -> BOOLEAN] /\ dirty' \in [Callers -> BOOLEAN]
    BY <1>10 DEF Download
  <2>3. at' \in [Callers -> Places]
    BY <1>10 DEF Download, OGoto, Places, Over
  <2> QED
    BY <1>10, <2>1, <2>2, <2>3 DEF Download, hostVars, sessVars, exitVars
<1>23. ASSUME NEW h \in Callers, LocalAppears(h) PROVE ObjTypes'
  <2>1. /\ local' \in [Callers -> {"absent", "old", "theirs", "partial", "filled"}]
        /\ late' \in [Callers -> BOOLEAN]
    BY <1>23 DEF LocalAppears
  <2> QED
    BY <1>23, <2>1 DEF LocalAppears, ioVars, hostVars, sessVars, exitVars
<1>11. ASSUME NEW h \in Callers, CloseSteps(h)
       PROVE  /\ at' \in [Callers -> Places] /\ conn' \in [Callers -> Sessions \cup {"none", "dead", "cut"}]
              /\ lost' \in [Callers -> Sessions \cup {"none"}] /\ active' \in [Sessions -> Int]
              /\ remote' \in {"absent", "old", "theirs", "partial", "ours"}
  <2>1. at' \in [Callers -> Places]
    BY <1>11 DEF CloseSteps, OGoto, Result, Places, Over
  <2>2. active' \in [Sessions -> Int] /\ conn' \in [Callers -> Sessions \cup {"none", "dead", "cut"}]
    <3>1. active' \in {active, Released(h)} /\ conn' = [conn EXCEPT ![h] = "none"]
      BY <1>11 DEF CloseSteps, GiveBack, Hold
    <3>2. Released(h) \in [Sessions -> Int]
      BY <1>11, ReleasedType
    <3> QED
      BY <3>1, <3>2
  <2>3. lost' \in [Callers -> Sessions \cup {"none"}]
    BY <1>11 DEF CloseSteps, Strand
  <2> QED
    BY <1>11, <2>1, <2>2, <2>3 DEF CloseSteps
<1>12. ASSUME NEW h \in Callers, Close(h) PROVE ObjTypes'
  BY <1>11, <1>12 DEF Close, hostVars, exitVars
<1>13. ASSUME NEW h \in Callers, Transfer(h) PROVE ObjTypes'
  <2>1. late' \in [Callers -> BOOLEAN]
    BY <1>13, <1>20 DEF Transfer
  <2>2. at' \in [Callers -> Places]
    BY <1>13 DEF Transfer, OGoto, Places, Over
  <2>3. remote' \in {"absent", "old", "theirs", "partial", "ours"} /\ clash' \in [Callers -> BOOLEAN]
    BY <1>13 DEF Transfer
  <2> QED
    BY <1>13, <2>1, <2>2, <2>3 DEF Transfer, hostVars, sessVars, exitVars
<1>14. ASSUME NEW h \in Callers, Stored(h) \/ FinalLookup(h) PROVE ObjTypes'
  BY <1>14 DEF Stored, FinalLookup, OGoto, Places, Over, hostVars, sessVars, dataVars, exitVars
<1>15. ASSUME NEW h \in Callers, CloseAtExit(h) PROVE ObjTypes'
  BY <1>11, <1>15 DEF CloseAtExit, Stage, hostVars
<1>16. ASSUME NEW s \in Sessions, Cleanup(s) \/ CleanupAtExit(s) PROVE ObjTypes'
  <2>1. PICK became \in {"dead", "cut"} : Cleaned(s, became) \/ Failing(s, became)
    BY <1>16 DEF Cleanup, CleanupAtExit
  <2>2. /\ active' \in [Sessions -> Int] /\ looked' \in Nat
        /\ conn' \in [Callers -> Sessions \cup {"none", "dead", "cut"}]
        /\ lost' \in [Callers -> Sessions \cup {"none"}]
        /\ severed' \in [Callers -> Sessions \cup {"none"}]
        /\ host' \in [Sessions -> Hosts \cup {"home", "none"}]
    <3>1. CASE Cleaned(s, became)
      <4>1. active' \in [Sessions -> Int] /\ looked' \in Nat /\ severed' = severed
        BY <3>1 DEF Cleaned
      <4>2. /\ conn' \in [Callers -> Sessions \cup {"none", "dead", "cut"}]
            /\ lost' \in [Callers -> Sessions \cup {"none"}]
        BY <3>1 DEF Cleaned
      <4>3. host' \in [Sessions -> Hosts \cup {"home", "none"}]
        BY <3>1 DEF Cleaned, Reconfigured
      <4> QED
        BY <4>1, <4>2, <4>3
    <3>2. CASE Failing(s, became)
      <4>1. PICK gone \in SUBSET Callers : \E n \in 0..looked : CleanedPartly(s, gone, n, became)
        BY <3>2 DEF Failing
      <4>2. PICK n \in 0..looked : CleanedPartly(s, gone, n, became)
        BY <4>1
      <4>3. /\ active' \in [Sessions -> Int] /\ looked' \in Nat /\ host' = host
            /\ conn' \in [Callers -> Sessions \cup {"none", "dead", "cut"}]
            /\ lost' \in [Callers -> Sessions \cup {"none"}]
            /\ severed' \in [Callers -> Sessions \cup {"none"}]
        <5> HIDE DEF ObjTypes
        <5> QED
          BY <4>2, PartlyType
      <4> QED
        BY <4>3
    <3> QED
      BY <2>1, <3>1, <3>2
  <2> QED
    BY <1>16, <2>2 DEF Cleanup, CleanupAtExit, Stage, dataVars, exitVars
<1>17. CASE OtherCreates
  <2>1. late' \in [Callers -> BOOLEAN]
    BY <1>17, <1>20 DEF OtherCreates
  <2> QED
    BY <1>17, <2>1 DEF OtherCreates, ioVars, hostVars, sessVars, exitVars
<1>21. CASE ExitBegins \/ RunHook \/ StageEnds \/ CleanedUp
  BY <1>21, ZenonT(60) DEF ExitBegins, RunHook, StageEnds, CleanedUp, Stage, OnlyExit,
     ioVars, hostVars, sessVars, dataVars, exitVars
<1>18. CASE UNCHANGED objVars
  BY <1>18 DEF objVars, ioVars, hostVars, sessVars, dataVars, exitVars
<1> QED
  BY <1>1, <1>2, <1>3, <1>4, <1>5, <1>6, <1>7, <1>8, <1>9, <1>10, <1>12, <1>13, <1>14,
     <1>15, <1>16, <1>17, <1>18, <1>19, <1>21, <1>22, <1>23 DEF ObjectNext

(* Every step keeps what the places of the callers say. *)
LEMMA PlacesStep ==
  ASSUME ObjTypes, CallPlaces, [ObjectNext]_objVars
  PROVE  CallPlaces'
<1> USE DEF ObjTypes, CallPlaces
<1>0. \A h \in Callers : call[h].op \in {"read", "write", "put", "get"}
  BY DEF CallType
<1>1. ASSUME NEW h \in Callers,
             \/ Check(h) \/ OpenStarts(h) \/ LookUp(h) \/ GetConnection(h) \/ AskWhere(h)
             \/ StoreHost(h) \/ MakeAccount(h) \/ Hop(h)
      PROVE CallPlaces'
  BY <1>1 DEF Check, OpenStarts, LookUp, GetConnection, AskWhere, StoreHost, MakeAccount, Hop, OGoto
<1>2. ASSUME NEW h \in Callers, OpenObject(h) PROVE CallPlaces'
  BY <1>2 DEF OpenObject, OGoto
<1>3. ASSUME NEW h \in Callers, OpenRefused(h) \/ NetworkFails(h) PROVE CallPlaces'
  BY <1>3 DEF OpenRefused, NetworkFails, OGoto
<1>4. ASSUME NEW h \in Callers, WriteFile(h) \/ Download(h) \/ LocalAppears(h) PROVE CallPlaces'
  BY <1>4 DEF WriteFile, Download, LocalAppears, ioVars, OGoto
<1>5. ASSUME NEW h \in Callers, Close(h) \/ CloseAtExit(h) PROVE CallPlaces'
  <2>1. /\ call' = call /\ dirty' = [dirty EXCEPT ![h] = FALSE]
        /\ \E p \in {"raised", "stored", "lookup", "closed"} :
             /\ at' = [at EXCEPT ![h] = p]
             /\ p = "stored" => call[h].op = "put"
             /\ p = "lookup" => call[h].op = "get"
    BY <1>5 DEF Close, CloseAtExit, CloseSteps, Result, OGoto
  <2> QED
    BY <2>1
<1>6. ASSUME NEW h \in Callers, Transfer(h) \/ Stored(h) \/ FinalLookup(h) PROVE CallPlaces'
  BY <1>6 DEF Transfer, Stored, FinalLookup, OGoto
<1>7. ASSUME NEW s \in Sessions, Cleanup(s) \/ CleanupAtExit(s) PROVE CallPlaces'
  BY <1>7 DEF Cleanup, CleanupAtExit
<1>8. CASE OtherCreates \/ ExitBegins \/ RunHook \/ StageEnds \/ CleanedUp
  BY <1>8 DEF OtherCreates, ExitBegins, RunHook, StageEnds, CleanedUp, OnlyExit, ioVars
<1>9. CASE UNCHANGED objVars
  BY <1>9 DEF objVars, ioVars
<1> QED
  BY <1>1, <1>2, <1>3, <1>4, <1>5, <1>6, <1>7, <1>8, <1>9 DEF ObjectNext

-----------------------------------------------------------------------------
(* Whose connections a thread can hold *)

\* A cleanup, also one that fails, only takes connections of its session away.
LEMMA CleanupTakes ==
  ASSUME ObjTypes, NEW s, NEW became, Cleaned(s, became) \/ Failing(s, became)
  PROVE  \A h \in Callers : /\ conn'[h] = conn[h] \/ (conn[h] = s /\ conn'[h] = became)
                            /\ lost'[h] \in {lost[h], "none"}
<1>1. CASE Cleaned(s, became)
  BY <1>1 DEF Cleaned
<1>2. CASE Failing(s, became)
  <2>1. PICK gone \in SUBSET Callers : \E n \in 0..looked : CleanedPartly(s, gone, n, became)
    BY <1>2 DEF Failing
  <2>2. PICK n \in 0..looked : CleanedPartly(s, gone, n, became)
    BY <2>1
  <2> QED
    BY <2>2 DEF CleanedPartly
<1> QED
  BY <1>1, <1>2

(* Every step keeps what is said of the sessions. *)
LEMMA OwnSessionsStep ==
  ASSUME ObjTypes, OwnSessions, [ObjectNext]_objVars
  PROVE  OwnSessions'
<1> USE DEF ObjTypes, OwnSessions
<1>0. {"base", "none", "dead", "cut"} \cap Callers = {}
  BY ObjectAssumption
<1>1. ASSUME NEW h \in Callers, Check(h) \/ OpenStarts(h) \/ LookUp(h) PROVE OwnSessions'
  BY <1>1 DEF Check, OpenStarts, LookUp, OGoto
<1>2. ASSUME NEW h \in Callers, GetConnection(h) PROVE OwnSessions'
  BY <1>0, <1>2 DEF GetConnection, OGoto, Hold
<1>3. ASSUME NEW h \in Callers, AskWhere(h) \/ StoreHost(h) PROVE OwnSessions'
  BY <1>3 DEF AskWhere, StoreHost, OGoto
<1>14. ASSUME NEW h \in Callers, MakeAccount(h) PROVE OwnSessions'
  BY <1>0, <1>14 DEF MakeAccount, OGoto, Hold, Strand, Sessions
<1>4. ASSUME NEW h \in Callers, Hop(h) PROVE OwnSessions'
  <2>1. /\ lost' = lost /\ at[h] = "hop"
        /\ \/ conn' = [conn EXCEPT ![h] = h] /\ at' = [at EXCEPT ![h] = "send"]
           \/ conn' = [conn EXCEPT ![h] = "none"] /\ at' = [at EXCEPT ![h] = "raised"]
    BY <1>4 DEF Hop, OGoto, Hold
  <2>2. "none" \notin Sessions
    BY <1>0 DEF Sessions
  <2> QED
    BY <1>0, <2>1, <2>2
<1>5. ASSUME NEW h \in Callers, OpenObject(h) PROVE OwnSessions'
  BY <1>5 DEF OpenObject, OGoto
<1>6. ASSUME NEW h \in Callers, OpenRefused(h) PROVE OwnSessions'
  BY <1>0, <1>6 DEF OpenRefused, Usable, OGoto, Hold, Strand, Sessions
<1>7. ASSUME NEW h \in Callers, NetworkFails(h) PROVE OwnSessions'
  BY <1>0, <1>7 DEF NetworkFails, GiveBack, OGoto, Hold, Sessions
<1>8. ASSUME NEW h \in Callers, WriteFile(h) \/ Download(h) \/ LocalAppears(h) PROVE OwnSessions'
  BY <1>8 DEF WriteFile, Download, LocalAppears, ioVars, OGoto
<1>9. ASSUME NEW h \in Callers, Close(h) \/ CloseAtExit(h) PROVE OwnSessions'
  <2>1. /\ conn' = [conn EXCEPT ![h] = "none"]
        /\ \E p \in {"raised", "stored", "lookup", "closed"} :
             /\ at' = [at EXCEPT ![h] = p]
             /\ \/ lost' = lost
                \/ lost' = [lost EXCEPT ![h] = conn[h]] /\ p = "raised" /\ conn[h] \in Sessions
    BY <1>9 DEF Close, CloseAtExit, CloseSteps, GiveBack, Usable, Hold, Strand, Result, OGoto
  <2>2. at[h] = "open"
    BY <1>9 DEF Close, CloseAtExit, ToClose
  <2> QED
    BY <1>0, <2>1, <2>2 DEF Sessions
<1>10. ASSUME NEW h \in Callers, Transfer(h) \/ Stored(h) \/ FinalLookup(h) PROVE OwnSessions'
  BY <1>10 DEF Transfer, Stored, FinalLookup, OGoto
<1>11. ASSUME NEW s \in Sessions, Cleanup(s) \/ CleanupAtExit(s) PROVE OwnSessions'
  <2>0. PICK became \in {"dead", "cut"} : Cleaned(s, became) \/ Failing(s, became)
    BY <1>11 DEF Cleanup, CleanupAtExit
  <2>1. /\ at' = at
        /\ \A h \in Callers : conn'[h] = conn[h] \/ (conn[h] = s /\ conn'[h] \in {"dead", "cut"})
        /\ \A h \in Callers : lost'[h] \in {lost[h], "none"}
    BY <1>11, <2>0, CleanupTakes DEF Cleanup, CleanupAtExit
  <2>2. "none" \notin Sessions /\ "dead" \notin Sessions /\ "cut" \notin Sessions
    BY <1>0 DEF Sessions
  <2> QED
    BY <1>0, <2>1, <2>2
<1>12. CASE OtherCreates \/ ExitBegins \/ RunHook \/ StageEnds \/ CleanedUp
  BY <1>12 DEF OtherCreates, ExitBegins, RunHook, StageEnds, CleanedUp, OnlyExit, ioVars
<1>13. CASE UNCHANGED objVars
  BY <1>13 DEF objVars, ioVars
<1> QED
  BY <1>1, <1>2, <1>3, <1>4, <1>5, <1>6, <1>7, <1>8, <1>9, <1>10, <1>11, <1>12, <1>13,
     <1>14 DEF ObjectNext

-----------------------------------------------------------------------------
(* The connections of the pools *)

(* Only finitely many handles can be counted. *)
LEMMA CallersFinite ==
  ASSUME NEW s
  PROVE  /\ HeldOf(s) \in SUBSET Callers /\ LostOf(s) \in SUBSET Callers
         /\ Cardinality(HeldOf(s)) \in Nat /\ Cardinality(LostOf(s)) \in Nat
<1>1. HeldOf(s) \in SUBSET Callers /\ LostOf(s) \in SUBSET Callers
  BY DEF HeldOf, LostOf
<1> QED
  BY <1>1, ObjectAssumption, FS_Subset, FS_CardinalityType

\* The size of a set of threads that one thread, perhaps, enters or leaves.
LEMMA OneThread ==
  ASSUME NEW S \in SUBSET Callers, NEW T \in SUBSET Callers, NEW h \in Callers, S \ {h} = T \ {h}
  PROVE  Cardinality(T) = Cardinality(S) + (IF h \in T THEN 1 ELSE 0) - (IF h \in S THEN 1 ELSE 0)
<1> DEFINE R == S \ {h}
<1>1. IsFiniteSet(R) /\ h \notin R
  <2>1. R \in SUBSET Callers
    OBVIOUS
  <2> QED
    BY <2>1, ObjectAssumption, FS_Subset
<1>2. /\ h \in S => S = R \cup {h}
      /\ h \notin S => S = R
      /\ h \in T => T = R \cup {h}
      /\ h \notin T => T = R
  OBVIOUS
<1>3. Cardinality(R \cup {h}) = Cardinality(R) + 1 /\ Cardinality(R) \in Nat
  BY <1>1, FS_AddElement, FS_CardinalityType
<1>4. /\ Cardinality(S) = IF h \in S THEN Cardinality(R) + 1 ELSE Cardinality(R)
      /\ Cardinality(T) = IF h \in T THEN Cardinality(R) + 1 ELSE Cardinality(R)
  BY <1>2, <1>3
<1> HIDE DEF R
<1> QED
  BY <1>3, <1>4

\* One thread that takes a connection of s adds one, one that gives it back
\* takes one away.
LEMMA HeldChange ==
  ASSUME ObjTypes, NEW h \in Callers, NEW c, conn' = [conn EXCEPT ![h] = c], NEW s
  PROVE  Cardinality(HeldOf(s)') =
           Cardinality(HeldOf(s)) + (IF c = s THEN 1 ELSE 0) - (IF conn[h] = s THEN 1 ELSE 0)
<1>1. HeldOf(s)' \in SUBSET Callers /\ HeldOf(s) \in SUBSET Callers /\ HeldOf(s) \ {h} = HeldOf(s)' \ {h}
  BY DEF HeldOf, ObjTypes
<1>2. (h \in HeldOf(s)' <=> c = s) /\ (h \in HeldOf(s) <=> conn[h] = s)
  BY DEF HeldOf, ObjTypes
<1> QED
  BY <1>1, <1>2, OneThread

(* The same for the connections that are lost. *)
LEMMA LostChange ==
  ASSUME ObjTypes, NEW h \in Callers, NEW c, lost' = [lost EXCEPT ![h] = c], NEW s
  PROVE  Cardinality(LostOf(s)') =
           Cardinality(LostOf(s)) + (IF c = s THEN 1 ELSE 0) - (IF lost[h] = s THEN 1 ELSE 0)
<1>1. LostOf(s)' \in SUBSET Callers /\ LostOf(s) \in SUBSET Callers /\ LostOf(s) \ {h} = LostOf(s)' \ {h}
  BY DEF LostOf, ObjTypes
<1>2. (h \in LostOf(s)' <=> c = s) /\ (h \in LostOf(s) <=> lost[h] = s)
  BY DEF LostOf, ObjTypes
<1> QED
  BY <1>1, <1>2, OneThread

\* A thread gives its connection back, or it was cleaned up before.
LEMMA GiveBackCounted ==
  ASSUME ObjTypes, Counted, NEW h \in Callers, GiveBack(h), UNCHANGED <<lost, looked>>
  PROVE  Counted'
<1>1. "none" \notin Sessions
  BY ObjectAssumption DEF Sessions
<1> SUFFICES ASSUME NEW s \in Sessions
             PROVE  active'[s] = Cardinality(HeldOf(s)') + Cardinality(LostOf(s)')
                                   + (IF s = "base" THEN looked' ELSE 0)
  BY DEF Counted
<1>2. active'[s] = active[s] - (IF conn[h] = s THEN 1 ELSE 0)
  BY DEF GiveBack, Released, ObjTypes
<1>3. Cardinality(HeldOf(s)') = Cardinality(HeldOf(s)) - (IF conn[h] = s THEN 1 ELSE 0)
  <2>1. Cardinality(HeldOf(s)') =
          Cardinality(HeldOf(s)) + (IF "none" = s THEN 1 ELSE 0) - (IF conn[h] = s THEN 1 ELSE 0)
    BY HeldChange, ZenonT(60) DEF GiveBack, Hold
  <2> QED
    BY <1>1, <2>1, CallersFinite
<1>4. LostOf(s)' = LostOf(s)
  BY DEF LostOf
<1> QED
  BY <1>2, <1>3, <1>4, CallersFinite DEF Counted, ObjTypes

\* A call that fails leaves its connection behind.
LEMMA LeaveCounted ==
  ASSUME ObjTypes, OwnSessions, Counted, NEW h \in Callers, at[h] # "raised", Hold(h, "none"),
         Strand(h), UNCHANGED <<active, looked>>
  PROVE  Counted'
<1>1. "none" \notin Sessions /\ lost[h] = "none"
  BY ObjectAssumption DEF Sessions, OwnSessions
<1>4. PICK c : c = (IF conn[h] \in Sessions THEN conn[h] ELSE "none") /\ lost' = [lost EXCEPT ![h] = c]
  BY DEF Strand
<1>5. \A s \in Sessions : c = s <=> conn[h] = s
  BY <1>1, <1>4
<1> SUFFICES ASSUME NEW s \in Sessions
             PROVE  active'[s] = Cardinality(HeldOf(s)') + Cardinality(LostOf(s)')
                                   + (IF s = "base" THEN looked' ELSE 0)
  BY DEF Counted
<1>2. Cardinality(HeldOf(s)') = Cardinality(HeldOf(s)) - (IF conn[h] = s THEN 1 ELSE 0)
  <2>1. Cardinality(HeldOf(s)') =
          Cardinality(HeldOf(s)) + (IF "none" = s THEN 1 ELSE 0) - (IF conn[h] = s THEN 1 ELSE 0)
    BY HeldChange, ZenonT(60) DEF Hold
  <2> QED
    BY <1>1, <2>1, CallersFinite
<1>3. Cardinality(LostOf(s)') = Cardinality(LostOf(s)) + (IF conn[h] = s THEN 1 ELSE 0)
  <2>1. Cardinality(LostOf(s)') =
          Cardinality(LostOf(s)) + (IF c = s THEN 1 ELSE 0) - (IF lost[h] = s THEN 1 ELSE 0)
    BY <1>4, LostChange, ZenonT(60)
  <2> QED
    BY <1>1, <1>5, <2>1, CallersFinite
<1> QED
  BY <1>2, <1>3, CallersFinite DEF Counted, ObjTypes

\* A thread with no connection takes one of the base session.
LEMMA TakeCounted ==
  ASSUME ObjTypes, Counted, NEW h \in Callers, conn[h] = "none",
         active' = [active EXCEPT !["base"] = @ + 1], Hold(h, "base"), UNCHANGED <<lost, looked>>
  PROVE  Counted'
<1>1. "none" \notin Sessions
  BY ObjectAssumption DEF Sessions
<1> SUFFICES ASSUME NEW s \in Sessions
             PROVE  active'[s] = Cardinality(HeldOf(s)') + Cardinality(LostOf(s)')
                                   + (IF s = "base" THEN looked' ELSE 0)
  BY DEF Counted
<1>2. active'[s] = active[s] + (IF s = "base" THEN 1 ELSE 0)
  BY DEF ObjTypes
<1>3. Cardinality(HeldOf(s)') = Cardinality(HeldOf(s)) + (IF s = "base" THEN 1 ELSE 0)
  <2>1. Cardinality(HeldOf(s)') =
          Cardinality(HeldOf(s)) + (IF "base" = s THEN 1 ELSE 0) - (IF conn[h] = s THEN 1 ELSE 0)
    BY HeldChange, ZenonT(60) DEF Hold
  <2> QED
    BY <1>1, <2>1, CallersFinite
<1>4. LostOf(s)' = LostOf(s)
  BY DEF LostOf
<1> QED
  BY <1>2, <1>3, <1>4, CallersFinite DEF Counted, ObjTypes

\* The redirect gives the connection back and takes the first of the clone.
LEMMA HopCounted ==
  ASSUME ObjTypes, OwnSessions, Counted, NEW h \in Callers, Hop(h)
  PROVE  Counted'
<1>1. h \in Sessions /\ "none" \notin Sessions /\ h # "base"
  BY ObjectAssumption DEF Sessions
<1>2. CASE GiveBack(h)
  BY <1>2, GiveBackCounted DEF Hop
<1>3. CASE active' = [Released(h) EXCEPT ![h] = 1] /\ Hold(h, h)
  <2> SUFFICES ASSUME NEW s \in Sessions
               PROVE  active'[s] = Cardinality(HeldOf(s)') + Cardinality(LostOf(s)')
                                     + (IF s = "base" THEN looked' ELSE 0)
    BY DEF Counted
  <2>1. \A u \in Callers : conn[u] # h /\ lost[u] # h
    BY <1>1 DEF Hop, OwnSessions
  <2>2. Cardinality(HeldOf(h)) = 0 /\ Cardinality(LostOf(h)) = 0
    <3>1. HeldOf(h) = {} /\ LostOf(h) = {}
      BY <2>1 DEF HeldOf, LostOf
    <3> QED
      BY <3>1, FS_EmptySet
  <2>3. Cardinality(HeldOf(s)') =
          Cardinality(HeldOf(s)) + (IF h = s THEN 1 ELSE 0) - (IF conn[h] = s THEN 1 ELSE 0)
    BY <1>3, HeldChange, ZenonT(60) DEF Hold
  <2>4. active'[s] = IF s = h THEN 1 ELSE active[s] - (IF conn[h] = s THEN 1 ELSE 0)
    BY <1>1, <1>3 DEF Released, ObjTypes
  <2>5. LostOf(s)' = LostOf(s) /\ looked' = looked
    BY DEF LostOf, Hop
  <2>6. CASE s = h
    BY <1>1, <2>1, <2>2, <2>3, <2>4, <2>5, <2>6
  <2>7. CASE s # h
    <3>1. active[s] = Cardinality(HeldOf(s)) + Cardinality(LostOf(s)) + (IF s = "base" THEN looked ELSE 0)
      BY DEF Counted
    <3>2. /\ active'[s] = active[s] - (IF conn[h] = s THEN 1 ELSE 0)
          /\ Cardinality(HeldOf(s)') = Cardinality(HeldOf(s)) - (IF conn[h] = s THEN 1 ELSE 0)
      BY <2>3, <2>4, <2>7, CallersFinite
    <3>3. Cardinality(LostOf(s)') = Cardinality(LostOf(s))
      BY <2>5
    <3>4. Cardinality(HeldOf(s)) \in Nat /\ Cardinality(LostOf(s)) \in Nat /\ looked \in Nat
      BY CallersFinite DEF ObjTypes
    <3> QED
      BY <2>5, <3>1, <3>2, <3>3, <3>4
  <2> QED
    BY <2>6, <2>7
<1> QED
  BY <1>2, <1>3 DEF Hop, HopReleases, GiveBack

\* After a cleanup nobody has a connection of the session.
LEMMA CleanedCounted ==
  ASSUME ObjTypes, Counted, NEW s \in Sessions, NEW became \in {"dead", "cut"}, Cleaned(s, became)
  PROVE  Counted'
<1>1. became \notin Sessions /\ "none" \notin Sessions
  BY ObjectAssumption DEF Sessions
<1> SUFFICES ASSUME NEW r \in Sessions
             PROVE  active'[r] = Cardinality(HeldOf(r)') + Cardinality(LostOf(r)')
                                   + (IF r = "base" THEN looked' ELSE 0)
  BY DEF Counted
<1>2. /\ active'[r] = (IF r = s THEN 0 ELSE active[r])
      /\ looked' = IF s = "base" THEN 0 ELSE looked
  BY DEF Cleaned, ObjTypes
<1>3. CASE r = s
  <2>1. HeldOf(r)' = {} /\ LostOf(r)' = {}
    BY <1>1, <1>3 DEF Cleaned, HeldOf, LostOf, ObjTypes
  <2> QED
    BY <1>2, <1>3, <2>1, FS_EmptySet
<1>4. CASE r # s
  <2>1. HeldOf(r)' = HeldOf(r) /\ LostOf(r)' = LostOf(r)
    BY <1>1, <1>4 DEF Cleaned, HeldOf, LostOf, ObjTypes
  <2> QED
    BY <1>2, <1>4, <2>1 DEF Counted
<1> QED
  BY <1>3, <1>4

\* A cleanup that fails has taken some out.
LEMMA PartlyCounted ==
  ASSUME ObjTypes, Counted, NEW s \in Sessions, NEW became \in {"dead", "cut"}, Failing(s, became)
  PROVE  Counted'
<1>1. became \notin Sessions /\ "none" \notin Sessions
  BY ObjectAssumption DEF Sessions
<1>2. PICK gone \in SUBSET Callers : \E n \in 0..looked : CleanedPartly(s, gone, n, became)
  BY DEF Failing
<1>3. PICK n \in 0..looked : CleanedPartly(s, gone, n, became)
  BY <1>2
<1>4. PICK H : H = {h \in gone : conn[h] = s}
  OBVIOUS
<1>5. PICK L : L = {h \in gone : lost[h] = s}
  OBVIOUS
<1>6. /\ Cardinality(HeldOf(s)') = Cardinality(HeldOf(s)) - Cardinality(H)
      /\ Cardinality(H) \in Nat
  <2>1. /\ HeldOf(s)' = HeldOf(s) \ H /\ HeldOf(s) \cap H = H
        /\ HeldOf(s) \in SUBSET Callers /\ H \in SUBSET Callers
    BY <1>1, <1>3, <1>4 DEF HeldOf, CleanedPartly, ObjTypes
  <2>2. IsFiniteSet(HeldOf(s)) /\ IsFiniteSet(H)
    BY <2>1, ObjectAssumption, FS_Subset
  <2>3. Cardinality(HeldOf(s) \ H) = Cardinality(HeldOf(s)) - Cardinality(HeldOf(s) \cap H)
    BY <2>2, FS_Difference
  <2> QED
    BY <2>1, <2>2, <2>3, FS_CardinalityType
<1>7. /\ Cardinality(LostOf(s)') = Cardinality(LostOf(s)) - Cardinality(L)
      /\ Cardinality(L) \in Nat
  <2>1. /\ LostOf(s)' = LostOf(s) \ L /\ LostOf(s) \cap L = L
        /\ LostOf(s) \in SUBSET Callers /\ L \in SUBSET Callers
    BY <1>1, <1>3, <1>5 DEF LostOf, CleanedPartly, ObjTypes
  <2>2. IsFiniteSet(LostOf(s)) /\ IsFiniteSet(L)
    BY <2>1, ObjectAssumption, FS_Subset
  <2>3. Cardinality(LostOf(s) \ L) = Cardinality(LostOf(s)) - Cardinality(LostOf(s) \cap L)
    BY <2>2, FS_Difference
  <2> QED
    BY <2>1, <2>2, <2>3, FS_CardinalityType
<1>8. /\ active' = [active EXCEPT ![s] = @ - Cardinality(H) - Cardinality(L) - n]
      /\ looked' = looked - n /\ (s # "base" => n = 0)
  BY <1>3, <1>4, <1>5 DEF CleanedPartly, ObjTypes
<1> SUFFICES ASSUME NEW u \in Sessions
             PROVE  active'[u] = Cardinality(HeldOf(u)') + Cardinality(LostOf(u)')
                                   + (IF u = "base" THEN looked' ELSE 0)
  BY DEF Counted
<1>9. CASE u = s
  BY <1>6, <1>7, <1>8, <1>9, CallersFinite DEF Counted, ObjTypes
<1>10. CASE u # s
  <2>1. HeldOf(u)' = HeldOf(u) /\ LostOf(u)' = LostOf(u)
    BY <1>1, <1>3, <1>10 DEF CleanedPartly, HeldOf, LostOf, ObjTypes
  <2>2. active'[u] = active[u] /\ (u = "base" => looked' = looked)
    BY <1>8, <1>10 DEF ObjTypes
  <2> QED
    BY <2>1, <2>2 DEF Counted
<1> QED
  BY <1>9, <1>10

(* Every step keeps the count of the connections. *)
LEMMA CountedStep ==
  ASSUME ObjTypes, OwnSessions, Counted, [ObjectNext]_objVars
  PROVE  Counted'
<1>1. ASSUME UNCHANGED <<conn, lost, active, looked>> PROVE Counted'
  BY <1>1 DEF Counted, HeldOf, LostOf
<1>2. ASSUME NEW h \in Callers, LookUp(h) PROVE Counted'
  <2>1. CASE UNCHANGED active /\ UNCHANGED looked
    BY <1>1, <1>2, <2>1 DEF LookUp
  <2>2. CASE looked' = looked + 1 /\ active' = [active EXCEPT !["base"] = @ + 1]
    <3>1. conn' = conn /\ lost' = lost
      BY <1>2 DEF LookUp
    <3>2. \A s \in Sessions : active'[s] = active[s] + (IF s = "base" THEN 1 ELSE 0)
      BY <2>2 DEF ObjTypes
    <3>3. \A s \in Sessions : HeldOf(s)' = HeldOf(s) /\ LostOf(s)' = LostOf(s)
      BY <3>1 DEF HeldOf, LostOf
    <3> QED
      BY <2>2, <3>1, <3>2, <3>3, CallersFinite DEF Counted, ObjTypes
  <2> QED
    BY <1>2, <2>1, <2>2 DEF LookUp
<1>3. ASSUME NEW h \in Callers, GetConnection(h) PROVE Counted'
  <2>1. conn[h] = "none"
    BY <1>3 DEF GetConnection, OwnSessions
  <2> QED
    BY <1>1, <1>3, <2>1, TakeCounted DEF GetConnection
<1>4. ASSUME NEW h \in Callers, OpenRefused(h) PROVE Counted'
  BY <1>4, LeaveCounted DEF OpenRefused, sessVars
<1>5. ASSUME NEW h \in Callers, NetworkFails(h) PROVE Counted'
  BY <1>5, GiveBackCounted DEF NetworkFails
<1>6. ASSUME NEW h \in Callers, Close(h) \/ CloseAtExit(h) PROVE Counted'
  <2>1. looked' = looked /\ at[h] = "open" /\ CloseSteps(h)
    BY <1>6 DEF Close, CloseAtExit, ToClose
  <2> QED
    BY <2>1, GiveBackCounted, LeaveCounted DEF CloseSteps
<1>7. ASSUME NEW h \in Callers,
             \/ AskWhere(h) \/ Check(h) \/ OpenStarts(h) \/ StoreHost(h) \/ OpenObject(h)
             \/ WriteFile(h) \/ Download(h) \/ LocalAppears(h) \/ Transfer(h) \/ Stored(h)
             \/ FinalLookup(h)
      PROVE  Counted'
  BY <1>1, <1>7 DEF AskWhere, Check, OpenStarts, StoreHost, OpenObject, WriteFile, Download,
     LocalAppears, Transfer, Stored, FinalLookup, ioVars, sessVars
<1>11. ASSUME NEW h \in Callers, MakeAccount(h) PROVE Counted'
  BY <1>1, <1>11, LeaveCounted DEF MakeAccount
<1>8. ASSUME NEW s \in Sessions, Cleanup(s) \/ CleanupAtExit(s) PROVE Counted'
  BY <1>8, CleanedCounted, PartlyCounted DEF Cleanup, CleanupAtExit
<1>9. CASE OtherCreates \/ ExitBegins \/ RunHook \/ StageEnds \/ CleanedUp
  BY <1>1, <1>9 DEF OtherCreates, ExitBegins, RunHook, StageEnds, CleanedUp, OnlyExit, ioVars, sessVars
<1>10. CASE UNCHANGED objVars
  BY <1>1, <1>10 DEF objVars, ioVars, sessVars
<1> QED
  BY <1>2, <1>3, <1>4, <1>5, <1>6, <1>7, <1>8, <1>9, <1>10, <1>11,
     HopCounted DEF ObjectNext

(***************************************************************************)
(* The connections in the pools of all sessions, clones included, are      *)
(* those that files and calls hold, those of calls that failed, and those  *)
(* the version was looked up with.                                         *)
(***************************************************************************)
THEOREM ConnectionsAccountedFor == ObjectSpec => []AccountedFor
<1> DEFINE Inv == ObjTypes /\ OwnSessions /\ Counted
<1>1. ObjectInit => Inv
  <2> SUFFICES ASSUME ObjectInit PROVE Inv
    OBVIOUS
  <2>1. "none" \notin Sessions
    BY ObjectAssumption DEF Sessions
  <2>2. OwnSessions
    BY <2>1, ObjectAssumption DEF ObjectInit, OwnSessions
  <2>3. \A s \in Sessions : HeldOf(s) = {} /\ LostOf(s) = {}
    BY <2>1 DEF ObjectInit, HeldOf, LostOf
  <2>4. Cardinality({}) = 0
    BY FS_EmptySet
  <2>5. (\A s \in Sessions : active[s] = 0) /\ looked = 0
    BY DEF ObjectInit
  <2>6. Counted
    BY <2>3, <2>4, <2>5 DEF Counted
  <2> QED
    BY <2>2, <2>6, InitTypes
<1>2. Inv /\ [ObjectNext]_objVars => Inv'
  BY TypesStep, OwnSessionsStep, CountedStep
<1>3. Inv => AccountedFor
  BY DEF OwnSessions, Counted, HeldOf, LostOf, AccountedFor, Over
<1> QED
  BY <1>1, <1>2, <1>3, PTL DEF ObjectSpec

-----------------------------------------------------------------------------
(* The hosts *)

(* Every step keeps what is said of redirections. *)
LEMMA RedirectsStep ==
  ASSUME ObjTypes, Redirects, [ObjectNext]_objVars
  PROVE  Redirects'
<1> USE DEF ObjTypes, Redirects, Early
<1>0. "base" \notin Callers /\ Callers \subseteq Sessions /\ "base" \in Sessions
  BY ObjectAssumption DEF Sessions
\* A step that leaves the hosts alone, and takes no call back to before its redirect.
<1>1. ASSUME UNCHANGED <<host, target, override, crossed>>,
             \A h \in Callers : /\ at'[h] \in Early => at[h] \in Early
                                /\ at'[h] = "configure" => at[h] = "configure"
      PROVE  Redirects'
  <2>1. ASSUME NEW h \in Callers
        PROVE  /\ host[h] # "none" /\ h \notin crossed => host[h] = target[h]
               /\ at'[h] \in Early => host[h] = "none"
               /\ at'[h] = "configure" /\ h \notin crossed => override = target[h]
    BY <1>1
  <2> QED
    BY <1>1, <2>1
<1>2. ASSUME NEW h \in Callers,
             \/ Check(h) \/ OpenStarts(h) \/ LookUp(h) \/ GetConnection(h) \/ OpenObject(h)
             \/ OpenRefused(h) \/ NetworkFails(h) \/ WriteFile(h) \/ Download(h) \/ LocalAppears(h)
             \/ Transfer(h) \/ Stored(h) \/ FinalLookup(h)
      PROVE  Redirects'
  <2>1. /\ UNCHANGED <<host, target, override, crossed>>
        /\ \/ at' = at
           \/ \E p \in Places : at' = [at EXCEPT ![h] = p] /\ p \notin Early
           \/ at[h] \in {"begin", "look", "get"}
              /\ \E p \in Places \ {"configure"} : at' = [at EXCEPT ![h] = p]
    BY <1>2 DEF Check, OpenStarts, LookUp, GetConnection, OpenObject, OpenRefused, NetworkFails,
       WriteFile, Download, LocalAppears, Transfer, Stored, FinalLookup, OGoto, Places, Over, ioVars,
       hostVars, sessVars
  <2>2. \A g \in Callers : /\ at'[g] \in Early => at[g] \in Early
                           /\ at'[g] = "configure" => at[g] = "configure"
    BY <2>1
  <2> QED
    BY <1>1, <2>1, <2>2
<1>3. ASSUME NEW h \in Callers, AskWhere(h) PROVE Redirects'
  BY <1>0, <1>3 DEF AskWhere, OGoto, hostVars, sessVars
<1>9. ASSUME NEW h \in Callers, StoreHost(h) PROVE Redirects'
  BY <1>0, <1>9 DEF StoreHost, OGoto
<1>10. ASSUME NEW h \in Callers, MakeAccount(h) PROVE Redirects'
  BY <1>0, <1>10 DEF MakeAccount, OGoto
<1>4. ASSUME NEW h \in Callers, Hop(h) PROVE Redirects'
  BY <1>1, <1>4 DEF Hop, OGoto, hostVars
<1>5. ASSUME NEW h \in Callers, Close(h) \/ CloseAtExit(h) PROVE Redirects'
  <2>1. /\ UNCHANGED <<host, target, override, crossed>>
        /\ \E p \in {"raised", "stored", "lookup", "closed"} : at' = [at EXCEPT ![h] = p]
    BY <1>5 DEF Close, CloseAtExit, CloseSteps, Result, OGoto, hostVars
  <2> QED
    BY <1>1, <2>1
<1>6. ASSUME NEW s \in Sessions, Cleanup(s) \/ CleanupAtExit(s) PROVE Redirects'
  <2>1. UNCHANGED <<host, target, override, crossed>> /\ at' = at
    BY <1>6 DEF Cleanup, CleanupAtExit, Cleaned, Failing, CleanedPartly, Reconfigured
  <2> QED
    BY <1>1, <2>1
<1>7. CASE OtherCreates \/ ExitBegins \/ RunHook \/ StageEnds \/ CleanedUp
  BY <1>1, <1>7 DEF OtherCreates, ExitBegins, RunHook, StageEnds, CleanedUp, OnlyExit, ioVars,
     hostVars, sessVars
<1>8. CASE UNCHANGED objVars
  BY <1>1, <1>8 DEF objVars, ioVars, hostVars, sessVars
<1> QED
  BY <1>2, <1>3, <1>4, <1>5, <1>6, <1>7, <1>8, <1>9, <1>10 DEF ObjectNext

(***************************************************************************)
(* A redirect moves the host of no session that has its account, also when *)
(* they are cleaned up and configured again; and a clone has the host its  *)
(* redirect named, unless another one was stored before the account read   *)
(* the dictionary they share.                                              *)
(***************************************************************************)
THEOREM HostsKept == ObjectSpec => []HostKept
<1> DEFINE Inv == ObjTypes /\ Redirects
<1>1. ObjectInit => Inv
  <2> SUFFICES ASSUME ObjectInit PROVE Redirects
    BY InitTypes
  <2>1. "base" \notin Callers /\ Callers \subseteq Sessions /\ "base" \in Sessions
    BY ObjectAssumption DEF Sessions
  <2>2. host = [s \in Sessions |-> IF s = "base" THEN "home" ELSE "none"]
    BY DEF ObjectInit
  <2> QED
    BY <2>1, <2>2 DEF ObjectInit, Redirects
<1>2. Inv /\ [ObjectNext]_objVars => Inv'
  BY TypesStep, RedirectsStep
<1>3. Inv => HostKept
  BY DEF Redirects, HostKept
<1> QED
  BY <1>1, <1>2, <1>3, PTL DEF ObjectSpec

-----------------------------------------------------------------------------
(* What put and get overwrite *)

OverwriteInv == Unforced /\ Written /\ Opened /\ Clashes

(* Every step keeps what is said of overwriting. *)
LEMMA OverwriteStep ==
  ASSUME ObjTypes, CallPlaces, OverwriteInv, [ObjectNext]_objVars
  PROVE  OverwriteInv'
<1> USE DEF ObjTypes, OverwriteInv, Unforced, Written, Opened, Clashes, OnTheWay
\* The place of a call, and nothing else that matters here.
<1>1. ASSUME NEW h \in Callers,
             \/ OpenStarts(h) \/ LookUp(h) \/ GetConnection(h) \/ AskWhere(h) \/ StoreHost(h)
             \/ MakeAccount(h) \/ Hop(h) \/ OpenRefused(h) \/ NetworkFails(h) \/ FinalLookup(h)
      PROVE  OverwriteInv'
  <2>1. /\ UNCHANGED <<call, remote, local, clash, late>>
        /\ \E p \in Places :
             /\ at' = [at EXCEPT ![h] = p]
             /\ p \notin {"download", "transfer", "stored", "open"}
             /\ p = "returned" => at[h] = "lookup"
             /\ p \in OnTheWay => at[h] \in OnTheWay \/ call[h].op \in {"read", "write"}
    BY <1>1 DEF OpenStarts, LookUp, GetConnection, AskWhere, StoreHost, MakeAccount, Hop, OpenRefused,
       NetworkFails, FinalLookup, OGoto, Places, Over, dataVars
  <2> QED
    BY <2>1 DEF CallPlaces, Writes
<1>2. ASSUME NEW h \in Callers, Check(h) PROVE OverwriteInv'
  <2>1. /\ UNCHANGED <<call, remote, local, clash, late>>
        /\ \/ at' = [at EXCEPT ![h] = "raised"]
           \/ ~Refused(h) /\ \E p \in {"transfer", "get"} : at' = [at EXCEPT ![h] = p]
    BY <1>2 DEF Check, OGoto, dataVars
  <2> QED
    BY <2>1 DEF Refused, Writes
\* What a step may do to the object, for the puts that have looked.
<1>12. ASSUME Appears(remote'), UNCHANGED <<call, local>>,
              \A g \in Callers : late'[g] \/ at'[g] = at[g] \/ at'[g] \notin OnTheWay \cup {"download"}
                                \/ (at[g] = "send" /\ call[g].op = "get")
       PROVE  Unforced'
  <2>1. \A g \in Callers : late[g] => late'[g]
    BY <1>12 DEF Appears
  <2>2. ASSUME NEW g \in Callers, ~late'[g], call[g].op = "put", at[g] # "begin", remote = "absent"
        PROVE  remote' = "absent"
    BY <1>12, <2>2 DEF Appears
  <2> QED
    BY <1>12, <2>1, <2>2
<1>3. ASSUME NEW h \in Callers, OpenObject(h) PROVE OverwriteInv'
  <2>1. /\ UNCHANGED <<call, local>> /\ Appears(remote')
        /\ at[h] = "send" /\ at' = [at EXCEPT ![h] = IF call[h].op = "get" THEN "download" ELSE "open"]
        /\ remote' = IF Writes(h) THEN "partial" ELSE remote
        /\ clash' = IF call[h].op = "put" THEN [clash EXCEPT ![h] = remote # "absent"] ELSE clash
    BY <1>3 DEF OpenObject, OGoto
  <2>2. Unforced'
    BY <1>12, <2>1
  <2>3. Written' /\ Opened'
    BY <2>1 DEF Writes
  <2>4. Clashes'
    BY <2>1 DEF Appears
  <2> QED
    BY <2>2, <2>3, <2>4
<1>4. ASSUME NEW h \in Callers, WriteFile(h) \/ Stored(h) PROVE OverwriteInv'
  BY <1>4 DEF WriteFile, Stored, OGoto, dataVars, Writes
<1>5. ASSUME NEW h \in Callers, Download(h) PROVE OverwriteInv'
  <2>1. /\ UNCHANGED <<call, remote, late>>
        /\ at[h] = "download" /\ at' = [at EXCEPT ![h] = "open"] /\ call[h].op = "get"
        /\ \A g \in Callers \ {h} : local'[g] = local[g]
        /\ clash' = [clash EXCEPT ![h] = local[h] # "absent"]
    BY <1>5 DEF Download, OGoto, CallPlaces
  <2>2. Unforced' /\ Written' /\ Opened'
    BY <2>1 DEF Writes
  <2>3. Clashes'
    BY <2>1
  <2> QED
    BY <2>2, <2>3
<1>13. ASSUME NEW h \in Callers, LocalAppears(h) PROVE OverwriteInv'
  <2>1. /\ UNCHANGED <<call, at, remote, clash>> /\ call[h].op = "get"
        /\ local' = [local EXCEPT ![h] = "theirs"] /\ late' = [late EXCEPT ![h] = @ \/ at[h] # "begin"]
        /\ local[h] = "absent"
    BY <1>13 DEF LocalAppears, ioVars
  <2>2. Unforced'
    <3>3. at[h] # "begin" => late'[h]
      BY <2>1
    <3>4. \A g \in Callers \ {h} : local'[g] = local[g]
      BY <2>1
    <3>1. \A g \in Callers : local'[g] = local[g] \/ (g = h /\ (late'[g] \/ at[g] = "begin"))
      BY <3>3, <3>4
    <3>2. \A g \in Callers : late[g] => late'[g]
      BY <2>1
    <3> QED
      BY <2>1, <3>1, <3>2
  <2>4. Written' /\ Opened'
    BY <2>1 DEF Writes
  <2>3. Clashes'
    BY <2>1
  <2> QED
    BY <2>2, <2>3, <2>4
<1>6. ASSUME NEW h \in Callers, Close(h) \/ CloseAtExit(h) PROVE OverwriteInv'
  <2>1. /\ UNCHANGED <<call, local, clash, late>> /\ at[h] = "open"
        /\ \E p \in {"raised", "stored", "lookup", "closed"} :
             /\ at' = [at EXCEPT ![h] = p]
             /\ p = "stored" => remote' = "ours"
             /\ remote' # remote => remote' = "ours" /\ Writes(h)
    BY <1>6 DEF Close, CloseAtExit, ToClose, CloseSteps, Result, OGoto, CallPlaces, Writes
  <2> QED
    BY <2>1 DEF Writes
<1>7. ASSUME NEW h \in Callers, Transfer(h) PROVE OverwriteInv'
  <2>1. /\ UNCHANGED <<call, local>> /\ Appears(remote')
        /\ at[h] = "transfer" /\ call[h].op = "put"
        /\ clash' = [clash EXCEPT ![h] = remote # "absent" /\ remote' # remote]
        /\ \/ at' = [at EXCEPT ![h] = "stored"] /\ remote' = "ours"
           \/ at' = [at EXCEPT ![h] = "raised"] /\ remote' \in {remote, "partial"}
    BY <1>7 DEF Transfer, OGoto, CallPlaces
  <2>2. Unforced'
    BY <1>12, <2>1
  <2>3. Written' /\ Opened'
    BY <2>1 DEF Writes
  <2>4. Clashes'
    BY <2>1 DEF Appears
  <2> QED
    BY <2>2, <2>3, <2>4
<1>8. CASE OtherCreates
  <2>1. UNCHANGED <<call, at, local, clash>> /\ Appears(remote') /\ remote = "absent"
    BY <1>8 DEF OtherCreates, ioVars
  <2>2. Unforced'
    BY <1>12, <2>1
  <2>3. Written' /\ Opened' /\ Clashes'
    BY <1>8, <2>1 DEF OtherCreates, Appears, Writes
  <2> QED
    BY <2>2, <2>3
<1>9. ASSUME NEW s \in Sessions, Cleanup(s) \/ CleanupAtExit(s) PROVE OverwriteInv'
  BY <1>9 DEF Cleanup, CleanupAtExit, dataVars, Writes
<1>10. CASE ExitBegins \/ RunHook \/ StageEnds \/ CleanedUp
  BY <1>10 DEF ExitBegins, RunHook, StageEnds, CleanedUp, OnlyExit, ioVars, dataVars, Writes
<1>11. CASE UNCHANGED objVars
  BY <1>11 DEF objVars, ioVars, dataVars, Writes
<1> QED
  BY <1>1, <1>2, <1>3, <1>4, <1>5, <1>6, <1>7, <1>8, <1>9, <1>10, <1>11, <1>13 DEF ObjectNext

(***************************************************************************)
(* put and get overwrite what was there only with the force flag, or what  *)
(* appeared after they had looked, or in a put to a collection, which does *)
(* not look; a put that returned had the object written.                   *)
(***************************************************************************)
THEOREM OverwritesForced == ObjectSpec => []OverwriteForced
<1> DEFINE Inv == ObjTypes /\ CallPlaces /\ OverwriteInv
<1>1. ObjectInit => Inv
  <2> SUFFICES ASSUME ObjectInit PROVE Inv
    OBVIOUS
  <2>1. CallPlaces /\ Opened
    BY DEF ObjectInit, CallPlaces, Opened
  <2>2. Unforced /\ Written /\ Clashes
    BY DEF ObjectInit, Unforced, OnTheWay, Written, Clashes
  <2> QED
    BY <2>1, <2>2, InitTypes DEF OverwriteInv
<1>2. Inv /\ [ObjectNext]_objVars => Inv'
  BY TypesStep, PlacesStep, OverwriteStep
<1>3. Inv => OverwriteForced
  BY DEF OverwriteInv, Written, Clashes, OverwriteForced
<1> QED
  BY <1>1, <1>2, <1>3, PTL DEF ObjectSpec

-----------------------------------------------------------------------------
(* The exit of the program *)

(* Every step keeps what is said of the exit. *)
LEMMA AtExitStep ==
  ASSUME ObjTypes, OwnSessions, CallPlaces, AtExit, [ObjectNext]_objVars
  PROVE  AtExit'
<1> USE DEF ObjTypes, AtExit
\* Calls go on only while the program runs, or end with the closing of files.
<1>1. ASSUME NEW h \in Callers,
             \/ Check(h) \/ OpenStarts(h) \/ LookUp(h) \/ GetConnection(h) \/ AskWhere(h)
             \/ StoreHost(h) \/ MakeAccount(h) \/ Hop(h) \/ OpenObject(h) \/ LocalAppears(h)
             \/ OpenRefused(h) \/ NetworkFails(h) \/ WriteFile(h) \/ Download(h) \/ Close(h)
             \/ Transfer(h) \/ Stored(h) \/ FinalLookup(h)
      PROVE  AtExit'
  <2>1. exit = "running"
    BY <1>1 DEF Check, OpenStarts, LookUp, GetConnection, AskWhere, StoreHost, MakeAccount, Hop, OpenObject,
       LocalAppears, OpenRefused, NetworkFails, WriteFile, Download, Close, Transfer, Stored,
       FinalLookup, Over
  <2>2. exit' = exit /\ skipped' = skipped
    BY <1>1 DEF Check, OpenStarts, LookUp, GetConnection, AskWhere, StoreHost, MakeAccount, Hop, OpenObject,
       LocalAppears, OpenRefused, NetworkFails, WriteFile, Download, Close, Transfer, Stored,
       FinalLookup, exitVars
  <2>3. \A g \in Callers : conn'[g] = conn[g] \/ conn'[g] \in {"none", "base", g}
    <3>1. \/ conn' = conn
          \/ \E c \in {"none", "base", h} : conn' = [conn EXCEPT ![h] = c]
      BY <1>1 DEF Check, OpenStarts, LookUp, GetConnection, AskWhere, StoreHost, MakeAccount, Hop, OpenObject,
         LocalAppears, OpenRefused, NetworkFails, WriteFile, Download, Close, CloseSteps, GiveBack,
         Hold, Transfer, Stored, FinalLookup, ioVars
    <3> QED
      BY <3>1
  <2>4. "cut" \notin Callers
    BY ObjectAssumption
  <2> QED
    BY <2>1, <2>2, <2>3, <2>4
<1>2. ASSUME NEW h \in Callers, CloseAtExit(h) PROVE AtExit'
  <2>1. /\ exit = "files" /\ at[h] = "open" /\ call[h].managed /\ conn[h] # "cut"
        /\ call' = call /\ conn' = [conn EXCEPT ![h] = "none"]
        /\ call[h].op \in {"read", "write"}
    BY <1>2 DEF CloseAtExit, ToClose, CloseSteps, GiveBack, Hold
  <2>2. \/ at' = [at EXCEPT ![h] = "raised"] /\ exit' = "after" /\ skipped' = "files"
        \/ at' = [at EXCEPT ![h] = "closed"] /\ exit' = exit /\ skipped' = skipped
    <3>1. PICK p \in {"raised", "closed"} : at' = [at EXCEPT ![h] = p]
      BY <1>2, <2>1 DEF CloseAtExit, CloseSteps, Result, OGoto
    <3>2. at'[h] = p
      BY <3>1
    <3> QED
      BY <1>2, <2>1, <3>1, <3>2 DEF CloseAtExit, Stage
  <2>3. \A g \in Callers : ToClose(g)' => ToClose(g)
    BY <2>1, <2>2 DEF ToClose
  <2> QED
    BY <2>1, <2>2, <2>3 DEF Over
<1>3. ASSUME NEW s \in Sessions, Cleanup(s) PROVE AtExit'
  <2>1. exit = "running" /\ exit' = exit /\ skipped' = skipped
    BY <1>3 DEF Cleanup, exitVars
  <2>2. \A g \in Callers : conn'[g] = conn[g] \/ conn'[g] = "dead"
    BY <1>3, CleanupTakes DEF Cleanup
  <2> QED
    BY <2>1, <2>2
<1>4. ASSUME NEW s \in Sessions, CleanupAtExit(s) PROVE AtExit'
  <2>1. /\ exit = "files" /\ at' = at /\ call' = call /\ \A h \in Callers : ~ToClose(h)
        /\ (exit' = exit /\ skipped' = skipped) \/ (exit' = "after" /\ skipped' = "sessions")
    BY <1>4 DEF CleanupAtExit, Stage
  <2> QED
    BY <2>1 DEF ToClose
<1>5. CASE OtherCreates
  BY <1>5 DEF OtherCreates, ioVars, sessVars, exitVars, ToClose, Live
<1>6. CASE ExitBegins
  BY <1>6 DEF ExitBegins, Stage, OnlyExit, ioVars, sessVars, ToClose
<1>7. CASE RunHook \/ StageEnds \/ CleanedUp
  BY <1>7 DEF RunHook, StageEnds, CleanedUp, Stage, OnlyExit, ioVars, sessVars, ToClose, Live
<1>8. CASE UNCHANGED objVars
  BY <1>8 DEF objVars, ioVars, sessVars, exitVars, ToClose, Live
<1> QED
  BY <1>1, <1>2, <1>3, <1>4, <1>5, <1>6, <1>7, <1>8 DEF ObjectNext

\* What the two reversed lists are, one after the other.
LEMMA OrderIs ==
  /\ Order \in Seq(Range(BeforeHooks) \cup Range(AfterHooks))
  /\ Len(Order) = Before + Len(AfterHooks)
  /\ \A i \in 1..Before : Order[i] = BeforeHooks[Before - i + 1]
  /\ \A i \in 1..Len(AfterHooks) : Order[Before + i] = AfterHooks[Len(AfterHooks) - i + 1]
<1>1. BeforeHooks \in Seq(Range(BeforeHooks)) /\ AfterHooks \in Seq(Range(AfterHooks))
  BY ObjectAssumption
<1>2. /\ Reverse(BeforeHooks) \in Seq(Range(BeforeHooks)) /\ Len(Reverse(BeforeHooks)) = Before
      /\ Reverse(AfterHooks) \in Seq(Range(AfterHooks)) /\ Len(Reverse(AfterHooks)) = Len(AfterHooks)
  BY <1>1 DEF Reverse, Before
<1>3. /\ \A i \in 1..Before : Reverse(BeforeHooks)[i] = BeforeHooks[Before - i + 1]
      /\ \A i \in 1..Len(AfterHooks) : Reverse(AfterHooks)[i] = AfterHooks[Len(AfterHooks) - i + 1]
  BY <1>1 DEF Reverse, Before
<1>4. /\ Reverse(BeforeHooks) \in Seq(Range(BeforeHooks) \cup Range(AfterHooks))
      /\ Reverse(AfterHooks) \in Seq(Range(BeforeHooks) \cup Range(AfterHooks))
  BY <1>2
<1>5. Before \in Nat /\ Len(AfterHooks) \in Nat
  BY <1>1 DEF Before
<1>6. /\ Order \in Seq(Range(BeforeHooks) \cup Range(AfterHooks))
      /\ Len(Order) = Before + Len(AfterHooks)
  BY <1>2, <1>4 DEF Order
<1>7. ASSUME NEW i \in 1..(Before + Len(AfterHooks))
      PROVE  Order[i] = IF i <= Before THEN Reverse(BeforeHooks)[i] ELSE Reverse(AfterHooks)[i - Before]
  BY <1>2, <1>4, <1>5 DEF Order
<1>8. ASSUME NEW i \in 1..Len(AfterHooks)
      PROVE  Order[Before + i] = Reverse(AfterHooks)[i]
  BY <1>5, <1>7
<1>9. ASSUME NEW i \in 1..Before
      PROVE  Order[i] = BeforeHooks[Before - i + 1]
  <2>1. i \in 1..(Before + Len(AfterHooks)) /\ i <= Before
    BY <1>5
  <2> QED
    BY <1>3, <1>7, <2>1
<1> QED
  BY <1>3, <1>6, <1>8, <1>9

(* Every step keeps the types of the exit hooks. *)
LEMMA HookTypesStep ==
  ASSUME HookTypes, [ObjectNext]_objVars
  PROVE  HookTypes'
<1> USE DEF HookTypes
<1>0. /\ BeforeHooks \in Seq(Range(BeforeHooks) \cup Range(AfterHooks))
      /\ AfterHooks \in Seq(Range(BeforeHooks) \cup Range(AfterHooks))
      /\ <<>> \in Seq(Range(BeforeHooks) \cup Range(AfterHooks))
  BY ObjectAssumption
<1>1. CASE RunHook
  <2>1. Last(hooks) \in Range(BeforeHooks) \cup Range(AfterHooks) /\ Live \in BOOLEAN
    BY <1>1 DEF RunHook, Last, Live
  <2>2. hooks' \in Seq(Range(BeforeHooks) \cup Range(AfterHooks))
    BY <1>1 DEF RunHook, Front
  <2> QED
    BY <1>1, <2>1, <2>2 DEF RunHook
<1>2. CASE ExitBegins \/ StageEnds \/ CleanedUp
  BY <1>0, <1>2 DEF ExitBegins, StageEnds, CleanedUp, Stage
<1>3. ASSUME NEW h \in Callers, CloseAtExit(h) PROVE HookTypes'
  BY <1>0, <1>3 DEF CloseAtExit, Stage
<1>5. ASSUME NEW s \in Sessions, CleanupAtExit(s) PROVE HookTypes'
  BY <1>0, <1>5 DEF CleanupAtExit, Stage
<1>4. ASSUME UNCHANGED <<hooks, ran>> PROVE HookTypes'
  BY <1>4
<1> QED
  BY <1>1, <1>2, <1>3, <1>4, <1>5 DEF ObjectNext, Check, OpenStarts, LookUp, GetConnection, AskWhere,
     StoreHost, MakeAccount, Hop, OpenObject, LocalAppears, OpenRefused, NetworkFails, WriteFile,
     Download, Close, Transfer, Stored, FinalLookup, Cleanup, OtherCreates, exitVars, objVars

(* Every step keeps what is said of the hooks. *)
LEMMA HooksStep ==
  ASSUME ObjTypes, OwnSessions, CallPlaces, AtExit, HookTypes, HooksInOrder, [ObjectNext]_objVars
  PROVE  HooksInOrder'
<1> USE DEF HookTypes, HooksInOrder
<1>0. /\ BeforeHooks \in Seq(Range(BeforeHooks)) /\ AfterHooks \in Seq(Range(AfterHooks))
      /\ Before = Len(BeforeHooks) /\ Before \in Nat /\ Len(AfterHooks) \in Nat
  BY ObjectAssumption DEF Before
<1>1. CASE RunHook
  <2> DEFINE n == Len(hooks)
             l == Len(ran)
  <2>1. /\ n \in Nat \ {0} /\ n <= Len(Pending) /\ l \in Nat
        /\ l + n = Len(Pending) + (IF exit = "after" THEN Before ELSE 0)
        /\ hooks[n] = Pending[n]
        /\ exit' = exit /\ skipped' = skipped /\ exit \in {"before", "after"}
    BY <1>1 DEF RunHook
  <2>2. Len(hooks') = n - 1 /\ \A i \in 1..(n - 1) : hooks'[i] = hooks[i]
    <3>1. hooks' = SubSeq(hooks, 1, n - 1)
      BY <1>1 DEF RunHook, Front
    <3>2. n - 1 \in Nat /\ \A i \in 1..(n - 1) : hooks[i] \in Range(BeforeHooks) \cup Range(AfterHooks)
      BY <2>1
    <3> HIDE DEF n
    <3>3. Len(SubSeq(hooks, 1, n - 1)) = n - 1
      BY <2>1, <3>2, SubSeqProperties
    <3>4. \A i \in 1..(n - 1) : SubSeq(hooks, 1, n - 1)[i] = hooks[1 + i - 1]
      BY <2>1, <3>2, SubSeqProperties
    <3>5. \A i \in 1..(n - 1) : 1 + i - 1 = i
      OBVIOUS
    <3> QED
      BY <3>1, <3>3, <3>4, <3>5
  <2>3. /\ Len(ran') = l + 1
        /\ ran'[l + 1].hook = hooks[n] /\ ran'[l + 1].live = Live
        /\ \A i \in 1..l : ran'[i] = ran[i]
    BY <1>1 DEF RunHook, Last
  <2>4. hooks[n] = Order[l + 1]
    <3>1. CASE exit = "after"
      <4> DEFINE k == Len(AfterHooks) - n + 1
      <4>1. hooks[n] = AfterHooks[n] /\ n <= Len(AfterHooks) /\ l + 1 = Before + k
        BY <1>0, <2>1, <3>1 DEF Pending
      <4>2. k \in 1..Len(AfterHooks) /\ Len(AfterHooks) - k + 1 = n
        BY <1>0, <2>1, <4>1
      <4> HIDE DEF k
      <4>3. Order[Before + k] = AfterHooks[Len(AfterHooks) - k + 1]
        BY <4>2, OrderIs
      <4> QED
        BY <4>1, <4>2, <4>3
    <3>2. CASE exit = "before"
      <4> DEFINE k == Before - n + 1
      <4>1. Pending = BeforeHooks /\ Len(BeforeHooks) = Before /\ Before \in Nat
        BY <1>0, <3>2 DEF Pending
      <4>2. hooks[n] = BeforeHooks[n] /\ n <= Before /\ l + n = Before
        BY <2>1, <3>2, <4>1
      <4>3. k \in 1..Before /\ Before - k + 1 = n /\ l + 1 = k
        BY <2>1, <4>1, <4>2, SMTT(30)
      <4> HIDE DEF k
      <4>4. Order[k] = BeforeHooks[Before - k + 1]
        BY <4>3, OrderIs
      <4> QED
        BY <4>2, <4>3, <4>4
    <3> QED
      BY <2>1, <3>1, <3>2
  <2>5. exit = "after" /\ skipped = "nothing" => ~Live
    BY DEF AtExit
  <2> HIDE DEF n, l
  <2>6. ASSUME NEW i \in 1..(l + 1)
        PROVE  /\ ran'[i].hook = Order[i]
               /\ exit \in {"after", "gone"} /\ skipped = "nothing" /\ i > Before => ~ran'[i].live
    BY <2>1, <2>3, <2>4, <2>5 DEF l
  <2>7. ASSUME NEW i \in 1..(n - 1)
        PROVE  hooks'[i] = Pending[i]
    BY <2>1, <2>2 DEF n
  <2>8. Pending' = Pending
    BY <2>1 DEF Pending
  <2>9. /\ exit' \in {"before", "after"} /\ Len(ran') \in Nat /\ Len(hooks') \in Nat
        /\ Len(hooks') <= Len(Pending')
        /\ Len(ran') + Len(hooks') = Len(Pending') + (IF exit' = "after" THEN Before ELSE 0)
    <3>1. Len(Pending) \in Nat
      BY <1>0 DEF Pending
    <3>2. (l + 1) + (n - 1) = l + n /\ n - 1 <= Len(Pending)
      BY <2>1, <3>1
    <3> QED
      BY <2>1, <2>2, <2>3, <2>8, <3>2
  <2>10. /\ \A i \in 1..Len(hooks') : hooks'[i] = Pending'[i]
         /\ \A i \in 1..Len(ran') : ran'[i].hook = Order[i]
         /\ exit' \in {"after", "gone"} /\ skipped' = "nothing" =>
              \A i \in 1..Len(ran') : i > Before => ~ran'[i].live
    BY <2>1, <2>2, <2>3, <2>6, <2>7, <2>8
  <2>11. exit' \notin {"running", "files", "gone"}
    BY <2>9
  <2> QED
    BY <2>9, <2>10, <2>11
\* A stage of functions begins.
<1>2. ASSUME ran' = ran, exit' \in {"before", "after"}, hooks' = Pending',
             Len(ran) = IF exit' = "after" THEN Before ELSE 0
      PROVE  HooksInOrder'
  BY <1>0, <1>2 DEF Pending
<1>3. CASE ExitBegins \/ CleanedUp
  BY <1>2, <1>3 DEF ExitBegins, CleanedUp, Stage, Pending
<1>4. CASE StageEnds
  BY <1>0, <1>4 DEF StageEnds, Stage, Pending
<1>7. ASSUME NEW s \in Sessions, CleanupAtExit(s) PROVE HooksInOrder'
  <2>1. CASE exit' = "after" /\ hooks' = AfterHooks
    BY <1>2, <1>7, <2>1 DEF CleanupAtExit, Pending
  <2>2. CASE UNCHANGED <<exit, hooks, skipped>>
    BY <1>7, <2>2 DEF CleanupAtExit, Pending
  <2> QED
    BY <1>7, <2>1, <2>2 DEF CleanupAtExit, Stage
<1>5. ASSUME NEW h \in Callers, CloseAtExit(h) PROVE HooksInOrder'
  <2>1. CASE exit' = "after" /\ hooks' = AfterHooks
    BY <1>2, <1>5, <2>1 DEF CloseAtExit, Pending
  <2>2. CASE UNCHANGED <<exit, hooks, skipped>>
    BY <1>5, <2>2 DEF CloseAtExit, Pending
  <2> QED
    BY <1>5, <2>1, <2>2 DEF CloseAtExit, Stage
<1>6. ASSUME UNCHANGED exitVars PROVE HooksInOrder'
  BY <1>6 DEF exitVars, Pending
<1> QED
  BY <1>1, <1>3, <1>4, <1>5, <1>6, <1>7 DEF ObjectNext, Check, OpenStarts, LookUp, GetConnection,
     AskWhere, StoreHost, MakeAccount, Hop, OpenObject, LocalAppears, OpenRefused, NetworkFails,
     WriteFile, Download, Close, Transfer, Stored, FinalLookup, Cleanup, OtherCreates, objVars

(***************************************************************************)
(* Once the program is gone, the registered functions have run in their    *)
(* stages and orders; unless a close failed, every managed file was closed *)
(* and flushed; and unless a close or a cleanup failed, no connection was  *)
(* left, already when the functions of the last stage ran.                 *)
(***************************************************************************)
THEOREM FlushedAtExitHolds == ObjectSpec => []FlushedAtExit
<1> DEFINE Inv == ObjTypes /\ OwnSessions /\ CallPlaces /\ AtExit /\ HookTypes /\ HooksInOrder
<1>1. ObjectInit => Inv
  <2> SUFFICES ASSUME ObjectInit PROVE Inv
    OBVIOUS
  <2>1. "none" \notin Sessions
    BY ObjectAssumption DEF Sessions
  <2>2. OwnSessions
    BY <2>1, ObjectAssumption DEF ObjectInit, OwnSessions
  <2>3. CallPlaces /\ AtExit
    BY DEF ObjectInit, CallPlaces, AtExit
  <2>4. HookTypes /\ HooksInOrder
    BY DEF ObjectInit, HookTypes, HooksInOrder
  <2> QED
    BY <2>2, <2>3, <2>4, InitTypes
<1>2. Inv /\ [ObjectNext]_objVars => Inv'
  BY TypesStep, OwnSessionsStep, PlacesStep, AtExitStep, HookTypesStep, HooksStep
<1>3. Inv => FlushedAtExit
  <2> SUFFICES ASSUME Inv, exit = "gone" PROVE FlushedAtExit
    BY DEF FlushedAtExit
  <2>1. Len(ran) \in Nat /\ Len(ran) = Before + Len(AfterHooks) /\ Before = Len(BeforeHooks)
    BY DEF HookTypes, HooksInOrder, Before
  <2>2. [i \in 1..Len(ran) |-> ran[i].hook] = Order
    <3>1. \A i \in 1..Len(ran) : ran[i].hook = Order[i]
      BY DEF HooksInOrder
    <3>2. Order = [i \in 1..Len(ran) |-> Order[i]]
      BY <2>1, OrderIs
    <3> QED
      BY <3>1, <3>2
  <2>3. /\ skipped = "nothing" => ~Live
        /\ skipped # "files" => \A h \in Callers : call[h].managed => at[h] # "open" /\ ~dirty[h]
    BY DEF AtExit, ToClose, CallPlaces
  <2>4. skipped = "nothing" => \A i \in 1..Len(AfterHooks) : ~ran[Len(BeforeHooks) + i].live
    <3>1. Len(AfterHooks) \in Nat /\ Before \in Nat
      BY ObjectAssumption DEF Before
    <3>2. ASSUME NEW i \in 1..Len(AfterHooks)
          PROVE  Before + i \in 1..Len(ran) /\ Before + i > Before
      BY <2>1, <3>1
    <3> QED
      BY <2>1, <3>2 DEF HooksInOrder
  <2> QED
    BY <2>2, <2>3, <2>4 DEF FlushedAtExit, Order
<1> QED
  BY <1>1, <1>2, <1>3, PTL DEF ObjectSpec
=============================================================================
