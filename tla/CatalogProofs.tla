---------------------------- MODULE CatalogProofs ----------------------------
(***************************************************************************)
(* Theorems of Catalog, for every set of threads, calls and entries: no    *)
(* request runs on an agent that is older than the changes of resources    *)
(* its caller may rely on, and AccessManager.get tells of everybody who    *)
(* has a permission all the while.                                         *)
(*                                                                         *)
(* AgentsFresh speaks of the connection a request has.  What keeps it true *)
(* is the numbering of pools: a thread that has read session.pool before a *)
(* change goes on with the old pool, and a connection of the old pool is   *)
(* never lent from the new one.  AclTold speaks of the end of a call; what *)
(* keeps it true is said of each of its answers, in the order of requests. *)
(***************************************************************************)
EXTENDS Catalog, TLAPS

Stages == {"begin", "pooled", "making", "lent", "status", "clean", "newpool", "returned",
           "raised", "keyerror"}

CatalogTypes ==
  /\ held \in [Clerks -> [pool : Nat, seen : Nat]]
  /\ idleConns \subseteq [pool : Nat, seen : Nat]
  /\ myPool \in [Clerks -> Nat] /\ poolNo \in Nat \ {0}
  /\ begun \in [Clerks -> Nat] /\ settled \in Nat
  /\ hier \in Nat /\ mine \in [Clerks -> Nat]
  /\ stage \in [Clerks -> Stages]

\* No thread, and no cleanup, is ahead of the catalog.
Ordered ==
  /\ settled <= hier
  /\ \A t \in Clerks : begun[t] <= settled /\ mine[t] <= hier /\ myPool[t] <= poolNo

\* A connection may serve the current pool, and whoever has read its pool.
Serves(c) ==
  c.pool # 0 =>
    /\ c.pool <= poolNo
    /\ c.pool = poolNo => c.seen >= settled
    /\ \A t \in Clerks : myPool[t] = c.pool => c.seen >= begun[t]

AllServe == (\A t \in Clerks : Serves(held[t])) /\ (\A c \in idleConns : Serves(c))

\* The pool of a connection that is lent is the one its thread has read, and
\* between two requests a thread has none.
OwnPool ==
  \A t \in Clerks :
    held[t].pool # 0 => held[t].pool = myPool[t] /\ stage[t] # "begin"

FreshInv == CatalogTypes /\ Ordered /\ AllServe /\ OwnPool

\* What most steps do to the connections: nothing, or the end of a with-block.
Keeps(t) ==
  /\ \E p \in Stages :
       stage' = [stage EXCEPT ![t] = p] /\ (p = "begin" => HandBack(t, TRUE))
  /\ UNCHANGED <<held, idleConns>> \/ HandBack(t, TRUE) \/ HandBack(t, FALSE)
  /\ UNCHANGED <<myPool, poolNo, begun, settled>>
  /\ UNCHANGED <<hier, mine>> \/ (hier' = hier + 1 /\ mine' = [mine EXCEPT ![t] = hier + 1])

(* No connection is made yet. *)
LEMMA InitFresh == CatalogInit => FreshInv
  BY DEF CatalogInit, FreshInv, CatalogTypes, Ordered, AllServe, Serves, OwnPool, NoConn, Stages

(* Most steps are of that kind. *)
LEMMA KeepsCases ==
  ASSUME NEW t \in Clerks,
         \/ ConnectionMade(t) \/ ServerRefuses(t) \/ ConnectionLost(t)
         \/ AddEntry(t) \/ RemoveEntry(t) \/ ModifyEntry(t) \/ Find(t) \/ Purge(t)
         \/ Status(t) \/ Grant(t) \/ Extant(t) \/ Rows(t) \/ Lookup(t)
  PROVE  Keeps(t)
<1> DEFINE StageMoves ==
  \E p \in Stages :
    stage' = [stage EXCEPT ![t] = p] /\ (p = "begin" => HandBack(t, TRUE))
<1>1. Answered(t) => StageMoves /\ (UNCHANGED <<held, idleConns>> \/ HandBack(t, TRUE))
  BY DEF Answered, StageTo, NextStage, Stages
<1>2. CarriedOut(t) => /\ StageMoves
                       /\ \/ UNCHANGED <<held, idleConns>>
                          \/ HandBack(t, TRUE) \/ HandBack(t, FALSE)
                       /\ UNCHANGED <<myPool, poolNo, begun, settled>>
  BY <1>1 DEF CarriedOut, OnlyAnswered, StageTo, Stages
<1>3. Versions(t) =>
        \/ UNCHANGED <<hier, mine>>
        \/ hier' = hier + 1 /\ mine' = [mine EXCEPT ![t] = hier + 1]
  BY DEF Versions
<1>4. CASE AddEntry(t) \/ RemoveEntry(t) \/ ModifyEntry(t)
  BY <1>2, <1>3, <1>4 DEF AddEntry, RemoveEntry, ModifyEntry, Keeps
<1>5. CASE Find(t) \/ Status(t) \/ Extant(t) \/ Rows(t)
  BY <1>1, <1>5 DEF Find, Status, Extant, Rows, OnlyAnswered, factVars, Keeps
<1>6. CASE Purge(t) \/ Grant(t)
  BY <1>2, <1>6 DEF Purge, Grant, linkVars, Keeps, StageTo, Stages
<1>7. CASE Lookup(t)
  BY <1>1, <1>7 DEF Lookup, OnlyAnswered, factVars, Keeps, StageTo, Stages
<1>8. CASE ConnectionMade(t)
  BY <1>8 DEF ConnectionMade, HandBack, factVars, Keeps, StageTo, Stages
<1>9. CASE ServerRefuses(t) \/ ConnectionLost(t)
  BY <1>9 DEF ServerRefuses, ConnectionLost, factVars, Keeps, StageTo, Stages
<1> QED
  BY <1>4, <1>5, <1>6, <1>7, <1>8, <1>9

(* A connection is handed back, or dropped, as it is. *)
LEMMA HandBackFresh ==
  ASSUME FreshInv, NEW t \in Clerks, HandBack(t, TRUE) \/ HandBack(t, FALSE) \/ UNCHANGED <<held, idleConns>>
  PROVE  /\ held' \in [Clerks -> [pool : Nat, seen : Nat]]
         /\ idleConns' \subseteq [pool : Nat, seen : Nat]
         /\ \A u \in Clerks : held'[u] \in {held[u], NoConn}
         /\ \A c \in idleConns' : c \in idleConns \/ c = held[t]
  BY DEF FreshInv, CatalogTypes, HandBack, NoConn

(* So they keep the invariant. *)
LEMMA KeepsFresh ==
  ASSUME FreshInv, NEW t \in Clerks, Keeps(t)
  PROVE  FreshInv'
<1>1. /\ held' \in [Clerks -> [pool : Nat, seen : Nat]]
      /\ idleConns' \subseteq [pool : Nat, seen : Nat]
      /\ \A u \in Clerks : held'[u] \in {held[u], NoConn}
      /\ \A c \in idleConns' : c \in idleConns \/ c = held[t]
  BY HandBackFresh DEF Keeps
<1>2. CatalogTypes' /\ Ordered'
  <2>1. stage' \in [Clerks -> Stages]
    BY DEF Keeps, FreshInv, CatalogTypes
  <2>2. hier' \in Nat /\ mine' \in [Clerks -> Nat] /\ settled <= hier'
    BY DEF Keeps, FreshInv, CatalogTypes, Ordered
  <2>3. CatalogTypes'
    BY <1>1, <2>1, <2>2 DEF Keeps, FreshInv, CatalogTypes
  <2>4. Ordered'
    BY DEF Keeps, FreshInv, CatalogTypes, Ordered
  <2> QED
    BY <2>3, <2>4
<1>3. \A c : Serves(c) => Serves(c)'
  BY DEF Keeps, Serves
<1>4. AllServe'
  BY <1>1, <1>3 DEF FreshInv, AllServe, Serves, NoConn
<1>5. OwnPool'
  BY <1>1 DEF Keeps, HandBack, FreshInv, CatalogTypes, OwnPool, NoConn
<1> QED
  BY <1>2, <1>4, <1>5 DEF FreshInv

(* Reading the pool keeps it. *)
LEMMA ReadPoolFresh ==
  ASSUME FreshInv, NEW t \in Clerks, ReadPool(t)
  PROVE  FreshInv'
<1>1. CatalogTypes' /\ Ordered'
  BY DEF ReadPool, StageTo, Stages, FreshInv, CatalogTypes, Ordered
<1>2. AllServe'
  BY DEF ReadPool, FreshInv, CatalogTypes, AllServe, Serves
<1>3. OwnPool'
  BY DEF ReadPool, StageTo, FreshInv, CatalogTypes, OwnPool
<1> QED
  BY <1>1, <1>2, <1>3 DEF FreshInv

(* Taking an idle connection keeps it. *)
LEMMA TakeIdleFresh ==
  ASSUME FreshInv, NEW t \in Clerks, TakeIdle(t)
  PROVE  FreshInv'
<1>1. CatalogTypes' /\ Ordered'
  BY DEF TakeIdle, StageTo, Stages, factVars, FreshInv, CatalogTypes, Ordered
<1>2. AllServe'
  BY DEF TakeIdle, FreshInv, CatalogTypes, AllServe, Serves
<1>3. OwnPool'
  BY DEF TakeIdle, StageTo, FreshInv, CatalogTypes, OwnPool
<1> QED
  BY <1>1, <1>2, <1>3 DEF FreshInv

(* Making a connection keeps it. *)
LEMMA MakeFresh ==
  ASSUME FreshInv, NEW t \in Clerks, MakeConnection(t)
  PROVE  FreshInv'
<1> DEFINE c == [pool |-> myPool[t], seen |-> hier]
<1>1. CatalogTypes' /\ Ordered'
  BY DEF MakeConnection, StageTo, Stages, factVars, FreshInv, CatalogTypes, Ordered
<1>2. Serves(c)
  BY DEF FreshInv, CatalogTypes, Ordered, Serves
<1>3. AllServe'
  BY <1>2 DEF MakeConnection, FreshInv, CatalogTypes, AllServe, Serves
<1>4. OwnPool'
  BY DEF MakeConnection, StageTo, FreshInv, CatalogTypes, OwnPool
<1> QED
  BY <1>1, <1>3, <1>4 DEF FreshInv

(* Disconnecting keeps it. *)
LEMMA DisconnectFresh ==
  ASSUME FreshInv, NEW t \in Clerks, Disconnect(t)
  PROVE  FreshInv'
<1>1. /\ \A u \in Clerks : held'[u] = held[u] \/ held'[u] = Dead(held[u])
      /\ held' \in [Clerks -> [pool : Nat, seen : Nat]]
      /\ idleConns' \subseteq idleConns
  BY DEF Disconnect, CleanedConnections, Dead, FreshInv, CatalogTypes
<1>2. \A u \in Clerks : Dead(held[u]).pool = 0
  BY DEF Dead, FreshInv, CatalogTypes
<1>3. CatalogTypes' /\ Ordered'
  BY <1>1 DEF Disconnect, StageTo, Stages, factVars, FreshInv, CatalogTypes, Ordered
<1>4. AllServe'
  BY <1>1, <1>2 DEF Disconnect, factVars, FreshInv, AllServe, Serves
<1>5. OwnPool'
  BY <1>1, <1>2 DEF Disconnect, StageTo, FreshInv, CatalogTypes, OwnPool
<1> QED
  BY <1>3, <1>4, <1>5 DEF FreshInv

(* A new pool keeps it. *)
LEMMA NewPoolFresh ==
  ASSUME FreshInv, NEW t \in Clerks, NewPool(t)
  PROVE  FreshInv'
<1>1. /\ held' \in [Clerks -> [pool : Nat, seen : Nat]]
      /\ idleConns' \subseteq [pool : Nat, seen : Nat]
      /\ \A u \in Clerks : held'[u] \in {held[u], NoConn}
      /\ \A c \in idleConns' : c \in idleConns \/ c = held[t]
  BY HandBackFresh DEF NewPool
<1>2. settled' \in Nat /\ settled <= settled' /\ settled' <= hier
  BY DEF NewPool, FreshInv, CatalogTypes, Ordered
<1>3. stage' \in [Clerks -> Stages]
  BY DEF NewPool, StageTo, NextStage, Stages, FreshInv, CatalogTypes
<1>4. CatalogTypes' /\ Ordered'
  BY <1>1, <1>2, <1>3 DEF NewPool, PoolAfter, factVars, FreshInv, CatalogTypes, Ordered
<1>5. \A c \in [pool : Nat, seen : Nat] : Serves(c) => Serves(c)'
  BY DEF NewPool, PoolAfter, factVars, FreshInv, CatalogTypes, Ordered, Serves
<1>6. AllServe'
  BY <1>1, <1>5 DEF FreshInv, CatalogTypes, AllServe, Serves, NoConn
<1>7. OwnPool'
  BY <1>1 DEF NewPool, StageTo, HandBack, FreshInv, CatalogTypes, OwnPool, NoConn
<1> QED
  BY <1>4, <1>6, <1>7 DEF FreshInv

(* Every step keeps the invariant. *)
LEMMA NextFresh == ASSUME FreshInv, [CatalogNext]_catVars PROVE FreshInv'
<1>1. CASE CatalogNext
  BY <1>1, KeepsCases, KeepsFresh, ReadPoolFresh, TakeIdleFresh, MakeFresh,
     DisconnectFresh, NewPoolFresh DEF CatalogNext
<1>2. CASE UNCHANGED catVars
  BY <1>2 DEF catVars, linkVars, factVars, FreshInv, CatalogTypes, Ordered, AllServe,
     Serves, OwnPool
<1> QED
  BY <1>1, <1>2

(***************************************************************************)
(* A request never runs on an agent that started before a change of        *)
(* resources whose call had returned when the request began, whatever the  *)
(* other threads take, make and give back while a cleanup runs.            *)
(***************************************************************************)
THEOREM AgentsFreshHolds == CatalogSpec => []AgentsFresh
<1>1. FreshInv => AgentsFresh
  BY DEF FreshInv, AllServe, Serves, OwnPool, AgentsFresh
<1> QED
  BY <1>1, InitFresh, NextFresh, PTL DEF CatalogSpec

-----------------------------------------------------------------------------
(* The permissions that get returns *)

AclTypes ==
  /\ job \in [Clerks -> Jobs] /\ done \in [Clerks -> Nat] /\ stage \in [Clerks -> Stages]
  /\ extant \in [Clerks -> SUBSET Users] /\ ids \in [Clerks -> SUBSET Users]
  /\ told \in [Clerks -> SUBSET Users]
  /\ hadAcl \in [Clerks -> SUBSET Users] /\ gone \in [Clerks -> SUBSET (Users \cup Things)]
  /\ names \subseteq Users \cup Things /\ acls \subseteq Users
  /\ \A t \in Clerks : stage[t] # "returned" => done[t] + 1 \in 1..Len(job[t].does)

\* The requests of get that have been answered: the first one counts while a
\* cleanup follows it.
Answers(t) == IF stage[t] \in {"clean", "newpool"} THEN done[t] + 1 ELSE done[t]

GetStages(t) ==
  /\ stage[t] # "status"
  /\ stage[t] \in {"clean", "newpool"} => done[t] = 0

\* Once the first request has begun, the users of before the call who were not
\* removed since are there, with their permissions; each answer has them, and
\* nobody who was gone before the call.
Kept(t) == hadAcl[t] \ gone[t]
GetAnswers(t) ==
  /\ stage[t] # "begin" \/ done[t] # 0 => Kept(t) \subseteq names /\ Kept(t) \subseteq acls
  /\ Answers(t) >= 1 => Kept(t) \subseteq extant[t] /\ extant[t] \subseteq names \cup gone[t]
  /\ Answers(t) >= 2 => Kept(t) \subseteq ids[t] /\ ids[t] \subseteq names \cup gone[t]
  /\ stage[t] = "returned" => Kept(t) \subseteq told[t] /\ told[t] \subseteq names \cup gone[t]
  /\ stage[t] = "keyerror" => gone[t] \cap ids[t] # {}

AclInv ==
  AclTypes /\ \A t \in Clerks : job[t].does = AclGet => GetStages(t) /\ GetAnswers(t)

\* A method is one request or more.
LEMMA MethodRequests == \A m \in Methods : Len(m) \in Nat \ {0} /\ DOMAIN m = 1..Len(m)
  BY DEF Methods, UserCreate, UserRemove, UserModify, GroupCreate, GroupMember, ResourceCreate,
     ResourceRemove, ResourceModify, ResourceChild, ZoneCreate, ZoneModify, CollCreate, CollRemove,
     CollMove, CollTouch, ObjUnlink, ObjMove, ObjCopy, ObjRegister, ObjTouch, AclGet, AclSet

(* A job calls one of the methods of the managers. *)
LEMMA JobMethods ==
  ASSUME NEW j \in Jobs
  PROVE  /\ j.does \in Methods /\ j.name \in Users \cup Things
         /\ Len(j.does) \in Nat \ {0} /\ DOMAIN j.does = 1..Len(j.does)
  BY MethodRequests, CatalogAssumption DEF JobType

(* Nothing is granted or told yet. *)
LEMMA InitAcl == CatalogInit => AclInv
<1> SUFFICES ASSUME CatalogInit PROVE AclInv
  OBVIOUS
<1>1. AclTypes
  <2>1. \A t \in Clerks : 1 \in 1..Len(job[t].does)
    <3> TAKE t \in Clerks
    <3>1. job[t] \in Jobs
      BY DEF CatalogInit
    <3>2. Len(job[t].does) \in Nat \ {0}
      BY <3>1, JobMethods
    <3> QED
      BY <3>2
  <2> QED
    BY <2>1 DEF CatalogInit, AclTypes, Stages
<1>2. ASSUME NEW t \in Clerks PROVE GetStages(t) /\ GetAnswers(t)
  BY DEF CatalogInit, GetStages, GetAnswers, Answers
<1> QED
  BY <1>1, <1>2 DEF AclInv

\* What the entries, the permissions and the history of a thread's call may do
\* in a step: a name or a permission is lost only to a removal.
Drift(t) ==
  /\ hadAcl'[t] = hadAcl[t] /\ gone[t] \subseteq gone'[t]
  /\ names \subseteq names' \cup gone'[t] /\ acls \subseteq acls' \cup gone'[t]

\* The place of another thread does not change.
Rests(t) ==
  /\ stage'[t] = stage[t] /\ done'[t] = done[t] /\ job'[t] = job[t]
  /\ extant'[t] = extant[t] /\ ids'[t] = ids[t] /\ told'[t] = told[t]

(* A step that touches no grant keeps what is said of the grants. *)
LEMMA RestsKeeps ==
  ASSUME NEW t \in Clerks, job[t].does = AclGet => GetStages(t) /\ GetAnswers(t), Rests(t), Drift(t)
  PROVE  (job[t].does = AclGet => GetStages(t) /\ GetAnswers(t))'
<1> SUFFICES ASSUME GetStages(t), GetAnswers(t)
             PROVE  GetStages(t)' /\ GetAnswers(t)'
  BY DEF Rests
<1>1. GetStages(t)' /\ Answers(t)' = Answers(t)
  BY DEF Rests, GetStages, Answers
<1>2. Kept(t)' \subseteq Kept(t) /\ Kept(t)' \cap gone'[t] = {}
  BY DEF Drift, Kept
<1>3. stage[t] # "begin" \/ done[t] # 0 => Kept(t)' \subseteq names' /\ Kept(t)' \subseteq acls'
  BY <1>2 DEF GetAnswers, Drift
<1>4. names \cup gone[t] \subseteq names' \cup gone'[t]
  BY DEF Drift
<1>5. /\ Answers(t) >= 1 => Kept(t)' \subseteq extant[t] /\ extant[t] \subseteq names' \cup gone'[t]
      /\ Answers(t) >= 2 => Kept(t)' \subseteq ids[t] /\ ids[t] \subseteq names' \cup gone'[t]
      /\ stage[t] = "returned" => Kept(t)' \subseteq told[t] /\ told[t] \subseteq names' \cup gone'[t]
  BY <1>2, <1>4 DEF GetAnswers
<1>6. stage[t] = "keyerror" => gone'[t] \cap ids[t] # {}
  BY DEF GetAnswers, Drift
<1> QED
  BY <1>1, <1>3, <1>5, <1>6 DEF GetAnswers, Rests

\* The types, step by step.  A count moves with the end of a request.
LEMMA CountMoves ==
  ASSUME AclTypes, NEW t \in Clerks, job' = job,
         \/ \E p \in Stages \ {"returned"} : StageTo(t, p) /\ done' = done /\ stage[t] # "returned"
         \/ stage[t] # "returned" /\ StageTo(t, NextStage(t)) /\ done' = [done EXCEPT ![t] = @ + 1]
  PROVE  /\ stage' \in [Clerks -> Stages] /\ done' \in [Clerks -> Nat] /\ job' \in [Clerks -> Jobs]
         /\ \A u \in Clerks : stage'[u] # "returned" => done'[u] + 1 \in 1..Len(job'[u].does)
<1>1. Len(job[t].does) \in Nat
  BY JobMethods DEF AclTypes
<1>2. stage[t] # "returned" /\ done[t] + 1 \in 1..Len(job[t].does)
  BY DEF AclTypes
<1>3. CASE \E p \in Stages \ {"returned"} : StageTo(t, p) /\ done' = done
  BY <1>2, <1>3 DEF AclTypes, StageTo
<1>4. CASE StageTo(t, NextStage(t)) /\ done' = [done EXCEPT ![t] = @ + 1]
  <2>1. stage' \in [Clerks -> Stages] /\ done' \in [Clerks -> Nat]
    BY <1>4 DEF AclTypes, StageTo, NextStage, Stages
  <2>2. stage'[t] # "returned" => done'[t] + 1 \in 1..Len(job[t].does)
    BY <1>1, <1>2, <1>4 DEF AclTypes, StageTo, NextStage, Ending
  <2> QED
    BY <1>4, <2>1, <2>2 DEF AclTypes, StageTo
<1> QED
  BY <1>3, <1>4

(* Every step keeps the types. *)
LEMMA AclTypesStep ==
  ASSUME AclTypes, [CatalogNext]_catVars
  PROVE  AclTypes'
<1> DEFINE Counts ==
      /\ stage' \in [Clerks -> Stages] /\ done' \in [Clerks -> Nat] /\ job' \in [Clerks -> Jobs]
      /\ \A u \in Clerks : stage'[u] # "returned" => done'[u] + 1 \in 1..Len(job'[u].does)
<1>1. ASSUME NEW t \in Clerks, stage[t] # "returned", CarriedOut(t) \/ OnlyAnswered(t)
      PROVE  Counts
  <2>1. job' = job /\ \/ \E p \in Stages \ {"returned"} : StageTo(t, p) /\ done' = done
                      \/ StageTo(t, NextStage(t)) /\ done' = [done EXCEPT ![t] = @ + 1]
    BY <1>1 DEF CarriedOut, OnlyAnswered, Answered, Stages
  <2> QED
    BY <1>1, <2>1, CountMoves
<1>2. ASSUME NEW t \in Clerks, stage[t] # "returned", NEW p \in Stages \ {"returned"}, StageTo(t, p),
             done' = done, job' = job
      PROVE  Counts
  BY <1>2, CountMoves
<1>3. \A t \in Clerks : Name(t) \in Users \cup Things
  BY JobMethods DEF Name, AclTypes
<1> HIDE DEF Counts
<1>4. ASSUME NEW t \in Clerks, ReadPool(t) PROVE AclTypes'
  <2>1. Counts
    BY <1>2, <1>4 DEF ReadPool, Stages
  <2>2. hadAcl' \in [Clerks -> SUBSET Users] /\ gone' \in [Clerks -> SUBSET (Users \cup Things)]
    BY <1>4, ZenonT(60) DEF ReadPool, AclTypes
  <2> QED
    BY <1>4, <2>1, <2>2 DEF ReadPool, aclVars, AclTypes, Counts
<1>5. ASSUME NEW t \in Clerks,
             \/ TakeIdle(t) \/ MakeConnection(t) \/ ConnectionMade(t)
             \/ ServerRefuses(t) \/ ConnectionLost(t) \/ Disconnect(t)
      PROVE  AclTypes'
  <2>1. Counts
    BY <1>2, <1>5 DEF TakeIdle, MakeConnection, ConnectionMade, ServerRefuses, ConnectionLost, Disconnect,
       Stages
  <2> QED
    BY <1>5, <2>1 DEF TakeIdle, MakeConnection, ConnectionMade, ServerRefuses, ConnectionLost, Disconnect,
       factVars, aclVars, AclTypes, Counts
<1>6. ASSUME NEW t \in Clerks, NewPool(t) PROVE AclTypes'
  <2>1. Counts
    BY <1>6, CountMoves DEF NewPool, Counts
  <2> QED
    BY <1>6, <2>1 DEF NewPool, factVars, aclVars, AclTypes, Counts
<1>7. ASSUME NEW t \in Clerks,
             \/ AddEntry(t) \/ ModifyEntry(t) \/ RemoveEntry(t) \/ Find(t) \/ Status(t) \/ Purge(t)
             \/ Extant(t) \/ Rows(t) \/ Grant(t) \/ Lookup(t)
      PROVE  Counts
  <2>1. stage[t] # "returned"
    BY <1>7 DEF AddEntry, ModifyEntry, RemoveEntry, Find, Status, Purge, Extant, Rows, Grant, Lookup, Asks
  <2>2. \/ CarriedOut(t) \/ OnlyAnswered(t)
        \/ StageTo(t, "status") /\ done' = done /\ job' = job
        \/ StageTo(t, "keyerror") /\ done' = done /\ job' = job
    BY <1>7 DEF AddEntry, ModifyEntry, RemoveEntry, Find, Status, Purge, Extant, Rows, Grant, Lookup
  <2> QED
    BY <1>1, <1>2, <2>1, <2>2 DEF Stages
<1>8. ASSUME NEW t \in Clerks, AddEntry(t) \/ ModifyEntry(t) \/ RemoveEntry(t) PROVE AclTypes'
  BY <1>3, <1>7, <1>8, SMTT(30) DEF AddEntry, ModifyEntry, RemoveEntry, aclVars, AclTypes, Counts
<1>9. ASSUME NEW t \in Clerks, Find(t) \/ Status(t) \/ Purge(t) PROVE AclTypes'
  BY <1>3, <1>7, <1>9 DEF Find, Status, Purge, factVars, aclVars, AclTypes, Counts
<1>10. ASSUME NEW t \in Clerks, Grant(t) PROVE AclTypes'
  <2>1. Name(t) \in Users
    <3>1. job[t] \in Jobs /\ done[t] + 1 \in DOMAIN job[t].does /\ job[t].does[done[t] + 1] = "grant"
      BY <1>10, JobMethods DEF Grant, Asks, AclTypes
    <3> QED
      BY <3>1, CatalogAssumption DEF Name
  <2> QED
    BY <1>7, <1>10, <2>1 DEF Grant, aclVars, AclTypes, Counts
<1>11. ASSUME NEW t \in Clerks, Extant(t) \/ Rows(t) \/ Lookup(t) PROVE AclTypes'
  BY <1>7, <1>11, ZenonT(60) DEF Extant, Rows, KeptRows, Lookup, factVars, AclTypes, Counts
<1>12. CASE UNCHANGED catVars
  BY <1>12 DEF catVars, factVars, aclVars, AclTypes
<1> QED
  BY <1>4, <1>5, <1>6, <1>8, <1>9, <1>10, <1>11, <1>12 DEF CatalogNext

\* Only the beginning of a call forgets what was gone before.
LEMMA Drifts ==
  ASSUME AclTypes, [CatalogNext]_catVars, NEW t \in Clerks, ~(ReadPool(t) /\ done[t] = 0)
  PROVE  Drift(t)
<1> USE DEF AclTypes
<1>1. ASSUME UNCHANGED <<names, acls, gone, hadAcl>> PROVE Drift(t)
  BY <1>1 DEF Drift
<1>2. ASSUME NEW u \in Clerks, ReadPool(u) PROVE Drift(t)
  BY <1>2 DEF ReadPool, Drift
<1>3. ASSUME NEW u \in Clerks, AddEntry(u) \/ Grant(u) PROVE Drift(t)
  BY <1>3 DEF AddEntry, Grant, Drift
<1>4. ASSUME NEW u \in Clerks, RemoveEntry(u) \/ Purge(u) PROVE Drift(t)
  BY <1>4 DEF RemoveEntry, Purge, Drift
<1> QED
  BY <1>1, <1>2, <1>3, <1>4 DEF CatalogNext, TakeIdle, MakeConnection, ConnectionMade, ServerRefuses,
     ConnectionLost, ModifyEntry, Find, Status, Extant, Rows, Lookup, Disconnect, NewPool, factVars, catVars

\* A step of one thread leaves the places of the others.
LEMMA OthersRest ==
  ASSUME AclTypes, NEW u \in Clerks, NEW t \in Clerks, t # u,
         \/ ReadPool(u) \/ TakeIdle(u) \/ MakeConnection(u) \/ ConnectionMade(u)
         \/ ServerRefuses(u) \/ ConnectionLost(u) \/ AddEntry(u) \/ RemoveEntry(u) \/ ModifyEntry(u)
         \/ Find(u) \/ Purge(u) \/ Status(u) \/ Grant(u) \/ Extant(u) \/ Rows(u) \/ Lookup(u)
         \/ Disconnect(u) \/ NewPool(u)
  PROVE  Rests(t)
<1> USE DEF AclTypes
<1>1. \A p : StageTo(u, p) => stage'[t] = stage[t]
  BY DEF StageTo
<1>2. OnlyAnswered(u) \/ CarriedOut(u) => stage'[t] = stage[t] /\ done'[t] = done[t] /\ job' = job
  BY <1>1 DEF OnlyAnswered, CarriedOut, Answered
<1>3. CASE \/ ReadPool(u) \/ TakeIdle(u) \/ MakeConnection(u) \/ ConnectionMade(u)
           \/ ServerRefuses(u) \/ ConnectionLost(u) \/ Disconnect(u) \/ NewPool(u)
  BY <1>1, <1>3 DEF ReadPool, TakeIdle, MakeConnection, ConnectionMade, ServerRefuses, ConnectionLost,
     Disconnect, NewPool, aclVars, Rests
<1>4. CASE AddEntry(u) \/ RemoveEntry(u) \/ ModifyEntry(u) \/ Find(u) \/ Purge(u) \/ Status(u) \/ Grant(u)
  BY <1>1, <1>2, <1>4 DEF AddEntry, RemoveEntry, ModifyEntry, Find, Purge, Status, Grant, aclVars, Rests
<1>5. CASE Extant(u) \/ Rows(u) \/ Lookup(u)
  BY <1>1, <1>2, <1>5 DEF Extant, Rows, Lookup, Rests
<1> QED
  BY <1>3, <1>4, <1>5

\* The steps of a thread that calls get.
LEMMA GetStep ==
  ASSUME AclTypes, NEW t \in Clerks, job[t].does = AclGet, GetStages(t), GetAnswers(t),
         \/ ReadPool(t) \/ TakeIdle(t) \/ MakeConnection(t) \/ ConnectionMade(t)
         \/ ServerRefuses(t) \/ ConnectionLost(t) \/ AddEntry(t) \/ RemoveEntry(t) \/ ModifyEntry(t)
         \/ Find(t) \/ Purge(t) \/ Status(t) \/ Grant(t) \/ Extant(t) \/ Rows(t) \/ Lookup(t)
         \/ Disconnect(t) \/ NewPool(t),
         (ReadPool(t) /\ done[t] = 0) \/ Drift(t)
  PROVE  GetStages(t)' /\ GetAnswers(t)'
<1>0. Len(job[t].does) = 3 /\ AclGet[1] = "extant" /\ AclGet[2] = "acls" /\ AclGet[3] = "lookup"
  BY DEF AclGet
<1>1. stage[t] # "returned" => done[t] \in 0..2
  <2>1. done[t] \in Nat /\ (stage[t] # "returned" => done[t] + 1 \in 1..Len(job[t].does))
    BY DEF AclTypes
  <2> QED
    BY <1>0, <2>1
<1> USE DEF AclTypes, Kept, GetStages
\* To a stage without an answer of its own.
<1>2. ASSUME Drift(t), stage[t] \notin {"begin", "clean", "newpool"},
             stage'[t] \in {"pooled", "making", "lent", "raised"},
             done' = done, UNCHANGED aclVars
      PROVE  GetStages(t)' /\ GetAnswers(t)'
  BY <1>2 DEF GetAnswers, Answers, Drift, aclVars
<1>3. CASE ReadPool(t)
  <2>1. CASE done[t] = 0
    BY <1>3, <2>1 DEF ReadPool, StageTo, GetAnswers, Answers
  <2>2. CASE done[t] # 0
    BY <1>3, <2>2 DEF ReadPool, StageTo, GetAnswers, Answers, aclVars
  <2> QED
    BY <2>1, <2>2
<1>4. CASE TakeIdle(t) \/ MakeConnection(t) \/ ConnectionMade(t) \/ ServerRefuses(t) \/ ConnectionLost(t)
  <2>1. /\ stage[t] \in {"pooled", "making", "lent", "status"}
        /\ stage'[t] \in {"pooled", "making", "lent", "raised"}
        /\ done' = done /\ UNCHANGED aclVars
    BY <1>4 DEF TakeIdle, MakeConnection, ConnectionMade, ServerRefuses, ConnectionLost, StageTo
  <2>2. Drift(t)
    BY <1>4 DEF TakeIdle, MakeConnection, ConnectionMade, ServerRefuses, ConnectionLost, factVars, Drift
  <2> QED
    BY <1>2, <2>1, <2>2
\* A call of get asks nothing else.
<1>5. ASSUME AddEntry(t) \/ RemoveEntry(t) \/ ModifyEntry(t) \/ Find(t) \/ Purge(t) \/ Status(t) \/ Grant(t)
      PROVE  FALSE
  <2>1. stage[t] = "lent" /\ job[t].does[done[t] + 1] \in {"add", "rm", "mod", "find", "who", "where", "purge", "grant"}
    BY <1>5 DEF AddEntry, RemoveEntry, ModifyEntry, Find, Purge, Status, Grant, Asks
  <2>2. job[t].does[done[t] + 1] \in {"extant", "acls", "lookup"}
    BY <1>0, <1>1, <2>1
  <2> QED
    BY <2>1, <2>2
<1>6. CASE Disconnect(t)
  BY <1>6 DEF Disconnect, StageTo, factVars, aclVars, GetAnswers, Answers
<1>7. CASE NewPool(t)
  <2>1. stage[t] = "newpool" /\ done[t] = 0 /\ stage'[t] = "begin" /\ done'[t] = 1
    BY <1>0, <1>7 DEF NewPool, StageTo, NextStage, Ending
  <2> QED
    BY <1>7, <2>1 DEF NewPool, factVars, aclVars, GetAnswers, Answers
\* The answer to a request: the count, or a cleanup after the first.
<1>8. ASSUME NEW n \in 0..2, done[t] = n, stage[t] = "lent", OnlyAnswered(t)
      PROVE  /\ Answers(t)' = n + 1 /\ GetStages(t)'
             /\ stage'[t] \in {"begin", "clean", "returned"} /\ (stage'[t] = "returned" => n = 2)
             /\ stage'[t] = "clean" => n = 0 
  <2>1. \/ stage'[t] = "clean" /\ done' = done /\ n = 0
        \/ /\ stage'[t] = IF n + 1 = 3 THEN "returned" ELSE "begin"
           /\ done'[t] = n + 1
    BY <1>0, <1>8 DEF OnlyAnswered, Answered, StageTo, NextStage, Ending
  <2> QED
    BY <1>8, <2>1 DEF Answers
<1>9. CASE Extant(t)
  <2>1. done[t] = 0 /\ stage[t] = "lent" /\ OnlyAnswered(t)
    BY <1>0, <1>1, <1>9 DEF Extant, Asks
  <2>2. extant'[t] = names \cap Users /\ UNCHANGED factVars
    BY <1>9 DEF Extant
  <2>3. Answers(t)' = 1 /\ GetStages(t)' /\ stage'[t] \in {"begin", "clean"}
    BY <1>8, <2>1
  <2>4. Kept(t)' = Kept(t) /\ Kept(t) \subseteq names /\ Kept(t) \subseteq acls /\ Kept(t) \subseteq Users
    BY <2>1, <2>2 DEF GetAnswers, factVars
  <2> QED
    BY <2>2, <2>3, <2>4 DEF GetAnswers, factVars
<1>10. CASE Rows(t)
  <2>1. done[t] = 1 /\ stage[t] = "lent" /\ OnlyAnswered(t)
    BY <1>0, <1>1, <1>10 DEF Rows, Asks
  <2>2. ids'[t] = acls \cap extant[t] /\ UNCHANGED <<factVars, extant>>
    BY <1>10 DEF Rows, KeptRows
  <2>3. Answers(t)' = 2 /\ GetStages(t)' /\ stage'[t] = "begin"
    BY <1>8, <2>1
  <2>4. /\ Kept(t)' = Kept(t) /\ Kept(t) \subseteq names /\ Kept(t) \subseteq acls
        /\ Kept(t) \subseteq extant[t] /\ extant[t] \subseteq names \cup gone[t]
    BY <2>1, <2>2 DEF GetAnswers, Answers, factVars
  <2> QED
    BY <2>2, <2>3, <2>4 DEF GetAnswers, factVars
<1>11. CASE Lookup(t)
  <2>1. done[t] = 2 /\ stage[t] = "lent" /\ UNCHANGED <<factVars, extant, ids>>
    BY <1>0, <1>1, <1>11 DEF Lookup, Asks
  <2>2. /\ Kept(t)' = Kept(t) /\ Kept(t) \subseteq names /\ Kept(t) \subseteq acls
        /\ Kept(t) \subseteq extant[t] /\ extant[t] \subseteq names \cup gone[t]
        /\ Kept(t) \subseteq ids[t] /\ ids[t] \subseteq names \cup gone[t]
    BY <2>1 DEF GetAnswers, Answers, factVars
  <2>3. CASE told'[t] = ids[t] /\ OnlyAnswered(t)
    <3>1. Answers(t)' = 3 /\ GetStages(t)' /\ stage'[t] \in {"begin", "returned"}
      BY <1>8, <2>1, <2>3
    <3> QED
      BY <2>1, <2>2, <2>3, <3>1 DEF GetAnswers, factVars
  <2>4. CASE ~(ids[t] \subseteq names) /\ told' = told /\ StageTo(t, "keyerror") /\ done' = done
    <3>1. stage'[t] = "keyerror" /\ Answers(t)' = 2 /\ GetStages(t)'
      BY <2>1, <2>4 DEF StageTo, Answers
    <3>2. gone[t] \cap ids[t] # {}
      BY <2>2, <2>4
    <3> QED
      BY <2>1, <2>2, <3>1, <3>2 DEF GetAnswers, factVars
  <2> QED
    BY <1>11, <2>3, <2>4 DEF Lookup
<1> QED
  BY <1>3, <1>4, <1>5, <1>6, <1>7, <1>9, <1>10, <1>11

(* Every step keeps AclInv. *)
LEMMA NextAcl == ASSUME AclInv, [CatalogNext]_catVars PROVE AclInv'
<1>1. AclTypes'
  BY AclTypesStep DEF AclInv
<1>2. ASSUME NEW t \in Clerks
      PROVE  (job[t].does = AclGet => GetStages(t) /\ GetAnswers(t))'
  <2>1. job[t].does = AclGet => GetStages(t) /\ GetAnswers(t)
    BY DEF AclInv
  <2>2. (ReadPool(t) /\ done[t] = 0) \/ Drift(t)
    BY Drifts DEF AclInv
  <2>3. CASE UNCHANGED catVars
    <3>1. Rests(t) /\ Drift(t)
      BY <2>3 DEF catVars, factVars, aclVars, Rests, Drift
    <3> QED
      BY <2>1, <3>1, RestsKeeps
  <2>4. ASSUME NEW u \in Clerks,
               \/ ReadPool(u) \/ TakeIdle(u) \/ MakeConnection(u) \/ ConnectionMade(u)
               \/ ServerRefuses(u) \/ ConnectionLost(u) \/ AddEntry(u) \/ RemoveEntry(u) \/ ModifyEntry(u)
               \/ Find(u) \/ Purge(u) \/ Status(u) \/ Grant(u) \/ Extant(u) \/ Rows(u) \/ Lookup(u)
               \/ Disconnect(u) \/ NewPool(u)
        PROVE  (job[t].does = AclGet => GetStages(t) /\ GetAnswers(t))'
    <3>1. CASE u = t
      <4>1. job' = job
        BY <2>4 DEF ReadPool, TakeIdle, MakeConnection, ConnectionMade, ServerRefuses, ConnectionLost,
           AddEntry, RemoveEntry, ModifyEntry, Find, Purge, Status, Grant, Extant, Rows, Lookup, Disconnect,
           NewPool, CarriedOut, OnlyAnswered
      <4> QED
        BY <2>1, <2>2, <2>4, <3>1, <4>1, GetStep DEF AclInv
    <3>2. CASE u # t
      <4>1. Rests(t)
        BY <2>4, <3>2, OthersRest DEF AclInv
      <4>2. ~ReadPool(t) \/ stage'[t] # stage[t]
        BY DEF ReadPool, StageTo, AclInv, AclTypes
      <4> QED
        BY <2>1, <2>2, <4>1, <4>2, RestsKeeps DEF Rests
    <3> QED
      BY <3>1, <3>2
  <2> QED
    BY <2>3, <2>4 DEF CatalogNext
<1> QED
  BY <1>1, <1>2 DEF AclInv

(***************************************************************************)
(* get returns the permissions of every user who had one when it began and *)
(* was not removed meanwhile, and of nobody who was gone already, whatever *)
(* other threads add, grant and remove between its three queries; and it   *)
(* ends with a KeyError only for a user removed during the call.           *)
(***************************************************************************)
THEOREM AclToldHolds == CatalogSpec => []AclTold
<1>1. AclInv => AclTold
  BY DEF AclInv, GetAnswers, Kept, AclTold
<1> QED
  BY <1>1, InitAcl, NextAcl, PTL DEF CatalogSpec
=============================================================================
