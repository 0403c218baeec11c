------------------------------- MODULE Catalog -------------------------------
(***************************************************************************)
(* The managers of the catalog (manager/*.py): each call is a few requests *)
(* on connections of the pool, one after the other, while other threads    *)
(* of the session make theirs.  A call that changes resources ends with a  *)
(* cleanup of the session, so that new agents see them; the permissions    *)
(* of an object are put together from three queries.                       *)
(***************************************************************************)
EXTENDS Naturals, Sequences

CONSTANTS Clerks,      \* threads, each with one call
          Users,       \* users of the catalog, by id: an id does not come back
          Things,      \* other entries: groups, collections, resources, objects
          Jobs         \* what a thread may call: [does, cleans, name]

-----------------------------------------------------------------------------
(* What the methods do, request by request *)

UserCreate == <<"add", "find">>
UserRemove == <<"find", "rm">>
UserModify == <<"mod">>
GroupCreate == <<"who", "add", "find">>
GroupMember == <<"who", "mod">>
ResourceCreate == <<"add", "find">>
ResourceRemove == <<"rm">>
ResourceModify == <<"mod", "find">>
ResourceChild == <<"mod">>
ZoneCreate == <<"add", "find">>
ZoneModify == <<"mod">>
CollCreate == <<"add", "find">>
CollRemove == <<"purge">>
CollMove == <<"where", "mod">>
CollTouch == <<"find", "mod">>
ObjUnlink == <<"rm">>
ObjMove == <<"where", "mod">>
ObjCopy == <<"where", "add">>
ObjRegister == <<"add">>
ObjTouch == <<"where", "mod">>
AclGet == <<"extant", "acls", "lookup">>
AclSet == <<"grant">>

Methods ==
  {UserCreate, UserRemove, UserModify, GroupCreate, GroupMember, ResourceCreate, ResourceRemove,
   ResourceModify, ResourceChild, ZoneCreate, ZoneModify, CollCreate, CollRemove, CollMove, CollTouch,
   ObjUnlink, ObjMove, ObjCopy, ObjRegister, ObjTouch, AclGet, AclSet}
JobType == [does : Methods, cleans : BOOLEAN, name : Users \cup Things]
ASSUME CatalogAssumption ==
  /\ Jobs \subseteq JobType
  /\ \A j \in Jobs : "add" \in {j.does[i] : i \in DOMAIN j.does} => j.name \in Things
  /\ \A j \in Jobs : "grant" \in {j.does[i] : i \in DOMAIN j.does} => j.name \in Users

VARIABLES
  job,      \* the call of each thread
  done,     \* how many of its requests are answered
  stage,    \* where the next one is
  held,     \* the connection it uses: pool and resource version of its agent
  myPool,   \* session.pool as the thread has read it
  poolNo,   \* session.pool: each cleanup makes a new one
  idleConns,\* what Pool.idle holds, for all pools there have been
  hier,     \* version of the resources in the catalog
  names,    \* entries of the catalog
  acls,     \* users in the permissions of the object
  extant,   \* get(): the users of the first query
  ids,      \* get(): the users of the second one
  told,     \* get(): whose permissions it returned
  settled,  \* history: the newest version a cleanup has followed
  mine,     \* history: the version a thread's change made
  begun,    \* history: settled when the request began
  gone,     \* history: entries removed since the thread's call began
  hadAcl    \* history: users with a permission then

linkVars == <<held, myPool, poolNo, idleConns, begun, settled>>
factVars == <<hier, names, acls, mine, gone, hadAcl>>
aclVars == <<extant, ids, told>>
catVars == <<job, done, stage, linkVars, factVars, aclVars>>

NoConn == [pool |-> 0, seen |-> 0]
Dead(c) == [c EXCEPT !.pool = 0]

CatalogInit ==
  /\ job \in [Clerks -> Jobs]
  /\ done = [t \in Clerks |-> 0] /\ stage = [t \in Clerks |-> "begin"]
  /\ held = [t \in Clerks |-> NoConn] /\ myPool = [t \in Clerks |-> 0] /\ poolNo = 1
  /\ idleConns \in {{}, {[pool |-> 1, seen |-> 0]}}
  /\ hier = 0 /\ names \in {Users \cup Things, Users} /\ acls \in {{}, Users}
  /\ extant = [t \in Clerks |-> {}] /\ ids = [t \in Clerks |-> {}] /\ told = [t \in Clerks |-> {}]
  /\ settled = 0 /\ mine = [t \in Clerks |-> 0] /\ begun = [t \in Clerks |-> 0]
  /\ gone = [t \in Clerks |-> {}] /\ hadAcl = [t \in Clerks |-> {}]

StageTo(t, p) == stage' = [stage EXCEPT ![t] = p]
Asks(t, r) == stage[t] = "lent" /\ held[t].pool # 0 /\ job[t].does[done[t] + 1] = r
Name(t) == job[t].name
Ending(t) == done[t] + 1 = Len(job[t].does)

-----------------------------------------------------------------------------
(* with self.sess.pool.get_connection() as conn *)

ReadPool(t) ==
  /\ stage[t] = "begin" /\ StageTo(t, "pooled")
  /\ myPool' = [myPool EXCEPT ![t] = poolNo] /\ begun' = [begun EXCEPT ![t] = settled]
  /\ IF done[t] # 0 THEN UNCHANGED <<gone, hadAcl>>
     ELSE gone' = [gone EXCEPT ![t] = {}] /\ hadAcl' = [hadAcl EXCEPT ![t] = acls \cap names]
  /\ UNCHANGED <<job, done, held, poolNo, idleConns, settled, hier, names, acls, mine, aclVars>>

(* idleConns is a set: a second connection like this one may be left. *)
TakeIdle(t) ==
  /\ stage[t] = "pooled" /\ StageTo(t, "lent")
  /\ \E c \in idleConns :
       /\ c.pool = myPool[t] /\ held' = [held EXCEPT ![t] = c]
       /\ idleConns' \in {idleConns, idleConns \ {c}}
  /\ UNCHANGED <<job, done, myPool, poolNo, begun, settled, factVars, aclVars>>

(* The agent reads the resources when it starts; the connection is in       *)
(* Pool.active, where a cleanup finds it, only after the login.             *)
MakeConnection(t) ==
  /\ stage[t] = "pooled" /\ \A c \in idleConns : c.pool # myPool[t]
  /\ StageTo(t, "making")
  /\ held' = [held EXCEPT ![t] = [pool |-> myPool[t], seen |-> hier]]
  /\ UNCHANGED <<job, done, myPool, poolNo, idleConns, begun, settled, factVars, aclVars>>

ConnectionMade(t) ==
  /\ stage[t] = "making"
  /\ \/ StageTo(t, "lent") /\ held' = held
     \/ StageTo(t, "raised") /\ held' = [held EXCEPT ![t] = NoConn]
  /\ UNCHANGED <<job, done, myPool, poolNo, idleConns, begun, settled, factVars, aclVars>>

(* __exit__: back into its own pool, unless a cleanup has taken it out. *)
HandBack(t, back) ==
  /\ held' = [held EXCEPT ![t] = NoConn]
  /\ idleConns' = IF back /\ held[t].pool # 0 THEN idleConns \cup {held[t]} ELSE idleConns

(* The answer is there: the next request, or the end of the call. *)
NextStage(t) == IF Ending(t) THEN "returned" ELSE "begin"
Answered(t) ==
  IF job[t].cleans /\ done[t] = 0
  THEN StageTo(t, "clean") /\ UNCHANGED <<done, held, idleConns>>
  ELSE StageTo(t, NextStage(t)) /\ done' = [done EXCEPT ![t] = @ + 1] /\ HandBack(t, TRUE)
OnlyAnswered(t) == Answered(t) /\ UNCHANGED <<job, myPool, poolNo, begun, settled>>

(* An error code of the server: the connection is good for the next call. *)
ServerRefuses(t) ==
  /\ stage[t] = "lent" /\ held[t].pool # 0
  /\ StageTo(t, "raised") /\ HandBack(t, TRUE)
  /\ UNCHANGED <<job, done, myPool, poolNo, begun, settled, factVars, aclVars>>

(* A network error, or a socket that a cleanup has closed; a request may     *)
(* have been carried out all the same, see CarriedOut.                       *)
ConnectionLost(t) ==
  /\ stage[t] \in {"lent", "status"}
  /\ StageTo(t, "raised") /\ HandBack(t, FALSE)
  /\ UNCHANGED <<job, done, myPool, poolNo, begun, settled, factVars, aclVars>>

-----------------------------------------------------------------------------
(* What the requests do *)

CarriedOut(t) ==
  \/ OnlyAnswered(t)
  \/ StageTo(t, "raised") /\ HandBack(t, FALSE) /\ UNCHANGED <<job, done, myPool, poolNo, begun, settled>>

(* A resource change: acls outdated by the removal of a user may stay (the  *)
(* TODO of access_manager.py).                                               *)
Versions(t) ==
  IF job[t].cleans THEN hier' = hier + 1 /\ mine' = [mine EXCEPT ![t] = hier + 1]
  ELSE UNCHANGED <<hier, mine>>

AddEntry(t) ==
  /\ Asks(t, "add") /\ Name(t) \notin names
  /\ names' = names \cup {Name(t)} /\ Versions(t) /\ CarriedOut(t)
  /\ UNCHANGED <<acls, gone, hadAcl, aclVars>>

RemoveEntry(t) ==
  /\ Asks(t, "rm") /\ Name(t) \in names
  /\ names' = names \ {Name(t)} /\ Versions(t) /\ CarriedOut(t)
  /\ acls' \in {acls, acls \ {Name(t)}}
  /\ gone' = [u \in Clerks |-> gone[u] \cup {Name(t)}]
  /\ UNCHANGED <<hadAcl, aclVars>>

ModifyEntry(t) ==
  /\ Asks(t, "mod") /\ Name(t) \in names
  /\ Versions(t) /\ CarriedOut(t)
  /\ UNCHANGED <<names, acls, gone, hadAcl, aclVars>>

(* A lookup: one() finds the entry, or refuses; the user's own entry, and   *)
(* whether the target is a collection, decide only what is sent next.       *)
Find(t) ==
  /\ (Asks(t, "find") /\ Name(t) \in names) \/ Asks(t, "who") \/ Asks(t, "where")
  /\ OnlyAnswered(t) /\ UNCHANGED <<factVars, aclVars>>

(* RM_COLL: the server sends status messages, each of which is answered. *)
Purge(t) ==
  /\ Asks(t, "purge") /\ Name(t) \in names
  /\ names' = names \ {Name(t)} /\ gone' = [u \in Clerks |-> gone[u] \cup {Name(t)}]
  /\ CarriedOut(t) \/ (StageTo(t, "status") /\ UNCHANGED <<job, done, linkVars>>)
  /\ UNCHANGED <<hier, acls, mine, hadAcl, aclVars>>

Status(t) ==
  /\ stage[t] = "status" /\ held[t].pool # 0
  /\ OnlyAnswered(t) /\ UNCHANGED <<factVars, aclVars>>

Grant(t) ==
  /\ Asks(t, "grant") /\ Name(t) \in names
  /\ acls' = acls \cup {Name(t)} /\ CarriedOut(t)
  /\ UNCHANGED <<hier, names, mine, gone, hadAcl, aclVars>>

(* A mutation of KeptRows. *)
KeptRows_All(t) == acls

(***************************************************************************)
(* __get_raw: all users, to leave out permissions of users that are no     *)
(* more; the permissions; the users of these.  A user of the second query  *)
(* that is missing in the third is a KeyError.  (users_by_ids with no ids  *)
(* asks for all users, which matters only to acl_users.)                   *)
(***************************************************************************)
KeptRows(t) == acls \cap extant[t]

Extant(t) ==
  /\ Asks(t, "extant") /\ extant' = [extant EXCEPT ![t] = names \cap Users]
  /\ OnlyAnswered(t) /\ UNCHANGED <<ids, told, factVars>>

Rows(t) ==
  /\ Asks(t, "acls") /\ ids' = [ids EXCEPT ![t] = KeptRows(t)]
  /\ OnlyAnswered(t) /\ UNCHANGED <<extant, told, factVars>>

Lookup(t) ==
  /\ Asks(t, "lookup")
  /\ \/ /\ ids[t] \subseteq names /\ told' = [told EXCEPT ![t] = ids[t]] /\ OnlyAnswered(t)
     \/ /\ ~(ids[t] \subseteq names) /\ told' = told
        /\ StageTo(t, "keyerror") /\ HandBack(t, TRUE)
        /\ UNCHANGED <<job, done, myPool, poolNo, begun, settled>>
  /\ UNCHANGED <<extant, ids, factVars>>

-----------------------------------------------------------------------------
(* sess.cleanup() inside the with-block *)

(* All connections of the pool, this one too, are closed and taken out.     *)
CleanedConnections ==
  /\ held' = [u \in Clerks |->
                IF held[u].pool = poolNo /\ stage[u] # "making" THEN Dead(held[u]) ELSE held[u]]
  /\ idleConns' = {c \in idleConns : c.pool # poolNo}

Disconnect(t) ==
  /\ stage[t] = "clean" /\ StageTo(t, "newpool")
  /\ CleanedConnections
  /\ UNCHANGED <<job, done, myPool, poolNo, begun, settled, factVars, aclVars>>

(* A mutation of PoolAfter. *)
PoolAfter_Kept == poolNo

(* configure makes a new pool; then the with-block ends. *)
PoolAfter == poolNo + 1

NewPool(t) ==
  /\ stage[t] = "newpool" /\ StageTo(t, NextStage(t)) /\ done' = [done EXCEPT ![t] = @ + 1]
  /\ poolNo' = PoolAfter
  /\ settled' = IF mine[t] > settled THEN mine[t] ELSE settled
  /\ HandBack(t, TRUE)
  /\ UNCHANGED <<job, myPool, begun, factVars, aclVars>>

CatalogNext ==
  \E t \in Clerks :
    \/ ReadPool(t) \/ TakeIdle(t) \/ MakeConnection(t) \/ ConnectionMade(t)
    \/ ServerRefuses(t) \/ ConnectionLost(t)
    \/ AddEntry(t) \/ RemoveEntry(t) \/ ModifyEntry(t) \/ Find(t) \/ Purge(t) \/ Status(t) \/ Grant(t)
    \/ Extant(t) \/ Rows(t) \/ Lookup(t) \/ Disconnect(t) \/ NewPool(t)
CatalogSpec == CatalogInit /\ [][CatalogNext]_catVars

-----------------------------------------------------------------------------
(***************************************************************************)
(* A request that begins after a call changed resources and returned runs  *)
(* on an agent that started after that change: "close connections to get   *)
(* new agents with up to date resource manager" (ResourceManager), with    *)
(* other threads taking, making and giving back connections meanwhile.     *)
(***************************************************************************)
AgentsFresh ==
  \A t \in Clerks : stage[t] \in {"lent", "status"} /\ held[t].pool # 0 => held[t].seen >= begun[t]

(***************************************************************************)
(* The permissions that AccessManager.get returns: those of every user who *)
(* had one when the call began and was not removed during it, and of none  *)
(* who was gone already; and the call ends with a KeyError only if a user  *)
(* was removed during it, not for permissions that are outdated.           *)
(***************************************************************************)
AclTold ==
  \A t \in Clerks : job[t].does = AclGet =>
    /\ stage[t] = "returned" => hadAcl[t] \ gone[t] \subseteq told[t] /\ told[t] \subseteq names \cup gone[t]
    /\ stage[t] = "keyerror" => gone[t] \cap ids[t] # {}
=============================================================================
