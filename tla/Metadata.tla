------------------------------ MODULE Metadata ------------------------------
(***************************************************************************)
(* The AVUs of one object as views of it see and change them:              *)
(* iRODSMetaCollection (meta.py) over MetadataManager                      *)
(* (manager/metadata_manager.py).  A view keeps a list of the AVUs and     *)
(* options of its own; the keywords of the requests belong to the class of *)
(* the manager.  Several views, of several threads or sessions, work on    *)
(* the same object, and each of their operations is a sequence of requests.*)
(***************************************************************************)
EXTENDS Naturals, Sequences, FiniteSets, SequencesExt

CONSTANTS Views,    \* the views of the object
          Avus,     \* pairs of key and value
          MaxOps    \* bound on the operations and calls that are begun

ASSUME MetadataAssumption ==
  MaxOps \in Nat /\ IsFiniteSet(Avus) /\ \A avu \in Avus : avu = <<avu[1], avu[2]>>

VARIABLES
  catalog,   \* the AVUs of the object in the catalog
  meta,      \* _meta of each view
  admin,     \* _opts["admin"] of each view
  reload,    \* _opts["reload"]
  adminKw,   \* MetadataManager.__kw holds ADMIN_KW
  todo,      \* what is left of each view's operation
  ops,       \* operations begun
  assigned,  \* history: the last operation was __setitem__ of this AVU and has not failed
  before,    \* history: the catalog when it began
  alone,     \* history: the view's list was current, and nobody else has written since
  sent       \* history: the view that sent the last request, and whether as admin

optVars == <<admin, reload, adminKw>>
histVars == <<assigned, before, alone, sent>>
metaVars == <<catalog, meta, optVars, todo, ops, histVars>>

Key(avu) == avu[1]
Keys == {Key(avu) : avu \in Avus}
OfKey(avus, k) == {avu \in avus : Key(avu) = k}
NoAvu == <<"none", "none">>
NotSent == [view |-> "none", admin |-> FALSE]

MetadataInit ==
  /\ catalog \in {c \in SUBSET Avus : Cardinality(c) <= 2}
  /\ meta = [v \in Views |-> catalog]
  /\ admin = [v \in Views |-> FALSE] /\ reload = [v \in Views |-> TRUE] /\ adminKw = FALSE
  /\ todo = [v \in Views |-> <<>>] /\ ops = 0
  /\ assigned = [v \in Views |-> NoAvu] /\ before = [v \in Views |-> {}]
  /\ alone = [v \in Views |-> TRUE] /\ sent = NotSent

-----------------------------------------------------------------------------
(***************************************************************************)
(* An operation is a sequence of steps: requests to the catalog, and       *)
(* _reset_metadata.  __setitem__ and del remove the values get_all finds   *)
(* in the view's list, one request each, with a reset after each.          *)
(***************************************************************************)
Req(op, avu) == [op |-> op, avu |-> avu]
Reset == Req("reset", NoAvu)

Removals(avus, after) == FlattenSeq([i \in 1..Len(avus) |-> <<Req("rm", avus[i])>> \o after])
(* A mutation of DeleteAll. *)
DeleteAll_FirstOnly(avus) == IF avus = <<>> THEN <<>> ELSE Removals(<<avus[1]>>, <<Reset>>)

DeleteAll(avus) == Removals(avus, <<Reset>>)

SetItem(avus, avu) == DeleteAll(avus) \o <<Req("add", avu), Reset>>
DelItem(avus) == DeleteAll(avus) \o <<Reset>>
RemoveAll(avus) == Removals(avus, <<>>) \o <<Reset>>

MayBegin(v) == todo[v] = <<>> /\ ops < MaxOps

Begin(v, steps, avu) ==
  /\ MayBegin(v)
  /\ todo' = [todo EXCEPT ![v] = steps] /\ ops' = ops + 1
  /\ assigned' = [assigned EXCEPT ![v] = avu] /\ before' = [before EXCEPT ![v] = catalog]
  /\ alone' = [alone EXCEPT ![v] = (meta[v] = catalog)]
  /\ UNCHANGED <<catalog, meta, optVars, sent>>

(* add, set, remove, and a remove and an add in one atomic request. *)
Simple(v) == \E op \in {"add", "set", "rm", "atomic"} : \E avu \in Avus :
  Begin(v, <<Req(op, avu), Reset>>, NoAvu)

AssignItem(v) == \E avu \in Avus : \E vs \in SetToSeqs(OfKey(meta[v], Key(avu))) :
  Begin(v, SetItem(vs, avu), avu)
DeleteItem(v) == \E k \in Keys : \E vs \in SetToSeqs(OfKey(meta[v], k)) :
  Begin(v, DelItem(vs), NoAvu)
DeleteEvery(v) == \E vs \in SetToSeqs(meta[v]) : Begin(v, RemoveAll(vs), NoAvu)

(***************************************************************************)
(* Calling a view with options makes another: its list and options are     *)
(* copied, the options updated, and the keyword set or popped for good or  *)
(* for all, in the dictionary all managers share.                          *)
(***************************************************************************)
Call(v, w) ==
  /\ MayBegin(v) /\ todo[w] = <<>> /\ v # w
  /\ \E a \in {admin[v], TRUE, FALSE} : \E r \in {reload[v], TRUE, FALSE} :
       /\ admin' = [admin EXCEPT ![w] = a] /\ reload' = [reload EXCEPT ![w] = r]
       /\ adminKw' = a
       /\ meta' = [meta EXCEPT ![w] = IF r THEN catalog ELSE meta[v]]
  /\ alone' = [alone EXCEPT ![w] = meta'[w] = catalog]
  /\ assigned' = [assigned EXCEPT ![w] = NoAvu]
  /\ ops' = ops + 1 /\ sent' = NotSent
  /\ UNCHANGED <<catalog, todo, before>>

-----------------------------------------------------------------------------
(* What the server makes of a request; adding twice and removing what is   *)
(* not there are errors, and an atomic request does all it asks or nothing.*)
AvuRefused(r) ==
  \/ r.op = "add" /\ r.avu \in catalog
  \/ r.op = "rm" /\ r.avu \notin catalog
Effect(r) ==
  CASE r.op = "add" -> catalog \cup {r.avu}
    [] r.op = "rm" -> catalog \ {r.avu}
    [] r.op \in {"set", "atomic"} -> (catalog \ OfKey(catalog, Key(r.avu))) \cup {r.avu}

SentBy(v) == sent' = [view |-> v, admin |-> adminKw]
Wrote(v) ==
  alone' = IF catalog' = catalog THEN alone ELSE [u \in Views |-> u = v /\ alone[v]]
GiveUp(v) == todo' = [todo EXCEPT ![v] = <<>>] /\ assigned' = [assigned EXCEPT ![v] = NoAvu]
Current(v) == Head(todo[v])

Request(v) ==
  /\ todo[v] # <<>> /\ Current(v) # Reset /\ ~AvuRefused(Current(v))
  /\ catalog' = Effect(Current(v))
  /\ todo' = [todo EXCEPT ![v] = Tail(@)]
  /\ Wrote(v) /\ SentBy(v)
  /\ UNCHANGED <<meta, optVars, ops, assigned, before>>

RequestRefused(v) ==
  /\ todo[v] # <<>> /\ Current(v) # Reset /\ AvuRefused(Current(v))
  /\ GiveUp(v) /\ SentBy(v)
  /\ UNCHANGED <<catalog, meta, optVars, ops, before, alone>>

(* The connection breaks: the server may have carried out the request. *)
RequestLost(v) ==
  /\ todo[v] # <<>> /\ Current(v) # Reset /\ ~AvuRefused(Current(v))
  /\ catalog' \in {catalog, Effect(Current(v))}
  /\ GiveUp(v) /\ Wrote(v) /\ SentBy(v)
  /\ UNCHANGED <<meta, optVars, ops, before>>

ResetMetadata(v) ==
  /\ todo[v] # <<>> /\ Current(v) = Reset
  /\ meta' = IF reload[v] THEN [meta EXCEPT ![v] = catalog] ELSE meta
  /\ todo' = [todo EXCEPT ![v] = Tail(@)]
  /\ UNCHANGED <<catalog, optVars, ops, histVars>>

MetadataNext ==
  \E v \in Views :
    \/ Simple(v) \/ AssignItem(v) \/ DeleteItem(v) \/ DeleteEvery(v) \/ \E w \in Views : Call(v, w)
    \/ Request(v) \/ RequestRefused(v) \/ RequestLost(v) \/ ResetMetadata(v)
MetadataSpec == MetadataInit /\ [][MetadataNext]_metaVars

-----------------------------------------------------------------------------
(***************************************************************************)
(* view[key] = avu, when it has returned: the key has this one AVU, all    *)
(* other keys are as they were, and the view shows it unless reload is off *)
(* -- provided its list was current when it began and nobody else wrote,   *)
(* for it removes what the list says, one request at a time (__setitem__:  *)
(* "Deletes all existing values associated with a given key").             *)
(***************************************************************************)
ItemAssigned ==
  \A v \in Views :
    todo[v] = <<>> /\ assigned[v] # NoAvu /\ alone[v] =>
      /\ catalog = (before[v] \ OfKey(before[v], Key(assigned[v]))) \cup {assigned[v]}
      /\ reload[v] => meta[v] = catalog

(***************************************************************************)
(* A request is sent with ADMIN_KW exactly when the view that sends it was *)
(* made with admin=True (README: calls with options avoid "mutating the    *)
(* current instance" when "temporarily altering options such as reload and *)
(* admin").                                                                *)
(***************************************************************************)
AdminIsOwn == sent # NotSent => sent.admin = admin[sent.view]
=============================================================================
