----------------------------- MODULE MCRequests -----------------------------
(***************************************************************************)
(* What a logged-in client does: it receives replies, turns their codes    *)
(* into exceptions, queries, changes metadata, calls the managers of the   *)
(* catalog and works on data objects.  Each module takes the layer below   *)
(* it as a request that is answered, refused or lost, and shares no        *)
(* variable with the others: a behaviour follows one, its focus, and the   *)
(* others rest.                                                            *)
(***************************************************************************)
EXTENDS Wire, ErrorCodes, QueryCursor, Metadata, Catalog, ObjectIO, TLC

VARIABLE focus
allVars == <<focus, wireVars, errVars, queryVars, metaVars, catVars, objVars>>

T(n, w) == [narrow |-> n, wide |-> w]
MCFrames == <<[msg |-> T(1, 1), error |-> T(0, 0), bs |-> T(0, 0)],
              [msg |-> T(0, 1), error |-> T(1, 0), bs |-> T(2, 0)]>>

(* Some classes of every family, an unknown one, and several errnos. *)
SomeCodes == {c \in Codes : (c \div 1000) % 7 \in {0, 3}} \cup {808000, 817000, 1601000, 1700000}
MCReplies == UNION {{c + e : e \in {0, 1, 13, 999}} : c \in SomeCodes} \ {0}

Job(does, cleans, name) == [does |-> does, cleans |-> cleans, name |-> name]
Others ==
  {UserCreate, UserModify, GroupCreate, GroupMember, ZoneCreate, ZoneModify, CollCreate, CollRemove,
   CollMove, CollTouch, ObjUnlink, ObjMove, ObjCopy, ObjRegister, ObjTouch}
MCJobs ==
  {Job(AclGet, FALSE, "u1"), Job(UserRemove, FALSE, "u1"), Job(AclSet, FALSE, "u2"),
   Job(ResourceCreate, TRUE, "x"), Job(ResourceModify, TRUE, "x"), Job(ResourceRemove, TRUE, "x"),
   Job(ResourceChild, TRUE, "x")} \cup {Job(m, FALSE, "x") : m \in Others}

Plain(op) == [op |-> op, force |-> FALSE, managed |-> FALSE, redirect |-> FALSE, big |-> FALSE,
              into |-> FALSE, all |-> FALSE, regChksum |-> FALSE]
ReadR == [Plain("read") EXCEPT !.managed = TRUE, !.redirect = TRUE]
WriteM == [Plain("write") EXCEPT !.managed = TRUE]
WriteR == [WriteM EXCEPT !.redirect = TRUE]
GetF == [Plain("get") EXCEPT !.force = TRUE, !.redirect = TRUE]
GetH == [GetF EXCEPT !.redirect = FALSE]
PutF == [Plain("put") EXCEPT !.force = TRUE]
PutAll == [PutF EXCEPT !.big = TRUE, !.all = TRUE]
PutInto == [Plain("put") EXCEPT !.into = TRUE]
PutReg == [PutAll EXCEPT !.regChksum = TRUE]
Both(a, b) == [h \in Callers |-> IF h = "h1" THEN a ELSE b]
MCPlans ==
  {Both(ReadR, WriteR), Both(WriteM, Plain("put")), Both(Plain("write"), Plain("get")),
   Both(PutAll, GetF), Both(PutReg, Plain("put")), Both(Plain("get"), PutInto), Both(ReadR, GetH)}
MCBefore == <<"f1", "f2">>
MCAfter == <<"f3">>
MCAvus == {<<"k1", "x">>, <<"k1", "y">>, <<"k2", "x">>}

(* A component at rest: one of its initial states. *)
ErrAtRest == ErrInit /\ reply = 808000 /\ accept = {}
QueryAtRest == QueryInit /\ way = [q \in Askers |-> "all"]
MetadataAtRest == MetadataInit /\ catalog = {}
CatalogAtRest ==
  CatalogInit /\ job = [t \in Clerks |-> Job(AclGet, FALSE, "u1")] /\ idleConns = {} /\ names = Users /\ acls = {}
ObjectAtRest ==
  ObjectInit /\ call = Both(ReadR, WriteR) /\ remote = "old" /\ local = [h \in Callers |-> "absent"]

AtRestBut(f) ==
  /\ focus = f /\ WireInit
  /\ f # "errors" => ErrAtRest
  /\ f # "queries" => QueryAtRest
  /\ f # "metadata" => MetadataAtRest
  /\ f # "catalog" => CatalogAtRest
  /\ f # "objects" => ObjectAtRest

MCInit ==
  \/ AtRestBut("wire")
  \/ AtRestBut("errors") /\ ErrInit
  \/ AtRestBut("queries") /\ QueryInit
  \/ AtRestBut("metadata") /\ MetadataInit
  \/ AtRestBut("catalog") /\ CatalogInit
  \/ AtRestBut("objects") /\ ObjectInit

OnWire(A) ==
  focus = "wire" /\ A /\ UNCHANGED <<focus, errVars, queryVars, metaVars, catVars, objVars>>

MCNext ==
  \/ /\ focus = "wire" /\ WireNext
     /\ UNCHANGED <<focus, errVars, queryVars, metaVars, catVars, objVars>>
  \/ /\ focus = "errors" /\ ErrNext
     /\ UNCHANGED <<focus, wireVars, queryVars, metaVars, catVars, objVars>>
  \/ /\ focus = "queries" /\ QueryNext
     /\ UNCHANGED <<focus, wireVars, errVars, metaVars, catVars, objVars>>
  \/ /\ focus = "metadata" /\ MetadataNext
     /\ UNCHANGED <<focus, wireVars, errVars, queryVars, catVars, objVars>>
  \/ /\ focus = "catalog" /\ CatalogNext
     /\ UNCHANGED <<focus, wireVars, errVars, queryVars, metaVars, objVars>>
  \/ /\ focus = "objects" /\ ObjectNext
     /\ UNCHANGED <<focus, wireVars, errVars, queryVars, metaVars, catVars>>

(* The fairness of WireSpec, where the wire is the focus. *)
MCFairness ==
  /\ WF_allVars(OnWire(StartRecv \/ ReadSome \/ PartDone))
  /\ WF_allVars(OnWire(EofRaises)) /\ WF_allVars(OnWire(TimedOut))
MCSpec == MCInit /\ [][MCNext]_allVars /\ MCFairness
=============================================================================
