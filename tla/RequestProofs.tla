--------------------------- MODULE RequestProofs ---------------------------
(***************************************************************************)
(* Theorems about a request and its answer: the codes of the replies       *)
(* (ErrorCodes), the rows and cursors of queries (QueryCursor), the frames *)
(* on the wire (Wire), and the AVUs of an object (Metadata): each for all  *)
(* values of its constants.                                                *)
(*                                                                         *)
(* None of these properties is inductive.  For the rows it takes where     *)
(* each connection is and whose its cursors are; for the frames, that what *)
(* is read stands in the stream where the header says it does; for an      *)
(* assignment to a key, which of the old values are still to be removed.   *)
(***************************************************************************)
EXTENDS Wire, ErrorCodes, QueryCursor, Metadata, DataLemmas

-----------------------------------------------------------------------------
(***************************************************************************)
(* rounded_code: whatever the sign conventions of the floor division, the  *)
(* code of a class is the whole thousands of the code it is asked for.     *)
(***************************************************************************)
LEMMA RoundedIsThousands ==
  ASSUME NEW c \in Nat
  PROVE  Rounded(c) = 1000 * (c \div 1000)
<1>1. -c - 1 < 0 /\ 999 - (-c - 1) = c + 1000 /\ -c - 1 \in Int
  OBVIOUS
<1>2. (c + 1000) \div 1000 = (c \div 1000) + 1
  OBVIOUS
<1>3. Floor1000(-c - 1) = -((c \div 1000) + 1)
  BY <1>1, <1>2 DEF Floor1000
<1>4. c \div 1000 \in Nat
  OBVIOUS
<1> QED BY <1>3, <1>4 DEF Rounded

(* What a code and its class have to do with each other. *)
LEMMA ThousandsBound ==
  ASSUME NEW c \in Nat
  PROVE  /\ 1000 * (c \div 1000) <= c /\ c < 1000 * (c \div 1000) + 1000
         /\ c = 1000 * (c \div 1000) + (c % 1000)
         /\ c \div 1000 \in Nat /\ c % 1000 \in Nat
<1>1. c \div 1000 \in Nat
  OBVIOUS
<1>2. c % 1000 \in 0..999
  OBVIOUS
<1>3. c = 1000 * (c \div 1000) + (c % 1000)
  <2>1. c \in Int
    OBVIOUS
  <2> QED BY <2>1, SMT
<1>4. \A q, r, n \in Int : n = 1000 * q + r /\ r \in 0..999 => 1000 * q <= n /\ n < 1000 * q + 1000
  OBVIOUS
<1> QED BY <1>1, <1>2, <1>3, <1>4

(***************************************************************************)
(* nominal_code: two codes have the same one exactly when they are equal,  *)
(* or both of thousands that are the same.                                 *)
(***************************************************************************)
LEMMA SameNominal ==
  ASSUME NEW a \in Nat, NEW c \in Nat
  PROVE  Nominal(c) = Nominal(a) <=>
           a = c \/ (a >= 1000 /\ c >= 1000 /\ a \div 1000 = c \div 1000)
<1>1. Nominal(c) = IF c >= 1000 THEN 1000 * (c \div 1000) ELSE c
  BY RoundedIsThousands DEF Nominal
<1>2. Nominal(a) = IF a >= 1000 THEN 1000 * (a \div 1000) ELSE a
  BY RoundedIsThousands DEF Nominal
<1>3. c >= 1000 => c \div 1000 >= 1
  OBVIOUS
<1>4. a >= 1000 => a \div 1000 >= 1
  OBVIOUS
<1> QED BY <1>1, <1>2, <1>3, <1>4, ThousandsBound

(* The classes by family: no thousands belong to two of them. *)
FamilyNo(t) ==
  IF t \in SystemException THEN 1
  ELSE IF t \in UserInputException THEN 2
  ELSE IF t \in FileDriverException THEN 3
  ELSE IF t \in UniversalMSSDriverException THEN 4
  ELSE IF t \in HPSSDriverException THEN 5
  ELSE IF t \in AmazonS3Exception THEN 6
  ELSE IF t \in CatalogLibraryException THEN 7
  ELSE IF t \in RDSException THEN 8
  ELSE IF t \in TicketException THEN 9
  ELSE IF t \in MiscException THEN 10
  ELSE IF t \in GSIException THEN 11
  ELSE IF t \in KRBException THEN 12
  ELSE IF t \in PAMException THEN 13
  ELSE IF t \in RuleEngineException THEN 14
  ELSE IF t \in PHPException THEN 15
  ELSE 16

(* A class that a family has is numbered by that family. *)
LEMMA NumberedFamilies ==
  /\ \A t \in SystemException : FamilyNo(t) = 1
  /\ \A t \in UserInputException : FamilyNo(t) = 2
  /\ \A t \in FileDriverException : FamilyNo(t) = 3
  /\ \A t \in UniversalMSSDriverException : FamilyNo(t) = 4
  /\ \A t \in HPSSDriverException : FamilyNo(t) = 5
  /\ \A t \in AmazonS3Exception : FamilyNo(t) = 6
  /\ \A t \in CatalogLibraryException : FamilyNo(t) = 7
  /\ \A t \in RDSException : FamilyNo(t) = 8
  /\ \A t \in TicketException : FamilyNo(t) = 9
  /\ \A t \in MiscException : FamilyNo(t) = 10
  /\ \A t \in GSIException : FamilyNo(t) = 11
  /\ \A t \in KRBException : FamilyNo(t) = 12
  /\ \A t \in PAMException : FamilyNo(t) = 13
  /\ \A t \in RuleEngineException : FamilyNo(t) = 14
  /\ \A t \in PHPException : FamilyNo(t) = 15
  /\ \A t \in NoFamily : FamilyNo(t) = 16
  BY DEF FamilyNo, NoFamily, SystemException, UserInputException, FileDriverException,
     UniversalMSSDriverException, HPSSDriverException, AmazonS3Exception,
     CatalogLibraryException, RDSException, TicketException, MiscException, GSIException,
     KRBException, PAMException, RuleEngineException, PHPException

(* No thousands belong to two families. *)
LEMMA FamiliesDisjoint ==
  ASSUME NEW f \in Families, NEW g \in Families, NEW t \in f, t \in g
  PROVE  f = g
  BY NumberedFamilies DEF Families

(* The class of a code is found in one family, and there only. *)
LEMMA OneFamily ==
  ASSUME NEW c \in Nat, 1000 * c \in Codes
  PROVE  \E f \in Families : \A g \in Families : 1000 * c \in {1000 * t : t \in g} <=> g = f
<1>1. \A f \in Families : \A t \in f : t \in Nat
  BY DEF Families, SystemException, UserInputException, FileDriverException,
     UniversalMSSDriverException, HPSSDriverException, AmazonS3Exception,
     CatalogLibraryException, RDSException, TicketException, MiscException, GSIException,
     KRBException, PAMException, RuleEngineException, PHPException, NoFamily
<1>2. PICK f \in Families : \E t \in f : 1000 * c = 1000 * t
  BY DEF Codes
<1>3. \A t \in Nat : 1000 * c = 1000 * t => c = t
  OBVIOUS
<1>4. c \in f
  BY <1>1, <1>2, <1>3
<1>5. ASSUME NEW g \in Families
      PROVE  1000 * c \in {1000 * t : t \in g} <=> g = f
  <2>1. 1000 * c \in {1000 * t : t \in g} <=> c \in g
    BY <1>1, <1>3
  <2>2. c \in g => g = f
    BY <1>4, FamiliesDisjoint
  <2> QED BY <1>4, <2>1, <2>2
<1> QED BY <1>5

-----------------------------------------------------------------------------
(* What every state of recv knows of the reply and of the exception. *)
Received ==
  /\ reply \in Nat /\ accept \subseteq Nat
  /\ outcome \in {"waiting", "returned", "raised", "KeyError"}
Judged == outcome # "waiting" => (outcome = "returned" <=> IsAcceptable(reply))
Raised ==
  /\ outcome = "raised" => exc = ByCode(reply) /\ Rounded(reply) \in Codes
  /\ outcome # "raised" => exc = NoExc /\ copied = NoExc
  /\ copied # NoExc => copied = exc
ErrInv == Received /\ Judged /\ Raised

(* eval(repr(err)): the errno comes off and goes on again. *)
LEMMA ReprKeepsCode ==
  ASSUME NEW c \in Nat
  PROVE  Eval(Repr(ByCode(c))) = ByCode(c)
  BY RoundedIsThousands, ThousandsBound DEF Eval, Repr, ByCode, Instance

(* No reply has been received yet. *)
LEMMA ErrInvInit == ErrInit => ErrInv
  BY RepliesAssumption DEF ErrInit, ErrInv, Received, Judged, Raised, NoExc

(* recv, the constructor and repr keep the code. *)
LEMMA ErrInvNext == ErrInv /\ [ErrNext]_errVars => ErrInv'
<1> SUFFICES ASSUME ErrInv, [ErrNext]_errVars
             PROVE  ErrInv'
  OBVIOUS
<1> USE DEF ErrInv, Received, Judged, Raised, IsAcceptable
<1>1. CASE AcceptReply
  BY <1>1 DEF AcceptReply
<1>2. CASE RaiseByCode
  BY <1>2 DEF RaiseByCode
<1>3. CASE CopyByRepr
  BY <1>3, ReprKeepsCode DEF CopyByRepr
<1>4. CASE UNCHANGED errVars
  BY <1>4 DEF errVars
<1> QED BY <1>1, <1>2, <1>3, <1>4 DEF ErrNext

(* The invariant says all that CodeRoundTrip asks for. *)
LEMMA ErrInvRoundTrip == ErrInv => CodeRoundTrip
<1> SUFFICES ASSUME ErrInv
             PROVE  CodeRoundTrip
  OBVIOUS
<1> USE DEF ErrInv, Received
<1>1. ASSUME outcome = "raised"
      PROVE  /\ exc.code = reply /\ exc.class <= reply /\ reply < exc.class + 1000
             /\ \E f \in Families : \A g \in Families :
                  exc.class \in {1000 * t : t \in g} <=> g = f
  <2>1. exc.code = reply /\ exc.class = 1000 * (reply \div 1000)
    BY <1>1, RoundedIsThousands DEF Raised, ByCode, Instance
  <2>2. exc.class <= reply /\ reply < exc.class + 1000 /\ reply \div 1000 \in Nat
    BY <2>1, ThousandsBound
  <2>3. 1000 * (reply \div 1000) \in Codes
    BY <1>1, RoundedIsThousands DEF Raised
  <2> QED BY <2>1, <2>2, <2>3, OneFamily
<1>2. IsAcceptable(reply) <=> \E a \in accept :
        a = reply \/ (a >= 1000 /\ reply >= 1000 /\ a \div 1000 = reply \div 1000)
  <2>1. IsAcceptable(reply) <=> \E a \in accept : Nominal(reply) = Nominal(a)
    BY DEF IsAcceptable
  <2>2. \A a \in accept : a \in Nat
    OBVIOUS
  <2> QED BY <2>1, <2>2, SameNominal
<1> QED BY <1>1, <1>2 DEF CodeRoundTrip, Judged, Raised

(***************************************************************************)
(* The exception recv raises has the code of the reply, and the class of   *)
(* its thousands, in one family only; its copy by repr is the same; and a  *)
(* reply passes exactly when acceptable_errors names it or its class, for  *)
(* every set of replies and of acceptable errors (exception.py).           *)
(***************************************************************************)
THEOREM CodesRoundTrip == ErrSpec => []CodeRoundTrip
  BY ErrInvInit, ErrInvNext, ErrInvRoundTrip, PTL DEF ErrSpec

-----------------------------------------------------------------------------
(***************************************************************************)
(* Queries.  Where the connections are: lent to one query, idle, or dead,  *)
(* which an agent is from the request that broke.                          *)
(***************************************************************************)
QueryPlaces == {"idle", "first", "next", "close", "yielded", "ended", "raised"}
CursorType == [by : Askers \cup {"none"}, at : Nat]
QueryTypes ==
  /\ idleAgents \subseteq Agents /\ made \subseteq Agents
  /\ cursors \in [Agents -> [Indexes -> CursorType]]
  /\ way \in [Askers -> Ways] /\ qpc \in [Askers -> QueryPlaces]
  /\ lent \in [Askers -> Agents \cup {"none"}] /\ cont \in [Askers -> Indexes \cup {0}]
  /\ rows \in [Askers -> Seq(Nat)]
  /\ home \in [Askers -> Agents \cup {"none"}] /\ astray \in [Askers -> BOOLEAN]

Dead == {a \in made \ idleAgents : \A q \in Askers : lent[q] # a}
Connections ==
  /\ idleAgents \subseteq made
  /\ \A q \in Askers : lent[q] # "none" => lent[q] \in made /\ lent[q] \notin idleAgents
  /\ \A q, r \in Askers : lent[q] # "none" /\ lent[q] = lent[r] => q = r

(* A query that has a connection is at a request, and began on that one.   *)
Stays ==
  \A q \in Askers :
    /\ lent[q] # "none" => qpc[q] \in Asking /\ home[q] # "none"
    /\ lent[q] # "none" /\ ~astray[q] => home[q] = lent[q]
    /\ home[q] # "none" => home[q] \in made
    /\ home[q] = "none" => qpc[q] \in {"idle", "first"}
    /\ qpc[q] = "idle" => home[q] = "none"

(* What the place of a query tells of its rows and of its continuation.    *)
Progress ==
  \A q \in Askers :
    /\ qpc[q] \in {"idle", "first"} => rows[q] = <<>> /\ cont[q] = 0
    /\ qpc[q] \in {"next", "close"} => cont[q] > 0
    /\ qpc[q] \in {"next", "yielded"} => way[q] \in {"batches", "specific"}

(* A cursor belongs to a query that is still to fetch from it or close it, *)
(* or that no one will close, and stands behind the rows handed out.       *)
CursorsOwned ==
  /\ \A a \in Agents : \A i \in Indexes :
       cursors[a][i] # NoCursor => cursors[a][i].by # "none" /\ cursors[a][i].at < TotalRows
  /\ NoneAstray =>
       \A a \in Agents : \A i \in Indexes :
         LET q == cursors[a][i].by IN
         q # "none" =>
           /\ home[q] = a /\ cont[q] = i
           /\ cursors[a][i].at = Len(rows[q])
           /\ qpc[q] \in {"next", "close", "yielded"} \/ (way[q] = "specific" /\ qpc[q] = "ended")

(* The cursor of a query is there as long as its connection lives.         *)
CursorsLive ==
  NoneAstray => \A q \in Askers :
    qpc[q] \in {"next", "close", "yielded"} /\ cont[q] > 0 =>
      cursors[home[q]][cont[q]].by = q \/ home[q] \in Dead

(* The rows handed out are the first ones, in order. *)
UpTo(k) == [i \in 1..k |-> i]
InOrder ==
  NoneAstray => \A q \in Askers :
    /\ rows[q] = UpTo(Len(rows[q]))
    /\ qpc[q] \in {"yielded", "ended"} /\ cont[q] = 0 => Len(rows[q]) = TotalRows
    /\ way[q] = "first" => Len(rows[q]) <= 1

QueryInv ==
  QueryTypes /\ Connections /\ Stays /\ Progress /\ CursorsOwned /\ CursorsLive /\ InOrder

(* The rows from the first to the k-th, in order. *)
LEMMA CountedUp ==
  ASSUME NEW s \in Seq(Nat), NEW k \in Nat, Len(s) = k, \A i \in 1..k : s[i] = i
  PROVE  s = UpTo(k)
  BY DEF UpTo

(* No query has begun and no connection is made. *)
LEMMA QueryInvInit == QueryInit => QueryInv
<1> SUFFICES ASSUME QueryInit
             PROVE  QueryInv
  OBVIOUS
<1> USE QueryAssumption DEF QueryInit, NoCursor
<1>1. QueryTypes
  BY DEF QueryTypes, QueryPlaces, CursorType
<1>2. Connections /\ Stays /\ Progress
  BY DEF Connections, Stays, Progress
<1>3. CursorsOwned /\ CursorsLive
  BY DEF CursorsOwned, CursorsLive
<1>4. InOrder
  BY DEF InOrder, UpTo
<1> QED BY <1>1, <1>2, <1>3, <1>4 DEF QueryInv

(* The lesser of two numbers, as Min finds it. *)
LEMMA MinOfTwo ==
  ASSUME NEW a \in Int, NEW b \in Int
  PROVE  Min({a, b}) = IF a <= b THEN a ELSE b
<1>1. CASE a <= b
  <2>1. a \in {a, b} /\ \A y \in {a, b} : a <= y
    BY <1>1
  <2>2. \A x \in {a, b} : (\A y \in {a, b} : x <= y) => x = a
    BY <1>1
  <2> QED BY <1>1, <2>1, <2>2 DEF Min
<1>2. CASE ~(a <= b)
  <2>1. b \in {a, b} /\ \A y \in {a, b} : b <= y
    BY <1>2
  <2>2. \A x \in {a, b} : (\A y \in {a, b} : x <= y) => x = b
    BY <1>2
  <2> QED BY <1>2, <2>1, <2>2 DEF Min
<1> QED BY <1>1, <1>2

(***************************************************************************)
(* An answer: some of the rows from a position on, and a cursor exactly    *)
(* when there are more.                                                    *)
(***************************************************************************)
More(k) == k < TotalRows
Placed(a, j, c) == [cursors EXCEPT ![a][j] = c]

(***************************************************************************)
(* An answer has the next rows, as many as it may, and leaves a cursor     *)
(* when there are more.                                                    *)
(***************************************************************************)
LEMMA FetchAnswers ==
  ASSUME QueryTypes, NEW q \in Askers, NEW a \in Agents, NEW from \in Nat, from <= TotalRows,
         NEW j \in Indexes, NEW p \in Askers
  PROVE  \E n \in Nat :
           /\ from + n <= TotalRows /\ n <= MaxRows(q)
           /\ Fetch(q, a, from, j, p).reply
                = Answer(q, from, n, IF More(from + n) THEN j ELSE 0)
           /\ Fetch(q, a, from, j, p).cursors
                = Placed(a, j, IF More(from + n) THEN [by |-> p, at |-> from + n] ELSE NoCursor)
<1> DEFINE n == Min({MaxRows(q), TotalRows - from})
<1>1. MaxRows(q) \in Nat \ {0} /\ TotalRows - from \in Nat
  BY QueryAssumption DEF MaxRows
<1>2. n \in Nat /\ n <= MaxRows(q) /\ n <= TotalRows - from
  BY <1>1, MinOfTwo
<1>3. from + n <= TotalRows
  BY <1>2, QueryAssumption
<1>4. /\ Fetch(q, a, from, j, p).reply
           = Answer(q, from, n, IF from + n < TotalRows THEN j ELSE 0)
      /\ Fetch(q, a, from, j, p).cursors
           = Placed(a, j, IF from + n < TotalRows THEN [by |-> p, at |-> from + n] ELSE NoCursor)
  BY DEF Fetch, Placed
<1> HIDE DEF n
<1>5. /\ Fetch(q, a, from, j, p).reply
           = Answer(q, from, n, IF More(from + n) THEN j ELSE 0)
      /\ Fetch(q, a, from, j, p).cursors
           = Placed(a, j, IF More(from + n) THEN [by |-> p, at |-> from + n] ELSE NoCursor)
  BY <1>4 DEF More
<1> QED BY <1>2, <1>3, <1>5

(***************************************************************************)
(* A batch arrives, the first or a later one: its rows follow those handed *)
(* out, and there is a cursor and a continuation if there are more.        *)
(***************************************************************************)
LEMMA BatchKeeps ==
  ASSUME QueryInv, NEW q \in Askers, NEW a \in Agents, NEW j \in Indexes, NEW p \in Askers,
         NEW from \in Nat, NEW n \in Nat,
         qpc[q] \in {"first", "next"}, lent[q] = a,
         from + n <= TotalRows, n <= MaxRows(q),
         NoneAstray => p = q /\ from = Len(rows[q]),
         qpc[q] = "first" => cursors[a][j] = NoCursor,
         NoneAstray /\ qpc[q] = "next" => cont[q] = j /\ cursors[a][j].by = q,
         cursors' = Placed(a, j, IF More(from + n) THEN [by |-> p, at |-> from + n] ELSE NoCursor),
         rows' = [rows EXCEPT ![q] = @ \o [i \in 1..n |-> from + i]],
         cont' = [cont EXCEPT ![q] = IF More(from + n) THEN j ELSE 0],
         qpc' = [qpc EXCEPT ![q] = IF way[q] \in {"batches", "specific"} THEN "yielded"
                                   ELSE IF More(from + n) THEN "close" ELSE "ended"],
         Release(q)
  PROVE  QueryInv'
<1> USE QueryAssumption
<1>0. QueryTypes /\ Connections /\ Stays /\ Progress /\ CursorsOwned /\ CursorsLive /\ InOrder
  BY DEF QueryInv
<1>1. /\ lent' = [lent EXCEPT ![q] = "none"] /\ idleAgents' = idleAgents \cup {a}
      /\ UNCHANGED <<made, way, home, astray>>
  BY DEF Release
<1> DEFINE batch == [i \in 1..n |-> from + i]
<1>2. batch \in Seq(Nat) /\ Len(batch) = n /\ \A i \in 1..n : batch[i] = from + i
  OBVIOUS
<1> HIDE DEF batch
<1>3. rows' = [rows EXCEPT ![q] = @ \o batch]
  BY DEF batch
<1>4. rows[q] \in Seq(Nat) /\ rows'[q] = rows[q] \o batch /\ rows'[q] \in Seq(Nat)
      /\ Len(rows'[q]) = Len(rows[q]) + n
      /\ \A i \in 1..(Len(rows[q]) + n) :
           rows'[q][i] = IF i <= Len(rows[q]) THEN rows[q][i] ELSE batch[i - Len(rows[q])]
  <2>1. rows[q] \in Seq(Nat) /\ rows'[q] = rows[q] \o batch
    BY <1>0, <1>3 DEF QueryTypes
  <2>2. /\ rows[q] \o batch \in Seq(Nat) /\ Len(rows[q] \o batch) = Len(rows[q]) + Len(batch)
        /\ \A i \in 1..(Len(rows[q]) + Len(batch)) :
             (rows[q] \o batch)[i] = IF i <= Len(rows[q]) THEN rows[q][i] ELSE batch[i - Len(rows[q])]
    BY <1>2, <2>1, ConcatProperties
  <2> QED BY <1>2, <2>1, <2>2
<1>5. \A r \in Askers : r # q =>
        rows'[r] = rows[r] /\ cont'[r] = cont[r] /\ qpc'[r] = qpc[r] /\ lent'[r] = lent[r]
  BY <1>0, <1>1, <1>3 DEF QueryTypes
<1>6. cont'[q] = (IF More(from + n) THEN j ELSE 0) /\ lent'[q] = "none"
      /\ qpc'[q] = (IF way[q] \in {"batches", "specific"} THEN "yielded"
                    ELSE IF More(from + n) THEN "close" ELSE "ended")
  BY <1>0, <1>1 DEF QueryTypes
<1>7. NoneAstray' <=> NoneAstray
  BY <1>1 DEF NoneAstray
<1>8. j \in Nat \ {0}
  BY DEF Indexes
<1>9. \A b \in Agents, i \in Indexes :
        cursors'[b][i] = IF b = a /\ i = j
                         THEN IF More(from + n) THEN [by |-> p, at |-> from + n] ELSE NoCursor
                         ELSE cursors[b][i]
  BY <1>0 DEF QueryTypes, Placed
<1>10. QueryTypes'
  <2>1. cursors' \in [Agents -> [Indexes -> CursorType]]
    BY <1>0 DEF QueryTypes, CursorType, NoCursor, Placed
  <2>2. rows' \in [Askers -> Seq(Nat)] /\ cont' \in [Askers -> Indexes \cup {0}]
    BY <1>0, <1>3, <1>4 DEF QueryTypes
  <2>3. qpc' \in [Askers -> QueryPlaces] /\ lent' \in [Askers -> Agents \cup {"none"}]
    BY <1>0, <1>1 DEF QueryTypes, QueryPlaces
  <2> QED BY <1>0, <1>1, <2>1, <2>2, <2>3 DEF QueryTypes
<1>11. Connections'
  BY <1>0, <1>1 DEF QueryTypes, Connections
<1>12. Stays' /\ Progress'
  BY <1>0, <1>1, <1>5, <1>6, <1>8 DEF QueryTypes, Stays, Progress, Asking
<1>13. CursorsOwned'
  <2>1. \A b \in Agents, i \in Indexes :
          cursors'[b][i] # NoCursor => cursors'[b][i].by # "none" /\ cursors'[b][i].at < TotalRows
    <3>1. ASSUME NEW b \in Agents, NEW i \in Indexes, cursors'[b][i] # NoCursor
          PROVE  cursors'[b][i].by # "none" /\ cursors'[b][i].at < TotalRows
      <4>1. CASE b = a /\ i = j
        BY <1>9, <3>1, <4>1 DEF More
      <4>2. CASE ~(b = a /\ i = j)
        BY <1>0, <1>9, <3>1, <4>2 DEF CursorsOwned
      <4> QED BY <4>1, <4>2
    <3> QED BY <3>1
  <2>2. ASSUME NoneAstray', NEW b \in Agents, NEW i \in Indexes, NEW r \in Askers,
               cursors'[b][i].by = r
        PROVE  /\ home'[r] = b /\ cont'[r] = i
               /\ cursors'[b][i].at = Len(rows'[r])
               /\ \/ qpc'[r] \in {"next", "close", "yielded"}
                  \/ way'[r] = "specific" /\ qpc'[r] = "ended"
    <3>1. CASE b = a /\ i = j
      <4>1. More(from + n) /\ r = q /\ cursors'[b][i].at = from + n
        BY <1>7, <1>9, <2>2, <3>1 DEF NoCursor
      <4>2. home[q] = a
        BY <1>0, <1>7, <2>2 DEF Stays, NoneAstray, QueryTypes
      <4> QED BY <1>1, <1>4, <1>6, <1>7, <2>2, <3>1, <4>1, <4>2
    <3>2. CASE ~(b = a /\ i = j)
      <4>1. cursors'[b][i] = cursors[b][i]
        BY <1>9, <3>2
      <4>2. /\ home[r] = b /\ cont[r] = i /\ cursors[b][i].at = Len(rows[r])
            /\ qpc[r] \in {"next", "close", "yielded"} \/ (way[r] = "specific" /\ qpc[r] = "ended")
        BY <1>0, <1>7, <2>2, <4>1 DEF CursorsOwned
      <4>3. r # q
        BY <1>0, <1>7, <2>2, <3>2, <4>2 DEF Stays, NoneAstray
      <4> QED BY <1>1, <1>5, <4>1, <4>2, <4>3
    <3> QED BY <3>1, <3>2
  <2>3. \A b \in Agents, i \in Indexes : cursors'[b][i].by \in Askers \cup {"none"}
    BY <1>10 DEF QueryTypes, CursorType
  <2>4. ASSUME NoneAstray', NEW b \in Agents, NEW i \in Indexes, cursors'[b][i].by # "none"
        PROVE  /\ home'[cursors'[b][i].by] = b /\ cont'[cursors'[b][i].by] = i
               /\ cursors'[b][i].at = Len(rows'[cursors'[b][i].by])
               /\ \/ qpc'[cursors'[b][i].by] \in {"next", "close", "yielded"}
                  \/ way'[cursors'[b][i].by] = "specific" /\ qpc'[cursors'[b][i].by] = "ended"
    <3>1. PICK r \in Askers : r = cursors'[b][i].by
      BY <2>3, <2>4
    <3> QED BY <2>2, <2>4, <3>1
  <2> QED BY <2>1, <2>4 DEF CursorsOwned
<1>14. CursorsLive'
  <2>1. SUFFICES ASSUME NoneAstray', NEW r \in Askers,
                        qpc'[r] \in {"next", "close", "yielded"}, cont'[r] > 0
                 PROVE  cursors'[home'[r]][cont'[r]].by = r \/ home'[r] \in Dead'
    BY DEF CursorsLive
  <2>2. CASE r = q
    <3>1. More(from + n) /\ cont'[q] = j /\ home[q] = a
      BY <1>0, <1>6, <1>7, <2>1, <2>2 DEF Stays, NoneAstray, QueryTypes
    <3> QED BY <1>1, <1>7, <1>9, <2>1, <2>2, <3>1
  <2>3. CASE r # q
    <3>1. qpc[r] = qpc'[r] /\ cont[r] = cont'[r] /\ home'[r] = home[r] /\ home[r] \in Agents
          /\ cont[r] \in Indexes
      <4>1. qpc[r] = qpc'[r] /\ cont[r] = cont'[r] /\ home'[r] = home[r]
        BY <1>0, <1>1, <1>5, <2>1, <2>3 DEF QueryTypes
      <4>2. home[r] # "none"
        BY <1>0, <2>1, <4>1 DEF Stays
      <4>3. cont[r] # 0
        BY <2>1, <4>1
      <4> QED BY <1>0, <4>1, <4>2, <4>3 DEF QueryTypes
    <3>2. cursors[home[r]][cont[r]].by = r \/ home[r] \in Dead
      BY <1>0, <1>7, <2>1, <3>1 DEF CursorsLive
    <3>3. home[r] \in Dead => home'[r] \in Dead'
      BY <1>0, <1>1, <3>1 DEF Dead, QueryTypes
    <3>4. cursors[home[r]][cont[r]].by = r => cursors'[home[r]][cont[r]] = cursors[home[r]][cont[r]]
      BY <1>7, <1>9, <2>1, <2>3, <3>1 DEF NoCursor
    <3> QED BY <3>1, <3>2, <3>3, <3>4
  <2> QED BY <2>2, <2>3
<1>15. InOrder'
  <2>1. SUFFICES ASSUME NoneAstray', NEW r \in Askers
                 PROVE  /\ rows'[r] = UpTo(Len(rows'[r]))
                        /\ qpc'[r] \in {"yielded", "ended"} /\ cont'[r] = 0 => Len(rows'[r]) = TotalRows
                        /\ way'[r] = "first" => Len(rows'[r]) <= 1
    BY DEF InOrder
  <2>2. CASE r # q
    BY <1>0, <1>1, <1>5, <1>7, <2>1, <2>2 DEF InOrder
  <2>3. CASE r = q
    <3>1. from = Len(rows[q]) /\ rows[q] = UpTo(Len(rows[q]))
      BY <1>0, <1>7, <2>1 DEF InOrder
    <3>0. \A i \in 1..from : rows[q][i] = i
      BY <3>1 DEF UpTo
    <3>2. \A i \in 1..(from + n) : rows'[q][i] = i
      <4>1. SUFFICES ASSUME NEW i \in 1..(from + n)
                     PROVE  rows'[q][i] = i
        OBVIOUS
      <4>2. CASE i <= from
        BY <1>2, <1>4, <3>0, <3>1, <4>2
      <4>3. CASE i > from
        <5>1. i - from \in 1..n /\ from + (i - from) = i
          BY <4>3
        <5>2. rows'[q][i] = batch[i - from]
          <6>1. i \in 1..(Len(rows[q]) + n) /\ ~(i <= Len(rows[q]))
            BY <3>1, <4>3
          <6> QED BY <1>4, <3>1, <6>1
        <5> QED BY <1>2, <5>1, <5>2
      <4>4. i <= from \/ i > from
        OBVIOUS
      <4> QED BY <4>2, <4>3, <4>4
    <3>3. rows'[q] = UpTo(Len(rows'[q]))
      <4>1. Len(rows'[q]) = from + n
        BY <1>4, <3>1
      <4>2. from + n \in Nat
        OBVIOUS
      <4>3. rows'[q] = UpTo(from + n)
        BY <1>4, <3>2, <4>1, <4>2, CountedUp
      <4> QED BY <4>1, <4>3
    <3>4. cont'[q] = 0 => Len(rows'[q]) = TotalRows
      BY <1>4, <1>6, <1>8, <3>1 DEF More
    <3>5. way[q] = "first" => from = 0 /\ MaxRows(q) = 1
      BY <1>0, <3>1 DEF Progress, MaxRows
    <3>6. way[q] = "first" => Len(rows'[q]) <= 1
      BY <1>4, <3>1, <3>5
    <3> QED BY <1>1, <2>3, <3>3, <3>4, <3>6
  <2> QED BY <2>2, <2>3
<1> QED BY <1>10, <1>11, <1>12, <1>13, <1>14, <1>15 DEF QueryInv

(* The caller of an iteration goes on or drops it: the cursor stays as it  *)
(* is, and no query is over that has one, but a SpecificQuery.             *)
LEMMA LeftOff ==
  ASSUME QueryInv, NEW q \in Askers, NEW to \in {"next", "close", "ended"},
         qpc[q] = "yielded", qpc' = [qpc EXCEPT ![q] = to],
         to \in {"next", "close"} => cont[q] > 0,
         to = "ended" => cont[q] = 0 \/ way[q] = "specific",
         UNCHANGED <<idleAgents, made, cursors, way, cont, rows, lent, home, astray>>
  PROVE  QueryInv'
<1>0. QueryTypes /\ Connections /\ Stays /\ Progress /\ CursorsOwned /\ CursorsLive /\ InOrder
  BY DEF QueryInv
<1>1. \A r \in Askers : qpc'[r] = IF r = q THEN to ELSE qpc[r]
  BY <1>0 DEF QueryTypes
<1>2. QueryTypes' /\ Connections'
  BY <1>0 DEF QueryTypes, QueryPlaces, Connections
<1>3. Stays' /\ Progress'
  BY <1>0, <1>1 DEF Stays, Progress, Asking
<1>4. Dead' = Dead /\ (NoneAstray' <=> NoneAstray)
  BY DEF Dead, NoneAstray
<1>5. CursorsOwned'
  <2>1. ASSUME NoneAstray', NEW b \in Agents, NEW i \in Indexes, NEW r \in Askers, cursors[b][i].by = r
        PROVE  /\ home[r] = b /\ cont[r] = i /\ cursors[b][i].at = Len(rows[r])
               /\ \/ qpc'[r] \in {"next", "close", "yielded"}
                  \/ way[r] = "specific" /\ qpc'[r] = "ended"
    <3>1. /\ home[r] = b /\ cont[r] = i /\ cursors[b][i].at = Len(rows[r])
          /\ qpc[r] \in {"next", "close", "yielded"} \/ (way[r] = "specific" /\ qpc[r] = "ended")
      BY <1>0, <1>4, <2>1, QueryAssumption DEF CursorsOwned
    <3>2. cont[r] # 0
      BY <3>1 DEF Indexes
    <3> QED BY <1>1, <3>1, <3>2
  <2>2. \A b \in Agents, i \in Indexes : cursors[b][i].by \in Askers \cup {"none"}
    BY <1>0 DEF QueryTypes, CursorType
  <2> QED BY <1>0, <2>1, <2>2 DEF CursorsOwned
<1>6. CursorsLive'
  BY <1>0, <1>1, <1>4 DEF CursorsLive
<1>7. InOrder'
  BY <1>0, <1>1, <1>4 DEF InOrder
<1> QED BY <1>2, <1>3, <1>5, <1>6, <1>7 DEF QueryInv

(***************************************************************************)
(* Every step of a query, and every request that breaks, keeps the         *)
(* invariant.                                                              *)
(***************************************************************************)
LEMMA QueryInvNext == QueryInv /\ [QueryNext]_queryVars => QueryInv'
<1> SUFFICES ASSUME QueryInv, [QueryNext]_queryVars
             PROVE  QueryInv'
  OBVIOUS
<1> USE QueryAssumption
<1>0. QueryTypes /\ Connections /\ Stays /\ Progress /\ CursorsOwned /\ CursorsLive /\ InOrder
  BY DEF QueryInv
<1>1. ASSUME NEW q \in Askers, StartQuery(q)
      PROVE  QueryInv'
  <2> USE <1>0, <1>1 DEF StartQuery, QGoto
  <2>1. QueryTypes'
    BY DEF QueryTypes, QueryPlaces
  <2>2. Connections' /\ Stays' /\ Progress'
    BY DEF QueryTypes, Connections, Stays, Progress, Asking
  <2>3. CursorsOwned'
    BY DEF QueryTypes, CursorType, CursorsOwned, NoneAstray, NoCursor
  <2>4. CursorsLive'
    BY DEF QueryTypes, CursorsLive, NoneAstray, Dead
  <2>5. InOrder'
    BY DEF QueryTypes, InOrder, NoneAstray
  <2> QED BY <2>1, <2>2, <2>3, <2>4, <2>5 DEF QueryInv
<1>2. ASSUME NEW q \in Askers, Lend(q)
      PROVE  QueryInv'
  <2>1. PICK a \in Candidates :
          /\ lent' = [lent EXCEPT ![q] = a] /\ idleAgents' = idleAgents \ {a} /\ made' = made \cup {a}
          /\ home' = IF home[q] = "none" THEN [home EXCEPT ![q] = a] ELSE home
          /\ astray' = [astray EXCEPT ![q] = @ \/ (home[q] # "none" /\ a # home[q])]
    BY <1>2 DEF Lend
  <2>2. a \in Agents /\ (a \in idleAgents \/ a \notin made)
    BY <1>0 DEF Candidates, QueryTypes
  <2>3. qpc[q] \in Asking /\ lent[q] = "none" /\ UNCHANGED <<cursors, way, qpc, cont, rows>>
    BY <1>2 DEF Lend, askVars
  <2>4. QueryTypes'
    BY <1>0, <2>1, <2>2, <2>3 DEF QueryTypes
  <2>5. Connections'
    BY <1>0, <2>1, <2>2 DEF QueryTypes, Connections
  <2>6. Stays' /\ Progress'
    BY <1>0, <2>1, <2>2, <2>3 DEF QueryTypes, Stays, Progress, Asking, Connections
  <2>7. NoneAstray' => NoneAstray /\ (home[q] = "none" \/ home[q] = a)
    BY <1>0, <2>1 DEF NoneAstray, QueryTypes
  <2>8. ASSUME NoneAstray', NEW r \in Askers, home[r] # "none"
        PROVE  home'[r] = home[r]
    BY <1>0, <2>1, <2>7, <2>8 DEF QueryTypes
  <2>9. CursorsOwned'
    BY <1>0, <2>1, <2>3, <2>7, <2>8 DEF QueryTypes, CursorType, CursorsOwned, NoCursor
  <2>10. \A b \in Dead : b \in Dead'
    BY <1>0, <2>1, <2>2 DEF Dead, QueryTypes
  <2>11. CursorsLive'
    BY <1>0, <2>3, <2>7, <2>8, <2>10 DEF CursorsLive, Stays
  <2>12. InOrder'
    BY <1>0, <2>3, <2>7 DEF InOrder
  <2> QED BY <2>4, <2>5, <2>6, <2>9, <2>11, <2>12 DEF QueryInv
<1>3. ASSUME NEW q \in Askers, FirstBatch(q)
      PROVE  QueryInv'
  <2>1. PICK a \in Agents : a = lent[q]
    BY <1>0, <1>3 DEF FirstBatch, QueryTypes
  <2>2. PICK j \in Indexes : j = FreeIndex(a) /\ cursors[a][j] = NoCursor
    BY <1>3, <2>1 DEF FirstBatch, HasFree, FreeIndex
  <2>3. PICK n \in Nat :
          /\ 0 + n <= TotalRows /\ n <= MaxRows(q) 
          /\ Fetch(q, a, 0, j, q).reply
               = Answer(q, 0, n, IF More(0 + n) THEN j ELSE 0)
          /\ Fetch(q, a, 0, j, q).cursors
               = Placed(a, j, IF More(0 + n) THEN [by |-> q, at |-> 0 + n] ELSE NoCursor)
    <3>1. 0 \in Nat /\ 0 <= TotalRows
      OBVIOUS
    <3> QED BY <1>0, <3>1, FetchAnswers
  <2>4. /\ qpc[q] = "first" /\ cursors' = Fetch(q, a, 0, j, q).cursors
        /\ Handed(q, Fetch(q, a, 0, j, q).reply) /\ Release(q)
    BY <1>3, <2>1, <2>2 DEF FirstBatch
  <2>5. Len(rows[q]) = 0
    BY <1>0, <2>4 DEF Progress
  <2>6. j > 0
    BY DEF Indexes
  <2>7. /\ rows' = [rows EXCEPT ![q] = @ \o [i \in 1..n |-> 0 + i]]
        /\ cont' = [cont EXCEPT ![q] = IF More(0 + n) THEN j ELSE 0]
        /\ qpc' = [qpc EXCEPT ![q] = IF way[q] \in {"batches", "specific"} THEN "yielded"
                                     ELSE IF More(0 + n) THEN "close" ELSE "ended"]
    <3>1. Fetch(q, a, 0, j, q).reply.rows = [i \in 1..n |-> 0 + i]
      BY <2>3 DEF Answer
    <3>2. Fetch(q, a, 0, j, q).reply.index = IF More(0 + n) THEN j ELSE 0
      BY <2>3 DEF Answer
    <3>3. Fetch(q, a, 0, j, q).reply.index > 0 <=> More(0 + n)
      BY <2>6, <3>2
    <3> QED BY <2>4, <3>1, <3>2, <3>3 DEF Handed, QGoto
  <2>8. cursors' = Placed(a, j, IF More(0 + n) THEN [by |-> q, at |-> 0 + n] ELSE NoCursor)
    BY <2>3, <2>4
  <2>9. 0 \in Nat
    OBVIOUS
  <2> QED BY <2>1, <2>2, <2>3, <2>4, <2>5, <2>7, <2>8, <2>9, BatchKeeps
<1>4. ASSUME NEW q \in Askers, NextBatch(q)
      PROVE  QueryInv'
  <2>1. PICK a \in Agents : a = lent[q]
    BY <1>0, <1>4 DEF NextBatch, QueryTypes
  <2>2. PICK j \in Indexes : j = cont[q]
    BY <1>0, <1>4 DEF NextBatch, QueryTypes, Progress
  <2>3. PICK p \in Askers, from \in Nat :
          p = Asked(q).by /\ from = Asked(q).at /\ from < TotalRows /\ cursors[a][j] = Asked(q)
    <3>1. cursors[a][j] = Asked(q) /\ cursors[a][j] # NoCursor
      BY <1>4, <2>1, <2>2 DEF NextBatch, Asked
    <3>2. cursors[a][j].by \in Askers \cup {"none"} /\ cursors[a][j].at \in Nat
      BY <1>0 DEF QueryTypes, CursorType
    <3>3. cursors[a][j].by # "none" /\ cursors[a][j].at < TotalRows
      BY <1>0, <3>1 DEF CursorsOwned
    <3> QED BY <3>1, <3>2, <3>3
  <2>4. PICK n \in Nat :
          /\ from + n <= TotalRows /\ n <= MaxRows(q)
          /\ Fetch(q, a, from, j, p).reply
               = Answer(q, from, n, IF More(from + n) THEN j ELSE 0)
          /\ Fetch(q, a, from, j, p).cursors
               = Placed(a, j, IF More(from + n) THEN [by |-> p, at |-> from + n] ELSE NoCursor)
    <3>1. from <= TotalRows
      BY <2>3
    <3> QED BY <1>0, <3>1, FetchAnswers
  <2>5. /\ qpc[q] = "next" /\ cursors' = Fetch(q, a, from, j, p).cursors
        /\ Handed(q, Fetch(q, a, from, j, p).reply) /\ Release(q)
    BY <1>4, <2>1, <2>2, <2>3 DEF NextBatch
  <2>6. j > 0
    BY DEF Indexes
  <2>7. /\ rows' = [rows EXCEPT ![q] = @ \o [i \in 1..n |-> from + i]]
        /\ cont' = [cont EXCEPT ![q] = IF More(from + n) THEN j ELSE 0]
        /\ qpc' = [qpc EXCEPT ![q] = IF way[q] \in {"batches", "specific"} THEN "yielded"
                                     ELSE IF More(from + n) THEN "close" ELSE "ended"]
    <3>1. Fetch(q, a, from, j, p).reply.rows = [i \in 1..n |-> from + i]
      BY <2>4 DEF Answer
    <3>2. Fetch(q, a, from, j, p).reply.index = IF More(from + n) THEN j ELSE 0
      BY <2>4 DEF Answer
    <3>3. Fetch(q, a, from, j, p).reply.index > 0 <=> More(from + n)
      BY <2>6, <3>2
    <3> QED BY <2>5, <3>1, <3>2, <3>3 DEF Handed, QGoto
  <2>8. cursors' = Placed(a, j, IF More(from + n) THEN [by |-> p, at |-> from + n] ELSE NoCursor)
    BY <2>4, <2>5
  <2>9. NoneAstray => p = q /\ from = Len(rows[q]) /\ cursors[a][j].by = q
    <3>1. SUFFICES ASSUME NoneAstray
                   PROVE  p = q /\ from = Len(rows[q]) /\ cursors[a][j].by = q
      OBVIOUS
    <3>2. home[q] = a
      BY <1>0, <2>1, <3>1 DEF Stays, NoneAstray
    <3>3. a \notin Dead
      BY <2>1 DEF Dead
    <3>4. cursors[a][j].by = q
      BY <1>0, <2>2, <2>5, <2>6, <3>1, <3>2, <3>3 DEF CursorsLive
    <3> QED BY <1>0, <2>3, <3>1, <3>4 DEF CursorsOwned
  <2>10. /\ qpc[q] \in {"first", "next"} /\ lent[q] = a
         /\ qpc[q] = "first" => cursors[a][j] = NoCursor
         /\ NoneAstray => p = q /\ from = Len(rows[q])
         /\ NoneAstray /\ qpc[q] = "next" => cont[q] = j /\ cursors[a][j].by = q
    BY <2>1, <2>2, <2>5, <2>9
  <2> QED BY <2>4, <2>5, <2>7, <2>8, <2>10, BatchKeeps
<1>5. ASSUME NEW q \in Askers, CloseCursor(q)
      PROVE  QueryInv'
  <2>1. PICK a \in Agents : a = lent[q]
    BY <1>0, <1>5 DEF CloseCursor, QueryTypes
  <2>2. PICK j \in Indexes : j = cont[q]
    BY <1>0, <1>5 DEF CloseCursor, QueryTypes, Progress
  <2>3. /\ qpc[q] = "close" /\ cursors[a][j] # NoCursor /\ j > 0
        /\ cursors' = [cursors EXCEPT ![a][j] = NoCursor] /\ qpc' = [qpc EXCEPT ![q] = "ended"]
        /\ lent' = [lent EXCEPT ![q] = "none"] /\ idleAgents' = idleAgents \cup {a}
        /\ UNCHANGED <<made, way, cont, rows, home, astray>>
    BY <1>5, <2>1, <2>2 DEF CloseCursor, QGoto, Asked, Release, Indexes
  <2>4. QueryTypes'
    <3>1. cursors' \in [Agents -> [Indexes -> CursorType]]
      BY <1>0, <2>3 DEF QueryTypes, CursorType, NoCursor
    <3> QED BY <1>0, <2>1, <2>3, <3>1 DEF QueryTypes, QueryPlaces
  <2>5. Connections'
    BY <1>0, <2>1, <2>3 DEF QueryTypes, Connections
  <2>6. Stays' /\ Progress'
    BY <1>0, <2>1, <2>3 DEF QueryTypes, Stays, Progress, Asking
  <2>7. NoneAstray' <=> NoneAstray
    BY <2>3 DEF NoneAstray
  <2>8. NoneAstray => home[q] = a /\ cont[q] = j /\ cursors[a][j].by = q
    <3>1. ASSUME NoneAstray
          PROVE  home[q] = a
      BY <1>0, <2>1, <3>1 DEF Stays, NoneAstray
    <3>2. a \notin Dead
      BY <2>1 DEF Dead
    <3> QED BY <1>0, <2>2, <2>3, <3>1, <3>2 DEF CursorsLive
  <2>9. \A b \in Agents, i \in Indexes :
          cursors'[b][i] = IF b = a /\ i = j THEN NoCursor ELSE cursors[b][i]
    BY <1>0, <2>3 DEF QueryTypes
  <2>10. CursorsOwned'
    <3>1. \A b \in Agents, i \in Indexes :
            cursors'[b][i] # NoCursor => cursors'[b][i].by # "none" /\ cursors'[b][i].at < TotalRows
      BY <1>0, <2>9 DEF CursorsOwned
    <3>2. ASSUME NoneAstray', NEW b \in Agents, NEW i \in Indexes, NEW r \in Askers,
                 cursors'[b][i].by = r
          PROVE  /\ home'[r] = b /\ cont'[r] = i
                 /\ cursors'[b][i].at = Len(rows'[r])
                 /\ \/ qpc'[r] \in {"next", "close", "yielded"}
                    \/ way'[r] = "specific" /\ qpc'[r] = "ended"
      <4>1. cursors'[b][i] = cursors[b][i] /\ ~(b = a /\ i = j)
        BY <2>9, <3>2 DEF NoCursor
      <4>2. /\ home[r] = b /\ cont[r] = i /\ cursors[b][i].at = Len(rows[r])
            /\ qpc[r] \in {"next", "close", "yielded"} \/ (way[r] = "specific" /\ qpc[r] = "ended")
        BY <1>0, <2>7, <3>2, <4>1 DEF CursorsOwned
      <4>3. r # q
        BY <2>7, <2>8, <3>2, <4>1, <4>2
      <4> QED BY <1>0, <2>3, <4>1, <4>2, <4>3 DEF QueryTypes
    <3>3. \A b \in Agents, i \in Indexes : cursors'[b][i].by \in Askers \cup {"none"}
      BY <2>4 DEF QueryTypes, CursorType
    <3> QED BY <3>1, <3>2, <3>3 DEF CursorsOwned
  <2>11. CursorsLive'
    <3>1. SUFFICES ASSUME NoneAstray', NEW r \in Askers,
                          qpc'[r] \in {"next", "close", "yielded"}, cont'[r] > 0
                   PROVE  cursors'[home'[r]][cont'[r]].by = r \/ home'[r] \in Dead'
      BY DEF CursorsLive
    <3>2. /\ r # q /\ qpc[r] = qpc'[r] /\ cont[r] = cont'[r] /\ home'[r] = home[r]
      BY <1>0, <2>3, <3>1 DEF QueryTypes
    <3>3. home[r] \in Agents /\ cont[r] \in Indexes
      <4>1. home[r] # "none" /\ cont[r] # 0
        BY <1>0, <3>1, <3>2 DEF Stays
      <4> QED BY <1>0, <4>1 DEF QueryTypes
    <3>4. cursors[home[r]][cont[r]].by = r \/ home[r] \in Dead
      BY <1>0, <2>7, <3>1, <3>2 DEF CursorsLive
    <3>5. home[r] \in Dead => home[r] \in Dead'
      BY <1>0, <2>1, <2>3 DEF Dead, QueryTypes
    <3>6. cursors[home[r]][cont[r]].by = r => cursors'[home[r]][cont[r]] = cursors[home[r]][cont[r]]
      BY <2>7, <2>8, <2>9, <3>1, <3>2, <3>3
    <3> QED BY <3>2, <3>4, <3>5, <3>6
  <2>12. InOrder'
    <3>1. SUFFICES ASSUME NoneAstray', NEW r \in Askers
                   PROVE  /\ rows[r] = UpTo(Len(rows[r]))
                          /\ qpc'[r] \in {"yielded", "ended"} /\ cont[r] = 0 => Len(rows[r]) = TotalRows
                          /\ way[r] = "first" => Len(rows[r]) <= 1
      BY <2>3 DEF InOrder
    <3>2. qpc'[r] = (IF r = q THEN "ended" ELSE qpc[r])
      BY <1>0, <2>3 DEF QueryTypes
    <3>3. cont[q] # 0
      BY <2>2, <2>3
    <3> QED BY <1>0, <2>7, <3>1, <3>2, <3>3 DEF InOrder
  <2> QED BY <2>4, <2>5, <2>6, <2>10, <2>11, <2>12 DEF QueryInv
<1>6. ASSUME NEW q \in Askers, CursorUnknown(q)
      PROVE  QueryInv'
  <2>1. PICK a \in Agents : a = lent[q]
    BY <1>0, <1>6 DEF CursorUnknown, QueryTypes
  <2>2. /\ qpc[q] \in {"next", "close"} /\ cursors[a][cont[q]] = NoCursor
        /\ qpc' = [qpc EXCEPT ![q] = "raised"]
        /\ lent' = [lent EXCEPT ![q] = "none"] /\ idleAgents' = idleAgents \cup {a}
        /\ UNCHANGED <<made, cursors, way, cont, rows, home, astray>>
    BY <1>6, <2>1 DEF CursorUnknown, QGoto, Asked, Release
  <2>3. QueryTypes'
    BY <1>0, <2>1, <2>2 DEF QueryTypes, QueryPlaces
  <2>4. Connections'
    BY <1>0, <2>1, <2>2 DEF QueryTypes, Connections
  <2>5. Stays' /\ Progress'
    BY <1>0, <2>1, <2>2 DEF QueryTypes, Stays, Progress, Asking
  <2>6. ~NoneAstray
    <3>1. SUFFICES ASSUME NoneAstray
                   PROVE  FALSE
      OBVIOUS
    <3>2. home[q] = a /\ cont[q] > 0
      BY <1>0, <2>1, <2>2, <3>1 DEF Stays, Progress, NoneAstray
    <3>3. a \notin Dead
      BY <2>1 DEF Dead
    <3>4. cursors[a][cont[q]].by = q
      BY <1>0, <2>2, <3>1, <3>2, <3>3 DEF CursorsLive
    <3> QED BY <2>2, <3>4 DEF NoCursor
  <2>7. ~NoneAstray'
    BY <2>2, <2>6 DEF NoneAstray
  <2>8. CursorsOwned' /\ CursorsLive' /\ InOrder'
    BY <1>0, <2>2, <2>7 DEF CursorsOwned, CursorsLive, InOrder
  <2> QED BY <2>3, <2>4, <2>5, <2>8 DEF QueryInv
<1>7. ASSUME NEW q \in Askers, RequestBreaks(q)
      PROVE  QueryInv'
  <2>1. PICK a \in Agents : a = lent[q]
    BY <1>0, <1>7 DEF RequestBreaks, QueryTypes
  <2>2. /\ qpc[q] \in Asking /\ cursors' = [cursors EXCEPT ![a] = [i \in Indexes |-> NoCursor]]
        /\ lent' = [lent EXCEPT ![q] = "none"] /\ qpc' = [qpc EXCEPT ![q] = "raised"]
        /\ UNCHANGED <<idleAgents, made, way, cont, rows, home, astray>>
    BY <1>7, <2>1 DEF RequestBreaks, QGoto
  <2>3. QueryTypes'
    <3>1. cursors' \in [Agents -> [Indexes -> CursorType]]
      BY <1>0, <2>2 DEF QueryTypes, CursorType, NoCursor
    <3> QED BY <1>0, <2>1, <2>2, <3>1 DEF QueryTypes, QueryPlaces
  <2>4. Connections'
    BY <1>0, <2>1, <2>2 DEF QueryTypes, Connections
  <2>5. Stays' /\ Progress'
    BY <1>0, <2>1, <2>2 DEF QueryTypes, Stays, Progress, Asking
  <2>6. NoneAstray' <=> NoneAstray
    BY <2>2 DEF NoneAstray
  <2>7. NoneAstray => home[q] = a
    BY <1>0, <2>1 DEF Stays, NoneAstray
  <2>8. \A b \in Agents, i \in Indexes :
          cursors'[b][i] = IF b = a THEN NoCursor ELSE cursors[b][i]
    BY <1>0, <2>2 DEF QueryTypes
  <2>9. a \in Dead' /\ \A b \in Dead : b \in Dead'
    BY <1>0, <2>1, <2>2 DEF Dead, QueryTypes, Connections
  <2>10. CursorsOwned'
    <3>1. \A b \in Agents, i \in Indexes :
            cursors'[b][i] # NoCursor => cursors'[b][i].by # "none" /\ cursors'[b][i].at < TotalRows
      BY <1>0, <2>8 DEF CursorsOwned
    <3>2. ASSUME NoneAstray', NEW b \in Agents, NEW i \in Indexes, NEW r \in Askers,
                 cursors'[b][i].by = r
          PROVE  /\ home'[r] = b /\ cont'[r] = i
                 /\ cursors'[b][i].at = Len(rows'[r])
                 /\ \/ qpc'[r] \in {"next", "close", "yielded"}
                    \/ way'[r] = "specific" /\ qpc'[r] = "ended"
      <4>1. cursors'[b][i] = cursors[b][i] /\ b # a
        BY <2>8, <3>2 DEF NoCursor
      <4>2. /\ home[r] = b /\ cont[r] = i /\ cursors[b][i].at = Len(rows[r])
            /\ qpc[r] \in {"next", "close", "yielded"} \/ (way[r] = "specific" /\ qpc[r] = "ended")
        BY <1>0, <2>6, <3>2, <4>1 DEF CursorsOwned
      <4>3. r # q
        BY <2>6, <2>7, <3>2, <4>1, <4>2
      <4> QED BY <1>0, <2>2, <4>1, <4>2, <4>3 DEF QueryTypes
    <3>3. \A b \in Agents, i \in Indexes : cursors'[b][i].by \in Askers \cup {"none"}
      BY <2>3 DEF QueryTypes, CursorType
    <3> QED BY <3>1, <3>2, <3>3 DEF CursorsOwned
  <2>11. CursorsLive'
    <3>1. SUFFICES ASSUME NoneAstray', NEW r \in Askers,
                          qpc'[r] \in {"next", "close", "yielded"}, cont'[r] > 0
                   PROVE  cursors'[home'[r]][cont'[r]].by = r \/ home'[r] \in Dead'
      BY DEF CursorsLive
    <3>2. /\ qpc[r] = qpc'[r] /\ cont[r] = cont'[r] /\ home'[r] = home[r]
      BY <1>0, <2>2, <3>1 DEF QueryTypes
    <3>3. home[r] \in Agents /\ cont[r] \in Indexes
      <4>1. home[r] # "none" /\ cont[r] # 0
        BY <1>0, <3>1, <3>2 DEF Stays
      <4> QED BY <1>0, <4>1 DEF QueryTypes
    <3>4. cursors[home[r]][cont[r]].by = r \/ home[r] \in Dead
      BY <1>0, <2>6, <3>1, <3>2 DEF CursorsLive
    <3> QED BY <2>8, <2>9, <3>2, <3>3, <3>4
  <2>12. InOrder'
    BY <1>0, <2>2, <2>6 DEF InOrder, QueryTypes
  <2> QED BY <2>3, <2>4, <2>5, <2>10, <2>11, <2>12 DEF QueryInv
<1>8. ASSUME NEW q \in Askers, Resume(q)
      PROVE  QueryInv'
  <2>1. /\ qpc[q] = "yielded" /\ qpc' = [qpc EXCEPT ![q] = IF cont[q] > 0 THEN "next" ELSE "ended"]
        /\ UNCHANGED <<idleAgents, made, cursors, way, cont, rows, lent, home, astray>>
    BY <1>8 DEF Resume, QGoto
  <2>2. PICK to \in {"next", "close", "ended"} : to = IF cont[q] > 0 THEN "next" ELSE "ended"
    OBVIOUS
  <2>3. (to = "next" => cont[q] > 0) /\ to # "close" /\ (to = "ended" => cont[q] = 0)
    BY <1>0, <2>2 DEF QueryTypes, Indexes
  <2>4. qpc' = [qpc EXCEPT ![q] = to]
    BY <2>1, <2>2
  <2> QED BY <2>1, <2>3, <2>4, LeftOff
<1>9. ASSUME NEW q \in Askers, Abandon(q)
      PROVE  QueryInv'
  <2>1. /\ qpc[q] = "yielded"
        /\ qpc' = [qpc EXCEPT ![q] = IF cont[q] > 0 /\ ClosesOnExit(q) THEN "close" ELSE "ended"]
        /\ UNCHANGED <<idleAgents, made, cursors, way, cont, rows, lent, home, astray>>
    BY <1>9 DEF Abandon, QGoto
  <2>2. ~ClosesOnExit(q) => way[q] = "specific"
    BY <1>0, <2>1 DEF Progress, ClosesOnExit
  <2>3. PICK to \in {"next", "close", "ended"} :
          to = IF cont[q] > 0 /\ ClosesOnExit(q) THEN "close" ELSE "ended"
    OBVIOUS
  <2>4. /\ to # "next" /\ (to = "close" => cont[q] > 0)
        /\ to = "ended" => cont[q] = 0 \/ way[q] = "specific"
    BY <1>0, <2>2, <2>3 DEF QueryTypes, Indexes
  <2>5. qpc' = [qpc EXCEPT ![q] = to]
    BY <2>1, <2>3
  <2> QED BY <2>1, <2>4, <2>5, LeftOff
<1>10. CASE UNCHANGED queryVars
  <2> USE <1>0, <1>10 DEF queryVars, askVars
  <2>1. QueryTypes' /\ Connections' /\ Stays' /\ Progress'
    BY DEF QueryTypes, Connections, Stays, Progress
  <2>2. CursorsOwned' /\ InOrder'
    BY DEF CursorsOwned, InOrder, NoneAstray
  <2>3. CursorsLive'
    BY DEF CursorsLive, NoneAstray, Dead
  <2> QED BY <2>1, <2>2, <2>3 DEF QueryInv
<1> QED BY <1>1, <1>2, <1>3, <1>4, <1>5, <1>6, <1>7, <1>8, <1>9, <1>10 DEF QueryNext

(***************************************************************************)
(* RowsOnce, for every number of threads, connections, rows and rows to a  *)
(* batch: while each query keeps to the connection it began on, rows are   *)
(* handed out once and in order, and to the last one (query.py).           *)
(***************************************************************************)
THEOREM RowsOnceHolds == QuerySpec => []RowsOnce
<1>1. QueryInv => RowsOnce
  <2>1. SUFFICES ASSUME QueryInv, NoneAstray, NEW q \in Askers
                 PROVE  /\ rows[q] = [i \in 1..Len(rows[q]) |-> i]
                        /\ qpc[q] = "ended" /\ cont[q] = 0 =>
                             Len(rows[q]) = IF way[q] = "first" THEN Min({1, TotalRows}) ELSE TotalRows
    BY DEF RowsOnce
  <2>2. /\ rows[q] = UpTo(Len(rows[q])) /\ (way[q] = "first" => Len(rows[q]) <= 1)
        /\ qpc[q] = "ended" /\ cont[q] = 0 => Len(rows[q]) = TotalRows
    BY <2>1 DEF QueryInv, InOrder
  <2>3. Min({1, TotalRows}) = IF 1 <= TotalRows THEN 1 ELSE TotalRows
    BY MinOfTwo, QueryAssumption
  <2>4. rows[q] = [i \in 1..Len(rows[q]) |-> i]
    BY <2>2 DEF UpTo
  <2>5. qpc[q] = "ended" /\ cont[q] = 0 =>
          Len(rows[q]) = IF way[q] = "first" THEN Min({1, TotalRows}) ELSE TotalRows
    BY <2>2, <2>3, QueryAssumption
  <2> QED BY <2>4, <2>5
<1> QED BY <1>1, QueryInvInit, QueryInvNext, PTL DEF QuerySpec

(***************************************************************************)
(* CursorsClosed: a query that is over has no cursor left at the server,   *)
(* but for a SpecificQuery that was dropped, however the threads and       *)
(* their requests interleave (query.py, GeneratorExit).                    *)
(***************************************************************************)
THEOREM CursorsClosedHolds == QuerySpec => []CursorsClosed
<1>1. QueryInv => CursorsClosed
  BY ZenonT(60) DEF QueryInv, QueryTypes, CursorType, CursorsOwned, CursorsClosed
<1> QED BY <1>1, QueryInvInit, QueryInvNext, PTL DEF QuerySpec

-----------------------------------------------------------------------------
(***************************************************************************)
(* The stream of a connection: where each frame begins, where the parts    *)
(* lie in it, and which bytes are found there.                             *)
(***************************************************************************)
PartNames == {"prefix", "header", "msg", "error", "bs"}
Size(f, p) ==
  IF p = "prefix" THEN PrefixLen ELSE IF p = "header" THEN HeaderLen ELSE Encoded(Frames[f][p])
At(f, p) ==
  IF p = "prefix" THEN 0
  ELSE IF p = "header" THEN PrefixLen
  ELSE IF p = "msg" THEN PrefixLen + HeaderLen
  ELSE IF p = "error" THEN PrefixLen + HeaderLen + Size(f, "msg")
  ELSE PrefixLen + HeaderLen + Size(f, "msg") + Size(f, "error")
FrameLen(f) == At(f, "bs") + Size(f, "bs")
Offset(k) == Len(FlattenSeq([f \in 1..k |-> Pack(f)]))
Byte == (1..Len(Frames)) \X PartNames

(* Sizes and places of the parts are numbers of bytes. *)
LEMMA SizeType ==
  ASSUME NEW f \in 1..Len(Frames)
  PROVE  /\ \A p \in PartNames : Size(f, p) \in Nat /\ At(f, p) \in Nat
         /\ FrameLen(f) \in Nat
<1>1. Frames[f] \in FrameType
  BY FramesAssumption
<1>2. \A p \in {"msg", "error", "bs"} : Frames[f][p] \in TextType
  BY <1>1 DEF FrameType
<1>3. \A t \in TextType : Encoded(t) \in Nat
  BY DEF Encoded, TextType
<1>4. \A p \in PartNames : Size(f, p) \in Nat
  BY <1>2, <1>3 DEF Size, PartNames, PrefixLen, HeaderLen
<1>5. \A p \in PartNames : At(f, p) \in Nat
  BY <1>4 DEF At, PartNames, PrefixLen, HeaderLen
<1> QED BY <1>4, <1>5 DEF FrameLen, PartNames

(* A run of bytes of one part. *)
LEMMA BytesType ==
  ASSUME NEW f \in 1..Len(Frames), NEW p \in PartNames, NEW n \in Nat
  PROVE  /\ Bytes(f, p, n) \in Seq(Byte) /\ Len(Bytes(f, p, n)) = n
         /\ \A i \in 1..n : Bytes(f, p, n)[i] = <<f, p>>
  BY DEF Bytes, Byte

(* pack: the five parts of a frame, each at its place. *)
LEMMA PackLayout ==
  ASSUME NEW f \in 1..Len(Frames)
  PROVE  /\ Pack(f) \in Seq(Byte) /\ Len(Pack(f)) = FrameLen(f)
         /\ \A p \in PartNames : \A i \in 1..Size(f, p) : Pack(f)[At(f, p) + i] = <<f, p>>
<1> DEFINE a == Size(f, "msg")
           b == Size(f, "error")
           c == Size(f, "bs")
           s1 == Bytes(f, "prefix", PrefixLen)
           s2 == Bytes(f, "header", HeaderLen)
           s3 == Bytes(f, "msg", a)
           s4 == Bytes(f, "error", b)
           s5 == Bytes(f, "bs", c)
<1>1. a \in Nat /\ b \in Nat /\ c \in Nat
  BY SizeType DEF PartNames
<1>2. Pack(f) = (((s1 \o s2) \o s3) \o s4) \o s5
  BY DEF Pack, Size
<1>u. PICK u \in Nat, v \in Nat : u = PrefixLen /\ v = HeaderLen
  BY DEF PrefixLen, HeaderLen
<1>3. /\ s1 \in Seq(Byte) /\ Len(s1) = u /\ (\A i \in 1..u : s1[i] = <<f, "prefix">>)
      /\ s2 \in Seq(Byte) /\ Len(s2) = v /\ (\A i \in 1..v : s2[i] = <<f, "header">>)
      /\ s3 \in Seq(Byte) /\ Len(s3) = a /\ (\A i \in 1..a : s3[i] = <<f, "msg">>)
      /\ s4 \in Seq(Byte) /\ Len(s4) = b /\ (\A i \in 1..b : s4[i] = <<f, "error">>)
      /\ s5 \in Seq(Byte) /\ Len(s5) = c /\ (\A i \in 1..c : s5[i] = <<f, "bs">>)
  <2>2. "prefix" \in PartNames /\ "header" \in PartNames /\ "msg" \in PartNames
        /\ "error" \in PartNames /\ "bs" \in PartNames
    BY DEF PartNames
  <2> HIDE DEF a, b, c
  <2> QED BY <1>1, <1>u, <2>2, BytesType
<1> HIDE DEF a, b, c, s1, s2, s3, s4, s5
<1> DEFINE t2 == s1 \o s2
<1>4. /\ t2 \in Seq(Byte) /\ Len(t2) = u + v
      /\ \A i \in 1..u : t2[i] = s1[i]
      /\ \A i \in 1..v : t2[u + i] = s2[i]
  <2>1. PICK m \in Nat : m = u
    BY <1>1
  <2>2. Joined(Byte, t2, s1, s2, m, v)
    <3>1. s1 \in Seq(Byte) /\ s2 \in Seq(Byte) /\ Len(s1) = m /\ Len(s2) = v
      BY <1>3, <2>1
    <3>2. t2 = s1 \o s2 /\ m \in Nat /\ v \in Nat
      BY <1>1
    <3> HIDE DEF t2
    <3> QED BY <3>1, <3>2, ConcatJoins
  <2> QED BY <2>1, <2>2 DEF Joined
<1> HIDE DEF t2
<1> DEFINE t3 == t2 \o s3
<1>5. /\ t3 \in Seq(Byte) /\ Len(t3) = u + v + a
      /\ \A i \in 1..(u + v) : t3[i] = t2[i]
      /\ \A i \in 1..a : t3[u + v + i] = s3[i]
  <2>1. PICK m \in Nat : m = u + v
    BY <1>1
  <2>2. Joined(Byte, t3, t2, s3, m, a)
    <3>1. t2 \in Seq(Byte) /\ s3 \in Seq(Byte) /\ Len(t2) = m /\ Len(s3) = a
      BY <1>1, <1>3, <1>4, <2>1
    <3>2. t3 = t2 \o s3 /\ m \in Nat /\ a \in Nat
      BY <1>1
    <3> HIDE DEF t3
    <3> QED BY <3>1, <3>2, ConcatJoins
  <2> QED BY <2>1, <2>2 DEF Joined
<1> HIDE DEF t3
<1> DEFINE t4 == t3 \o s4
<1>6. /\ t4 \in Seq(Byte) /\ Len(t4) = u + v + a + b
      /\ \A i \in 1..(u + v + a) : t4[i] = t3[i]
      /\ \A i \in 1..b : t4[u + v + a + i] = s4[i]
  <2>1. PICK m \in Nat : m = u + v + a
    BY <1>1
  <2>2. Joined(Byte, t4, t3, s4, m, b)
    <3>1. t3 \in Seq(Byte) /\ s4 \in Seq(Byte) /\ Len(t3) = m /\ Len(s4) = b
      BY <1>1, <1>3, <1>5, <2>1
    <3>2. t4 = t3 \o s4 /\ m \in Nat /\ b \in Nat
      BY <1>1
    <3> HIDE DEF t4
    <3> QED BY <3>1, <3>2, ConcatJoins
  <2> QED BY <2>1, <2>2 DEF Joined
<1> HIDE DEF t4
<1> DEFINE t5 == t4 \o s5
<1>7. /\ t5 \in Seq(Byte) /\ Len(t5) = u + v + a + b + c
      /\ \A i \in 1..(u + v + a + b) : t5[i] = t4[i]
      /\ \A i \in 1..c : t5[u + v + a + b + i] = s5[i]
  <2>1. PICK m \in Nat : m = u + v + a + b
    BY <1>1
  <2>2. Joined(Byte, t5, t4, s5, m, c)
    <3>1. t4 \in Seq(Byte) /\ s5 \in Seq(Byte) /\ Len(t4) = m /\ Len(s5) = c
      BY <1>1, <1>3, <1>6, <2>1
    <3>2. t5 = t4 \o s5 /\ m \in Nat /\ c \in Nat
      BY <1>1
    <3> HIDE DEF t5
    <3> QED BY <3>1, <3>2, ConcatJoins
  <2> QED BY <2>1, <2>2 DEF Joined
<1> HIDE DEF t5
<1>8. Pack(f) = t5
  BY <1>2 DEF t2, t3, t4, t5
<1>9. /\ At(f, "prefix") = 0 /\ At(f, "header") = u /\ At(f, "msg") = u + v
      /\ At(f, "error") = u + v + a /\ At(f, "bs") = u + v + a + b
      /\ Size(f, "prefix") = u /\ Size(f, "header") = v
  BY <1>1, <1>u DEF At, Size, a, b
<1>10. ASSUME NEW p \in PartNames, NEW i \in 1..Size(f, p)
       PROVE  t5[At(f, p) + i] = <<f, p>>
  <2>1. CASE p = "prefix"
    <3>1. PICK j \in Nat : j = i /\ j = At(f, p) + i /\ i \in 1..u
      BY <1>1, <1>9, <2>1
    <3>2. t2[j] = <<f, p>>
      BY <1>3, <1>4, <2>1, <3>1
    <3>3. t3[j] = t2[j]
      <4>1. j \in 1..(u + v)
        BY <1>1, <3>1
      <4> QED BY <1>5, <4>1
    <3>4. t4[j] = t3[j]
      <4>1. j \in 1..(u + v + a)
        BY <1>1, <3>1
      <4> QED BY <1>6, <4>1
    <3>5. t5[j] = t4[j]
      <4>1. j \in 1..(u + v + a + b)
        BY <1>1, <3>1
      <4> QED BY <1>7, <4>1
    <3> QED BY <3>1, <3>2, <3>3, <3>4, <3>5
  <2>2. CASE p = "header"
    <3>1. PICK j \in Nat : j = u + i /\ j = At(f, p) + i /\ i \in 1..v
      BY <1>1, <1>9, <2>2
    <3>2. t2[j] = <<f, p>>
      BY <1>3, <1>4, <2>2, <3>1
    <3>3. t3[j] = t2[j]
      <4>1. j \in 1..(u + v)
        BY <1>1, <3>1
      <4> QED BY <1>5, <4>1
    <3>4. t4[j] = t3[j]
      <4>1. j \in 1..(u + v + a)
        BY <1>1, <3>1
      <4> QED BY <1>6, <4>1
    <3>5. t5[j] = t4[j]
      <4>1. j \in 1..(u + v + a + b)
        BY <1>1, <3>1
      <4> QED BY <1>7, <4>1
    <3> QED BY <3>1, <3>2, <3>3, <3>4, <3>5
  <2>3. CASE p = "msg"
    <3>1. PICK j \in Nat : j = u + v + i /\ j = At(f, p) + i /\ i \in 1..a
      BY <1>1, <1>9, <2>3 DEF a
    <3>2. t3[j] = <<f, p>>
      BY <1>3, <1>5, <2>3, <3>1
    <3>3. t4[j] = t3[j]
      <4>1. j \in 1..(u + v + a)
        BY <1>1, <3>1
      <4> QED BY <1>6, <4>1
    <3>4. t5[j] = t4[j]
      <4>1. j \in 1..(u + v + a + b)
        BY <1>1, <3>1
      <4> QED BY <1>7, <4>1
    <3> QED BY <3>1, <3>2, <3>3, <3>4
  <2>4. CASE p = "error"
    <3>1. PICK j \in Nat : j = u + v + a + i /\ j = At(f, p) + i /\ i \in 1..b
      BY <1>1, <1>9, <2>4 DEF b
    <3>2. t4[j] = <<f, p>>
      BY <1>3, <1>6, <2>4, <3>1
    <3>3. t5[j] = t4[j]
      <4>1. j \in 1..(u + v + a + b)
        BY <1>1, <3>1
      <4> QED BY <1>7, <4>1
    <3> QED BY <3>1, <3>2, <3>3
  <2>5. CASE p = "bs"
    <3>1. PICK j \in Nat : j = u + v + a + b + i /\ j = At(f, p) + i /\ i \in 1..c
      BY <1>1, <1>9, <2>5 DEF c
    <3>2. t5[j] = <<f, p>>
      BY <1>3, <1>7, <2>5, <3>1
    <3> QED BY <3>1, <3>2
  <2> QED BY <2>1, <2>2, <2>3, <2>4, <2>5 DEF PartNames
<1>11. FrameLen(f) = u + v + a + b + c
  BY <1>9 DEF FrameLen, c
<1> QED BY <1>7, <1>8, <1>10, <1>11

(* No part reaches beyond its frame. *)
LEMMA AtFits ==
  ASSUME NEW f \in 1..Len(Frames), NEW p \in PartNames
  PROVE  /\ Size(f, p) \in Nat /\ At(f, p) \in Nat /\ FrameLen(f) \in Nat
         /\ At(f, p) + Size(f, p) <= FrameLen(f)
<1>1. PICK a \in Nat, b \in Nat, c \in Nat, u \in Nat, v \in Nat :
        /\ a = Size(f, "msg") /\ b = Size(f, "error") /\ c = Size(f, "bs")
        /\ u = Size(f, "prefix") /\ v = Size(f, "header")
  BY SizeType DEF PartNames
<1>2. /\ At(f, "prefix") = 0 /\ At(f, "header") = u /\ At(f, "msg") = u + v
      /\ At(f, "error") = u + v + a /\ At(f, "bs") = u + v + a + b
  <2>1. u = PrefixLen /\ v = HeaderLen
    BY <1>1 DEF Size
  <2> QED BY <1>1, <2>1 DEF At
<1>3. FrameLen(f) = u + v + a + b + c
  BY <1>1, <1>2 DEF FrameLen
<1>4. Size(f, p) \in Nat /\ At(f, p) \in Nat /\ FrameLen(f) \in Nat
  BY SizeType
<1>5. PICK x \in Nat, y \in Nat, z \in Nat : x = At(f, p) /\ y = Size(f, p) /\ z = FrameLen(f)
  BY <1>4
<1>6. x + y <= z
  <2>1. z = u + v + a + b + c
    BY <1>3, <1>5
  <2>2. CASE p = "prefix"
    <3>1. x = 0 /\ y = u
      BY <1>1, <1>2, <1>5, <2>2
    <3> QED BY <2>1, <3>1
  <2>3. CASE p = "header"
    <3>1. x = u /\ y = v
      BY <1>1, <1>2, <1>5, <2>3
    <3> QED BY <2>1, <3>1
  <2>4. CASE p = "msg"
    <3>1. x = u + v /\ y = a
      BY <1>1, <1>2, <1>5, <2>4
    <3> QED BY <2>1, <3>1
  <2>5. CASE p = "error"
    <3>1. x = u + v + a /\ y = b
      BY <1>1, <1>2, <1>5, <2>5
    <3> QED BY <2>1, <3>1
  <2>6. CASE p = "bs"
    <3>1. x = u + v + a + b /\ y = c
      BY <1>1, <1>2, <1>5, <2>6
    <3> QED BY <2>1, <3>1
  <2> QED BY <2>2, <2>3, <2>4, <2>5, <2>6 DEF PartNames
<1> QED BY <1>4, <1>5, <1>6

(***************************************************************************)
(* The frames lie one behind the other in the stream, and each part of a   *)
(* frame is where the ones before it end.                                  *)
(***************************************************************************)
LEMMA StreamLayout ==
  /\ Stream \in Seq(Byte) /\ Offset(0) = 0
  /\ \A k \in 0..Len(Frames) : Offset(k) \in Nat /\ Offset(k) <= Len(Stream)
  /\ \A k \in 0..(Len(Frames) - 1) :
       /\ Offset(k + 1) = Offset(k) + FrameLen(k + 1)
       /\ \A p \in PartNames : \A i \in 1..Size(k + 1, p) :
            Stream[Offset(k) + At(k + 1, p) + i] = <<k + 1, p>>
<1>1. PICK n \in Nat : n = Len(Frames)
  BY FramesAssumption
<1>2. PICK s \in [1..n -> Seq(Byte)] : \A f \in 1..n : s[f] = Pack(f)
  <2>1. [f \in 1..n |-> Pack(f)] \in [1..n -> Seq(Byte)]
    BY <1>1, PackLayout
  <2> QED BY <2>1
<1>3. PICK g : PrefixList(Byte, n, s, g)
  BY <1>1, <1>2, PrefixesExist
<1>4. ASSUME NEW k \in 0..n
      PROVE  FlattenSeq([f \in 1..k |-> Pack(f)]) = g[k]
  <2>1. PICK q : q = [f \in 1..k |-> Pack(f)]
    OBVIOUS
  <2>2. FirstOf(q, s, k)
    BY <1>1, <1>2, <2>1 DEF FirstOf
  <2>3. FlattenSeq(q) = g[k]
    BY <1>3, <2>2, FlattenIsPrefix
  <2> QED BY <2>1, <2>3
<1>5. \A k \in 0..n : Offset(k) = Len(g[k])
  BY <1>4 DEF Offset
<1>6. n \in 0..n /\ 0 \in 0..n
  BY <1>1
<1>7. Stream = g[n]
  BY <1>1, <1>4, <1>6 DEF Stream
<1>8. \A k \in 0..n : g[k] \in Seq(Byte)
  BY <1>3 DEF PrefixList
<1>9. g[0] = <<>> /\ \A k \in 0..(n - 1) : g[k + 1] = g[k] \o s[k + 1]
  BY <1>3 DEF PrefixList
<1>10. Stream \in Seq(Byte) /\ Offset(0) = 0
  BY <1>5, <1>6, <1>7, <1>8, <1>9
<1>11. ASSUME NEW k \in 0..n
       PROVE  /\ Offset(k) \in Nat /\ Offset(k) <= Len(Stream)
              /\ \A i \in 1..Offset(k) : Stream[i] = g[k][i]
  <2>1. n \in k..n
    BY <1>1
  <2>2. Len(g[k]) <= Len(g[n]) /\ \A i \in 1..Len(g[k]) : g[n][i] = g[k][i]
    BY <1>3, <2>1, PrefixesGrow, SMTT(30)
  <2> QED BY <1>5, <1>7, <1>8, <2>2
<1>12. ASSUME NEW k \in 0..(n - 1)
       PROVE  /\ Offset(k + 1) = Offset(k) + FrameLen(k + 1)
              /\ \A p \in PartNames : \A i \in 1..Size(k + 1, p) :
                   Stream[Offset(k) + At(k + 1, p) + i] = <<k + 1, p>>
  <2>1. PICK f \in 1..Len(Frames) : f = k + 1 /\ f \in 1..n /\ f \in 0..n /\ k \in 0..n
    BY <1>1
  <2>2. /\ Pack(f) \in Seq(Byte) /\ Len(Pack(f)) = FrameLen(f) /\ FrameLen(f) \in Nat
        /\ \A p \in PartNames : \A i \in 1..Size(f, p) : Pack(f)[At(f, p) + i] = <<f, p>>
    BY PackLayout, SizeType
  <2>3. PICK a \in Nat, b \in Nat : a = Offset(k) /\ b = FrameLen(f)
    BY <1>11, <2>1, <2>2
  <2>4. g[f] = g[k] \o Pack(f) /\ Len(g[k]) = a /\ g[k] \in Seq(Byte)
    BY <1>2, <1>5, <1>8, <1>9, <2>1, <2>3
  <2>5. Joined(Byte, g[f], g[k], Pack(f), a, b)
    BY <2>2, <2>3, <2>4, ConcatJoins
  <2>6. Offset(f) = a + b
    BY <1>5, <2>1, <2>5 DEF Joined
  <2>7. ASSUME NEW p \in PartNames, NEW i \in 1..Size(f, p)
        PROVE  Stream[a + At(f, p) + i] = <<f, p>>
    <3>1. Size(f, p) \in Nat /\ At(f, p) \in Nat /\ At(f, p) + Size(f, p) <= b
      BY <2>3, AtFits
    <3>2. PICK j \in 1..b : j = At(f, p) + i
      BY <3>1
    <3>3. g[f][a + j] = Pack(f)[j]
      BY <2>5 DEF Joined
    <3>4. Pack(f)[j] = <<f, p>>
      BY <2>2, <3>2
    <3>5. a + j \in 1..(a + b) /\ a + j = a + At(f, p) + i
      BY <3>1, <3>2
    <3>6. Stream[a + j] = g[f][a + j]
      BY <1>11, <2>1, <2>6, <3>5
    <3> QED BY <3>3, <3>4, <3>5, <3>6
  <2> QED BY <2>1, <2>3, <2>6, <2>7
<1> QED BY <1>1, <1>10, <1>11, <1>12

-----------------------------------------------------------------------------
(***************************************************************************)
(* The inductive invariant of the wire: between two calls the client       *)
(* stands at a frame; in a call it has read the beginning of one part of   *)
(* the frame after those returned, and left is the rest of that part.      *)
(***************************************************************************)
TextParts == {"msg", "error", "bs"}
Message == [msg : Seq(Byte), error : Seq(Byte), bs : Seq(Byte)]

WireTypes ==
  /\ arrived \in Nat /\ taken \in Nat /\ left \in Nat
  /\ taken <= arrived /\ arrived <= Len(Stream)
  /\ part \in PartNames \cup {"none"}
  /\ chunk \in Seq(Byte) /\ got \in Message /\ messages \in Seq(Message)
  /\ Len(messages) <= Len(Frames)

AtFrame == part = "none" /\ ~broken => taken = Offset(Len(messages))

InPart ==
  part # "none" =>
    /\ ~broken /\ FrameNo <= Len(Frames)
    /\ Len(chunk) + left = Size(FrameNo, part)
    /\ taken = Offset(Len(messages)) + At(FrameNo, part) + Len(chunk)
    /\ chunk = Bytes(FrameNo, part, Len(chunk))

HeaderKnown == part \in TextParts => \A p \in TextParts : lens[p] = Size(FrameNo, p)

PartsGot ==
  /\ part \in {"error", "bs"} => got["msg"] = Bytes(FrameNo, "msg", Size(FrameNo, "msg"))
  /\ part = "bs" => got["error"] = Bytes(FrameNo, "error", Size(FrameNo, "error"))

Returned ==
  \A n \in 1..Len(messages) : \A p \in TextParts : messages[n][p] = Bytes(n, p, Size(n, p))

WireInv == WireTypes /\ AtFrame /\ InPart /\ HeaderKnown /\ PartsGot /\ Returned

-----------------------------------------------------------------------------
(* Which part follows which. *)
LEMMA PartsInOrder ==
  /\ NextPart("prefix") = "header" /\ NextPart("header") = "msg"
  /\ NextPart("msg") = "error" /\ NextPart("error") = "bs"
<1>1. /\ \A i \in 1..5 : (i > 1 /\ Parts[i - 1] = "prefix") <=> i = 2
      /\ \A i \in 1..5 : (i > 1 /\ Parts[i - 1] = "header") <=> i = 3
      /\ \A i \in 1..5 : (i > 1 /\ Parts[i - 1] = "msg") <=> i = 4
      /\ \A i \in 1..5 : (i > 1 /\ Parts[i - 1] = "error") <=> i = 5
  BY DEF Parts
<1>2. /\ (CHOOSE i \in 1..5 : i > 1 /\ Parts[i - 1] = "prefix") = 2
      /\ (CHOOSE i \in 1..5 : i > 1 /\ Parts[i - 1] = "header") = 3
      /\ (CHOOSE i \in 1..5 : i > 1 /\ Parts[i - 1] = "msg") = 4
      /\ (CHOOSE i \in 1..5 : i > 1 /\ Parts[i - 1] = "error") = 5
  BY <1>1
<1>3. Parts[2] = "header" /\ Parts[3] = "msg" /\ Parts[4] = "error" /\ Parts[5] = "bs"
  BY DEF Parts
<1> QED BY <1>2, <1>3 DEF NextPart

(* A piece of a part that lies in the stream lies in the stream. *)
LEMMA PieceFits ==
  ASSUME NEW o \in Nat, NEW x \in Nat, NEW y \in Nat, NEW z \in Nat, NEW l \in Nat,
         NEW c \in Nat, NEW n \in Nat, NEW t \in Nat,
         t = o + x + c, c + n <= y, x + y <= z, o + z <= l
  PROVE  t + n <= l
  OBVIOUS

(***************************************************************************)
(* What a read takes from the stream, in the middle of a part, is the next *)
(* piece of that part.                                                     *)
(***************************************************************************)
Inside(k, f, p, c, n, t) ==
  /\ k \in 0..(Len(Frames) - 1) /\ f = k + 1 /\ p \in PartNames
  /\ c \in Nat /\ n \in Nat /\ t \in Nat
  /\ c + n <= Size(f, p) /\ t = Offset(k) + At(f, p) + c

Extends(f, p, c, n, t) ==
  Bytes(f, p, c) \o SubSeq(Stream, t + 1, t + n) = Bytes(f, p, c + n)

(***************************************************************************)
(* The bytes read so far with the next piece are the first bytes of the    *)
(* part.                                                                   *)
(***************************************************************************)
LEMMA PieceOfPart ==
  ASSUME NEW k, NEW f, NEW p, NEW c, NEW n, NEW t, Inside(k, f, p, c, n, t)
  PROVE  Extends(f, p, c, n, t)
<1>a. k \in 0..(Len(Frames) - 1) /\ p \in PartNames /\ c \in Nat /\ n \in Nat /\ t \in Nat
  BY DEF Inside
<1>1. f = k + 1 /\ f \in 1..Len(Frames) /\ k \in 0..Len(Frames) /\ f \in 0..Len(Frames)
  BY <1>a, FramesAssumption DEF Inside
<1>0. PICK o \in Nat, x \in Nat, y \in Nat, z \in Nat, l \in Nat :
        o = Offset(k) /\ x = At(f, p) /\ y = Size(f, p) /\ z = FrameLen(f) /\ l = Len(Stream)
  <2>1. Offset(k) \in Nat /\ Len(Stream) \in Nat
    BY <1>1, StreamLayout
  <2> QED BY <1>a, <1>1, <2>1, AtFits
<1>2. x + y <= z /\ o + z <= l
  <2>1. x + y <= z
    BY <1>0, <1>1, <1>a, AtFits
  <2>2. Offset(f) = o + z /\ Offset(f) <= l
    BY <1>0, <1>1, StreamLayout
  <2> QED BY <2>1, <2>2
<1>3. t = o + x + c /\ t + n <= l /\ c + n <= y
  <2>1. t = o + x + c /\ c + n <= y
    BY <1>0, <1>1 DEF Inside
  <2> QED BY <1>a, <1>2, <2>1, PieceFits
<1>4. ASSUME NEW i \in 1..n
      PROVE  Stream[t + i] = <<f, p>>
  <2>1. PICK j \in 1..y : j = c + i
    BY <1>3, <1>a
  <2>2. Stream[o + x + j] = <<f, p>>
    BY <1>0, <1>1, <1>a, StreamLayout
  <2>3. o + x + j = t + i
    BY <1>3, <1>a, <2>1
  <2> QED BY <2>2, <2>3
<1> DEFINE s == SubSeq(Stream, t + 1, t + n)
<1>5. s \in Seq(Byte) /\ Len(s) = n /\ \A i \in 1..n : s[i] = <<f, p>>
  <2>1. Stream \in Seq(Byte) /\ t + n <= Len(Stream)
    BY <1>0, <1>3, StreamLayout
  <2>2. Excerpt(Byte, Stream, t, n, s)
    BY <1>a, <2>1, CutAt
  <2> HIDE DEF s
  <2> QED BY <1>4, <1>a, <2>2 DEF Excerpt
<1>6. /\ Bytes(f, p, c) \in Seq(Byte) /\ Len(Bytes(f, p, c)) = c
      /\ \A i \in 1..c : Bytes(f, p, c)[i] = <<f, p>>
  BY <1>a, <1>1, BytesType
<1>7. /\ Bytes(f, p, c + n) \in Seq(Byte) /\ Len(Bytes(f, p, c + n)) = c + n
      /\ \A i \in 1..(c + n) : Bytes(f, p, c + n)[i] = <<f, p>>
  <2>1. PICK m \in Nat : m = c + n
    BY <1>a
  <2> QED BY <1>a, <1>1, <2>1, BytesType
<1> HIDE DEF s
<1> DEFINE w == Bytes(f, p, c) \o s
<1>8. Joined(Byte, w, Bytes(f, p, c), s, c, n)
  BY <1>5, <1>6, <1>a, ConcatJoins
<1>9. w \in Seq(Byte) /\ Len(w) = c + n /\ \A i \in 1..(c + n) : w[i] = <<f, p>>
  <2>1. w \in Seq(Byte) /\ Len(w) = c + n
    BY <1>8, <1>a DEF Joined
  <2>2. ASSUME NEW i \in 1..(c + n)
        PROVE  w[i] = <<f, p>>
    <3>1. CASE i \in 1..c
      BY <1>6, <1>8, <1>a, <3>1 DEF Joined
    <3>2. CASE ~(i \in 1..c)
      <4>1. PICK j \in 1..n : i = c + j
        <5>1. i - c \in 1..n /\ i = c + (i - c)
          BY <3>2, <1>a
        <5> QED BY <5>1
      <4> QED BY <1>5, <1>8, <1>a, <4>1 DEF Joined
    <3> QED BY <3>1, <3>2
  <2> QED BY <2>1, <2>2
<1> HIDE DEF w
<1>10. w = Bytes(f, p, c + n)
  BY <1>7, <1>9, SeqEqual
<1> QED BY <1>1, <1>10 DEF w, s, Extends

-----------------------------------------------------------------------------
(* The parts of a frame are the five names, and text parts are among them. *)
LEMMA Names ==
  /\ \A p \in PartNames : p = "prefix" \/ p = "header" \/ p = "msg" \/ p = "error" \/ p = "bs"
  /\ TextParts \subseteq PartNames /\ "none" \notin PartNames
  /\ \A p \in TextParts : p = "msg" \/ p = "error" \/ p = "bs"
  /\ "prefix" \in PartNames /\ "header" \in PartNames /\ "msg" \in TextParts
  /\ "error" \in TextParts /\ "bs" \in TextParts
  /\ "prefix" \notin TextParts /\ "header" \notin TextParts
  BY DEF PartNames, TextParts

(* Of an empty part there are no bytes to read. *)
LEMMA NoBytes ==
  ASSUME NEW f, NEW p
  PROVE  Bytes(f, p, 0) = <<>>
  BY DEF Bytes

(* Nothing is read yet. *)
LEMMA WireInvInit == WireInit => WireInv
<1> SUFFICES ASSUME WireInit PROVE WireInv
  OBVIOUS
<1> USE DEF WireInit
<1>1. WireTypes
  <2>1. 0 <= Len(Stream) /\ 0 <= Len(Frames)
    BY StreamLayout, FramesAssumption
  <2>2. NothingGot \in Message
    BY DEF NothingGot, Message
  <2> QED BY <2>1, <2>2 DEF WireTypes
<1>2. AtFrame
  BY StreamLayout DEF AtFrame
<1>3. InPart /\ HeaderKnown /\ PartsGot /\ Returned
  BY Names DEF InPart, HeaderKnown, PartsGot, Returned
<1> QED BY <1>1, <1>2, <1>3 DEF WireInv

(***************************************************************************)
(* Where the client stands in a call, with names for what it has.          *)
(***************************************************************************)
Standing(k, f, p, c) ==
  /\ k = Len(messages) /\ f = k + 1 /\ p = part /\ c = Len(chunk)
  /\ k \in 0..(Len(Frames) - 1) /\ f \in 1..Len(Frames) /\ p \in PartNames /\ c \in Nat
  /\ c + left = Size(f, p) /\ Size(f, p) \in Nat /\ At(f, p) \in Nat /\ Offset(k) \in Nat
  /\ taken = Offset(k) + At(f, p) + c
  /\ chunk = Bytes(f, p, c)

(* In a call the client stands within the frame it reads. *)
LEMMA StandsIn ==
  ASSUME WireInv, part # "none"
  PROVE  ~broken /\ \E k, f, p, c : Standing(k, f, p, c)
<1>1. PICK k \in Nat, c \in Nat : k = Len(messages) /\ c = Len(chunk)
  BY DEF WireInv, WireTypes
<1>2. PICK f, p : f = k + 1 /\ p = part
  OBVIOUS
<1>3. ~broken /\ f <= Len(Frames) /\ c + left = Size(f, p) /\ taken = Offset(k) + At(f, p) + c
      /\ chunk = Bytes(f, p, c)
  BY <1>1, <1>2 DEF WireInv, InPart, FrameNo
<1>4. k \in 0..(Len(Frames) - 1) /\ f \in 1..Len(Frames) /\ p \in PartNames
  BY <1>1, <1>2, <1>3, FramesAssumption DEF WireInv, WireTypes
<1>5. Size(f, p) \in Nat /\ At(f, p) \in Nat
  BY <1>4, SizeType
<1>6. Offset(k) \in Nat
  <2>1. k \in 0..Len(Frames)
    BY <1>4, FramesAssumption
  <2> QED BY <2>1, StreamLayout
<1>7. Standing(k, f, p, c)
  BY <1>1, <1>2, <1>3, <1>4, <1>5, <1>6 DEF Standing
<1> QED BY <1>3, <1>7

(* recv begins at the first byte of a frame. *)
LEMMA WireStarts ==
  ASSUME WireInv, StartRecv
  PROVE  WireInv'
<1> USE DEF StartRecv
<1>1. PICK k \in Nat : k = Len(messages) /\ k < Len(Frames) /\ taken = Offset(k)
  BY DEF WireInv, WireTypes, AtFrame
<1>2. PICK f \in 1..Len(Frames) : f = k + 1
  BY <1>1, FramesAssumption
<1>3. Size(f, "prefix") = PrefixLen /\ PrefixLen \in Nat /\ At(f, "prefix") = 0
  BY DEF Size, At, PrefixLen
<1>4. Offset(k) \in Nat
  <2>1. k \in 0..Len(Frames)
    BY <1>1, FramesAssumption
  <2> QED BY <2>1, StreamLayout
<1>5. WireTypes'
  <2>1. NothingGot \in Message
    BY DEF NothingGot, Message
  <2>2. <<>> \in Seq(Byte)
    OBVIOUS
  <2> QED BY <1>3, <2>1, <2>2, Names DEF WireInv, WireTypes
<1>6. AtFrame'
  BY DEF AtFrame
<1>7. InPart'
  <2>1. 0 + PrefixLen = PrefixLen /\ Offset(k) + 0 + 0 = Offset(k)
    BY <1>3, <1>4
  <2>2. chunk' = Bytes(f, "prefix", 0) /\ Len(chunk') = 0
    BY NoBytes
  <2>3. /\ ~broken' /\ FrameNo' = f /\ Len(messages') = k /\ f <= Len(Frames)
        /\ taken' = Offset(k) /\ left' = PrefixLen /\ part' = "prefix"
    BY <1>1, <1>2 DEF FrameNo
  <2> QED BY <1>3, <2>1, <2>2, <2>3 DEF InPart
<1>8. HeaderKnown' /\ PartsGot'
  BY Names DEF HeaderKnown, PartsGot
<1>9. Returned'
  BY DEF WireInv, Returned
<1> QED BY <1>5, <1>6, <1>7, <1>8, <1>9 DEF WireInv

(* One socket read, however few bytes it brings, keeps the invariant. *)
LEMMA WireReads ==
  ASSUME WireInv, ReadSome
  PROVE  WireInv'
<1>1. PICK n \in 1..(arrived - taken) :
        /\ n <= left
        /\ chunk' = chunk \o SubSeq(Stream, taken + 1, taken + n)
        /\ taken' = taken + n /\ left' = left - n
  BY DEF ReadSome
<1>2. /\ part # "none" /\ UNCHANGED <<arrived, part, lens, got, messages, broken>>
  BY DEF ReadSome, callVars
<1>3. PICK k, f, p, c : Standing(k, f, p, c)
  BY <1>2, StandsIn
<1>4. ~broken
  BY <1>2, StandsIn
<1>5. arrived \in Nat /\ taken \in Nat /\ left \in Nat /\ n \in Nat /\ arrived <= Len(Stream)
  BY DEF WireInv, WireTypes
<1>6. PICK t \in Nat, l \in Nat, o \in Nat, x \in Nat, y \in Nat :
        t = taken /\ l = left /\ o = Offset(k) /\ x = At(f, p) /\ y = Size(f, p)
  BY <1>3, <1>5 DEF Standing
<1>7. c \in Nat /\ c + l = y /\ t = o + x + c
  BY <1>3, <1>6 DEF Standing
<1>a. n <= l /\ n \in Nat
  BY <1>1, <1>5, <1>6
<1>b. c + n \in Nat /\ c + n <= y /\ (c + n) + (l - n) = y /\ t + n = o + x + (c + n)
  BY <1>7, <1>a
<1>8. chunk' = Bytes(f, p, c + n)
  <2>1. chunk' = Bytes(f, p, c) \o SubSeq(Stream, t + 1, t + n)
    BY <1>1, <1>3, <1>6 DEF Standing
  <2>2. k \in 0..(Len(Frames) - 1) /\ p \in PartNames /\ f = k + 1
    BY <1>3 DEF Standing
  <2>3. Inside(k, f, p, c, n, t)
    BY <1>6, <1>7, <1>a, <1>b, <2>2 DEF Inside
  <2>4. Extends(f, p, c, n, t)
    BY <2>3, PieceOfPart
  <2> QED BY <2>1, <2>4 DEF Extends
<1>9. Len(chunk') = c + n /\ chunk' \in Seq(Byte)
  <2>1. f \in 1..Len(Frames) /\ p \in PartNames
    BY <1>3 DEF Standing
  <2>2. PICK m \in Nat : m = c + n
    BY <1>b
  <2> QED BY <1>8, <2>1, <2>2, BytesType
<1>10. WireTypes'
  BY <1>1, <1>2, <1>5, <1>9 DEF WireInv, WireTypes
<1>11. InPart'
  <2>1. FrameNo' = f /\ part' = p /\ Len(messages') = k /\ f <= Len(Frames) /\ ~broken'
    BY <1>2, <1>3, <1>4 DEF Standing, FrameNo
  <2>2. PICK m \in Nat : m = c + n
    BY <1>b
  <2>3. m + left' = Size(f, p) /\ taken' = Offset(k) + At(f, p) + m
    BY <1>1, <1>6, <1>b, <2>2
  <2> QED BY <1>8, <1>9, <2>1, <2>2, <2>3 DEF InPart
<1>12. AtFrame' /\ HeaderKnown' /\ PartsGot' /\ Returned'
  BY <1>2 DEF WireInv, AtFrame, HeaderKnown, PartsGot, Returned, FrameNo
<1> QED BY <1>10, <1>11, <1>12 DEF WireInv

(* After the header the lengths of the parts are those of the frame. *)
LEMMA HeaderSays ==
  ASSUME NEW f \in 1..Len(Frames)
  PROVE  \A p \in TextParts : Header(f)[p] = Size(f, p)
<1>1. /\ Header(f)["msg"] = Size(f, "msg") /\ Header(f)["error"] = Size(f, "error")
      /\ Header(f)["bs"] = Size(f, "bs")
  BY DEF Header, Size, PartLen
<1> QED BY <1>1, Names

(* What is complete when a part is. *)
LEMMA WirePartEnds ==
  ASSUME NEW k, NEW f, NEW p, NEW c, Standing(k, f, p, c), left = 0
  PROVE  chunk = Bytes(f, p, Size(f, p)) /\ taken = Offset(k) + At(f, p) + Size(f, p)
<1>1. c = Size(f, p)
  BY DEF Standing
<1> QED BY <1>1 DEF Standing

(* A part begins where the one before it ends. *)
LEMMA PartsAdjoin ==
  ASSUME NEW f \in 1..Len(Frames)
  PROVE  /\ At(f, "header") = At(f, "prefix") + Size(f, "prefix")
         /\ At(f, "msg") = At(f, "header") + Size(f, "header")
         /\ At(f, "error") = At(f, "msg") + Size(f, "msg")
         /\ At(f, "bs") = At(f, "error") + Size(f, "error")
         /\ FrameLen(f) = At(f, "bs") + Size(f, "bs")
<1>1. Size(f, "msg") \in Nat /\ Size(f, "error") \in Nat /\ PrefixLen \in Nat /\ HeaderLen \in Nat
  BY SizeType, Names DEF PrefixLen, HeaderLen
<1>2. Size(f, "prefix") = PrefixLen /\ Size(f, "header") = HeaderLen
  BY DEF Size
<1> QED BY <1>1, <1>2 DEF At, FrameLen

(* The next part of the frame is begun. *)
LEMMA NextBegins ==
  ASSUME NEW k \in Nat, NEW f \in 1..Len(Frames), NEW q \in PartNames,
         k = Len(messages), f = k + 1, ~broken', messages' = messages, part' = q, chunk' = <<>>,
         left' = Size(f, q), taken' = Offset(k) + At(f, q), Offset(k) \in Nat
  PROVE  InPart' /\ AtFrame'
<1>1. Len(messages') = k /\ FrameNo' = f /\ f <= Len(Frames)
  BY FramesAssumption DEF FrameNo
<1>2. PICK o \in Nat, x \in Nat, y \in Nat : o = Offset(k) /\ x = At(f, q) /\ y = Size(f, q)
  BY SizeType
<1>3. o + x = o + x + 0 /\ 0 + y = y
  OBVIOUS
<1>4. chunk' = Bytes(f, q, 0) /\ Len(chunk') = 0
  BY NoBytes
<1>5. InPart'
  BY <1>1, <1>2, <1>3, <1>4 DEF InPart
<1>6. AtFrame'
  BY Names DEF AtFrame
<1> QED BY <1>5, <1>6

(***************************************************************************)
(* A part that is complete is kept, and the next part or the next frame is *)
(* begun.                                                                  *)
(***************************************************************************)
LEMMA WireGoesOn ==
  ASSUME WireInv, PartDone
  PROVE  WireInv'
<1> USE DEF PartDone
<1>1. PICK k, f, p, c : Standing(k, f, p, c)
  BY StandsIn
<1>2. ~broken /\ ~broken' /\ left = 0
  BY StandsIn
<1>3. /\ k \in Nat /\ f \in 1..Len(Frames) /\ p \in PartNames /\ k = Len(messages) /\ f = k + 1
      /\ p = part /\ FrameNo = f /\ k \in 0..(Len(Frames) - 1)
  BY <1>1 DEF Standing, FrameNo
<1>4. chunk = Bytes(f, p, Size(f, p)) /\ taken = Offset(k) + At(f, p) + Size(f, p)
  BY <1>1, <1>2, WirePartEnds
<1>5. PICK o \in Nat, x \in Nat, y \in Nat :
        o = Offset(k) /\ x = At(f, p) /\ y = Size(f, p) /\ taken = o + x + y
  BY <1>1, <1>4 DEF Standing
<1>6. chunk \in Seq(Byte) /\ got \in Message /\ messages \in Seq(Message) /\ taken \in Nat
      /\ arrived \in Nat /\ taken <= arrived /\ arrived <= Len(Stream) /\ Len(messages) <= Len(Frames)
  BY DEF WireInv, WireTypes
<1>7. taken' = taken /\ arrived' = arrived /\ chunk' = <<>> /\ <<>> \in Seq(Byte)
  OBVIOUS
<1>8. Returned
  BY DEF WireInv
<1>10. CASE part = "prefix"
  <2>1. part' = "header" /\ left' = HeaderLen /\ messages' = messages /\ got' = got
    BY <1>10, PartsInOrder
  <2>2. left' = Size(f, "header") /\ HeaderLen \in Nat
    BY <2>1 DEF Size, HeaderLen
  <2>3. taken' = Offset(k) + At(f, "header")
    <3>1. At(f, "header") = x + y
      BY <1>3, <1>5, <1>10, PartsAdjoin
    <3> QED BY <1>5, <1>7, <3>1
  <2>4. InPart' /\ AtFrame'
    BY <1>2, <1>3, <1>5, <1>7, <2>1, <2>2, <2>3, Names, NextBegins
  <2>5. WireTypes'
    BY <1>6, <1>7, <2>1, <2>2, Names DEF WireTypes
  <2>6. HeaderKnown' /\ PartsGot'
    BY <2>1, Names DEF HeaderKnown, PartsGot
  <2>7. Returned'
    BY <1>8, <2>1 DEF Returned
  <2> QED BY <2>4, <2>5, <2>6, <2>7 DEF WireInv
<1>11. CASE part = "header"
  <2>1. part' = "msg" /\ messages' = messages /\ got' = got /\ left' = lens'["msg"]
        /\ lens' = Header(chunk[1][1])
    BY <1>11, PartsInOrder
  <2>2. chunk[1][1] = f
    <3>1. p = "header" /\ Size(f, p) = 2 /\ 2 \in Nat /\ 1 \in 1..2
      BY <1>3, <1>11 DEF Size, HeaderLen
    <3>2. chunk = [i \in 1..2 |-> <<f, p>>]
      BY <1>4, <3>1 DEF Bytes
    <3> QED BY <3>1, <3>2
  <2>3. \A q \in TextParts : lens'[q] = Size(f, q)
    BY <1>3, <2>1, <2>2, HeaderSays
  <2>4. left' = Size(f, "msg") /\ Size(f, "msg") \in Nat
    BY <1>3, <2>1, <2>3, Names, SizeType
  <2>5. taken' = Offset(k) + At(f, "msg")
    <3>1. At(f, "msg") = x + y
      BY <1>3, <1>5, <1>11, PartsAdjoin
    <3> QED BY <1>5, <1>7, <3>1
  <2>6. InPart' /\ AtFrame'
    BY <1>2, <1>3, <1>5, <1>7, <2>1, <2>4, <2>5, Names, NextBegins
  <2>7. WireTypes'
    BY <1>6, <1>7, <2>1, <2>4, Names DEF WireTypes
  <2>8. HeaderKnown'
    BY <1>3, <2>1, <2>3 DEF HeaderKnown, FrameNo
  <2>9. PartsGot' /\ Returned'
    BY <1>8, <2>1 DEF PartsGot, Returned
  <2> QED BY <2>6, <2>7, <2>8, <2>9 DEF WireInv
<1>12. CASE part = "msg"
  <2>1. part' = "error" /\ messages' = messages /\ lens' = lens /\ left' = lens["error"]
        /\ got' = [got EXCEPT !["msg"] = chunk]
    BY <1>12, PartsInOrder
  <2>2. got' \in Message /\ got'["msg"] = chunk
    BY <1>6, <2>1 DEF Message
  <2>3. \A q \in TextParts : lens[q] = Size(f, q)
    BY <1>3, <1>12, Names DEF WireInv, HeaderKnown
  <2>4. left' = Size(f, "error") /\ Size(f, "error") \in Nat
    BY <1>3, <2>1, <2>3, Names, SizeType
  <2>5. taken' = Offset(k) + At(f, "error")
    <3>1. At(f, "error") = x + y
      BY <1>3, <1>5, <1>12, PartsAdjoin
    <3> QED BY <1>5, <1>7, <3>1
  <2>6. InPart' /\ AtFrame'
    BY <1>2, <1>3, <1>5, <1>7, <2>1, <2>4, <2>5, Names, NextBegins
  <2>7. WireTypes'
    BY <1>6, <1>7, <2>1, <2>2, <2>4, Names DEF WireTypes
  <2>8. HeaderKnown'
    BY <1>3, <2>1, <2>3 DEF HeaderKnown, FrameNo
  <2>9. PartsGot' /\ Returned'
    BY <1>3, <1>4, <1>8, <1>12, <2>1, <2>2 DEF PartsGot, Returned, FrameNo
  <2> QED BY <2>6, <2>7, <2>8, <2>9 DEF WireInv
<1>13. CASE part = "error"
  <2>1. part' = "bs" /\ messages' = messages /\ lens' = lens /\ left' = lens["bs"]
        /\ got' = [got EXCEPT !["error"] = chunk]
    BY <1>13, PartsInOrder
  <2>2. got' \in Message /\ got'["error"] = chunk /\ got'["msg"] = got["msg"]
    BY <1>6, <2>1 DEF Message
  <2>3. \A q \in TextParts : lens[q] = Size(f, q)
    BY <1>3, <1>13, Names DEF WireInv, HeaderKnown
  <2>4. left' = Size(f, "bs") /\ Size(f, "bs") \in Nat
    BY <1>3, <2>1, <2>3, Names, SizeType
  <2>5. taken' = Offset(k) + At(f, "bs")
    <3>1. At(f, "bs") = x + y
      BY <1>3, <1>5, <1>13, PartsAdjoin
    <3> QED BY <1>5, <1>7, <3>1
  <2>6. InPart' /\ AtFrame'
    BY <1>2, <1>3, <1>5, <1>7, <2>1, <2>4, <2>5, Names, NextBegins
  <2>7. WireTypes'
    BY <1>6, <1>7, <2>1, <2>2, <2>4, Names DEF WireTypes
  <2>8. HeaderKnown'
    BY <1>3, <2>1, <2>3 DEF HeaderKnown, FrameNo
  <2>9. PartsGot'
    <3>1. got["msg"] = Bytes(f, "msg", Size(f, "msg"))
      BY <1>3, <1>13 DEF WireInv, PartsGot
    <3>2. got'["error"] = Bytes(f, "error", Size(f, "error"))
      BY <1>3, <1>4, <1>13, <2>2
    <3> QED BY <1>3, <2>1, <2>2, <3>1, <3>2 DEF PartsGot, FrameNo
  <2>10. Returned'
    BY <1>8, <2>1 DEF Returned
  <2> QED BY <2>6, <2>7, <2>8, <2>9, <2>10 DEF WireInv
<1>14. CASE part = "bs"
  <2>1. part' = "none" /\ left' = left /\ got' = [got EXCEPT !["bs"] = chunk]
        /\ messages' = Append(messages, got')
    BY <1>14
  <2>2. got' \in Message /\ got'["bs"] = chunk /\ got'["msg"] = got["msg"]
        /\ got'["error"] = got["error"]
    BY <1>6, <2>1 DEF Message
  <2>3. \A q \in TextParts : got'[q] = Bytes(f, q, Size(f, q))
    <3>1. got["msg"] = Bytes(f, "msg", Size(f, "msg"))
          /\ got["error"] = Bytes(f, "error", Size(f, "error"))
      BY <1>3, <1>14 DEF WireInv, PartsGot
    <3>2. got'["bs"] = Bytes(f, "bs", Size(f, "bs"))
      BY <1>3, <1>4, <1>14, <2>2
    <3> QED BY <2>2, <3>1, <3>2, Names
  <2>4. messages' \in Seq(Message) /\ Len(messages') = f /\ messages'[f] = got'
        /\ \A n \in 1..k : messages'[n] = messages[n]
    BY <1>3, <1>6, <2>1, <2>2
  <2>5. Returned'
    <3>1. SUFFICES ASSUME NEW n \in 1..f, NEW q \in TextParts
                   PROVE  messages'[n][q] = Bytes(n, q, Size(n, q))
      BY <2>4 DEF Returned
    <3>2. CASE n = f
      BY <2>3, <2>4, <3>2
    <3>3. CASE n # f
      <4>1. n \in 1..k
        BY <1>3, <3>3
      <4>2. messages[n][q] = Bytes(n, q, Size(n, q))
        BY <1>3, <1>8, <4>1 DEF Returned
      <4> QED BY <2>4, <4>1, <4>2
    <3> QED BY <3>2, <3>3
  <2>6. AtFrame'
    <3>1. FrameLen(f) = x + y
      BY <1>3, <1>5, <1>14, PartsAdjoin
    <3>2. Offset(f) = o + FrameLen(f)
      BY <1>3, <1>5, StreamLayout
    <3>3. taken' = Offset(f)
      BY <1>5, <1>7, <3>1, <3>2
    <3> QED BY <2>4, <3>3 DEF AtFrame
  <2>7. WireTypes'
    <3>1. f <= Len(Frames) /\ left' \in Nat
      BY <1>2, <1>3, <2>1, FramesAssumption
    <3> QED BY <1>6, <1>7, <2>1, <2>2, <2>4, <3>1 DEF WireTypes
  <2>8. InPart' /\ HeaderKnown' /\ PartsGot'
    BY <2>1, Names DEF InPart, HeaderKnown, PartsGot
  <2> QED BY <2>5, <2>6, <2>7, <2>8 DEF WireInv
<1> QED BY <1>3, <1>10, <1>11, <1>12, <1>13, <1>14, Names

(* Every step of the wire keeps its invariant. *)
LEMMA WireInvNext == WireInv /\ [WireNext]_wireVars => WireInv'
<1> SUFFICES ASSUME WireInv, [WireNext]_wireVars PROVE WireInv'
  OBVIOUS
<1>1. CASE StartRecv
  BY <1>1, WireStarts
<1>2. CASE ReadSome
  BY <1>2, WireReads
<1>3. CASE PartDone
  BY <1>3, WireGoesOn
<1>4. CASE EofRaises \/ TimedOut
  <2>1. broken' = TRUE /\ part' = "none" /\ UNCHANGED <<arrived, taken, left, chunk, lens, got, messages>>
    BY <1>4 DEF EofRaises, TimedOut
  <2>2. AtFrame' /\ InPart' /\ HeaderKnown' /\ PartsGot'
    BY <2>1, Names DEF AtFrame, InPart, HeaderKnown, PartsGot
  <2>3. WireTypes' /\ Returned'
    BY <2>1 DEF WireInv, WireTypes, Returned
  <2> QED BY <2>2, <2>3 DEF WireInv
<1>5. CASE Arrive \/ PeerCloses \/ UNCHANGED wireVars
  <2>1. UNCHANGED <<taken, part, left, chunk, lens, got, messages, broken>>
    BY <1>5 DEF Arrive, PeerCloses, wireVars, callVars
  <2>2. arrived' = arrived \/ (arrived < Len(Stream) /\ arrived' = arrived + 1)
    BY <1>5 DEF Arrive, PeerCloses, wireVars
  <2>3. WireTypes'
    <3>1. Len(Stream) \in Nat
      BY StreamLayout
    <3>2. arrived' \in Nat /\ arrived <= arrived' /\ arrived' <= Len(Stream)
      BY <2>2, <3>1 DEF WireInv, WireTypes
    <3> QED BY <2>1, <3>2 DEF WireInv, WireTypes
  <2>4. AtFrame' /\ InPart' /\ HeaderKnown' /\ PartsGot' /\ Returned'
    BY <2>1 DEF WireInv, AtFrame, InPart, HeaderKnown, PartsGot, Returned, FrameNo
  <2> QED BY <2>3, <2>4 DEF WireInv
<1> QED BY <1>1, <1>2, <1>3, <1>4, <1>5 DEF WireNext, WireStep

(* What was returned is what was sent. *)
LEMMA WireInvFrames == WireInv => FramesMatch
<1> SUFFICES ASSUME WireInv PROVE FramesMatch
  OBVIOUS
<1>1. PICK k \in Nat : k = Len(messages) /\ k <= Len(Frames)
  BY DEF WireInv, WireTypes
<1>2. ASSUME NEW n \in 1..k, NEW p \in TextParts
      PROVE  messages[n][p] = Bytes(n, p, Encoded(Frames[n][p]))
  <2>1. Size(n, p) = Encoded(Frames[n][p])
    BY Names DEF Size
  <2> QED BY <1>1, <2>1 DEF WireInv, Returned
<1>3. part = "none" /\ ~broken => taken = Len(FlattenSeq([f \in 1..Len(messages) |-> Pack(f)]))
  BY DEF WireInv, AtFrame, Offset
<1> QED BY <1>1, <1>2, <1>3 DEF FramesMatch, TextParts

(***************************************************************************)
(* FramesMatch, for every list of frames and however the bytes arrive:     *)
(* each call of recv returns the parts of the frame that was sent, as many *)
(* bytes of each as were sent and from no other part, and the next one     *)
(* begins at the first byte of the next frame (message/__init__.py).       *)
(***************************************************************************)
THEOREM FramesMatched == WireSpec => []FramesMatch
<1>1. WireSpec => []WireInv
  BY WireInvInit, WireInvNext, PTL DEF WireSpec
<1> QED BY <1>1, WireInvFrames, PTL

-----------------------------------------------------------------------------
(***************************************************************************)
(* Metadata.  An operation that assigns to a key has come to some suffix   *)
(* t of its steps: the values it is still to remove, each followed by a    *)
(* reset, then the add, and the last reset.                                *)
(***************************************************************************)
Steps == [op : {"add", "rm", "set", "atomic"}, avu : Avus] \cup {Reset}

Suffix(t, avu, old) ==
  /\ t \in Seq(Steps)
  /\ \A i \in 1..Len(t) :
       /\ t[i] = Reset \/ t[i] = Req("add", avu) \/ \E x \in old : t[i] = Req("rm", x)
       /\ t[i].op = "add" <=> i = Len(t) - 1
  /\ t # <<>> => t[Len(t)] = Reset
  /\ \A i, j \in 1..Len(t) : t[i].op = "rm" /\ t[i] = t[j] => i = j

ToRemove(t) == {x \in Avus : \E i \in 1..Len(t) : t[i] = Req("rm", x)}

Old(v) == OfKey(before[v], Key(assigned[v]))
Others(v) == before[v] \ Old(v)

MetaTypes ==
  /\ catalog \in SUBSET Avus /\ meta \in [Views -> SUBSET Avus]
  /\ reload \in [Views -> BOOLEAN] /\ todo \in [Views -> Seq(Steps)]
  /\ assigned \in [Views -> Avus \cup {NoAvu}] /\ before \in [Views -> SUBSET Avus]
  /\ alone \in [Views -> BOOLEAN]

(* What of the assignment is in the catalog, by what is left to do. *)
Assigning(v) ==
  assigned[v] # NoAvu /\ alone[v] =>
    /\ Suffix(todo[v], assigned[v], Old(v))
    /\ Len(todo[v]) >= 2 => catalog = Others(v) \cup ToRemove(todo[v])
    /\ Len(todo[v]) <= 1 => catalog = Others(v) \cup {assigned[v]}
    /\ Len(todo[v]) = 0 /\ reload[v] => meta[v] = catalog

MetaInv == MetaTypes /\ \A v \in Views : Assigning(v)

(* The requests, and the reset, are different steps. *)
LEMMA StepKinds ==
  /\ \A x, y : /\ Req("rm", x) # Reset /\ Req("add", x) # Reset /\ Req("rm", x) # Req("add", y)
               /\ Req("rm", x) = Req("rm", y) => x = y
               /\ Req("rm", x).op = "rm" /\ Req("add", x).op = "add"
               /\ Req("rm", x).avu = x /\ Req("add", x).avu = x
  /\ Reset.op = "reset"
  /\ \A x \in Avus : \A op \in {"add", "rm", "set", "atomic"} : Req(op, x) \in Steps
  /\ Reset \in Steps
<1>1. \A x, y : /\ Req("rm", x).op = "rm" /\ Req("add", x).op = "add" /\ Reset.op = "reset"
                /\ Req("rm", x).avu = x /\ Req("add", x).avu = x
  BY DEF Req, Reset
<1>2. \A x \in Avus : \A op \in {"add", "rm", "set", "atomic"} : Req(op, x) \in Steps
  BY DEF Req, Steps
<1>3. Reset \in Steps
  BY DEF Steps
<1> QED BY <1>1, <1>2, <1>3

(***************************************************************************)
(* One step on: which step it was, and what is left to remove after it.    *)
(***************************************************************************)
LEMMA SuffixTail ==
  ASSUME NEW t, NEW avu, NEW old \in SUBSET Avus, Suffix(t, avu, old), t # <<>>
  PROVE  /\ Suffix(Tail(t), avu, old) /\ Len(Tail(t)) = Len(t) - 1
         /\ \/ /\ t[1] = Reset /\ Len(t) # 2
               /\ ToRemove(Tail(t)) = ToRemove(t)
            \/ /\ t[1] = Req("add", avu) /\ Len(t) = 2
               /\ ToRemove(t) = {}
            \/ /\ Len(t) >= 3
               /\ \E x \in old : /\ t[1] = Req("rm", x) /\ x \in ToRemove(t)
                                 /\ ToRemove(Tail(t)) = ToRemove(t) \ {x}
<1>1. PICK n \in Nat : n = Len(t) /\ n >= 1
  BY DEF Suffix
<1>2. PICK s : s = Tail(t)
  OBVIOUS
<1>3. s \in Seq(Steps) /\ Len(s) = n - 1 /\ \A i \in 1..(n - 1) : s[i] = t[i + 1]
  BY <1>1, <1>2 DEF Suffix
<1>4. /\ \A i \in 1..n : /\ t[i] = Reset \/ t[i] = Req("add", avu) \/ \E x \in old : t[i] = Req("rm", x)
                         /\ t[i].op = "add" <=> i = n - 1
      /\ t[n] = Reset /\ \A i, j \in 1..n : t[i].op = "rm" /\ t[i] = t[j] => i = j
  BY <1>1 DEF Suffix
<1>5. Suffix(s, avu, old)
  <2>1. ASSUME NEW i \in 1..(n - 1)
        PROVE  /\ s[i] = Reset \/ s[i] = Req("add", avu) \/ \E x \in old : s[i] = Req("rm", x)
               /\ s[i].op = "add" <=> i = (n - 1) - 1
    <3>1. i + 1 \in 1..n /\ s[i] = t[i + 1] /\ (i + 1 = n - 1 <=> i = (n - 1) - 1)
      BY <1>3
    <3> QED BY <1>4, <3>1
  <2>2. s # <<>> => s[n - 1] = Reset
    <3>1. s # <<>> => n - 1 \in 1..(n - 1) /\ (n - 1) + 1 = n
      BY <1>1, <1>3
    <3> QED BY <1>3, <1>4, <3>1
  <2>3. ASSUME NEW i \in 1..(n - 1), NEW j \in 1..(n - 1), s[i].op = "rm", s[i] = s[j]
        PROVE  i = j
    <3>1. i + 1 \in 1..n /\ j + 1 \in 1..n /\ s[i] = t[i + 1] /\ s[j] = t[j + 1]
      BY <1>3
    <3>2. i + 1 = j + 1
      BY <1>4, <2>3, <3>1
    <3> QED BY <3>2
  <2> QED BY <1>3, <2>1, <2>2, <2>3 DEF Suffix
<1>6. \A x \in Avus : x \in ToRemove(s) <=> \E i \in 2..n : t[i] = Req("rm", x)
  <2>1. ASSUME NEW x \in Avus, NEW i \in 1..(n - 1), s[i] = Req("rm", x)
        PROVE  \E j \in 2..n : t[j] = Req("rm", x)
    <3>1. i + 1 \in 2..n /\ t[i + 1] = Req("rm", x)
      BY <1>3, <2>1
    <3> QED BY <3>1
  <2>2. ASSUME NEW x \in Avus, NEW j \in 2..n, t[j] = Req("rm", x)
        PROVE  \E i \in 1..(n - 1) : s[i] = Req("rm", x)
    <3>1. j - 1 \in 1..(n - 1) /\ (j - 1) + 1 = j
      OBVIOUS
    <3>2. s[j - 1] = t[(j - 1) + 1]
      BY <1>3, <3>1
    <3> QED BY <2>2, <3>1, <3>2
  <2> QED BY <1>3, <2>1, <2>2 DEF ToRemove
<1>7. \A x \in Avus : x \in ToRemove(t) <=> \E i \in 1..n : t[i] = Req("rm", x)
  BY <1>1 DEF ToRemove
<1>8. 1 \in 1..n /\ \A i \in 1..n : i = 1 \/ i \in 2..n
  BY <1>1
<1>9. CASE t[1] = Reset
  <2>1. n # 2
    BY <1>4, <1>8, <1>9, StepKinds
  <2>2. \A x \in Avus : t[1] # Req("rm", x)
    BY <1>9, StepKinds
  <2>3. \A x \in Avus : x \in ToRemove(s) <=> x \in ToRemove(t)
    <3>1. \A i \in 2..n : i \in 1..n
      BY <1>1
    <3> QED BY <1>6, <1>7, <1>8, <2>2, <3>1
  <2>4. ToRemove(s) = ToRemove(t)
    BY <2>3 DEF ToRemove
  <2> QED BY <1>1, <1>2, <1>3, <1>5, <1>9, <2>1, <2>4
<1>10. CASE t[1] = Req("add", avu)
  <2>1. n = 2
    <3>0. t[1].op = "add"
      BY <1>10, StepKinds
    <3>1. 1 = n - 1
      BY <1>4, <1>8, <3>0
    <3>2. \A m \in Nat : 1 = m - 1 => m = 2
      OBVIOUS
    <3> QED BY <1>1, <3>1, <3>2
  <2>2. \A i \in 1..2 : i = 1 \/ i = 2
    OBVIOUS
  <2>3. \A x \in Avus : x \notin ToRemove(t)
    BY <1>4, <1>7, <1>10, <2>1, <2>2, StepKinds
  <2>4. ToRemove(t) = {}
    BY <2>3 DEF ToRemove
  <2> QED BY <1>1, <1>2, <1>3, <1>5, <1>10, <2>1, <2>4
<1>11. ASSUME NEW x \in old, t[1] = Req("rm", x)
       PROVE  /\ n >= 3 /\ x \in ToRemove(t)
              /\ ToRemove(s) = ToRemove(t) \ {x}
  <2>1. n # 1
    BY <1>4, <1>11, StepKinds
  <2>2. n # 2
    <3>1. n = 2 => 1 = n - 1
      OBVIOUS
    <3>2. t[1].op # "add"
      BY <1>11, StepKinds
    <3> QED BY <1>4, <1>8, <3>1, <3>2
  <2>3. x \in ToRemove(t) /\ x \in Avus
    BY <1>7, <1>8, <1>11
  <2>4. ASSUME NEW y \in Avus
        PROVE  y \in ToRemove(s) <=> y \in ToRemove(t) /\ y # x
    <3>1. CASE y = x
      <4>1. ASSUME NEW i \in 2..n, t[i] = Req("rm", x) PROVE FALSE
        <5>1. i \in 1..n /\ t[1].op = "rm" /\ t[1] = t[i]
          BY <1>1, <1>11, <4>1, StepKinds
        <5>2. 1 = i
          BY <1>4, <1>8, <5>1
        <5> QED BY <5>2
      <4> QED BY <1>6, <3>1, <4>1
    <3>2. CASE y # x
      <4>1. t[1] # Req("rm", y)
        BY <1>11, <3>2, StepKinds
      <4>2. \A i \in 2..n : i \in 1..n
        BY <1>1
      <4> QED BY <1>6, <1>7, <1>8, <3>2, <4>1, <4>2
    <3> QED BY <3>1, <3>2
  <2>5. ToRemove(s) = ToRemove(t) \ {x}
    <3>1. \A y \in ToRemove(s) : y \in Avus
      BY DEF ToRemove
    <3>2. \A y \in ToRemove(t) : y \in Avus
      BY DEF ToRemove
    <3> QED BY <2>4, <3>1, <3>2
  <2> QED BY <1>1, <2>1, <2>2, <2>3, <2>5
<1>12. t[1] = Reset \/ t[1] = Req("add", avu) \/ \E x \in old : t[1] = Req("rm", x)
  BY <1>4, <1>8
<1>13. CASE \E x \in old : t[1] = Req("rm", x)
  BY <1>1, <1>2, <1>3, <1>5, <1>11, <1>13
<1> QED BY <1>9, <1>10, <1>12, <1>13

(***************************************************************************)
(* DeleteAll: the i-th of its pairs of steps removes the i-th value.       *)
(***************************************************************************)
Pairs(d, vs, n) ==
  /\ d \in Seq(Steps) /\ Len(d) = 2 * n
  /\ \A i \in 1..n : d[2 * i - 1] = Req("rm", vs[i]) /\ d[2 * i] = Reset

(* The steps that remove a list of values, as DeleteAll makes them. *)
LEMMA RemovalTypes ==
  ASSUME NEW vs \in Seq(Avus), NEW after \in {<<>>, <<Reset>>}
  PROVE  /\ Removals(vs, after) \in Seq(Steps)
         /\ after = <<Reset>> => Pairs(Removals(vs, after), vs, Len(vs))
<1>1. PICK n \in Nat : n = Len(vs)
  OBVIOUS
<1>2. PICK s : s = [i \in 1..n |-> <<Req("rm", vs[i])>> \o after]
  OBVIOUS
<1>3. after \in Seq(Steps) /\ \A i \in 1..n : <<Req("rm", vs[i])>> \in Seq(Steps)
  <2>1. \A x \in Steps : <<x>> \in Seq(Steps)
    OBVIOUS
  <2>2. \A i \in 1..n : Req("rm", vs[i]) \in Steps
    BY <1>1, StepKinds
  <2>3. after = <<>> \/ after = <<Reset>>
    OBVIOUS
  <2>4. <<Reset>> \in Seq(Steps)
    BY <2>1, StepKinds
  <2>5. <<>> \in Seq(Steps)
    OBVIOUS
  <2> QED BY <2>1, <2>2, <2>3, <2>4, <2>5
<1>4. s \in [1..n -> Seq(Steps)]
  BY <1>2, <1>3
<1>5. PICK g : PrefixList(Steps, n, s, g)
  BY <1>4, PrefixesExist
<1>6. Removals(vs, after) = g[n]
  <2>1. FirstOf(s, s, n) /\ n \in 0..n
    BY <1>2 DEF FirstOf
  <2>2. FlattenSeq(s) = g[n]
    BY <1>5, <2>1, FlattenIsPrefix
  <2> QED BY <1>1, <1>2, <2>2 DEF Removals
<1>7. g \in [0..n -> Seq(Steps)] /\ g[0] = <<>> /\ \A k \in 0..(n - 1) : g[k + 1] = g[k] \o s[k + 1]
  BY <1>5 DEF PrefixList
<1>8. ASSUME after = <<Reset>>
      PROVE  Pairs(g[n], vs, n)
  <2> DEFINE T == {k \in Nat : k <= n => Pairs(g[k], vs, k)}
  <2>1. 0 \in T
    BY <1>7 DEF Pairs
  <2>2. ASSUME NEW k \in Nat, k \in T, k + 1 <= n
        PROVE  Pairs(g[k + 1], vs, k + 1)
    <3>1. PICK m \in 1..n, a \in Nat : m = k + 1 /\ a = 2 * k
      BY <2>2
    <3>2. PICK p, q, w : p = g[k] /\ q = s[m] /\ w = g[m]
      OBVIOUS
    <3>3. Pairs(p, vs, k)
      BY <2>2, <3>2
    <3>4. q \in Seq(Steps) /\ Len(q) = 2 /\ q[1] = Req("rm", vs[m]) /\ q[2] = Reset
      <4>1. PICK x \in Steps, y \in Steps : x = Req("rm", vs[m]) /\ y = Reset
        BY <1>1, StepKinds
      <4>2. q = <<x>> \o <<y>>
        BY <1>2, <1>8, <3>2, <4>1
      <4>3. <<x>> \in Seq(Steps) /\ <<y>> \in Seq(Steps) /\ Len(<<x>>) = 1 /\ Len(<<y>>) = 1
            /\ <<x>>[1] = x /\ <<y>>[1] = y
        OBVIOUS
      <4> QED BY <4>1, <4>2, <4>3
    <3>5. Joined(Steps, w, p, q, a, 2)
      <4>1. w = p \o q
        <5>1. k \in 0..(n - 1)
          BY <2>2
        <5>2. g[k + 1] = g[k] \o s[k + 1]
          BY <1>7, <5>1
        <5> QED BY <3>1, <3>2, <5>2
      <4>2. p \in Seq(Steps) /\ Len(p) = a
        BY <3>1, <3>3 DEF Pairs
      <4> QED BY <3>4, <4>1, <4>2, ConcatJoins
    <3>6. w \in Seq(Steps) /\ Len(w) = 2 * m
      BY <3>1, <3>5 DEF Joined
    <3>7. ASSUME NEW i \in 1..m
          PROVE  w[2 * i - 1] = Req("rm", vs[i]) /\ w[2 * i] = Reset
      <4>1. CASE i <= k
        <5>1. i \in 1..k /\ 2 * i - 1 \in 1..a /\ 2 * i \in 1..a
          BY <3>1, <4>1
        <5> QED BY <3>3, <3>5, <5>1 DEF Pairs, Joined
      <4>2. CASE i = m
        <5>1. 2 * i - 1 = a + 1 /\ 2 * i = a + 2 /\ 1 \in 1..2 /\ 2 \in 1..2
          BY <3>1, <4>2
        <5>2. w[a + 1] = q[1] /\ w[a + 2] = q[2]
          BY <3>5, <5>1 DEF Joined
        <5> QED BY <3>4, <4>2, <5>1, <5>2
      <4> QED BY <3>1, <4>1, <4>2
    <3> QED BY <3>1, <3>2, <3>6, <3>7 DEF Pairs
  <2>3. \A k \in Nat : k \in T => k + 1 \in T
    BY <2>2
  <2> HIDE DEF T
  <2>4. n \in T
    BY <2>1, <2>3, NatClosed
  <2> QED BY <2>4 DEF T
<1> QED BY <1>1, <1>6, <1>7, <1>8

(* The values of S, each once. *)
Lists(vs, S) ==
  /\ vs \in Seq(Avus) /\ \A i \in 1..Len(vs) : vs[i] \in S
  /\ \A x \in S : \E i \in 1..Len(vs) : vs[i] = x
  /\ \A i, j \in 1..Len(vs) : vs[i] = vs[j] => i = j

(***************************************************************************)
(* __setitem__: all old values are to be removed, each once, and the add   *)
(* comes last.                                                             *)
(***************************************************************************)
LEMMA SetItemSteps ==
  ASSUME NEW avu \in Avus, NEW old \in SUBSET Avus, NEW vs, Lists(vs, old)
  PROVE  /\ Suffix(SetItem(vs, avu), avu, old) /\ Len(SetItem(vs, avu)) >= 2
         /\ ToRemove(SetItem(vs, avu)) = old
<1>0. /\ vs \in Seq(Avus) /\ \A i \in 1..Len(vs) : vs[i] \in old
      /\ \A x \in old : \E i \in 1..Len(vs) : vs[i] = x
      /\ \A i, j \in 1..Len(vs) : vs[i] = vs[j] => i = j
  BY DEF Lists
<1>1. PICK n \in Nat, b \in Nat : n = Len(vs) /\ b = 2 * n
  BY <1>0
<1>2. PICK d, e, t : d = DeleteAll(vs) /\ e = <<Req("add", avu), Reset>> /\ t = SetItem(vs, avu)
  OBVIOUS
<1>3. Pairs(d, vs, n)
  BY <1>0, <1>1, <1>2, RemovalTypes DEF DeleteAll
<1>4. e \in Seq(Steps) /\ Len(e) = 2 /\ e[1] = Req("add", avu) /\ e[2] = Reset
  BY <1>2, StepKinds
<1>5. Joined(Steps, t, d, e, b, 2)
  <2>1. t = d \o e
    BY <1>2 DEF SetItem
  <2>2. d \in Seq(Steps) /\ Len(d) = b
    BY <1>1, <1>3 DEF Pairs
  <2> QED BY <1>4, <2>1, <2>2, ConcatJoins
<1>6. t \in Seq(Steps) /\ Len(t) = b + 2
  BY <1>5 DEF Joined
<1>7. t[b + 1] = Req("add", avu) /\ t[b + 2] = Reset
  <2>1. 1 \in 1..2 /\ 2 \in 1..2
    OBVIOUS
  <2> QED BY <1>4, <1>5, <2>1 DEF Joined
<1>8. \A i \in 1..n : t[2 * i - 1] = Req("rm", vs[i]) /\ t[2 * i] = Reset
  <2> TAKE i \in 1..n
  <2>1. 2 * i - 1 \in 1..b /\ 2 * i \in 1..b
    BY <1>1
  <2> QED BY <1>3, <1>5, <2>1 DEF Pairs, Joined
<1>9. \A j \in 1..(b + 2) : j = b + 1 \/ j = b + 2 \/ \E i \in 1..n : j = 2 * i - 1 \/ j = 2 * i
  <2> TAKE j \in 1..(b + 2)
  <2>1. CASE j <= b
    <3>1. PICK i \in Nat : j = 2 * i \/ j = 2 * i - 1
      <4>1. PICK c \in Int : c = j \div 2
        OBVIOUS
      <4>2. c \in Nat /\ (j = 2 * c \/ j = 2 * c + 1)
        BY <4>1
      <4>3. c + 1 \in Nat /\ 2 * (c + 1) - 1 = 2 * c + 1
        BY <4>2
      <4> QED BY <4>2, <4>3
    <3>2. i \in 1..n
      BY <1>1, <2>1, <3>1
    <3> QED BY <3>1, <3>2
  <2> QED BY <2>1
<1>10. ASSUME NEW j \in 1..(b + 2)
       PROVE  /\ t[j] = Reset \/ t[j] = Req("add", avu) \/ \E x \in old : t[j] = Req("rm", x)
              /\ t[j].op = "add" <=> j = (b + 2) - 1
  <2>1. CASE j = b + 1
    <3>1. t[j] = Req("add", avu) /\ t[j].op = "add" /\ j = (b + 2) - 1
      BY <1>7, <2>1, StepKinds
    <3> QED BY <3>1
  <2>2. CASE j = b + 2
    <3>1. t[j] = Reset /\ t[j].op # "add" /\ j # (b + 2) - 1
      BY <1>7, <2>2, StepKinds
    <3> QED BY <3>1
  <2>3. ASSUME NEW i \in 1..n, j = 2 * i - 1 \/ j = 2 * i
        PROVE  /\ t[j] = Reset \/ \E x \in old : t[j] = Req("rm", x)
               /\ t[j].op # "add" /\ j # (b + 2) - 1
    <3>1. t[j] = Reset \/ t[j] = Req("rm", vs[i])
      BY <1>8, <2>3
    <3>2. vs[i] \in old
      BY <1>0, <1>1
    <3>3. j # (b + 2) - 1
      BY <1>1, <2>3
    <3> QED BY <3>1, <3>2, <3>3, StepKinds
  <2> QED BY <1>9, <2>1, <2>2, <2>3
<1>11. ASSUME NEW j \in 1..(b + 2), t[j].op = "rm"
       PROVE  \E i \in 1..n : j = 2 * i - 1
  <2>1. j # b + 1 /\ j # b + 2
    BY <1>7, <1>11, StepKinds
  <2>2. \A i \in 1..n : j # 2 * i
    BY <1>8, <1>11, StepKinds
  <2> QED BY <1>9, <2>1, <2>2
<1>12. ASSUME NEW j \in 1..(b + 2), NEW k \in 1..(b + 2), t[j].op = "rm", t[j] = t[k]
       PROVE  j = k
  <2>1. PICK i \in 1..n, l \in 1..n : j = 2 * i - 1 /\ k = 2 * l - 1
    BY <1>11, <1>12
  <2>2. Req("rm", vs[i]) = Req("rm", vs[l])
    BY <1>8, <1>12, <2>1
  <2>3. vs[i] = vs[l]
    BY <2>2, StepKinds
  <2>4. i = l
    BY <1>0, <1>1, <2>3
  <2> QED BY <2>1, <2>4
<1>13. Suffix(t, avu, old)
  <2>1. \A i \in 1..Len(t) : /\ t[i] = Reset \/ t[i] = Req("add", avu) \/ \E x \in old : t[i] = Req("rm", x)
                             /\ t[i].op = "add" <=> i = Len(t) - 1
    BY <1>6, <1>10
  <2>2. t # <<>> => t[Len(t)] = Reset
    BY <1>6, <1>7
  <2>3. \A i, j \in 1..Len(t) : t[i].op = "rm" /\ t[i] = t[j] => i = j
    BY <1>6, <1>12
  <2> QED BY <1>6, <2>1, <2>2, <2>3 DEF Suffix
<1>14. ToRemove(t) = old
  <2>1. ASSUME NEW x \in ToRemove(t)
        PROVE  x \in old
    <3>1. PICK j \in 1..(b + 2) : t[j] = Req("rm", x)
      BY <1>6, <2>1 DEF ToRemove
    <3>2. PICK i \in 1..n : j = 2 * i - 1
      BY <1>11, <3>1, StepKinds
    <3>3. x = vs[i]
      BY <1>8, <3>1, <3>2, StepKinds
    <3> QED BY <1>0, <1>1, <3>3
  <2>2. ASSUME NEW x \in old
        PROVE  x \in ToRemove(t)
    <3>1. PICK i \in 1..n : vs[i] = x
      BY <1>0, <1>1
    <3>2. 2 * i - 1 \in 1..(b + 2) /\ t[2 * i - 1] = Req("rm", x)
      BY <1>1, <1>8, <3>1
    <3> QED BY <1>6, <3>2 DEF ToRemove
  <2> QED BY <2>1, <2>2
<1> QED BY <1>2, <1>6, <1>13, <1>14

(* SetToSeqs: each value stands in the list, and once. *)
LEMMA Enumerates ==
  ASSUME NEW S \in SUBSET Avus, NEW vs \in SetToSeqs(S)
  PROVE  Lists(vs, S)
<1>1. IsFiniteSet(S) /\ Cardinality(S) \in Nat
  BY MetadataAssumption, FS_Subset, FS_CardinalityType
<1>2. PICK n \in Nat : n = Cardinality(S)
  BY <1>1
<1>3. vs \in [1..n -> S] /\ \A i, j \in 1..n : i # j => vs[i] # vs[j]
  BY <1>2 DEF SetToSeqs
<1>4. vs \in Injection(1..n, S)
  BY <1>3 DEF Injection, IsInjective
<1>5. Cardinality(1..n) = n
  BY <1>2, FS_Interval
<1>6. vs \in Surjection(1..n, S)
  BY <1>1, <1>2, <1>4, <1>5, FS_Injection
<1>7. \A x \in S : \E i \in 1..n : vs[i] = x
  BY <1>6 DEF Surjection
<1>8. vs \in Seq(Avus) /\ Len(vs) = n
  BY <1>3
<1> QED BY <1>3, <1>7, <1>8 DEF Lists

(* No view has assigned anything yet. *)
LEMMA MetaInit == MetadataInit => MetaInv
<1> SUFFICES ASSUME MetadataInit PROVE MetaInv
  OBVIOUS
<1>1. MetaTypes
  BY DEF MetadataInit, MetaTypes
<1>2. \A v \in Views : Assigning(v)
  BY DEF MetadataInit, Assigning
<1> QED BY <1>1, <1>2 DEF MetaInv

(***************************************************************************)
(* What happens to a view while another one acts: nothing, and when the    *)
(* catalog changes its assignment is no longer alone.                      *)
(***************************************************************************)
Rests(v) ==
  /\ todo'[v] = todo[v] /\ assigned'[v] = assigned[v] /\ before'[v] = before[v]
  /\ reload'[v] = reload[v] /\ meta'[v] = meta[v]
  /\ alone'[v] => alone[v] /\ catalog' = catalog

(* The assignment of a view that a step leaves alone stands as it did. *)
LEMMA RestsAssigning ==
  ASSUME NEW v \in Views, Assigning(v), Rests(v)
  PROVE  Assigning(v)'
<1>1. Old(v)' = Old(v) /\ Others(v)' = Others(v)
  BY DEF Rests, Old, Others
<1> QED BY <1>1 DEF Assigning, Rests

(* An operation begins with a list of steps. *)
LEMMA BeginTypes ==
  ASSUME MetaTypes, NEW v \in Views, NEW steps \in Seq(Steps), NEW avu \in Avus \cup {NoAvu},
         Begin(v, steps, avu)
  PROVE  MetaTypes' /\ \A u \in Views \ {v} : Rests(u)
<1> USE DEF MetaTypes, Begin, optVars
<1>1. catalog' \in SUBSET Avus /\ meta' \in [Views -> SUBSET Avus] /\ reload' \in [Views -> BOOLEAN]
  OBVIOUS
<1>2. todo' \in [Views -> Seq(Steps)]
  OBVIOUS
<1>3. assigned' \in [Views -> Avus \cup {NoAvu}] /\ before' \in [Views -> SUBSET Avus]
      /\ alone' \in [Views -> BOOLEAN]
  OBVIOUS
<1>4. \A u \in Views \ {v} : Rests(u)
  BY DEF Rests
<1> QED BY <1>1, <1>2, <1>3, <1>4

(* The operations that are not an assignment. *)
LEMMA BeginInv ==
  ASSUME MetaInv, NEW v \in Views, NEW steps \in Seq(Steps), Begin(v, steps, NoAvu)
  PROVE  MetaInv'
<1>1. MetaTypes' /\ \A u \in Views \ {v} : Rests(u)
  BY BeginTypes DEF MetaInv
<1>2. Assigning(v)'
  <2>1. assigned'[v] = NoAvu
    BY DEF MetaInv, MetaTypes, Begin
  <2> QED BY <2>1 DEF Assigning
<1>3. \A u \in Views \ {v} : Assigning(u)'
  BY <1>1, RestsAssigning DEF MetaInv
<1> QED BY <1>1, <1>2, <1>3 DEF MetaInv

(* __setitem__ begins with all old values to be removed. *)
LEMMA AssignInv ==
  ASSUME MetaInv, NEW v \in Views, AssignItem(v)
  PROVE  MetaInv'
<1>1. MetaTypes
  BY DEF MetaInv
<1>0. PICK avu \in Avus : \E r \in SetToSeqs(OfKey(meta[v], Key(avu))) : Begin(v, SetItem(r, avu), avu)
  BY DEF AssignItem
<1>9. PICK S \in SUBSET Avus : S = OfKey(meta[v], Key(avu))
  <2>1. OfKey(meta[v], Key(avu)) \in SUBSET Avus
    BY <1>1 DEF MetaTypes, OfKey
  <2> QED BY <2>1
<1>2. PICK vs \in SetToSeqs(S) : S = OfKey(meta[v], Key(avu)) /\ Begin(v, SetItem(vs, avu), avu)
  BY <1>0, <1>9
<1>3. PICK t : t = SetItem(vs, avu)
  OBVIOUS
<1>4. Suffix(t, avu, S) /\ Len(t) >= 2 /\ ToRemove(t) = S
  <2>1. Lists(vs, S)
    BY Enumerates
  <2> QED BY <1>3, <2>1, SetItemSteps
<1>5. t \in Seq(Steps) /\ Len(t) \in Nat
  BY <1>4 DEF Suffix
<1>6. MetaTypes' /\ \A u \in Views \ {v} : Rests(u)
  BY <1>1, <1>2, <1>3, <1>5, BeginTypes
<1>7. Assigning(v)'
  <2>1. SUFFICES ASSUME alone'[v]
                 PROVE  /\ Suffix(todo'[v], assigned'[v], Old(v)')
                        /\ Len(todo'[v]) >= 2 => catalog' = Others(v)' \cup ToRemove(todo'[v])
                        /\ ~(Len(todo'[v]) <= 1) /\ ~(Len(todo'[v]) = 0)
    BY DEF Assigning
  <2>2. /\ todo'[v] = t /\ assigned'[v] = avu /\ before'[v] = catalog /\ meta[v] = catalog
        /\ catalog' = catalog
    BY <1>1, <1>2, <1>3, <2>1 DEF Begin, MetaTypes
  <2>3. Old(v)' = S
    BY <1>2, <2>2 DEF Old
  <2>4. S \subseteq catalog
    BY <1>2, <2>2 DEF OfKey
  <2>5. catalog' = Others(v)' \cup S
    BY <2>2, <2>3, <2>4 DEF Others
  <2>6. ~(Len(t) <= 1) /\ ~(Len(t) = 0)
    BY <1>4, <1>5
  <2> QED BY <1>4, <2>2, <2>3, <2>5, <2>6
<1>8. \A u \in Views \ {v} : Assigning(u)'
  BY <1>6, RestsAssigning DEF MetaInv
<1> QED BY <1>6, <1>7, <1>8 DEF MetaInv

(* The lists of steps of the other operations. *)
LEMMA StepLists ==
  /\ \A op \in {"add", "set", "rm", "atomic"} : \A avu \in Avus : <<Req(op, avu), Reset>> \in Seq(Steps)
  /\ \A S \in SUBSET Avus : \A vs \in SetToSeqs(S) :
       DelItem(vs) \in Seq(Steps) /\ RemoveAll(vs) \in Seq(Steps)
<1>1. ASSUME NEW op \in {"add", "set", "rm", "atomic"}, NEW avu \in Avus
      PROVE  <<Req(op, avu), Reset>> \in Seq(Steps)
  <2>1. Req(op, avu) \in Steps /\ Reset \in Steps
    BY StepKinds
  <2> QED BY <2>1
<1>2. ASSUME NEW S \in SUBSET Avus, NEW vs \in SetToSeqs(S)
      PROVE  DelItem(vs) \in Seq(Steps) /\ RemoveAll(vs) \in Seq(Steps)
  <2>1. vs \in Seq(Avus)
    BY Enumerates DEF Lists
  <2>2. Removals(vs, <<Reset>>) \in Seq(Steps) /\ Removals(vs, <<>>) \in Seq(Steps)
    BY <2>1, RemovalTypes
  <2>3. <<Reset>> \in Seq(Steps)
    BY StepKinds
  <2> QED BY <2>2, <2>3 DEF DelItem, DeleteAll, RemoveAll
<1> QED BY <1>1, <1>2

(* A view made by a call has assigned nothing. *)
LEMMA CallInv ==
  ASSUME MetaInv, NEW v \in Views, NEW w \in Views, Call(v, w)
  PROVE  MetaInv'
<1>1. MetaTypes
  BY DEF MetaInv
<1>2. /\ catalog' = catalog /\ todo' = todo /\ before' = before
      /\ assigned' = [assigned EXCEPT ![w] = NoAvu] /\ alone' = [alone EXCEPT ![w] = meta'[w] = catalog]
      /\ \E r \in BOOLEAN : reload' = [reload EXCEPT ![w] = r]
      /\ \E m \in SUBSET Avus : meta' = [meta EXCEPT ![w] = m]
  BY <1>1 DEF Call, MetaTypes
<1>3. MetaTypes'
  BY <1>1, <1>2 DEF MetaTypes
<1>4. \A u \in Views \ {w} : Rests(u)
  BY <1>1, <1>2 DEF Rests, MetaTypes
<1>5. Assigning(w)'
  BY <1>1, <1>2 DEF Assigning, MetaTypes
<1>6. \A u \in Views \ {w} : Assigning(u)'
  BY <1>4, RestsAssigning DEF MetaInv
<1> QED BY <1>3, <1>5, <1>6 DEF MetaInv

(* A request, carried out, refused or lost, leaves a list of AVUs. *)
LEMMA EffectType ==
  ASSUME MetaTypes, NEW v \in Views, todo[v] # <<>>, Current(v) # Reset
  PROVE  Effect(Current(v)) \in SUBSET Avus
<1>1. Current(v) \in Steps
  BY DEF MetaTypes, Current
<1>2. PICK op \in {"add", "rm", "set", "atomic"}, x \in Avus : Current(v) = [op |-> op, avu |-> x]
  BY <1>1 DEF Steps
<1>3. Current(v).op = op /\ Current(v).avu = x
  BY <1>2
<1>4. OfKey(catalog, Key(x)) \subseteq catalog
  BY DEF OfKey
<1> QED BY <1>3, <1>4 DEF Effect, MetaTypes

(* A request of an assignment removes one old value or adds the new one. *)
LEMMA RequestInv ==
  ASSUME MetaInv, NEW v \in Views, Request(v)
  PROVE  MetaInv'
<1>1. MetaTypes
  BY DEF MetaInv
<1>2. /\ todo[v] # <<>> /\ Current(v) # Reset /\ ~AvuRefused(Current(v))
      /\ catalog' = Effect(Current(v)) /\ todo' = [todo EXCEPT ![v] = Tail(@)]
      /\ UNCHANGED <<meta, reload, assigned, before>>
  BY DEF Request, optVars
<1>3. alone' = IF catalog' = catalog THEN alone ELSE [u \in Views |-> u = v /\ alone[v]]
  BY DEF Request, Wrote
<1>4. alone' \in [Views -> BOOLEAN]
  BY <1>1, <1>3 DEF MetaTypes
<1>5. MetaTypes'
  <2>1. catalog' \in SUBSET Avus
    BY <1>1, <1>2, EffectType
  <2>2. todo' \in [Views -> Seq(Steps)]
    BY <1>1, <1>2 DEF MetaTypes
  <2> QED BY <1>1, <1>2, <1>4, <2>1, <2>2 DEF MetaTypes
<1>6. \A u \in Views \ {v} : Rests(u)
  BY <1>1, <1>2, <1>3 DEF Rests, MetaTypes
<1>7. Assigning(v)'
  <2>1. SUFFICES ASSUME assigned'[v] # NoAvu, alone'[v]
                 PROVE  Assigning(v)'
    BY DEF Assigning
  <2>2. alone[v]
    BY <1>1, <1>3, <2>1 DEF MetaTypes
  <2>0. Old(v) \in SUBSET Avus /\ Others(v) \in SUBSET Avus /\ assigned[v] \in Avus
        /\ Others(v) \cap Old(v) = {}
    BY <1>1, <1>2, <2>1 DEF MetaTypes, Old, Others, OfKey
  <2>31. PICK t : t = todo[v]
    OBVIOUS
  <2>32. PICK avu \in Avus : avu = assigned[v]
    BY <2>0
  <2>33. PICK old \in SUBSET Avus : old = Old(v)
    BY <2>0
  <2>34. PICK rest \in SUBSET Avus : rest = Others(v)
    BY <2>0
  <2>3. /\ t = todo[v] /\ avu = assigned[v] /\ old = Old(v) /\ rest = Others(v)
        /\ rest \cap old = {}
    BY <2>0, <2>31, <2>32, <2>33, <2>34
  <2>4. /\ Suffix(t, avu, old)
        /\ Len(t) >= 2 => catalog = rest \cup ToRemove(t)
    BY <1>2, <2>1, <2>2, <2>3 DEF MetaInv, Assigning
  <2>5. t # <<>> /\ t[1] # Reset /\ Current(v) = t[1] /\ Len(t) \in Nat
    BY <1>1, <1>2, <2>3, <2>4 DEF Current, Suffix, MetaTypes
  <2>6. PICK s : s = Tail(t) /\ s = todo'[v] /\ Suffix(s, avu, old) /\ Len(s) = Len(t) - 1
    BY <1>1, <1>2, <2>3, <2>4, <2>5, SuffixTail DEF MetaTypes
  <2>7. assigned'[v] = avu /\ Old(v)' = old /\ Others(v)' = rest
    BY <1>2, <2>3 DEF Old, Others
  <2>8. CASE t[1] = Req("add", avu) /\ Len(t) = 2 /\ ToRemove(t) = {}
    <3>1. catalog = rest /\ catalog' = catalog \cup {avu}
      BY <1>2, <2>4, <2>5, <2>8, StepKinds DEF Effect
    <3>2. Len(s) = 1
      BY <2>6, <2>8
    <3>3. ~(Len(s) >= 2) /\ ~(Len(s) = 0) /\ catalog' = rest \cup {avu}
      BY <3>1, <3>2
    <3> QED BY <2>6, <2>7, <3>3 DEF Assigning
  <2>9. ASSUME Len(t) >= 3, NEW x \in old, t[1] = Req("rm", x), x \in ToRemove(t),
               ToRemove(s) = ToRemove(t) \ {x}
        PROVE  Assigning(v)'
    <3>1. Current(v).op = "rm" /\ Current(v).avu = x
      BY <2>5, <2>9, StepKinds
    <3>2. catalog' = catalog \ {x}
      BY <1>2, <3>1 DEF Effect
    <3>3. catalog = rest \cup ToRemove(t) /\ x \notin rest
      BY <2>3, <2>4, <2>5, <2>9
    <3>4. catalog' = rest \cup ToRemove(s)
      BY <2>9, <3>2, <3>3
    <3>5. ~(Len(s) <= 1) /\ ~(Len(s) = 0)
      BY <2>5, <2>6, <2>9
    <3> QED BY <2>6, <2>7, <3>4, <3>5 DEF Assigning
  <2>10. \/ t[1] = Req("add", avu) /\ Len(t) = 2 /\ ToRemove(t) = {}
         \/ Len(t) >= 3 /\ \E x \in old : /\ t[1] = Req("rm", x) /\ x \in ToRemove(t)
                                          /\ ToRemove(s) = ToRemove(t) \ {x}
    BY <2>4, <2>5, <2>6, SuffixTail, ZenonT(60)
  <2> QED BY <2>8, <2>9, <2>10
<1>8. \A u \in Views \ {v} : Assigning(u)'
  BY <1>6, RestsAssigning DEF MetaInv
<1> QED BY <1>5, <1>7, <1>8 DEF MetaInv

(* A refused or lost request ends the operation with an error. *)
LEMMA GiveUpInv ==
  ASSUME MetaInv, NEW v \in Views, RequestRefused(v) \/ RequestLost(v)
  PROVE  MetaInv'
<1>1. MetaTypes
  BY DEF MetaInv
<1>2. /\ todo' = [todo EXCEPT ![v] = <<>>] /\ assigned' = [assigned EXCEPT ![v] = NoAvu]
      /\ UNCHANGED <<meta, reload, before>>
      /\ catalog' \in SUBSET Avus
      /\ alone' = IF catalog' = catalog THEN alone ELSE [u \in Views |-> u = v /\ alone[v]]
  <2>1. CASE RequestRefused(v)
    BY <1>1, <2>1 DEF RequestRefused, GiveUp, optVars, MetaTypes
  <2>2. CASE RequestLost(v)
    BY <1>1, <2>2, EffectType DEF RequestLost, GiveUp, Wrote, optVars, MetaTypes
  <2> QED BY <2>1, <2>2
<1>3. MetaTypes'
  <2>1. alone' \in [Views -> BOOLEAN] /\ <<>> \in Seq(Steps)
    BY <1>1, <1>2 DEF MetaTypes
  <2>2. todo' \in [Views -> Seq(Steps)]
    BY <1>1, <1>2, <2>1 DEF MetaTypes
  <2> QED BY <1>1, <1>2, <2>1, <2>2 DEF MetaTypes
<1>4. \A u \in Views \ {v} : Rests(u)
  BY <1>1, <1>2 DEF Rests, MetaTypes
<1>5. Assigning(v)'
  BY <1>1, <1>2 DEF Assigning, MetaTypes
<1>6. \A u \in Views \ {v} : Assigning(u)'
  BY <1>4, RestsAssigning DEF MetaInv
<1> QED BY <1>3, <1>5, <1>6 DEF MetaInv

(***************************************************************************)
(* _reset_metadata changes the list of the view and nothing in the         *)
(* catalog.                                                                *)
(***************************************************************************)
LEMMA ResetInv ==
  ASSUME MetaInv, NEW v \in Views, ResetMetadata(v)
  PROVE  MetaInv'
<1>1. MetaTypes
  BY DEF MetaInv
<1>2. /\ todo[v] # <<>> /\ Current(v) = Reset
      /\ meta' = IF reload[v] THEN [meta EXCEPT ![v] = catalog] ELSE meta
      /\ todo' = [todo EXCEPT ![v] = Tail(@)]
      /\ UNCHANGED <<catalog, reload, assigned, before, alone>>
  BY DEF ResetMetadata, optVars, histVars
<1>3. MetaTypes'
  BY <1>1, <1>2 DEF MetaTypes
<1>4. \A u \in Views \ {v} : Rests(u)
  BY <1>1, <1>2 DEF Rests, MetaTypes
<1>5. Assigning(v)'
  <2>1. SUFFICES ASSUME assigned[v] # NoAvu, alone[v]
                 PROVE  Assigning(v)'
    BY <1>2 DEF Assigning
  <2>0. Old(v) \in SUBSET Avus /\ assigned[v] \in Avus
    BY <1>1, <2>1 DEF MetaTypes, Old, OfKey
  <2>21. PICK t : t = todo[v]
    OBVIOUS
  <2>22. PICK avu \in Avus : avu = assigned[v]
    BY <2>0
  <2>23. PICK old \in SUBSET Avus : old = Old(v)
    BY <2>0
  <2>2. t = todo[v] /\ avu = assigned[v] /\ old = Old(v)
    BY <2>21, <2>22, <2>23
  <2>3. /\ Suffix(t, avu, old)
        /\ Len(t) >= 2 => catalog = Others(v) \cup ToRemove(t)
        /\ Len(t) <= 1 => catalog = Others(v) \cup {avu}
    BY <2>1, <2>2 DEF MetaInv, Assigning
  <2>4. t # <<>> /\ t[1] = Reset /\ Len(t) \in Nat /\ Len(t) >= 1
    BY <1>1, <1>2, <2>2, <2>3 DEF Current, Suffix, MetaTypes
  <2>5. PICK s : /\ s = Tail(t) /\ s = todo'[v] /\ Suffix(s, avu, old) /\ Len(s) = Len(t) - 1
                 /\ Len(t) # 2 /\ ToRemove(s) = ToRemove(t)
    <3>1. \A x : t[1] # Req("add", avu) /\ t[1] # Req("rm", x)
      BY <2>4, StepKinds
    <3>2. Tail(t) = todo'[v]
      BY <1>1, <1>2, <2>2 DEF MetaTypes
    <3> QED BY <2>3, <2>4, <3>1, <3>2, SuffixTail
  <2>6. assigned'[v] = avu /\ Old(v)' = old /\ Others(v)' = Others(v) /\ catalog' = catalog
    BY <1>2, <2>2 DEF Old, Others
  <2>7. Len(s) >= 2 => catalog = Others(v) \cup ToRemove(s)
    BY <2>3, <2>4, <2>5
  <2>8. Len(s) <= 1 => catalog = Others(v) \cup {avu}
    BY <2>3, <2>4, <2>5
  <2>9. reload'[v] => meta'[v] = catalog
    BY <1>1, <1>2 DEF MetaTypes
  <2> QED BY <2>5, <2>6, <2>7, <2>8, <2>9 DEF Assigning
<1>6. \A u \in Views \ {v} : Assigning(u)'
  BY <1>4, RestsAssigning DEF MetaInv
<1> QED BY <1>3, <1>5, <1>6 DEF MetaInv

(* Every step keeps the invariant. *)
LEMMA MetaNext == MetaInv /\ [MetadataNext]_metaVars => MetaInv'
<1> SUFFICES ASSUME MetaInv, [MetadataNext]_metaVars
             PROVE  MetaInv'
  OBVIOUS
<1>1. CASE UNCHANGED metaVars
  <2>1. MetaTypes'
    BY <1>1 DEF metaVars, optVars, histVars, MetaInv, MetaTypes
  <2>2. \A u \in Views : Rests(u)
    BY <1>1 DEF metaVars, optVars, histVars, Rests
  <2> QED BY <2>1, <2>2, RestsAssigning DEF MetaInv
<1>2. ASSUME NEW v \in Views, Simple(v) PROVE MetaInv'
  <2>1. PICK op \in {"add", "set", "rm", "atomic"}, avu \in Avus : Begin(v, <<Req(op, avu), Reset>>, NoAvu)
    BY <1>2 DEF Simple
  <2> QED BY <2>1, StepLists, BeginInv
<1>3. ASSUME NEW v \in Views, DeleteItem(v) PROVE MetaInv'
  <2>1. PICK k \in Keys : \E vs \in SetToSeqs(OfKey(meta[v], k)) : Begin(v, DelItem(vs), NoAvu)
    BY <1>3 DEF DeleteItem
  <2>2. PICK S \in SUBSET Avus : S = OfKey(meta[v], k)
    BY DEF MetaInv, MetaTypes, OfKey
  <2>3. PICK vs \in SetToSeqs(S) : Begin(v, DelItem(vs), NoAvu)
    BY <2>1, <2>2
  <2> QED BY <2>3, StepLists, BeginInv
<1>4. ASSUME NEW v \in Views, DeleteEvery(v) PROVE MetaInv'
  <2>2. PICK S \in SUBSET Avus : S = meta[v]
    BY DEF MetaInv, MetaTypes
  <2>3. PICK vs \in SetToSeqs(S) : Begin(v, RemoveAll(vs), NoAvu)
    BY <1>4, <2>2 DEF DeleteEvery
  <2> QED BY <2>3, StepLists, BeginInv
<1> QED
  BY <1>1, <1>2, <1>3, <1>4, AssignInv, CallInv, RequestInv, GiveUpInv, ResetInv DEF MetadataNext

(***************************************************************************)
(* view[key] = avu, once it has returned, has left the one AVU of the key  *)
(* and all other AVUs as they were, whatever the number of values it       *)
(* removed and of views at work, if its list was current and no other view *)
(* has written meanwhile (iRODSMetaCollection.__setitem__).                *)
(***************************************************************************)
THEOREM ItemAssignedHolds == MetadataSpec => []ItemAssigned
<1>1. MetaInv => ItemAssigned
  <2>1. SUFFICES ASSUME MetaInv, NEW v \in Views, todo[v] = <<>>, assigned[v] # NoAvu, alone[v]
                 PROVE  /\ catalog = (before[v] \ OfKey(before[v], Key(assigned[v]))) \cup {assigned[v]}
                        /\ reload[v] => meta[v] = catalog
    BY DEF ItemAssigned
  <2>2. Len(todo[v]) = 0
    BY <2>1
  <2> QED BY <2>1, <2>2 DEF MetaInv, Assigning, Others, Old
<1> QED BY <1>1, MetaInit, MetaNext, PTL DEF MetadataSpec
=============================================================================
