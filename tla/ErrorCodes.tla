----------------------------- MODULE ErrorCodes -----------------------------
(***************************************************************************)
(* The exceptions of exception.py: the classes by the thousands of their   *)
(* codes, the rounding that finds the class of an error the server         *)
(* reports, the errno carried in the last three digits, and what           *)
(* Connection.recv makes of an error code.                                 *)
(*                                                                         *)
(* Codes are negative in the source; here c stands for the code -c.        *)
(***************************************************************************)
EXTENDS Integers, Sequences

CONSTANTS Replies,     \* error codes a server may report, as positive numbers
          Acceptable   \* sets of acceptable_errors to call recv with

ASSUME RepliesAssumption ==
  Replies \subseteq Nat \ {0} /\ Acceptable \subseteq SUBSET Nat

(* The thousands of the codes of the classes, by family. *)
SystemException == (1..86) \cup (89..110) \cup {115, 130, 154, 406, 407}
UserInputException == (300..326) \cup (337..356)
FileDriverException == {500} \cup (510..530)
UniversalMSSDriverException == 550..555
HPSSDriverException == {600} \cup (610..635)
AmazonS3Exception == (701..703) \cup (715..717)
CatalogLibraryException == (801..840) \cup {850, 851, 853, 860, 862}
RDSException == 880..889
TicketException == 890..892
MiscException == 900..913
GSIException == 921..942
KRBException == 951..971
PAMException == 991..994
RuleEngineException == (1000..1060) \cup {1062, 1063} \cup (1065..1110) \cup {1205, 1230, 1828}
PHPException == 1600..1602
(* Derived from iRODSException itself; 0 is UnknowniRODSError. *)
NoFamily == {0, 158, 164, 167, 168, 169, 358, 402, 1803, 1816}

Families ==
  {SystemException, UserInputException, FileDriverException, UniversalMSSDriverException,
   HPSSDriverException, AmazonS3Exception, CatalogLibraryException, RDSException,
   TicketException, MiscException, GSIException, KRBException, PAMException,
   RuleEngineException, PHPException, NoFamily}

(* iRODSExceptionMeta.codes: the codes of all classes. *)
Codes == {1000 * t : t \in UNION Families}

-----------------------------------------------------------------------------
(***************************************************************************)
(* rounded_code: towards zero, by the floor division of the source, whose  *)
(* arguments are negative.                                                 *)
(***************************************************************************)
Floor1000(n) == IF n >= 0 THEN n \div 1000 ELSE -((999 - n) \div 1000)
(* A mutation of Rounded. *)
Rounded_Floor(c) == -(1000 * Floor1000(-c))

Rounded(c) == -(1000 * (Floor1000(-c - 1) + 1))

(* nominal_code: below the threshold a code stands for itself. *)
Nominal(c) == IF c >= 1000 THEN Rounded(c) ELSE c

(* An instance: the code of its class, and its own code. *)
Instance(class, code) == [class |-> class, code |-> code]

(* get_exception_by_code, for a code of a known class. *)
ByCode(c) == Instance(Rounded(c), c)

(***************************************************************************)
(* __repr__ shows the class and, when the last three digits are not 0, an  *)
(* Errno; __init__ takes the Errno off again and subtracts it from the     *)
(* code of the class.                                                      *)
(***************************************************************************)
Repr(e) == [class |-> e.class, errno |-> e.code % 1000]
Eval(r) == Instance(r.class, r.class + r.errno)

-----------------------------------------------------------------------------
VARIABLES
  reply,     \* int_info of the reply, or 0
  accept,    \* acceptable_errors of this call, as codes
  outcome,   \* "waiting", "returned", "raised" or "KeyError"
  exc,       \* the exception that was raised
  copied     \* eval(repr(exc)), when it has been taken

errVars == <<reply, accept, outcome, exc, copied>>
NoExc == Instance(0, 0)

ErrInit ==
  /\ reply \in Replies /\ accept \in Acceptable
  /\ outcome = "waiting" /\ exc = NoExc /\ copied = NoExc

(***************************************************************************)
(* Connection.recv, once the message is complete.  A code no class is      *)
(* registered for is a KeyError of get_exception_by_code.                  *)
(***************************************************************************)
IsAcceptable(c) == Nominal(c) \in {Nominal(a) : a \in accept}

AcceptReply ==
  /\ outcome = "waiting" /\ IsAcceptable(reply)
  /\ outcome' = "returned"
  /\ UNCHANGED <<reply, accept, exc, copied>>

RaiseByCode ==
  /\ outcome = "waiting" /\ ~IsAcceptable(reply)
  /\ IF Rounded(reply) \in Codes
     THEN outcome' = "raised" /\ exc' = ByCode(reply)
     ELSE outcome' = "KeyError" /\ UNCHANGED exc
  /\ UNCHANGED <<reply, accept, copied>>

CopyByRepr ==
  /\ outcome = "raised" /\ copied = NoExc
  /\ copied' = Eval(Repr(exc))
  /\ UNCHANGED <<reply, accept, outcome, exc>>

ErrNext == AcceptReply \/ RaiseByCode \/ CopyByRepr
ErrSpec == ErrInit /\ [][ErrNext]_errVars

-----------------------------------------------------------------------------
(***************************************************************************)
(* The errno of the server's code survives: the exception raised is of the *)
(* one class whose thousands the code has, and its copy by eval(repr(err)) *)
(* (comment of iRODSException.__init__) has the same class and code.  recv *)
(* lets a code pass exactly when the caller named its class: the errno in  *)
(* the last digits makes no difference (nominal_code, rounded_code).       *)
(***************************************************************************)
CodeRoundTrip ==
  /\ outcome = "raised" =>
       /\ exc.code = reply /\ exc.class <= reply /\ reply < exc.class + 1000
       /\ \E f \in Families : \A g \in Families : exc.class \in {1000 * t : t \in g} <=> g = f
  /\ copied # NoExc => copied = exc
  /\ outcome # "waiting" =>
       (outcome = "returned" <=> \E a \in accept :
          a = reply \/ (a >= 1000 /\ reply >= 1000 /\ a \div 1000 = reply \div 1000))
=============================================================================
