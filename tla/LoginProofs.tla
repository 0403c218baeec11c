---------------------------- MODULE LoginProofs ----------------------------
(***************************************************************************)
(* Proofs about Login, for every set of accounts and every length of a GSI *)
(* handshake: types, the kind of socket that was negotiated, that a login  *)
(* which ends well was accepted, where passwords travel, that a token is   *)
(* used once it is issued, and that one kept in memory leaves .irodsA      *)
(* alone.                                                                  *)
(*                                                                         *)
(* And about Obfuscation, for every salt, ring and password: what is       *)
(* stored or sent is read back as it was.                                  *)
(***************************************************************************)
EXTENDS Login, Obfuscation, DataLemmas

(* Places of pc, by the login they belong to. *)

PluginPcs == {"native", "context", "response", "store", "pp_start", "pp_request",
              "pi_start", "pi_request", "pi"}
LegacyPcs == {"gsi", "gsi_response", "legacy_pam", "legacy_try", "legacy_request",
              "legacy_token", "legacy_native", "legacy_store"}

(***************************************************************************)
(* The parts of the inductive invariant that no run states.                *)
(***************************************************************************)
SocketThere == pc \notin {"configure", "connect", "failed"} => sock # "none"
TlsWanted == pc = "tls" => acct.policy \notin {"none", "tcp"}
KindOfLogin ==
  /\ pc \in PluginPcs => acct.plugin
  /\ pc \in LegacyPcs => ~acct.plugin
  /\ pc \in {"pi_start", "pi_request", "pi"} => acct.scheme = "pam_interactive"
TlsChecked == pc = "pp_request" /\ acct.checkTls => sock = "tls"
Renewable == pc = "legacy_try" => acct.renew # "None"
TokenThere == pc \in {"write_open", "write_text"} => result = "issued"
DepotOrFile ==
  /\ depot # "" => acct.plugin /\ inFile = FALSE
  /\ pc \in {"configure", "connect", "tls", "login"} => depot = ""
  /\ pc = "store" => acct.env /\ ~acct.mem
  /\ inFile = TRUE => acct.env

Unaccepted == pc \in {"tls", "login"} \cup PluginPcs => accepted = FALSE
Returning ==
  /\ acct.plugin => pc # "legacy_token" /\ (pc \in {"configure", "connect", "tls"} => using = "")
  /\ pc \in {"configure", "connect", "tls"} => using \in {"", "issued"}
  /\ pc = "legacy_token" => using = "issued"

(***************************************************************************)
(* Once there is a token, a legacy login has it in hand, and a plugin has  *)
(* it in the depot or in the file, unless another process wrote there.     *)
(***************************************************************************)
TokenAnswers == using = "issued" \/ (acct.plugin /\ inFile = TRUE /\ using = "other")
TokenKept ==
  "issued" \in valid =>
    /\ pc \notin {"configure", "login", "pp_start", "pp_request", "pi_start", "pi_request",
                 "pi", "legacy_pam", "legacy_try", "legacy_request"}
    /\ acct.plugin => pc \notin {"connect", "tls"}
    /\ ~acct.plugin => using = "issued"
    /\ acct.plugin /\ inFile = TRUE => file \in {"empty", "issued", "other"}
    /\ acct.plugin /\ inFile = FALSE => depot = "issued" /\ pc # "store"
    /\ pc = "response" => TokenAnswers
    /\ accepted = TRUE => TokenAnswers

IInv ==
  /\ LoginTypeOK /\ SocketThere /\ TlsWanted /\ KindOfLogin /\ TlsChecked
  /\ Renewable /\ TokenThere /\ DepotOrFile /\ Unaccepted /\ Returning /\ TokenKept
  /\ PolicyRespected /\ SecretInTls /\ LoggedInAccepted

-----------------------------------------------------------------------------
(* A password that was read from .irodsA is one. *)
LEMMA DecodedType == LoginTypeOK /\ Readable => Decoded \in Passwords
BY DEF LoginTypeOK, Readable, Decoded, Passwords

(* An account has the fields of its type. *)
LEMMA AccountFields ==
  ASSUME LoginTypeOK
  PROVE  /\ acct.scheme \in PamSchemes \cup {"native", "gsi"}
         /\ acct.policy \in {"none", "ssl", "tcp"}
         /\ acct.renew \in {"None", "", "own"}
         /\ acct.goal \in {"connect", "write", "overwrite"}
         /\ acct.plugin \in BOOLEAN /\ acct.checkTls \in BOOLEAN /\ acct.mem \in BOOLEAN
         /\ acct.env \in BOOLEAN
<1>1. acct \in AccountType
  BY AccountsAssumption DEF LoginTypeOK
<1> QED
  BY <1>1 DEF AccountType

(* The invariant holds at first. *)
LEMMA InitInvariant == LoginInit => IInv
<1> SUFFICES ASSUME LoginInit PROVE IInv
  OBVIOUS
<1>1. LoginTypeOK
  <2>1. /\ acct \in Accounts /\ srvPolicy \in {"ssl", "tcp", "any"}
        /\ pc \in LoginPcs /\ sock \in {"none", "plain", "tls"}
    BY DEF LoginInit, LoginPcs
  <2>2. valid \subseteq Passwords /\ wire \subseteq Passwords \X {"plain", "tls"}
    BY DEF LoginInit, Passwords
  <2>3. /\ password \in Passwords /\ using \in Passwords /\ depot \in {"", "issued"}
        /\ result \in {"", "issued"}
        /\ file \in {"absent", "empty", "kept", "issued", "other"}
    BY DEF LoginInit, Passwords
  <2>4. accepted \in BOOLEAN /\ inFile \in BOOLEAN /\ writer \in BOOLEAN
    BY DEF LoginInit
  <2> QED
    BY <2>1, <2>2, <2>3, <2>4 DEF LoginTypeOK
<1>2. /\ SocketThere /\ TlsWanted /\ KindOfLogin /\ TlsChecked /\ Renewable
      /\ TokenThere
  BY DEF LoginInit, SocketThere, TlsWanted, KindOfLogin, TlsChecked, Renewable, TokenThere,
         PluginPcs, LegacyPcs
<1>3. PolicyRespected /\ SecretInTls /\ LoggedInAccepted
  BY DEF LoginInit, PolicyRespected, SecretInTls, LoggedInAccepted
<1>4. DepotOrFile
  BY DEF LoginInit, DepotOrFile
<1>5. Unaccepted /\ Returning
  BY DEF LoginInit, Unaccepted, Returning, PluginPcs
<1>6. TokenKept
  <2>1. PICK v \in SUBSET {"own", "kept"} : valid = v \cup {"other"}
    BY DEF LoginInit
  <2> QED
    BY <2>1 DEF TokenKept
<1> QED
  BY <1>1, <1>2, <1>3, <1>4, <1>5, <1>6 DEF IInv
-----------------------------------------------------------------------------
(***************************************************************************)
(* A step keeps every part of the invariant.  Each lemma below opens all   *)
(* the actions once, and its leaves name what else they need.              *)
(***************************************************************************)
(* One more password on the wire, on a socket that exists. *)
LEMMA WireGrows ==
  ASSUME LoginTypeOK, NEW p \in Passwords, sock \in {"plain", "tls"}
  PROVE  wire \cup {<<p, sock>>} \subseteq Passwords \X {"plain", "tls"}
<1>1. <<p, sock>> \in Passwords \X {"plain", "tls"}
  OBVIOUS
<1>2. wire \subseteq Passwords \X {"plain", "tls"}
  BY DEF LoginTypeOK
<1> QED
  BY <1>1, <1>2

(* What was sent is a set of passwords with their sockets. *)
LEMMA WireType ==
  ASSUME IInv, LoginNext
  PROVE  wire' \subseteq Passwords \X {"plain", "tls"}
<1>1. CASE Answer
  <2>1. "own" \in Passwords /\ sock \in {"plain", "tls"}
    BY <1>1 DEF IInv, LoginTypeOK, SocketThere, Passwords, Answer
  <2> QED
    BY <1>1, <2>1, WireGrows DEF IInv, Answer
<1>2. CASE PamPasswordRequest
  <2>1. using \in Passwords /\ sock \in {"plain", "tls"}
    BY <1>2 DEF IInv, LoginTypeOK, SocketThere, PamPasswordRequest
  <2> QED
    BY <1>2, <2>1, WireGrows DEF IInv, PamPasswordRequest
<1>3. CASE LegacyRequest /\ sock # "plain"
  <2>1. using \in Passwords /\ sock \in {"plain", "tls"}
    BY <1>3 DEF IInv, LoginTypeOK, SocketThere, LegacyRequest
  <2>2. wire' = wire \cup {<<using, sock>>}
    BY <1>3 DEF LegacyRequest
  <2> QED
    BY <2>1, <2>2, WireGrows DEF IInv
<1>4. CASE UNCHANGED wire
  BY <1>4 DEF IInv, LoginTypeOK
<1>5. Answer \/ PamPasswordRequest \/ (LegacyRequest /\ sock # "plain") \/ UNCHANGED wire
  BY DEF LoginNext, LoginStep, Configure, NoLoginNeeded, Connect, SslStartup, NetFails,
         StartLogin, NativeRequest, EstablishContext, NativeResponse, StoreWrites,
         PamPasswordStart, PamPasswordRequest, InteractiveStart, InteractiveRequest,
         Answer, Authenticated, NativeAuth, FlowStopped, GsiToken, GsiResponse,
         LegacyPam, LegacyTry, LegacyRequest, LegacyToken, LegacyNative, LegacyStore, WriteCheck,
         WriteOpen, WriteText, OtherOpens, OtherWrites, netVars, OnlyNet
<1> QED
  BY <1>1, <1>2, <1>3, <1>4, <1>5

(* The password that answers the challenge is one. *)
LEMMA UsingType ==
  ASSUME IInv, LoginNext
  PROVE  using' \in Passwords
<1>1. CASE StartLogin
  BY <1>1 DEF StartLogin, IInv, LoginTypeOK, Passwords
<1>2. CASE EstablishContext
  BY <1>2, DecodedType DEF EstablishContext, IInv, LoginTypeOK, Passwords
<1>3. CASE PamPasswordStart
  BY <1>3 DEF PamPasswordStart, IInv, LoginTypeOK, Passwords
<1>4. CASE LegacyTry
  BY <1>4, AccountFields DEF LegacyTry, IInv, LoginTypeOK, Renewable, Passwords
<1>5. CASE LegacyRequest
  BY <1>5 DEF LegacyRequest, IInv, LoginTypeOK, Passwords
<1>6. CASE UNCHANGED using
  BY <1>6 DEF IInv, LoginTypeOK
<1>7. \/ StartLogin \/ EstablishContext \/ PamPasswordStart \/ LegacyTry \/ LegacyRequest
      \/ UNCHANGED using
  BY DEF LoginNext, LoginStep, Configure, NoLoginNeeded, Connect, SslStartup, NetFails,
         StartLogin, NativeRequest, EstablishContext, NativeResponse, StoreWrites,
         PamPasswordStart, PamPasswordRequest, InteractiveStart, InteractiveRequest,
         Answer, Authenticated, NativeAuth, FlowStopped, GsiToken, GsiResponse,
         LegacyPam, LegacyTry, LegacyRequest, LegacyToken, LegacyNative, LegacyStore, WriteCheck,
         WriteOpen, WriteText, OtherOpens, OtherWrites, pwVars, OnlyNet
<1> QED
  BY <1>1, <1>2, <1>3, <1>4, <1>5, <1>6, <1>7

(* The types of the variables. *)
LEMMA TypeStep ==
  ASSUME IInv, LoginNext
  PROVE  LoginTypeOK'
<1> USE DEF LoginNext, LoginStep, Configure, NoLoginNeeded, Connect, SslStartup,
         NetFails, StartLogin, NativeRequest, EstablishContext, NativeResponse,
         StoreWrites, PamPasswordStart, PamPasswordRequest, InteractiveStart,
         InteractiveRequest, Answer, Authenticated, NativeAuth, FlowStopped, GsiToken,
         GsiResponse, LegacyPam, LegacyTry, LegacyRequest, LegacyToken, LegacyNative, LegacyStore,
         WriteCheck, WriteOpen, WriteText, OtherOpens, OtherWrites, netVars, pwVars,
         envVars, fileVars, Goto, Raise, OnlyNet, AfterConnect, IInv, LoginTypeOK
<1>1. acct' \in Accounts /\ srvPolicy' \in {"ssl", "tcp", "any"}
  OBVIOUS
<1>2. valid' \subseteq Passwords
  BY DEF StoreToken, Passwords
<1>3. pc' \in LoginPcs
  BY AccountFields, ZenonT(60) DEF LoginPcs, Requests, Ended, PluginEntry, LegacyEntry, StoreToken
<1>4. sock' \in {"none", "plain", "tls"} /\ accepted' \in BOOLEAN
  OBVIOUS
<1>5. password' \in Passwords
  BY DecodedType DEF Passwords
<1>6. depot' \in {"", "issued"} /\ result' \in {"", "issued"}
  BY DEF StoreToken, Returning
<1>7. inFile' \in BOOLEAN /\ writer' \in BOOLEAN
  BY AccountFields DEF StoreToken
<1>8. file' \in {"absent", "empty", "kept", "issued", "other"}
  BY DEF StoreToken, TokenThere
<1> QED
  BY <1>1, <1>2, <1>3, <1>4, <1>5, <1>6, <1>7, <1>8, WireType, UsingType

(* The socket exists, and is of the kind both policies ask for. *)
LEMMA SocketStep ==
  ASSUME IInv, LoginNext
  PROVE  SocketThere' /\ TlsWanted' /\ PolicyRespected'
<1> USE DEF LoginNext, LoginStep, Configure, NoLoginNeeded, Connect, SslStartup,
         NetFails, StartLogin, NativeRequest, EstablishContext, NativeResponse,
         StoreWrites, PamPasswordStart, PamPasswordRequest, InteractiveStart,
         InteractiveRequest, Answer, Authenticated, NativeAuth, FlowStopped, GsiToken,
         GsiResponse, LegacyPam, LegacyTry, LegacyRequest, LegacyToken, LegacyNative, LegacyStore,
         WriteCheck, WriteOpen, WriteText, OtherOpens, OtherWrites, netVars, pwVars,
         envVars, fileVars, Goto, Raise, OnlyNet, AfterConnect, IInv, StoreToken
<1>1. SocketThere'
  BY DEF SocketThere, Requests
<1>2. TlsWanted'
  <2>1. CASE Connect
    BY <2>1 DEF TlsWanted, Negotiated
  <2>2. CASE pc' # "tls" \/ UNCHANGED <<acct, pc>>
    BY <2>2 DEF TlsWanted
  <2>3. Connect \/ pc' # "tls" \/ UNCHANGED <<acct, pc>>
    BY DEF PluginEntry, LegacyEntry
  <2> QED
    BY <2>1, <2>2, <2>3
<1>3. PolicyRespected'
  <2>1. CASE Connect
    BY <2>1, AccountFields DEF PolicyRespected, Negotiated, LoginTypeOK
  <2>2. CASE SslStartup
    BY <2>2, AccountFields DEF PolicyRespected, TlsWanted, LoginTypeOK
  <2>3. CASE pc' \in {"configure", "connect", "tls", "failed"}
    BY <2>3 DEF PolicyRespected
  <2>4. CASE /\ UNCHANGED <<acct, srvPolicy, sock>>
             /\ pc \notin {"configure", "connect", "tls", "failed"}
    BY <2>4 DEF PolicyRespected
  <2>5. \/ Connect \/ SslStartup \/ pc' \in {"configure", "connect", "tls", "failed"}
        \/ /\ UNCHANGED <<acct, srvPolicy, sock>>
           /\ pc \notin {"configure", "connect", "tls", "failed"}
    BY DEF Requests
  <2> QED
    BY <2>1, <2>2, <2>3, <2>4, <2>5
<1> QED
  BY <1>1, <1>2, <1>3

(* Places of pc and what was decided on the way to them. *)
LEMMA PlaceStep ==
  ASSUME IInv, LoginNext
  PROVE  KindOfLogin' /\ TlsChecked' /\ Renewable' /\ TokenThere'
<1> USE DEF LoginNext, LoginStep, Configure, NoLoginNeeded, Connect, SslStartup,
         NetFails, StartLogin, NativeRequest, EstablishContext, NativeResponse,
         StoreWrites, PamPasswordStart, PamPasswordRequest, InteractiveStart,
         InteractiveRequest, Answer, Authenticated, NativeAuth, FlowStopped, GsiToken,
         GsiResponse, LegacyPam, LegacyTry, LegacyRequest, LegacyToken, LegacyNative, LegacyStore,
         WriteCheck, WriteOpen, WriteText, OtherOpens, OtherWrites, netVars, pwVars,
         envVars, fileVars, Goto, Raise, OnlyNet, AfterConnect, IInv, StoreToken, PluginEntry,
         LegacyEntry, Requests
<1>1. KindOfLogin'
  BY AccountFields DEF KindOfLogin, PluginPcs, LegacyPcs, PamSchemes, Returning
<1>2. TlsChecked'
  BY DEF TlsChecked, PlainRefused
<1>3. Renewable'
  BY DEF Renewable
<1>4. TokenThere'
  BY DEF TokenThere, LoginTypeOK
<1> QED
  BY <1>1, <1>2, <1>3, <1>4

(* Where the token is while a plugin logs in. *)
LEMMA DepotStep ==
  ASSUME IInv, LoginNext
  PROVE  DepotOrFile'
<1> USE DEF LoginNext, LoginStep, Configure, NoLoginNeeded, Connect, SslStartup,
         NetFails, StartLogin, NativeRequest, EstablishContext, NativeResponse,
         StoreWrites, PamPasswordStart, PamPasswordRequest, InteractiveStart,
         InteractiveRequest, Answer, Authenticated, NativeAuth, FlowStopped, GsiToken,
         GsiResponse, LegacyPam, LegacyTry, LegacyRequest, LegacyToken, LegacyNative, LegacyStore,
         WriteCheck, WriteOpen, WriteText, OtherOpens, OtherWrites, netVars, pwVars,
         envVars, fileVars, Goto, Raise, OnlyNet, AfterConnect, IInv, StoreToken
<1>1. (pc \in {"configure", "connect", "tls", "login"} => depot = "")'
  <2>1. CASE LegacyRequest
    BY <2>1 DEF DepotOrFile, KindOfLogin, LegacyPcs
  <2>2. CASE UNCHANGED depot /\ pc \in {"configure", "connect", "tls", "login"}
    BY <2>2 DEF DepotOrFile
  <2>3. CASE pc' \notin {"configure", "connect", "tls", "login"}
    BY <2>3
  <2>4. \/ LegacyRequest \/ pc' \notin {"configure", "connect", "tls", "login"}
        \/ UNCHANGED depot /\ pc \in {"configure", "connect", "tls", "login"}
    BY DEF PluginEntry, LegacyEntry
  <2> QED
    BY <2>1, <2>2, <2>3, <2>4
<1>2. (inFile = TRUE => acct.env)'
  BY DEF DepotOrFile
<1>3. (pc = "store" => acct.env /\ ~acct.mem)'
  BY DEF DepotOrFile, PluginEntry, LegacyEntry, LoginTypeOK, StoreInMemory
<1>4. (depot # "" => acct.plugin /\ inFile = FALSE)'
  BY DEF DepotOrFile, KindOfLogin, PluginPcs
<1> QED
  BY <1>1, <1>2, <1>3, <1>4 DEF DepotOrFile

(* A connection is accepted at the end of a login, not on the way to it. *)
LEMMA EntryStep ==
  ASSUME IInv, LoginNext
  PROVE  Unaccepted' /\ Returning'
<1> USE DEF LoginNext, LoginStep, Configure, NoLoginNeeded, Connect, SslStartup,
         NetFails, StartLogin, NativeRequest, EstablishContext, NativeResponse,
         StoreWrites, PamPasswordStart, PamPasswordRequest, InteractiveStart,
         InteractiveRequest, Answer, Authenticated, NativeAuth, FlowStopped, GsiToken,
         GsiResponse, LegacyPam, LegacyTry, LegacyRequest, LegacyToken, LegacyNative,
         LegacyStore, WriteCheck, WriteOpen, WriteText, OtherOpens, OtherWrites, netVars,
         pwVars, envVars, fileVars, Goto, Raise, OnlyNet, AfterConnect, IInv, StoreToken
<1>1. Unaccepted'
  BY DEF Unaccepted, PluginPcs, PluginEntry, LegacyEntry
<1>2. Returning'
  BY DEF Returning, KindOfLogin, LegacyPcs, PluginEntry, LegacyEntry, AfterConnect
<1> QED
  BY <1>1, <1>2

(* A token that was issued is used, and nothing else is. *)
LEMMA TokenStep ==
  ASSUME IInv, LoginNext
  PROVE  TokenKept'
<1> USE DEF LoginNext, LoginStep, Configure, NoLoginNeeded, Connect, SslStartup,
         NetFails, StartLogin, NativeRequest, EstablishContext, NativeResponse,
         StoreWrites, PamPasswordStart, PamPasswordRequest, InteractiveStart,
         InteractiveRequest, Answer, Authenticated, NativeAuth, FlowStopped, GsiToken,
         GsiResponse, LegacyPam, LegacyTry, LegacyRequest, LegacyToken, LegacyNative,
         LegacyStore, WriteCheck, WriteOpen, WriteText, OtherOpens, OtherWrites, netVars,
         pwVars, envVars, fileVars, Goto, Raise, OnlyNet, AfterConnect, IInv, StoreToken
<1>1. CASE PamPasswordRequest \/ Authenticated
  <2>1. acct' = acct /\ acct.plugin /\ accepted' = FALSE
    BY <1>1 DEF KindOfLogin, Unaccepted, PluginPcs
  <2>2. \/ pc' = "failed"
        \/ pc' = "native" /\ depot' = "issued" /\ inFile' = FALSE
        \/ pc' = "store" /\ file' = "empty" /\ inFile' = TRUE
    BY <1>1, AccountFields DEF StoreInMemory, LoginTypeOK
  <2> QED
    BY <2>1, <2>2, <1>1 DEF TokenKept
<1>2. CASE LegacyRequest
  BY <1>2 DEF TokenKept, TokenAnswers, KindOfLogin, LegacyPcs
<1>3. CASE "issued" \notin valid /\ ~PamPasswordRequest /\ ~Authenticated /\ ~LegacyRequest
  <2>1. valid' = valid
    BY <1>3
  <2> QED
    BY <1>3, <2>1 DEF TokenKept
<1>4. CASE "issued" \in valid
  <2>1. CASE EstablishContext
    <3>1. acct' = acct /\ acct.plugin /\ accepted' = FALSE /\ inFile \in BOOLEAN
      BY <2>1 DEF KindOfLogin, Unaccepted, PluginPcs, LoginTypeOK
    <3>2. CASE inFile = TRUE
      BY <1>4, <2>1, <3>1, <3>2 DEF TokenKept, TokenAnswers, Decoded, Readable
    <3>3. CASE inFile = FALSE
      BY <1>4, <2>1, <3>1, <3>3 DEF TokenKept, TokenAnswers
    <3> QED
      BY <3>1, <3>2, <3>3
  <2>2. CASE NativeResponse \/ StoreWrites \/ NativeRequest
    BY <1>4, <2>2 DEF TokenKept, TokenAnswers, KindOfLogin, PluginPcs
  <2>3. CASE LegacyNative \/ LegacyStore \/ LegacyToken \/ GsiToken \/ GsiResponse
    BY <1>4, <2>3 DEF TokenKept, TokenAnswers, KindOfLogin, LegacyPcs
  <2>4. CASE WriteCheck \/ WriteOpen \/ WriteText
    BY <1>4, <2>4 DEF TokenKept, TokenAnswers, TokenThere
  <2>5. CASE OtherOpens \/ OtherWrites
    BY <1>4, <2>5 DEF TokenKept, TokenAnswers
  <2>6. CASE Connect \/ SslStartup \/ NetFails \/ NoLoginNeeded
    BY <1>4, <2>6 DEF TokenKept, TokenAnswers, Returning
  <2> QED
    BY <1>4, <2>1, <2>2, <2>3, <2>4, <2>5, <2>6 DEF TokenKept
<1> QED
  BY <1>1, <1>2, <1>3, <1>4

(* Only a PAM request adds to the wire. *)
LEMMA SecretStep ==
  ASSUME IInv, LoginNext
  PROVE  SecretInTls'
<1>1. CASE Answer
  BY <1>1 DEF Answer, OnlyNet, envVars, IInv, SecretInTls, KindOfLogin
<1>2. CASE PamPasswordRequest
  <2>1. acct' = acct /\ wire' = wire \cup {<<using, sock>>} /\ acct.plugin
    BY <1>2 DEF PamPasswordRequest, IInv, KindOfLogin, PluginPcs
  <2>2. acct.checkTls => sock = "tls"
    BY <1>2 DEF PamPasswordRequest, IInv, TlsChecked
  <2> QED
    BY <2>1, <2>2 DEF IInv, SecretInTls
<1>3. CASE LegacyRequest /\ sock # "plain"
  <2>1. sock = "tls"
    BY <1>3 DEF IInv, LoginTypeOK, SocketThere, LegacyRequest
  <2>2. acct' = acct /\ wire' = wire \cup {<<using, sock>>}
    BY <1>3 DEF LegacyRequest
  <2> QED
    BY <2>1, <2>2 DEF IInv, SecretInTls
<1>4. CASE UNCHANGED <<acct, wire>>
  BY <1>4 DEF IInv, SecretInTls
<1>5. \/ Answer \/ PamPasswordRequest \/ (LegacyRequest /\ sock # "plain")
      \/ UNCHANGED <<acct, wire>>
  BY DEF LoginNext, LoginStep, Configure, NoLoginNeeded, Connect, SslStartup, NetFails,
         StartLogin, NativeRequest, EstablishContext, NativeResponse, StoreWrites,
         PamPasswordStart, PamPasswordRequest, InteractiveStart, InteractiveRequest,
         Answer, Authenticated, NativeAuth, FlowStopped, GsiToken, GsiResponse,
         LegacyPam, LegacyTry, LegacyRequest, LegacyToken, LegacyNative, LegacyStore, WriteCheck,
         WriteOpen, WriteText, OtherOpens, OtherWrites, netVars, envVars, OnlyNet
<1> QED
  BY <1>1, <1>2, <1>3, <1>4, <1>5

(* A login that is over was accepted on a socket that is still there. *)
LEMMA AcceptedStep ==
  ASSUME IInv, LoginNext
  PROVE  LoggedInAccepted'
BY DEF LoginNext, LoginStep, Configure, NoLoginNeeded, Connect, SslStartup, NetFails,
       StartLogin, NativeRequest, EstablishContext, NativeResponse, StoreWrites,
       PamPasswordStart, PamPasswordRequest, InteractiveStart, InteractiveRequest,
       Answer, Authenticated, NativeAuth, FlowStopped, GsiToken, GsiResponse, LegacyPam,
       LegacyTry, LegacyRequest, LegacyToken, LegacyNative, LegacyStore, WriteCheck, WriteOpen,
       WriteText, OtherOpens, OtherWrites, netVars, pwVars, envVars, fileVars, Goto,
       Raise, OnlyNet, AfterConnect, IInv, LoggedInAccepted, SocketThere, PluginEntry, LegacyEntry,
       StoreToken, Requests

(* A step that changes nothing keeps the invariant. *)
LEMMA StutterStep ==
  ASSUME IInv, UNCHANGED loginVars
  PROVE  IInv'
<1> USE DEF loginVars, envVars, netVars, pwVars, fileVars, IInv
<1>1. LoginTypeOK'
  BY DEF LoginTypeOK
<1>2. SocketThere' /\ TlsWanted' /\ TlsChecked' /\ Renewable' /\ TokenThere'
  BY DEF SocketThere, TlsWanted, TlsChecked, Renewable, TokenThere
<1>3. KindOfLogin' /\ PolicyRespected' /\ SecretInTls'
  BY DEF KindOfLogin, PolicyRespected, SecretInTls
<1>4. LoggedInAccepted'
  BY DEF LoggedInAccepted
<1>5. DepotOrFile' /\ Unaccepted' /\ Returning'
  BY DEF DepotOrFile, Unaccepted, Returning
<1>6. TokenKept'
  BY DEF TokenKept, TokenAnswers
<1> QED
  BY <1>1, <1>2, <1>3, <1>4, <1>5, <1>6

-----------------------------------------------------------------------------
(* The theorems *)

(* The invariant holds always. *)
LEMMA Inductive == LoginSpec => []IInv
<1>1. IInv /\ [LoginNext]_loginVars => IInv'
  BY TypeStep, SocketStep, PlaceStep, DepotStep, EntryStep, TokenStep,
     SecretStep, AcceptedStep, StutterStep DEF IInv
<1> QED
  BY InitInvariant, <1>1, PTL DEF LoginSpec

(***************************************************************************)
(* Every variable of a login keeps its type.                               *)
(***************************************************************************)
THEOREM TypeCorrect == LoginSpec => []LoginTypeOK
<1>1. IInv => LoginTypeOK
  BY DEF IInv
<1> QED
  BY Inductive, <1>1, PTL

(***************************************************************************)
(* Whatever the account, once the login proper begins the socket is of the *)
(* kind the policies of both sides ask for, also on the second connection  *)
(* of a legacy PAM login (perform_negotiation and _connect).               *)
(***************************************************************************)
THEOREM PolicyHolds == LoginSpec => []PolicyRespected
<1>1. IInv => PolicyRespected
  BY DEF IInv
<1> QED
  BY Inductive, <1>1, PTL

(***************************************************************************)
(* Whatever the scheme, a login that ends without an exception left a      *)
(* connection the server accepted (Connection.__init__).                   *)
(***************************************************************************)
THEOREM AcceptedHolds == LoginSpec => []LoggedInAccepted
<1>1. IInv => LoggedInAccepted
  BY DEF IInv
<1> QED
  BY Inductive, <1>1, PTL

(***************************************************************************)
(* A password for PAM never leaves in the clear while ENSURE_SSL_IS_ACTIVE *)
(* is set, and never from a legacy login (_login_pam, pam_password.py).    *)
(***************************************************************************)
THEOREM SecretHolds == LoginSpec => []SecretInTls
<1>1. IInv => SecretInTls
  BY DEF IInv
<1> QED
  BY Inductive, <1>1, PTL

(***************************************************************************)
(* Whatever the scheme and the other process, once a token is issued no    *)
(* password is asked for or sent again, and the connection is accepted for *)
(* the token (_login_pam, AuthStorage of auth/__init__.py).                *)
(***************************************************************************)
THEOREM TokenHolds == LoginSpec => []TokenOnce
<1>1. IInv => TokenOnce
  BY DEF IInv, TokenKept, TokenAnswers, TokenOnce, LoginTypeOK
<1> QED
  BY Inductive, <1>1, PTL

(* One step of a plugin that keeps its token in memory. *)
LEMMA IsolatedStep ==
  ASSUME IInv, [LoginNext]_loginVars, acct.plugin, acct.mem \/ ~acct.env
  PROVE  /\ pc \notin {"in", "write_open", "write_text"} /\ writer' = writer => file' = file
         /\ pc = "context" /\ pc' = "response" /\ depot # "" => using' = depot
<1>1. CASE LoginNext
  <2>1. ASSUME pc \notin {"in", "write_open", "write_text"}, writer' = writer
        PROVE  file' = file
    <3>1. pc \notin {"store", "legacy_native", "legacy_store"}
      BY DEF IInv, DepotOrFile, KindOfLogin, LegacyPcs
    <3>2. StoreToken => file' = file
      BY AccountFields DEF StoreToken, StoreInMemory, IInv, DepotOrFile, LoginTypeOK
    <3> QED
      BY <1>1, <2>1, <3>1, <3>2 DEF LoginNext, LoginStep, Configure, NoLoginNeeded,
             Connect, SslStartup, NetFails, StartLogin, NativeRequest, EstablishContext,
             NativeResponse, StoreWrites, PamPasswordStart, PamPasswordRequest,
             InteractiveStart, InteractiveRequest, Answer, Authenticated, NativeAuth,
             FlowStopped, GsiToken, GsiResponse, LegacyPam, LegacyTry, LegacyRequest,
             LegacyToken, LegacyNative, LegacyStore, WriteCheck, WriteOpen, WriteText, OtherOpens,
             OtherWrites, fileVars, OnlyNet
  <2>2. ASSUME pc = "context", pc' = "response", depot # ""
        PROVE  using' = depot
    <3>1. inFile = FALSE
      BY <2>2 DEF IInv, DepotOrFile
    <3>2. EstablishContext \/ OtherOpens \/ OtherWrites
      BY <1>1, <2>2 DEF LoginNext, LoginStep, Configure, NoLoginNeeded, Connect,
             SslStartup, NetFails, StartLogin, NativeRequest, EstablishContext,
             NativeResponse, StoreWrites, PamPasswordStart, PamPasswordRequest,
             InteractiveStart, InteractiveRequest, Answer, Authenticated, NativeAuth,
             FlowStopped, GsiToken, GsiResponse, LegacyPam, LegacyTry, LegacyRequest,
             LegacyToken, LegacyNative, LegacyStore, WriteCheck, WriteOpen, WriteText, OtherOpens,
             OtherWrites, netVars, pwVars, envVars, fileVars, Goto, Raise, OnlyNet, AfterConnect,
             Requests
    <3> QED
      BY <2>2, <3>1, <3>2 DEF EstablishContext, OtherOpens, OtherWrites
  <2> QED
    BY <2>1, <2>2
<1>2. CASE UNCHANGED loginVars
  BY <1>2 DEF loginVars, fileVars
<1> QED
  BY <1>1, <1>2

(***************************************************************************)
(* A plugin that keeps its token in memory answers with this token and     *)
(* leaves .irodsA alone until the login is over (auth/__init__.py,         *)
(* AuthStorage.store_pw and retrieve_pw).                                  *)
(***************************************************************************)
THEOREM IsolationHolds == LoginSpec => DepotIsolated
<1>1. IInv /\ [LoginNext]_loginVars =>
        [acct.plugin /\ (acct.mem \/ ~acct.env) =>
           /\ pc \notin {"in", "write_open", "write_text"} /\ writer' = writer => file' = file
           /\ pc = "context" /\ pc' = "response" /\ depot # "" => using' = depot]_loginVars
  BY IsolatedStep
<1> QED
  BY Inductive, <1>1, PTL DEF LoginSpec, DepotIsolated

-----------------------------------------------------------------------------
(***************************************************************************)
(* Obfuscation: the wheel can be turned back, the end of a text is found   *)
(* again, and scramble and unscramble build the same chain.                *)
(***************************************************************************)
(* A turn of the wheel and the same turn back. *)
LEMMA ModBack ==
  ASSUME NEW k \in 0..76, NEW n \in Int
  PROVE  (k + n) % 77 \in 0..76 /\ (((k + n) % 77) + (-n)) % 77 = k
<1>1. PICK q \in Int, r \in 0..76 : q = (k + n) \div 77 /\ r = (k + n) % 77 /\ k + n = 77 * q + r
  OBVIOUS
<1>2. r + (-n) = 77 * (-q) + k
  BY <1>1
<1>3. (77 * (-q) + k) % 77 = k
  OBVIOUS
<1> QED BY <1>1, <1>2, <1>3

(* Each place of the wheel has a character of its own. *)
LEMMA WheelOrder ==
  /\ \A k \in 0..76 : Wheel(k) \in 33..122 /\ InWheel(Wheel(k)) /\ Index[Wheel(k)] = k
  /\ \A c : InWheel(c) => Index[c] \in 0..76 /\ Wheel(Index[c]) = c
<1>1. \A k \in 0..76 : Wheel(k) \in 33..122
  BY DEF Wheel
<1>2. \A k, m \in 0..76 : Wheel(k) = Wheel(m) => k = m
  BY DEF Wheel
<1>3. DOMAIN Index = {Wheel(k) : k \in 0..76}
  BY DEF Index, WheelSize
<1>4. ASSUME NEW c, InWheel(c) PROVE Index[c] \in 0..76 /\ Wheel(Index[c]) = c
  <2>1. \E k \in 0..76 : Wheel(k) = c
    BY <1>3, <1>4 DEF InWheel
  <2>2. Index[c] = CHOOSE k \in 0..76 : Wheel(k) = c
    BY <1>3, <1>4 DEF Index, InWheel, WheelSize
  <2> QED BY <2>1, <2>2
<1>5. ASSUME NEW k \in 0..76 PROVE InWheel(Wheel(k)) /\ Index[Wheel(k)] = k
  <2>1. InWheel(Wheel(k))
    BY <1>3 DEF InWheel
  <2>2. Index[Wheel(k)] \in 0..76 /\ Wheel(Index[Wheel(k)]) = Wheel(k)
    BY <1>4, <2>1
  <2> QED BY <1>2, <2>1, <2>2
<1> QED BY <1>1, <1>4, <1>5

Turns(c, n, d) ==
  /\ d \in Nat /\ (InWheel(d) <=> InWheel(c)) /\ Turn(d, -n) = c /\ (c # NUL => d # NUL)

(* Turn undone by the opposite turn, for characters on the wheel and off it. *)
LEMMA TurnsBack ==
  ASSUME NEW c \in Nat, NEW n \in Int
  PROVE  Turns(c, n, Turn(c, n))
<1>1. CASE InWheel(c)
  <2>1. PICK k \in 0..76 : k = Index[c] /\ c = Wheel(k)
    BY <1>1, WheelOrder
  <2>2. PICK m \in 0..76 : m = (k + n) % 77 /\ (m + (-n)) % 77 = k
    BY ModBack
  <2>3. Turn(c, n) = Wheel(m)
    BY <1>1, <2>1, <2>2 DEF Turn, WheelSize
  <2>4. InWheel(Wheel(m)) /\ Index[Wheel(m)] = m /\ Wheel(m) \in 33..122
    BY WheelOrder
  <2>5. Turn(Wheel(m), -n) = c
    BY <2>1, <2>2, <2>4 DEF Turn, WheelSize
  <2> QED BY <1>1, <2>3, <2>4, <2>5 DEF Turns, NUL
<1>2. CASE ~InWheel(c)
  BY <1>2 DEF Turn, Turns
<1> QED BY <1>1, <1>2

(* The text up to the first NUL has n characters. *)
Ends(s, n) ==
  n \in 0..Len(s) /\ (\A i \in 1..n : s[i] # NUL) /\ (n < Len(s) => s[n + 1] = NUL)

(* UpToNul is the text before the first NUL, or all of it. *)
LEMMA UpToNulEnds ==
  ASSUME NEW s \in Seq(Nat)
  PROVE  \E n \in Nat : Ends(s, n) /\ Excerpt(Nat, s, 0, n, UpToNul(s))
<1>1. CASE \E i \in 1..Len(s) : s[i] = NUL
  <2>1. \E i \in 1..Len(s) : s[i] = NUL /\ \A j \in 1..(i - 1) : s[j] # NUL
    <3> DEFINE S == {i \in 1..Len(s) : s[i] = NUL}
    <3>1. S \in SUBSET Nat /\ S # {}
      BY <1>1
    <3>2. PICK i \in S : \A m \in S : i <= m
      BY <3>1, LeastNat
    <3>3. \A j \in 1..(i - 1) : j \in 1..Len(s) /\ ~(i <= j)
      OBVIOUS
    <3> QED BY <3>2, <3>3
  <2>2. PICK i \in 1..Len(s) :
          /\ i = CHOOSE k \in 1..Len(s) : s[k] = NUL /\ \A j \in 1..(k - 1) : s[j] # NUL
          /\ s[i] = NUL /\ \A j \in 1..(i - 1) : s[j] # NUL
    BY <2>1
  <2>3. UpToNul(s) = SubSeq(s, 1, i - 1)
    BY <1>1, <2>2 DEF UpToNul
  <2>4. PICK n \in Nat : n = i - 1 /\ n + 1 = i /\ 0 + n = n /\ 0 + 1 = 1 /\ n <= Len(s) /\ n < Len(s)
    OBVIOUS
  <2>5. Excerpt(Nat, s, 0, n, SubSeq(s, 0 + 1, 0 + n))
    BY <2>4, CutAt
  <2>6. Ends(s, n)
    <3>1. \A j \in 1..n : s[j] # NUL
      BY <2>2, <2>4
    <3>2. n \in 0..Len(s) /\ s[n + 1] = NUL
      BY <2>2, <2>4
    <3> QED BY <3>1, <3>2 DEF Ends
  <2> QED BY <2>3, <2>4, <2>5, <2>6
<1>2. CASE ~\E i \in 1..Len(s) : s[i] = NUL
  <2>1. UpToNul(s) = s
    BY <1>2 DEF UpToNul
  <2>2. PICK n \in Nat : n = Len(s)
    OBVIOUS
  <2>3. Ends(s, n)
    BY <1>2, <2>2 DEF Ends
  <2>4. Excerpt(Nat, s, 0, n, s)
    BY <2>2 DEF Excerpt
  <2> QED BY <2>1, <2>3, <2>4
<1> QED BY <1>1, <1>2

(* A text has one end. *)
LEMMA EndsOnce ==
  ASSUME NEW s \in Seq(Nat), NEW n \in Nat, NEW m \in Nat, Ends(s, n), Ends(s, m)
  PROVE  n = m
<1>1. ASSUME NEW a \in Nat, NEW b \in Nat, Ends(s, a), Ends(s, b), a < b PROVE FALSE
  <2>1. a + 1 \in 1..b /\ a < Len(s)
    BY <1>1 DEF Ends
  <2> QED BY <1>1, <2>1 DEF Ends
<1> QED BY <1>1

(* What is written to .irodsA. *)
LEMMA EncodedDecodes ==
  ASSUME NEW s \in Seq(Nat), NEW v \in Nat
  PROVE  Decode(Encode(s, v), v) = UpToNul(s)
<1>1. PICK n \in Nat : Ends(s, n) /\ Excerpt(Nat, s, 0, n, UpToNul(s))
  BY UpToNulEnds
<1>2. Stamp \in Seq(Nat) /\ Len(Stamp) = 5 /\ \A i \in 1..5 : Stamp[i] # NUL
  BY DEF Stamp, NUL
<1>l. PICK l \in Nat : l = Len(s)
  OBVIOUS
<1>3. PICK p : p = Stamp \o s /\ Joined(Nat, p, Stamp, s, 5, l)
  BY <1>2, <1>l, ConcatJoins
<1>4. p \in Seq(Nat) /\ Len(p) = 5 + l /\ (\A i \in 1..5 : p[i] # NUL) /\ \A i \in 1..l : p[5 + i] = s[i]
  BY <1>2, <1>3 DEF Joined
<1>5. PICK t : t = UpToNul(p) /\ t \in Seq(Nat) /\ Len(t) = 5 + n /\ \A i \in 1..n : t[5 + i] = s[i] /\ s[i] # NUL
  <2>1. PICK m \in Nat : Ends(p, m) /\ Excerpt(Nat, p, 0, m, UpToNul(p))
    BY <1>4, UpToNulEnds
  <2>2. PICK k \in Nat : m = 5 + k
    <3>1. ~(m < 5)
      <4>1. m < 5 => m + 1 \in 1..5 /\ m < 5 + l
        OBVIOUS
      <4> QED BY <1>4, <2>1, <4>1 DEF Ends
    <3>2. m - 5 \in Nat /\ m = 5 + (m - 5)
      BY <3>1
    <3> QED BY <3>2
  <2>3. Ends(s, k)
    <3>1. k \in 0..l
      BY <1>4, <2>1, <2>2 DEF Ends
    <3>2. \A i \in 1..k : i \in 1..l /\ 5 + i \in 1..m
      BY <2>2, <3>1
    <3>3. \A i \in 1..k : s[i] # NUL
      BY <1>4, <2>1, <3>2 DEF Ends
    <3>4. k < l => s[k + 1] = NUL
      <4>1. k < l => m < 5 + l /\ k + 1 \in 1..l /\ m + 1 = 5 + (k + 1)
        BY <2>2
      <4> QED BY <1>4, <2>1, <4>1 DEF Ends
    <3> QED BY <1>l, <3>1, <3>3, <3>4 DEF Ends
  <2>4. k = n
    BY <1>1, <2>3, EndsOnce
  <2>5. \A i \in 1..n : 0 + (5 + i) = 5 + i /\ 5 + i \in 1..(5 + n)
    OBVIOUS
  <2>6. \A i \in 1..n : i \in 1..l /\ s[i] # NUL
    BY <1>1, <1>l DEF Ends
  <2> QED BY <1>4, <2>1, <2>2, <2>4, <2>5, <2>6, SMTT(30) DEF Excerpt
<1>6. PICK e : e = [i \in 1..(5 + n) |-> Turn(t[i], Offset(i - 1, v))]
  OBVIOUS
<1>7. \A i \in Nat : Offset(i, v) \in Nat
  <2>1. \A j \in 0..9 : Adds[j + 1] \in Nat
    BY SMTT(30) DEF Adds
  <2>2. \A i \in Nat : i % 10 \in 0..9
    OBVIOUS
  <2>3. ASSUME NEW i \in Nat PROVE Offset(i, v) \in Nat
    <3>1. PICK j \in 0..9 : j = i % 10
      BY <2>2
    <3>2. Offset(i, v) = Adds[j + 1] + v
      BY <3>1 DEF Offset
    <3>3. PICK c \in Nat : c = Adds[j + 1]
      BY <2>1
    <3> QED BY <3>2, <3>3
  <2> QED BY <2>3
<1>8. \A i \in 1..(5 + n) : Turns(t[i], Offset(i - 1, v), e[i])
  <2> TAKE i \in 1..(5 + n)
  <2>1. PICK c \in Nat : c = t[i]
    BY <1>5
  <2>2. PICK d \in Nat : d = Offset(i - 1, v)
    <3>1. i - 1 \in Nat
      OBVIOUS
    <3> QED BY <1>7, <3>1
  <2>3. Turns(c, d, Turn(c, d))
    BY TurnsBack
  <2> QED BY <1>6, <2>1, <2>2, <2>3
<1>9. e \in Seq(Nat) /\ Len(e) = 5 + n
  BY <1>6, <1>8 DEF Turns
<1>b. PICK b : b = Encode(s, v)
  OBVIOUS
<1>y. PICK y : y = SubSeq(b, 8, Len(b))
  OBVIOUS
<1>10. /\ y \in Seq(Nat) /\ Len(y) = n + 1 /\ y[n + 1] = NUL
       /\ \A i \in 1..n : y[i] = e[5 + i]
  <2>h. PICK h : h = (<<46>> \o SubSeq(e, 1, 5)) \o <<KeyMark>>
    OBVIOUS
  <2>f. PICK f : f = SubSeq(e, 5 + 1, 5 + n)
    OBVIOUS
  <2>2. h \in Seq(Nat) /\ Len(h) = 7
    <3>1. Excerpt(Nat, e, 0, 5, SubSeq(e, 0 + 1, 0 + 5))
      BY <1>9, CutAt
    <3>2. SubSeq(e, 1, 5) \in Seq(Nat) /\ Len(SubSeq(e, 1, 5)) = 5
      BY <3>1 DEF Excerpt
    <3> QED BY <2>h, <3>2 DEF KeyMark
  <2>3. f \in Seq(Nat) /\ Len(f) = n /\ \A i \in 1..n : f[i] = e[5 + i]
    BY <1>9, <2>f, CutAt DEF Excerpt
  <2>4. PICK g : g = h \o f /\ Joined(Nat, g, h, f, 7, n)
    BY <2>2, <2>3, ConcatJoins
  <2>q. PICK q \in Nat : q = 7 + n
    OBVIOUS
  <2>5. Joined(Nat, b, g, <<NUL>>, q, 1)
    <3>1. e = [i \in 1..Len(t) |-> Turn(t[i], Offset(i - 1, v))]
      BY <1>5, <1>6
    <3>2. f = SubSeq(e, 6, Len(e))
      <4>1. 5 + 1 = 6
        OBVIOUS
      <4> QED BY <1>9, <2>f, <4>1
    <3>3. b = g \o <<NUL>>
      BY <1>b, <1>3, <1>5, <2>h, <2>4, <3>1, <3>2 DEF Encode
    <3>4. g \in Seq(Nat) /\ Len(g) = q /\ <<NUL>> \in Seq(Nat) /\ Len(<<NUL>>) = 1
      BY <2>4, <2>q DEF Joined, NUL
    <3> QED BY <3>3, <3>4, ConcatJoins
  <2>6. b \in Seq(Nat) /\ Len(b) = 8 + n
    BY <2>5, <2>q DEF Joined
  <2>7. b[8 + n] = NUL
    <3>1. 1 \in 1..1 /\ q + 1 = 8 + n /\ <<NUL>>[1] = NUL
      BY <2>q
    <3>2. b[q + 1] = <<NUL>>[1]
      BY <2>5, <3>1 DEF Joined
    <3> QED BY <3>1, <3>2
  <2>8. \A i \in 1..n : b[7 + i] = e[5 + i]
    <3> TAKE i \in 1..n
    <3>1. 7 + i \in 1..q
      BY <2>q
    <3>2. b[7 + i] = g[7 + i]
      BY <2>5, <3>1 DEF Joined
    <3>3. g[7 + i] = f[i]
      BY <2>4 DEF Joined
    <3> QED BY <2>3, <3>2, <3>3
  <2>9. Excerpt(Nat, b, 7, n + 1, y)
    <3>1. PICK k \in Nat : k = n + 1
      OBVIOUS
    <3>2. Excerpt(Nat, b, 7, k, SubSeq(b, 7 + 1, 7 + k))
      BY <2>6, <3>1, CutAt
    <3>3. 7 + 1 = 8 /\ 7 + k = Len(b)
      BY <2>6, <3>1
    <3> QED BY <1>y, <3>1, <3>2, <3>3
  <2>10. y[n + 1] = NUL
    <3>1. n + 1 \in 1..(n + 1) /\ 7 + (n + 1) = 8 + n
      OBVIOUS
    <3> QED BY <2>7, <2>9, <3>1 DEF Excerpt
  <2>11. \A i \in 1..n : y[i] = e[5 + i]
    <3>1. \A i \in 1..n : i \in 1..(n + 1)
      OBVIOUS
    <3> QED BY <2>8, <2>9, <3>1 DEF Excerpt
  <2>12. y \in Seq(Nat) /\ Len(y) = n + 1
    BY <2>9 DEF Excerpt
  <2> QED BY <2>10, <2>11, <2>12
<1>w. PICK w : w = UpToNul(y)
  OBVIOUS
<1>11. Len(w) = n /\ \A i \in 1..n : w[i] = e[5 + i]
  <2>1. PICK m \in Nat : Ends(y, m) /\ Excerpt(Nat, y, 0, m, UpToNul(y))
    BY <1>10, UpToNulEnds
  <2>2. Ends(y, n)
    <3>1. ASSUME NEW i \in 1..n PROVE y[i] # NUL
      <4>1. 5 + i \in 1..(5 + n)
        OBVIOUS
      <4>2. Turns(t[5 + i], Offset((5 + i) - 1, v), e[5 + i]) /\ t[5 + i] # NUL
        BY <1>5, <1>8, <4>1
      <4> QED BY <1>10, <4>2 DEF Turns
    <3> QED BY <1>10, <3>1 DEF Ends
  <2>3. m = n
    BY <1>10, <2>1, <2>2, EndsOnce
  <2>4. \A i \in 1..n : 0 + i = i
    OBVIOUS
  <2>5. Len(w) = n /\ \A i \in 1..n : w[i] = y[0 + i]
    BY <1>w, <2>1, <2>3 DEF Excerpt
  <2> QED BY <1>10, <2>4, <2>5
<1>12. ASSUME NEW i \in 1..n
       PROVE  Turn(w[i], -Offset(DecodeStart + i - 1, v)) = s[i]
  <2>1. 5 + i \in 1..(5 + n) /\ DecodeStart + i - 1 = (5 + i) - 1
    BY DEF DecodeStart
  <2>2. Turns(t[5 + i], Offset((5 + i) - 1, v), e[5 + i])
    BY <1>8, <2>1
  <2> QED BY <1>5, <1>11, <2>1, <2>2 DEF Turns
<1>13. Decode(b, v) = [i \in 1..n |-> Turn(w[i], -Offset(DecodeStart + i - 1, v))]
  BY <1>y, <1>w, <1>11 DEF Decode
<1>14. UpToNul(s) = [i \in 1..n |-> s[i]]
  <2>1. PICK u : u = UpToNul(s) /\ u \in Seq(Nat) /\ Len(u) = n /\ \A i \in 1..n : u[i] = s[0 + i]
    BY <1>1 DEF Excerpt
  <2>2. \A i \in 1..n : 0 + i = i
    OBVIOUS
  <2>3. u = [i \in 1..n |-> u[i]]
    BY <2>1
  <2> QED BY <2>1, <2>2, <2>3
<1> QED BY <1>b, <1>12, <1>13, <1>14

(***************************************************************************)
(* g is the chain of scramble, or of unscramble.                           *)
(***************************************************************************)
ScrambledBy(s, c, g) ==
  /\ g \in [0..Len(s) -> Nat]
  /\ \A i \in 0..Len(s) :
       g[i] = IF i = 0 \/ ~c THEN 0
              ELSE IF InWheel(s[i]) THEN Turn(s[i], RingAt(i) + g[i - 1]) ELSE g[i - 1]
  /\ Scramble(s, c) = [i \in 1..Len(s) |-> Turn(s[i], RingAt(i) + g[i - 1])]
UnscrambledBy(s, c, g) ==
  /\ g \in [0..Len(s) -> Nat]
  /\ \A i \in 0..Len(s) :
       g[i] = IF i = 0 \/ ~c THEN 0 ELSE IF InWheel(s[i]) THEN s[i] ELSE g[i - 1]
  /\ Unscramble(s, c) = [i \in 1..Len(s) |-> Turn(s[i], -RingAt(i) - g[i - 1])]

(* The ring is long enough. *)
LEMMA RingType == \A i \in Nat : i >= 1 => RingAt(i) \in Nat
<1> SUFFICES ASSUME NEW i \in Nat, i >= 1 PROVE RingAt(i) \in Nat
  OBVIOUS
<1>1. PICK l \in Nat : l = Len(Ring) /\ l >= 61
  BY ObfuscationAssumption
<1>2. PICK j \in 1..61 : j = ((i - 1) % 61) + 1
  OBVIOUS
<1>3. Ring[j] \in Nat
  <2>1. j \in 1..Len(Ring)
    BY <1>1
  <2>2. Ring[j] \in 0..255
    <3>1. PICK S : S = 0..255
      OBVIOUS
    <3>2. Ring \in Seq(S)
      BY <3>1, ObfuscationAssumption
    <3>3. Ring[j] \in S
      BY <2>1, <3>2
    <3> QED BY <3>1, <3>3
  <2> QED BY <2>2
<1> QED BY <1>2, <1>3 DEF RingAt

(* The recursive definitions of the chains have solutions. *)
LEMMA ScrambleChained ==
  ASSUME NEW s \in Seq(Nat), NEW c
  PROVE  \E g : ScrambledBy(s, c, g)
<1>1. PICK n \in Nat : n = Len(s)
  OBVIOUS
<1> DEFINE F == [i \in 1..n |-> [x \in Nat |->
                  IF ~c THEN 0 ELSE IF InWheel(s[i]) THEN Turn(s[i], RingAt(i) + x) ELSE x]]
           C == CHOOSE h : h = [i \in 0..n |->
                  IF i = 0 \/ ~c THEN 0
                  ELSE IF InWheel(s[i]) THEN Turn(s[i], RingAt(i) + h[i - 1]) ELSE h[i - 1]]
<1>2. F \in [1..n -> [Nat -> Nat]]
  <2>1. ASSUME NEW i \in 1..n, NEW x \in Nat
        PROVE  Turn(s[i], RingAt(i) + x) \in Nat
    <3>1. PICK a \in Nat : a = s[i]
      BY <1>1
    <3>2. PICK b \in Nat : b = RingAt(i)
      BY RingType
    <3>3. b + x \in Int
      OBVIOUS
    <3> QED BY <3>1, <3>2, <3>3, TurnsBack DEF Turns
  <2> QED BY <2>1
<1>3. \A i \in 1..n : \A x \in Nat :
        F[i][x] = IF ~c THEN 0 ELSE IF InWheel(s[i]) THEN Turn(s[i], RingAt(i) + x) ELSE x
  OBVIOUS
<1> HIDE DEF F
<1>4. PICK g : ChainOf(Nat, 0, n, F, g)
  BY <1>2, ChainsExist
<1>5. g \in [0..n -> Nat] /\ g[0] = 0 /\ \A i \in 1..n : g[i] = F[i][g[i - 1]]
  BY <1>4 DEF ChainOf
<1>6. ASSUME NEW i \in 0..n
      PROVE  g[i] = IF i = 0 \/ ~c THEN 0
                    ELSE IF InWheel(s[i]) THEN Turn(s[i], RingAt(i) + g[i - 1]) ELSE g[i - 1]
  <2>1. CASE i = 0
    BY <1>5, <2>1
  <2>2. CASE i # 0
    <3>1. i \in 1..n /\ i - 1 \in 0..n
      BY <2>2
    <3>2. g[i - 1] \in Nat /\ g[i] = F[i][g[i - 1]]
      BY <1>5, <3>1
    <3> QED BY <1>3, <2>2, <3>1, <3>2
  <2> QED BY <2>1, <2>2
<1>7. g = [i \in 0..n |-> IF i = 0 \/ ~c THEN 0
             ELSE IF InWheel(s[i]) THEN Turn(s[i], RingAt(i) + g[i - 1]) ELSE g[i - 1]]
  BY <1>5, <1>6
<1>8. C = [i \in 0..n |-> IF i = 0 \/ ~c THEN 0
             ELSE IF InWheel(s[i]) THEN Turn(s[i], RingAt(i) + C[i - 1]) ELSE C[i - 1]]
  BY <1>7
<1>9. Scramble(s, c) = [i \in 1..n |-> Turn(s[i], RingAt(i) + C[i - 1])]
  BY <1>1 DEF Scramble
<1> HIDE DEF C
<1>10. \A i \in 0..n : C[i] = IF i = 0 \/ ~c THEN 0
             ELSE IF InWheel(s[i]) THEN Turn(s[i], RingAt(i) + C[i - 1]) ELSE C[i - 1]
  BY <1>8
<1>12. C = [i \in 0..n |-> C[i]]
  BY <1>8
<1>13. \A i \in 0..n : C[i] \in Nat
  <2> DEFINE Q == {k \in Nat : k \in 0..n => C[k] \in Nat}
  <2>1. 0 \in Q
    BY <1>10
  <2>2. ASSUME NEW k \in Nat, k \in Q PROVE k + 1 \in Q
    <3>1. SUFFICES ASSUME k + 1 \in 0..n PROVE C[k + 1] \in Nat
      OBVIOUS
    <3>2. PICK i \in 1..n : i = k + 1 /\ i - 1 = k
      BY <3>1
    <3>3. C[k] \in Nat
      BY <2>2, <3>1
    <3>4. C[i] = IF ~c THEN 0 ELSE IF InWheel(s[i]) THEN Turn(s[i], RingAt(i) + C[k]) ELSE C[k]
      BY <1>10, <3>2
    <3>5. C[i] = F[i][C[k]]
      BY <1>3, <3>3, <3>4
    <3> QED BY <1>2, <3>2, <3>3, <3>5
  <2> HIDE DEF Q
  <2>3. \A k \in Nat : k \in Q
    BY <2>1, <2>2, NatClosed
  <2> QED BY <2>3 DEF Q
<1>14. C \in [0..n -> Nat]
  BY <1>12, <1>13
<1>15. ScrambledBy(s, c, C)
  BY <1>1, <1>9, <1>10, <1>14 DEF ScrambledBy
<1> QED BY <1>15

(* unscramble follows the same chain: each character is turned back with the *)
(* text so far.                                                              *)
LEMMA UnscrambleChained ==
  ASSUME NEW s \in Seq(Nat), NEW c
  PROVE  \E g : UnscrambledBy(s, c, g)
<1>1. PICK n \in Nat : n = Len(s)
  OBVIOUS
<1> DEFINE F == [i \in 1..n |-> [x \in Nat |-> IF ~c THEN 0 ELSE IF InWheel(s[i]) THEN s[i] ELSE x]]
           C == CHOOSE h : h = [i \in 0..n |->
                  IF i = 0 \/ ~c THEN 0 ELSE IF InWheel(s[i]) THEN s[i] ELSE h[i - 1]]
<1>2. F \in [1..n -> [Nat -> Nat]]
  BY <1>1
<1>3. \A i \in 1..n : \A x \in Nat :
        F[i][x] = IF ~c THEN 0 ELSE IF InWheel(s[i]) THEN s[i] ELSE x
  OBVIOUS
<1> HIDE DEF F
<1>4. PICK g : ChainOf(Nat, 0, n, F, g)
  BY <1>2, ChainsExist
<1>5. g \in [0..n -> Nat] /\ g[0] = 0 /\ \A i \in 1..n : g[i] = F[i][g[i - 1]]
  BY <1>4 DEF ChainOf
<1>6. ASSUME NEW i \in 0..n
      PROVE  g[i] = IF i = 0 \/ ~c THEN 0 ELSE IF InWheel(s[i]) THEN s[i] ELSE g[i - 1]
  <2>1. CASE i = 0
    BY <1>5, <2>1
  <2>2. CASE i # 0
    <3>1. i \in 1..n /\ i - 1 \in 0..n
      BY <2>2
    <3>2. g[i - 1] \in Nat /\ g[i] = F[i][g[i - 1]]
      BY <1>5, <3>1
    <3> QED BY <1>3, <2>2, <3>1, <3>2
  <2> QED BY <2>1, <2>2
<1>7. g = [i \in 0..n |-> IF i = 0 \/ ~c THEN 0 ELSE IF InWheel(s[i]) THEN s[i] ELSE g[i - 1]]
  BY <1>5, <1>6
<1>8. C = [i \in 0..n |-> IF i = 0 \/ ~c THEN 0 ELSE IF InWheel(s[i]) THEN s[i] ELSE C[i - 1]]
  BY <1>7
<1>9. Unscramble(s, c) = [i \in 1..n |-> Turn(s[i], -RingAt(i) - C[i - 1])]
  BY <1>1 DEF Unscramble
<1> HIDE DEF C
<1>10. \A i \in 0..n : C[i] = IF i = 0 \/ ~c THEN 0 ELSE IF InWheel(s[i]) THEN s[i] ELSE C[i - 1]
  BY <1>8
<1>12. C = [i \in 0..n |-> C[i]]
  BY <1>8
<1>13. \A i \in 0..n : C[i] \in Nat
  <2> DEFINE Q == {k \in Nat : k \in 0..n => C[k] \in Nat}
  <2>1. 0 \in Q
    BY <1>10
  <2>2. ASSUME NEW k \in Nat, k \in Q PROVE k + 1 \in Q
    <3>1. SUFFICES ASSUME k + 1 \in 0..n PROVE C[k + 1] \in Nat
      OBVIOUS
    <3>2. PICK i \in 1..n : i = k + 1 /\ i - 1 = k
      BY <3>1
    <3>3. C[k] \in Nat
      BY <2>2, <3>1
    <3>4. C[i] = IF ~c THEN 0 ELSE IF InWheel(s[i]) THEN s[i] ELSE C[k]
      BY <1>10, <3>2
    <3>5. C[i] = F[i][C[k]]
      BY <1>3, <3>3, <3>4
    <3> QED BY <1>2, <3>2, <3>3, <3>5
  <2> HIDE DEF Q
  <2>3. \A k \in Nat : k \in Q
    BY <2>1, <2>2, NatClosed
  <2> QED BY <2>3 DEF Q
<1>14. C \in [0..n -> Nat]
  BY <1>12, <1>13
<1>15. UnscrambledBy(s, c, C)
  BY <1>1, <1>9, <1>10, <1>14 DEF UnscrambledBy
<1> QED BY <1>15

(***************************************************************************)
(* unscramble finds the chain of scramble again, character by character:   *)
(* what is in the wheel stays in it, and what is not stays as it is.       *)
(***************************************************************************)
LEMMA ScrambledReads ==
  ASSUME NEW s \in Seq(Nat), NEW c
  PROVE  Scramble(s, c) \in Seq(Nat) /\ Unscramble(Scramble(s, c), c) = s
<1>1. PICK n \in Nat : n = Len(s)
  OBVIOUS
<1>0. PICK g : ScrambledBy(s, c, g)
  BY ScrambleChained
<1>2. g \in [0..n -> Nat] /\ Scramble(s, c) = [i \in 1..n |-> Turn(s[i], RingAt(i) + g[i - 1])]
  BY <1>0, <1>1 DEF ScrambledBy
<1>3. PICK e : e = Scramble(s, c)
  OBVIOUS
<1>4. ASSUME NEW i \in 1..n
      PROVE  Turns(s[i], RingAt(i) + g[i - 1], e[i])
  <2>1. PICK a \in Nat : a = s[i]
    BY <1>1
  <2>2. PICK b \in Nat : b = RingAt(i) + g[i - 1]
    <3>1. RingAt(i) \in Nat
      BY RingType
    <3>2. g[i - 1] \in Nat
      <4>1. i - 1 \in 0..n
        OBVIOUS
      <4> QED BY <1>2, <4>1
    <3> QED BY <3>1, <3>2
  <2>3. Turns(a, b, Turn(a, b))
    BY TurnsBack
  <2> QED BY <1>2, <1>3, <2>1, <2>2, <2>3
<1>5. e \in Seq(Nat) /\ Len(e) = n
  <2>1. \A i \in 1..n : e[i] \in Nat
    BY <1>4 DEF Turns
  <2>2. e = [i \in 1..n |-> e[i]]
    BY <1>2, <1>3
  <2> QED BY <2>1, <2>2, SMTT(30)
<1>d. PICK d : UnscrambledBy(e, c, d)
  BY <1>5, UnscrambleChained
<1>6. Unscramble(e, c) = [i \in 1..n |-> Turn(e[i], -RingAt(i) - d[i - 1])]
  BY <1>5, <1>d DEF UnscrambledBy
<1>7. \A i \in 0..n : d[i] = g[i]
  <2> DEFINE Q == {k \in Nat : k \in 0..n => d[k] = g[k]}
  <2>0. /\ \A i \in 0..n : g[i] = IF i = 0 \/ ~c THEN 0
             ELSE IF InWheel(s[i]) THEN Turn(s[i], RingAt(i) + g[i - 1]) ELSE g[i - 1]
        /\ \A i \in 0..n : d[i] = IF i = 0 \/ ~c THEN 0 ELSE IF InWheel(e[i]) THEN e[i] ELSE d[i - 1]
    BY <1>0, <1>1, <1>5, <1>d DEF ScrambledBy, UnscrambledBy
  <2>1. 0 \in Q
    BY <2>0
  <2>2. ASSUME NEW k \in Nat, k \in Q PROVE k + 1 \in Q
    <3>1. SUFFICES ASSUME k + 1 \in 0..n PROVE d[k + 1] = g[k + 1]
      OBVIOUS
    <3>2. PICK i \in 1..n : i = k + 1 /\ i - 1 = k
      BY <3>1
    <3>3. d[k] = g[k]
      BY <2>2, <3>1
    <3>4. (InWheel(e[i]) <=> InWheel(s[i])) /\ e[i] = Turn(s[i], RingAt(i) + g[i - 1])
      BY <1>2, <1>3, <1>4 DEF Turns
    <3>5. g[i] = IF ~c THEN 0 ELSE IF InWheel(s[i]) THEN e[i] ELSE g[k]
      BY <2>0, <3>2, <3>4
    <3>6. d[i] = IF ~c THEN 0 ELSE IF InWheel(e[i]) THEN e[i] ELSE d[k]
      BY <2>0, <3>2
    <3> QED BY <3>2, <3>3, <3>4, <3>5, <3>6
  <2> HIDE DEF Q
  <2>3. \A k \in Nat : k \in Q
    BY <2>1, <2>2, NatClosed
  <2> QED BY <2>3 DEF Q
<1>8. ASSUME NEW i \in 1..n
      PROVE  Turn(e[i], -RingAt(i) - d[i - 1]) = s[i]
  <2>1. PICK a \in Nat : a = RingAt(i)
    BY RingType
  <2>2. i - 1 \in 0..n
    OBVIOUS
  <2>3. PICK b \in Nat : b = g[i - 1] /\ b = d[i - 1]
    BY <1>2, <1>7, <2>2
  <2>4. -a - b = -(a + b)
    OBVIOUS
  <2>5. Turn(e[i], -(a + b)) = s[i]
    BY <1>4, <2>1, <2>3 DEF Turns
  <2> QED BY <2>1, <2>3, <2>4, <2>5
<1>9. s = [i \in 1..n |-> s[i]]
  BY <1>1
<1> QED BY <1>3, <1>5, <1>6, <1>8, <1>9

(* unscramble takes the prefix off. *)
LEMMA StoredReads ==
  ASSUME NEW s \in Seq(Nat)
  PROVE  UnscrambleStored(Prefix \o Scramble(s, FALSE)) = s
<1>e. PICK e : e = Scramble(s, FALSE)
  OBVIOUS
<1>1. e \in Seq(Nat)
  BY <1>e, ScrambledReads
<1>u. Unscramble(e, FALSE) = s
  BY <1>e, ScrambledReads
<1>2. PICK n \in Nat : n = Len(e)
  BY <1>1
<1>3. Prefix \in Seq(Nat) /\ Len(Prefix) = 3
  BY DEF Prefix
<1>4. PICK w : w = Prefix \o e /\ Joined(Nat, w, Prefix, e, 3, n)
  BY <1>1, <1>2, <1>3, ConcatJoins
<1>5. w \in Seq(Nat) /\ Len(w) = 3 + n
  BY <1>4 DEF Joined
<1>6. SubSeq(w, 1, 3) = Prefix
  <2>1. Excerpt(Nat, w, 0, 3, SubSeq(w, 0 + 1, 0 + 3))
    BY <1>5, CutAt
  <2>v. PICK v : v = SubSeq(w, 1, 3)
    OBVIOUS
  <2>z. 0 + 1 = 1 /\ 0 + 3 = 3
    OBVIOUS
  <2>0. Excerpt(Nat, w, 0, 3, v)
    BY <2>1, <2>v, <2>z
  <2>2. v \in Seq(Nat) /\ Len(v) = 3 /\ \A i \in 1..3 : v[i] = w[i]
    <3>1. \A i \in 1..3 : 0 + i = i
      OBVIOUS
    <3> QED BY <2>0, <3>1 DEF Excerpt
  <2>3. \A i \in 1..3 : w[i] = Prefix[i]
    BY <1>4 DEF Joined
  <2>4. v = Prefix
    <3>1. Len(v) = Len(Prefix) /\ \A i \in 1..Len(v) : v[i] = Prefix[i]
      BY <1>3, <2>2, <2>3
    <3> QED BY <1>3, <2>2, <3>1, SeqEqual
  <2> QED BY <2>v, <2>4
<1>7. SubSeq(w, 4, Len(w)) = e
  <2>1. Excerpt(Nat, w, 3, n, SubSeq(w, 3 + 1, 3 + n))
    BY <1>5, CutAt
  <2>2. 3 + 1 = 4 /\ 3 + n = Len(w)
    BY <1>5
  <2>v. PICK v : v = SubSeq(w, 4, Len(w))
    OBVIOUS
  <2>3. v \in Seq(Nat) /\ Len(v) = n /\ \A i \in 1..n : v[i] = w[3 + i]
    BY <2>1, <2>2, <2>v DEF Excerpt
  <2>4. \A i \in 1..n : w[3 + i] = e[i]
    BY <1>4 DEF Joined
  <2>5. v = e
    <3>1. Len(v) = Len(e) /\ \A i \in 1..Len(v) : v[i] = e[i]
      BY <1>2, <2>3, <2>4
    <3> QED BY <1>1, <2>3, <3>1, SeqEqual
  <2> QED BY <2>v, <2>5
<1>8. UnscrambleStored(w) = Unscramble(e, FALSE)
  <2>1. Len(w) >= 3
    BY <1>5
  <2> QED BY <1>6, <1>7, <2>1 DEF UnscrambleStored
<1> QED BY <1>e, <1>u, <1>4, <1>8

(* The first characters of a text, all of them if it is short. *)
LEMMA CutTakes ==
  ASSUME NEW s \in Seq(Nat), NEW n \in Nat
  PROVE  \E k \in Nat : /\ k = (IF Len(s) < n THEN Len(s) ELSE n)
                        /\ Excerpt(Nat, s, 0, k, Cut(s, n))
<1>1. PICK k \in Nat : k = IF Len(s) < n THEN Len(s) ELSE n
  OBVIOUS
<1>2. Excerpt(Nat, s, 0, k, SubSeq(s, 0 + 1, 0 + k))
  BY <1>1, CutAt
<1>3. 0 + 1 = 1 /\ 0 + k = k
  OBVIOUS
<1>4. Cut(s, n) = SubSeq(s, 1, k)
  BY <1>1 DEF Cut
<1> QED BY <1>1, <1>2, <1>3, <1>4

(***************************************************************************)
(* The padding comes after the password, and the mark of seven characters  *)
(* before it.                                                              *)
(***************************************************************************)
LEMMA SentReads ==
  ASSUME NEW s \in Seq(Nat), NEW p, p = Cut(s, MaxPasswordLength)
  PROVE  SubSeq(Unscramble(ObfuscateNew(s), TRUE), 8, Len(p) + 7) = p
<1>1. PICK l \in Nat : p \in Seq(Nat) /\ Len(p) = l /\ l <= 50
  <2>1. PICK k \in Nat : /\ k = (IF Len(s) < 50 THEN Len(s) ELSE 50)
                         /\ Excerpt(Nat, s, 0, k, Cut(s, 50))
    <3>1. 50 \in Nat
      OBVIOUS
    <3> QED BY <3>1, CutTakes
  <2>2. p = Cut(s, 50)
    BY DEF MaxPasswordLength
  <2>3. k <= 50
    BY <2>1
  <2>4. p \in Seq(Nat) /\ Len(p) = k
    BY <2>1, <2>2 DEF Excerpt
  <2> QED BY <2>3, <2>4
<1>2. PICK pad \in Seq(Nat) : Padded(s) = p \o pad
  <2>1. PICK n \in Int : n = MaxPasswordLength - 10 - Len(s)
    <3>1. Len(s) \in Nat
      OBVIOUS
    <3>2. 50 - 10 - Len(s) \in Int
      BY <3>1
    <3> QED BY <3>2 DEF MaxPasswordLength
  <2>2. [i \in 1..n |-> 49] \in Seq(Nat) /\ <<>> \in Seq(Nat)
    <3>1. CASE n \in Nat
      BY <3>1
    <3>2. CASE n < 0
      <4>1. 1..n = {}
        BY <3>2
      <4>2. [i \in 1..n |-> 49] = <<>>
        BY <4>1
      <4> QED BY <4>2
    <3> QED BY <3>1, <3>2
  <2>3. PICK t \in Seq(Nat) : t = IF n > 15 THEN [i \in 1..n |-> 49] ELSE <<>>
    BY <2>2
  <2>4. Padded(s) = p \o t
    BY <2>1, <2>3 DEF Padded
  <2> QED BY <2>4
<1>3. PICK q : q = Padded(s)
  OBVIOUS
<1>4. PICK m \in Nat : Joined(Nat, q, p, pad, l, m)
  <2>1. PICK m \in Nat : m = Len(pad)
    OBVIOUS
  <2> QED BY <1>1, <1>2, <1>3, <2>1, ConcatJoins
<1>5. q \in Seq(Nat) /\ Len(q) = l + m /\ \A i \in 1..l : q[i] = p[i]
  BY <1>4 DEF Joined
<1>6. PICK f : f = Cut(q, 150)
  OBVIOUS
<1>7. PICK k \in Nat : l <= k /\ f \in Seq(Nat) /\ Len(f) = k /\ \A i \in 1..k : f[i] = q[0 + i]
  <2>1. PICK k \in Nat : k = (IF Len(q) < 150 THEN Len(q) ELSE 150) /\ Excerpt(Nat, q, 0, k, Cut(q, 150))
    BY <1>5, CutTakes, ZenonT(60)
  <2>2. l <= k
    BY <1>1, <1>5, <2>1
  <2> QED BY <1>6, <2>1, <2>2, ZenonT(60) DEF Excerpt
<1>8. PICK h : h = <<90>> \o V2Mark
  OBVIOUS
<1>9. h \in Seq(Nat) /\ Len(h) = 7
  BY <1>8 DEF V2Mark
<1>10. PICK w : w = h \o f /\ Joined(Nat, w, h, f, 7, k)
  BY <1>7, <1>9, ConcatJoins
<1>11. w \in Seq(Nat) /\ Len(w) = 7 + k
  BY <1>10 DEF Joined
<1>12. Unscramble(ObfuscateNew(s), TRUE) = w
  <2>1. ObfuscateNew(s) = Scramble(w, TRUE)
    BY <1>3, <1>6, <1>8, <1>10 DEF ObfuscateNew
  <2> QED BY <1>11, <2>1, ScrambledReads
<1>13. Excerpt(Nat, w, 7, l, SubSeq(w, 7 + 1, 7 + l))
  BY <1>7, <1>11, CutAt
<1>14. 7 + 1 = 8 /\ 7 + l = Len(p) + 7
  BY <1>1
<1>15. PICK v : /\ v = SubSeq(w, 8, Len(p) + 7) /\ v \in Seq(Nat) /\ Len(v) = l
                /\ \A i \in 1..l : v[i] = w[7 + i]
  BY <1>13, <1>14 DEF Excerpt
<1>16. ASSUME NEW i \in 1..l
       PROVE  v[i] = p[i]
  <2>1. i \in 1..k /\ 0 + i = i
    BY <1>7
  <2>2. w[7 + i] = f[i]
    BY <1>10, <2>1 DEF Joined
  <2>3. f[i] = q[i]
    BY <1>7, <2>1
  <2> QED BY <1>5, <1>15, <2>2, <2>3
<1>17. v = p
  BY <1>1, <1>15, <1>16
<1> QED BY <1>12, <1>15, <1>17

(* What the password has become. *)
ObfInv ==
  /\ plain \in Seq(Nat) /\ salt \in Nat
  /\ form = "encoded" => text = Encode(plain, salt)
  /\ form = "stored" => text = Prefix \o Scramble(plain, FALSE)
  /\ form = "sent" => text = ObfuscateNew(plain)
  /\ ReadBack

(* At first the password is plain. *)
LEMMA ObfInvInit == ObfInit => ObfInv
<1> SUFFICES ASSUME ObfInit PROVE ObfInv
  OBVIOUS
<1>1. plain \in Seq(Nat) /\ salt \in Nat
  <2>1. PICK S : S = 0..255
    OBVIOUS
  <2>2. plain \in Seq(S) /\ salt \in Nat
    BY <2>1, ObfuscationAssumption DEF ObfInit
  <2>3. S \subseteq Nat
    BY <2>1
  <2> QED BY <2>2, <2>3, SeqMonotonic
<1> QED BY <1>1 DEF ObfInit, ObfInv, ReadBack

(* Each encoding of a password is read back by the decoding that belongs to *)
(* it.                                                                      *)
LEMMA ObfInvNext == ObfInv /\ [ObfNext]_obfVars => ObfInv'
<1> SUFFICES ASSUME ObfInv, [ObfNext]_obfVars PROVE ObfInv'
  OBVIOUS
<1>0. plain \in Seq(Nat) /\ salt \in Nat
  BY DEF ObfInv
<1>1. PICK s \in Seq(Nat) : s = plain
  BY <1>0
<1>2. PICK v \in Nat : v = salt
  BY <1>0
<1>3. Decode(Encode(s, v), v) = UpToNul(s)
  BY EncodedDecodes
<1>4. UnscrambleStored(Prefix \o Scramble(s, FALSE)) = s
  BY StoredReads
<1>5. LET p == Cut(s, MaxPasswordLength) IN
        SubSeq(Unscramble(ObfuscateNew(s), TRUE), 8, Len(p) + 7) = p
  BY SentReads
<1>6. CASE UNCHANGED obfVars
  BY <1>6 DEF obfVars, ObfInv, ReadBack
<1>7. CASE EncodeFile \/ ScrambleStored \/ SendNew
  BY <1>7 DEF EncodeFile, ScrambleStored, SendNew, Became, ObfInv, ReadBack
<1>8. CASE DecodeFile
  BY <1>1, <1>2, <1>3, <1>8 DEF DecodeFile, Became, ObfInv, ReadBack
<1>9. CASE ReadStored
  BY <1>1, <1>4, <1>9 DEF ReadStored, Became, ObfInv, ReadBack
<1>10. CASE ServerReads
  BY <1>1, <1>5, <1>10 DEF ServerReads, Became, ObfInv, ReadBack
<1> QED BY <1>6, <1>7, <1>8, <1>9, <1>10 DEF ObfNext

(***************************************************************************)
(* ReadBack, for every password, user and encoder ring: decode gives back  *)
(* what encode was given up to a NUL, unscramble what scramble was given,  *)
(* and the server finds the new password behind the mark                   *)
(* (password_obfuscation.py).                                              *)
(***************************************************************************)
THEOREM PasswordsReadBack == ObfSpec => []ReadBack
<1>1. ObfInv => ReadBack
  BY DEF ObfInv
<1> QED BY <1>1, ObfInvInit, ObfInvNext, PTL DEF ObfSpec
=============================================================================
