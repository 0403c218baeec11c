------------------------------- MODULE Login -------------------------------
(***************************************************************************)
(* One connection of a session from the configuration of its account to    *)
(* the end of authentication: Connection.__init__ and _connect             *)
(* (connection.py), the decision table of client_server_negotiation.py,    *)
(* the plugins of auth/, the legacy logins of connection.py, and the       *)
(* functions of client_init.py that log in to write an .irodsA file.       *)
(* Another process may rewrite the same .irodsA file meanwhile.            *)
(*                                                                         *)
(* A password is one of: "own", what the user types or gives to the        *)
(* session; "kept", what .irodsA holds at first; "issued", the token a PAM *)
(* login obtains; "other", what the other process writes; or "".           *)
(***************************************************************************)
CONSTANTS Accounts   \* the accounts and options to log in with

VARIABLES
  acct,      \* the account, the options and the purpose of this login
  srvPolicy, \* the server's negotiation policy
  valid,     \* passwords the server accepts in a native login
  pc,        \* where the login is
  sock,      \* "none", "plain" or "tls"
  accepted,  \* the server has authenticated this connection
  wire,      \* history: <<password, socket>> for passwords sent as they are
  password,  \* account.password
  depot,     \* AuthStorage.pw
  inFile,    \* AuthStorage.auth_file is not empty
  result,    \* the list for CLIENT_GET_REQUEST_RESULT, or account.store_pw
  using,     \* the password that answers the challenge
  file,      \* what .irodsA holds; "absent" and "empty" too
  writer     \* the other process: it is between open(.., "w") and write

netVars == <<sock, accepted, wire>>
pwVars == <<password, depot, inFile, result, using>>
envVars == <<acct, srvPolicy, valid>>
fileVars == <<file, writer>>
loginVars == <<envVars, pc, netVars, pwVars, fileVars>>

Passwords == {"", "own", "kept", "issued", "other"}
Ended == {"in", "done", "failed"}
PamSchemes == {"pam", "pam_password", "pam_interactive"}

AccountType ==
  [scheme : PamSchemes \cup {"native", "gsi"},
   inline : BOOLEAN,     \* a password was given to the session
   env : BOOLEAN,        \* irods_env_file was given: derived_auth_file is set
   policy : {"none", "ssl", "tcp"},  \* "none": no negotiation requested
   plugin : BOOLEAN,     \* server 4.3 or later and no force_legacy_auth
   force : BOOLEAN,      \* FORCE_PASSWORD_PROMPT
   mem : BOOLEAN,        \* STORE_PASSWORD_IN_MEMORY
   checkTls : BOOLEAN,   \* ENSURE_SSL_IS_ACTIVE
   renew : {"None", "", "own"},  \* legacy_auth.pam.password_for_auto_renew
   store : BOOLEAN,      \* legacy_auth.pam.store_password_to_environment
   goal : {"connect", "write", "overwrite"}]  \* connect, or write an .irodsA file

ASSUME AccountsAssumption == Accounts \subseteq AccountType

LoginInit ==
  /\ acct \in Accounts
  /\ srvPolicy \in {"ssl", "tcp", "any"}
  /\ valid \in {v \cup {"other"} : v \in SUBSET {"own", "kept"}}
  /\ pc = "configure" /\ sock = "none" /\ accepted = FALSE /\ wire = {}
  /\ password = "" /\ depot = "" /\ inFile = FALSE /\ result = "" /\ using = ""
  /\ file \in {"absent", "kept"} /\ writer = FALSE

(* Moves of pc with the state they leave alone. *)
Goto(p) == pc' = p
Raise == pc' = "failed"
OnlyNet == UNCHANGED <<envVars, pwVars, fileVars>>

-----------------------------------------------------------------------------
(* The account *)

(***************************************************************************)
(* With an environment file the native scheme takes the password from      *)
(* .irodsA whatever was given; a PAM scheme does when none was given.      *)
(***************************************************************************)
FromFile ==
  acct.env /\ (acct.scheme = "native" \/ (acct.scheme \in PamSchemes /\ ~acct.inline))
AuthFile == FromFile /\ password # ""

(***************************************************************************)
(* get_irods_password: no file is no password; in a file that has just     *)
(* been truncated decode() finds no seventh character and raises.          *)
(***************************************************************************)
Readable == file # "empty"
Decoded == IF file = "absent" THEN "" ELSE file

(***************************************************************************)
(* _configure_account.  write_pam_credentials_to_secrets_file replaces the *)
(* password of the account by the one it is given; its relatives refuse an *)
(* account without a derived_auth_file before they connect.                *)
(***************************************************************************)
NowhereToWrite == acct.goal # "connect" /\ acct.plugin /\ ~acct.env

Configure ==
  /\ pc = "configure"
  /\ IF (FromFile /\ ~Readable) \/ NowhereToWrite THEN Raise /\ UNCHANGED password
     ELSE /\ password' = IF acct.goal # "connect" /\ ~acct.plugin THEN "own"
                         ELSE IF FromFile THEN Decoded
                         ELSE IF acct.inline THEN "own" ELSE ""
          /\ IF FromFile /\ acct.scheme = "native" /\ file = "absent"
             THEN Raise ELSE Goto("connect")
  /\ UNCHANGED <<envVars, netVars, depot, inFile, result, using, fileVars>>

(***************************************************************************)
(* A session that has an idle connection lends it without a login: the     *)
(* list the token was to be put in stays empty.                            *)
(***************************************************************************)
NoLoginNeeded ==
  /\ pc = "connect" /\ acct.goal # "connect" /\ using = ""
  /\ Raise /\ UNCHANGED <<envVars, netVars, pwVars, fileVars>>

-----------------------------------------------------------------------------
(* _connect *)

(* A mutation of Negotiated. *)
Negotiated_ClientOnly(client, server) == IF client = "ssl" THEN "tls" ELSE "plain"

Negotiated(client, server) ==
  IF "ssl" \in {client, server}
  THEN IF "tcp" \in {client, server} THEN "failure" ELSE "tls"
  ELSE "plain"

(* A mutation of AfterConnect. *)
AfterConnect_Again == "login"

(***************************************************************************)
(* _connect is called by __init__, which goes on with the login, and by    *)
(* _login_pam, which has its token then.                                   *)
(***************************************************************************)
AfterConnect == IF using = "" THEN "login" ELSE "legacy_token"

(***************************************************************************)
(* The socket, the startup pack, the server's policy and the result of the *)
(* negotiation.  A socket that is to use TLS is still plain when the       *)
(* version arrives; ssl_startup is the next step.                          *)
(***************************************************************************)
Connect ==
  /\ pc = "connect"
  /\ accepted' = FALSE
  /\ LET r == IF acct.policy = "none" THEN "plain" ELSE Negotiated(acct.policy, srvPolicy) IN
     \/ sock' = "none" /\ Raise
     \/ r # "failure" /\ sock' = "plain" /\ Goto(IF r = "tls" THEN "tls" ELSE AfterConnect)
  /\ UNCHANGED wire /\ OnlyNet

SslStartup ==
  /\ pc = "tls"
  /\ \/ sock' = "tls" /\ Goto(AfterConnect)
     \/ Raise /\ UNCHANGED sock
  /\ UNCHANGED <<accepted, wire>> /\ OnlyNet

(* A request whose send or recv fails: the connection is given up. *)
Requests == {"native", "response", "pp_request", "pi_request", "pi", "gsi",
             "gsi_response", "legacy_try", "legacy_native", "legacy_request"}

NetFails ==
  /\ pc \in Requests
  /\ sock' = "none" /\ Raise
  /\ UNCHANGED <<accepted, wire>> /\ OnlyNet

-----------------------------------------------------------------------------
(***************************************************************************)
(* The rest of Connection.__init__: the plugin of the scheme or the legacy *)
(* login.  "pam" has a plugin that refuses, "gsi" has none.                *)
(***************************************************************************)
PluginEntry ==
  CASE acct.scheme = "native" -> "native"
    [] acct.scheme = "pam_password" -> "pp_start"
    [] acct.scheme = "pam_interactive" -> "pi_start"
    [] OTHER -> "failed"

LegacyEntry ==
  CASE acct.scheme = "native" -> "legacy_native"
    [] acct.scheme = "gsi" -> "gsi"
    [] OTHER -> "legacy_pam"

StartLogin ==
  /\ pc = "login"
  /\ Goto(IF acct.plugin THEN PluginEntry ELSE LegacyEntry)
  /\ inFile' = (acct.plugin /\ acct.env /\ acct.scheme # "native")
  /\ using' = IF acct.plugin THEN "" ELSE password
  /\ UNCHANGED <<envVars, netVars, password, depot, result, fileVars>>

(***************************************************************************)
(* The native plugin: the challenge, the password that answers it, and the *)
(* server's verdict.  The password of the depot goes before the account's. *)
(***************************************************************************)
NativeRequest ==
  /\ pc = "native"
  /\ Goto("context") /\ UNCHANGED netVars /\ OnlyNet

EstablishContext ==
  /\ pc = "context"
  /\ IF inFile /\ ~Readable THEN Raise /\ UNCHANGED using
     ELSE /\ LET p == IF inFile THEN Decoded ELSE depot IN
             using' = IF p # "" THEN p ELSE password
          /\ Goto("response")
  /\ UNCHANGED <<envVars, netVars, password, depot, inFile, result, fileVars>>

NativeResponse ==
  /\ pc = "response"
  /\ IF using \in valid THEN accepted' = TRUE /\ Goto("in")
     ELSE Raise /\ UNCHANGED accepted
  /\ UNCHANGED <<sock, wire>> /\ OnlyNet

-----------------------------------------------------------------------------
(* A mutation of StoreInMemory. *)
StoreInMemory_Late == ~inFile

(***************************************************************************)
(* AuthStorage.store_pw of the token: into the file, which is truncated    *)
(* first, or into memory.  The caller's list gets it too, if there is one. *)
(***************************************************************************)
StoreInMemory == acct.mem \/ ~inFile

StoreToken ==
  /\ IF StoreInMemory
     THEN depot' = "issued" /\ inFile' = FALSE /\ Goto("native") /\ UNCHANGED file
     ELSE file' = "empty" /\ Goto("store") /\ UNCHANGED <<depot, inFile>>
  /\ result' = IF acct.goal # "connect" THEN "issued" ELSE result
  /\ valid' = valid \cup {"issued"}

StoreWrites ==
  /\ pc = "store"
  /\ \/ file' = "issued" /\ Goto("native")
     \/ Raise /\ UNCHANGED file
  /\ UNCHANGED <<envVars, netVars, pwVars, writer>>

(* A mutation of PlainRefused. *)
PlainRefused_Never == FALSE

(***************************************************************************)
(* The pam_password plugin: TLS is checked first; a password is prompted   *)
(* for, or .irodsA is used as it is, or the account's password is sent.    *)
(***************************************************************************)
PlainRefused == acct.checkTls /\ sock # "tls"

PamPasswordStart ==
  /\ pc = "pp_start"
  /\ IF PlainRefused THEN Raise /\ UNCHANGED using
     ELSE IF ~acct.force /\ AuthFile THEN Goto("native") /\ UNCHANGED using
     ELSE Goto("pp_request") /\ using' = IF acct.force THEN "own" ELSE password
  /\ UNCHANGED <<envVars, netVars, password, depot, inFile, result, fileVars>>

PamPasswordRequest ==
  /\ pc = "pp_request"
  /\ wire' = wire \cup {<<using, sock>>}
  /\ IF using = "own" THEN StoreToken
     ELSE Raise /\ UNCHANGED <<valid, depot, inFile, result, file>>
  /\ UNCHANGED <<acct, srvPolicy, sock, accepted, password, using, writer>>

-----------------------------------------------------------------------------
(***************************************************************************)
(* The pam_interactive plugin: after the first request the server names    *)
(* the client's next operation, and authenticate_client calls it.          *)
(***************************************************************************)
InteractiveStart ==
  /\ pc = "pi_start"
  /\ Goto(IF ~acct.force /\ password # "" /\ acct.env THEN "native" ELSE "pi_request")
  /\ UNCHANGED netVars /\ OnlyNet

InteractiveRequest ==
  /\ pc = "pi_request"
  /\ Goto("pi") /\ UNCHANGED netVars /\ OnlyNet

(* waiting, waiting_pw: what was typed, or kept in pstate, is sent. *)
Answer ==
  /\ pc = "pi"
  /\ wire' = wire \cup {<<"own", sock>>}
  /\ UNCHANGED <<pc, sock, accepted>> /\ OnlyNet

(* authenticated: the token is stored for the native login. *)
Authenticated ==
  /\ pc = "pi"
  /\ StoreToken
  /\ UNCHANGED <<acct, srvPolicy, netVars, password, using, writer>>

NativeAuth ==
  /\ pc = "pi"
  /\ Goto("native") /\ UNCHANGED netVars /\ OnlyNet

(* A mutation of FlowStopped. *)
FlowStopped_TakenForSuccess ==
  /\ pc = "pi"
  /\ Goto("in") /\ UNCHANGED netVars /\ OnlyNet

(***************************************************************************)
(* error, timeout and not_authenticated end the flow with loggedIn = 0; no *)
(* operation, an empty or an unknown one raise.  All leave the loop of     *)
(* authenticate_client with an exception.                                  *)
(***************************************************************************)
FlowStopped ==
  /\ pc = "pi"
  /\ Raise /\ UNCHANGED netVars /\ OnlyNet

-----------------------------------------------------------------------------
(* The legacy logins of connection.py *)

(***************************************************************************)
(* GSI: tokens both ways, as often as the context asks for one, then the   *)
(* verdict.                                                                *)
(***************************************************************************)
GsiToken ==
  /\ pc = "gsi"
  /\ pc' \in {"gsi", "gsi_response"}
  /\ UNCHANGED netVars /\ OnlyNet

GsiResponse ==
  /\ pc = "gsi_response"
  /\ accepted' = TRUE /\ Goto("in")
  /\ UNCHANGED <<sock, wire>> /\ OnlyNet

(***************************************************************************)
(* _login_pam: a password from .irodsA is tried first, if renewing it is   *)
(* configured at all; then the PAM password goes to the server in exchange *)
(* for a token, and the token is used over a new socket.                   *)
(***************************************************************************)
LegacyPam ==
  /\ pc = "legacy_pam"
  /\ Goto(IF FromFile /\ acct.renew # "None" THEN "legacy_try" ELSE "legacy_request")
  /\ UNCHANGED netVars /\ OnlyNet

LegacyTry ==
  /\ pc = "legacy_try"
  /\ IF using \in valid
     THEN accepted' = TRUE /\ Goto("in") /\ UNCHANGED using
     ELSE /\ UNCHANGED accepted
          /\ IF acct.renew = "" THEN Raise /\ UNCHANGED using
             ELSE Goto("legacy_request") /\ using' = acct.renew
  /\ UNCHANGED <<envVars, sock, wire, password, depot, inFile, result, fileVars>>

LegacyRequest ==
  /\ pc = "legacy_request"
  /\ IF sock = "plain" THEN Raise /\ UNCHANGED <<valid, using, sock, wire>>
     ELSE /\ wire' = wire \cup {<<using, sock>>}
          /\ IF using = "own"
             THEN /\ valid' = valid \cup {"issued"} /\ using' = "issued"
                  /\ sock' = "none" /\ Goto("connect")
             ELSE Raise /\ UNCHANGED <<valid, using, sock>>
  /\ UNCHANGED <<acct, srvPolicy, accepted, password, depot, inFile, result, fileVars>>

(* Over the new socket: the token for account.store_pw, if there is one. *)
LegacyToken ==
  /\ pc = "legacy_token"
  /\ result' = IF acct.goal # "connect" THEN using ELSE result
  /\ Goto("legacy_native")
  /\ UNCHANGED <<envVars, netVars, password, depot, inFile, using, fileVars>>

(* _login_native, and the token into the file when that is configured. *)
LegacyNative ==
  /\ pc = "legacy_native"
  /\ IF using \in valid
     THEN /\ accepted' = TRUE
          /\ IF acct.scheme # "native" /\ acct.store /\ (AuthFile \/ acct.env)
             THEN file' = "empty" /\ Goto("legacy_store")
             ELSE UNCHANGED file /\ Goto("in")
     ELSE Raise /\ UNCHANGED <<accepted, file>>
  /\ UNCHANGED <<envVars, sock, wire, pwVars, writer>>

LegacyStore ==
  /\ pc = "legacy_store"
  /\ file' = "issued" /\ Goto("in")
  /\ UNCHANGED <<envVars, netVars, pwVars, writer>>

-----------------------------------------------------------------------------
(***************************************************************************)
(* write_pam_irodsA_file and its relatives: with the connection in hand,   *)
(* the token is encoded into the file of the environment.  Looking whether *)
(* the file exists, truncating it and writing it are three steps.          *)
(***************************************************************************)
WriteCheck ==
  /\ pc = "in" /\ acct.goal # "connect"
  /\ Goto(IF ~acct.env \/ result = "" \/ (acct.goal = "write" /\ file # "absent")
          THEN "failed" ELSE "write_open")
  /\ UNCHANGED netVars /\ OnlyNet

WriteOpen ==
  /\ pc = "write_open"
  /\ file' = "empty" /\ Goto("write_text")
  /\ UNCHANGED <<envVars, netVars, pwVars, writer>>

WriteText ==
  /\ pc = "write_text"
  /\ file' = result /\ Goto("done")
  /\ UNCHANGED <<envVars, netVars, pwVars, writer>>

(* write_native_irodsA_file in another process, once. *)
OtherOpens ==
  /\ acct.env /\ ~writer /\ file \in {"absent", "kept", "issued"}
  /\ file' = "empty" /\ writer' = TRUE
  /\ UNCHANGED <<envVars, pc, netVars, pwVars>>

OtherWrites ==
  /\ writer
  /\ file' = "other" /\ writer' = FALSE
  /\ UNCHANGED <<envVars, pc, netVars, pwVars>>

LoginStep ==
  \/ Configure \/ NoLoginNeeded \/ Connect \/ SslStartup \/ NetFails \/ StartLogin
  \/ NativeRequest \/ EstablishContext \/ NativeResponse \/ StoreWrites
  \/ PamPasswordStart \/ PamPasswordRequest
  \/ InteractiveStart \/ InteractiveRequest \/ Answer \/ Authenticated \/ NativeAuth
  \/ FlowStopped
  \/ GsiToken \/ GsiResponse \/ LegacyPam \/ LegacyTry \/ LegacyRequest \/ LegacyToken
  \/ LegacyNative \/ LegacyStore \/ WriteCheck \/ WriteOpen \/ WriteText

LoginNext == LoginStep \/ OtherOpens \/ OtherWrites

LoginSpec == LoginInit /\ [][LoginNext]_loginVars

-----------------------------------------------------------------------------
(* Properties *)

LoginPcs == Requests \cup Ended \cup
  {"configure", "connect", "tls", "login", "context", "store", "pp_start", "pi_start",
   "legacy_pam", "legacy_token", "legacy_store", "write_open", "write_text"}

LoginTypeOK ==
  /\ acct \in Accounts /\ srvPolicy \in {"ssl", "tcp", "any"}
  /\ valid \subseteq Passwords /\ wire \subseteq Passwords \X {"plain", "tls"}
  /\ pc \in LoginPcs /\ sock \in {"none", "plain", "tls"} /\ accepted \in BOOLEAN
  /\ password \in Passwords /\ using \in Passwords /\ depot \in {"", "issued"}
  /\ result \in {"", "issued"} /\ inFile \in BOOLEAN
  /\ file \in {"absent", "empty", "kept", "issued", "other"} /\ writer \in BOOLEAN

(***************************************************************************)
(* Once the login proper begins, the kind of socket is the one both        *)
(* policies ask for, on the second connection of a legacy PAM login too    *)
(* (perform_negotiation and _connect).                                     *)
(***************************************************************************)
PolicyRespected ==
  pc \notin {"configure", "connect", "tls", "failed"} =>
    /\ acct.policy = "ssl" => sock = "tls"
    /\ acct.policy # "none" /\ srvPolicy = "ssl" => sock = "tls"
    /\ acct.policy \in {"none", "tcp"} => sock = "plain"

(***************************************************************************)
(* A login that ends without an exception left a connection the server has *)
(* accepted, whichever plugin or legacy path it took and whatever          *)
(* operations the server named (authenticate_client).                      *)
(***************************************************************************)
LoggedInAccepted ==
  pc \in {"in", "done", "legacy_store", "write_open", "write_text"} =>
    accepted /\ sock # "none"

(***************************************************************************)
(* A password for PAM travels inside TLS, in the pam_password plugin       *)
(* unless ENSURE_SSL_IS_ACTIVE is set to false, and in _login_pam.         *)
(***************************************************************************)
SecretInTls ==
  acct.scheme \in {"pam", "pam_password"} /\ (acct.plugin => acct.checkTls) =>
    \A w \in wire : w[2] = "tls"

(***************************************************************************)
(* With STORE_PASSWORD_IN_MEMORY, or without an environment, a plugin that *)
(* has a token answers the challenge with this token and no other          *)
(* password, and leaves .irodsA alone until the login is over ("preserves  *)
(* the current environment", auth/pam_password.py).                        *)
(***************************************************************************)
DepotIsolated ==
  [][acct.plugin /\ (acct.mem \/ ~acct.env) =>
       /\ pc \notin {"in", "write_open", "write_text"} /\ writer' = writer => file' = file
       /\ pc = "context" /\ pc' = "response" /\ depot # "" => using' = depot]_loginVars

(***************************************************************************)
(* Once the server has issued a token, no password goes to it again: what  *)
(* is left of the login is the answer to one challenge, in _login_pam over *)
(* a new socket, and a connection that is accepted was accepted for the    *)
(* token.  A plugin that keeps the token in .irodsA reads it back from     *)
(* there, so that it may find what another process has written.            *)
(***************************************************************************)
TokenOnce ==
  "issued" \in valid =>
    /\ pc \notin {"login", "pp_start", "pp_request", "pi_start", "pi_request", "pi",
                 "legacy_pam", "legacy_try", "legacy_request"}
    /\ accepted => using = "issued" \/ (acct.plugin /\ inFile /\ using = "other")
=============================================================================
