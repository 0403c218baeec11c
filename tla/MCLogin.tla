------------------------------ MODULE MCLogin ------------------------------
(***************************************************************************)
(* What a client does before its first request: it loads its settings,     *)
(* decodes the password and logs in.  The three share no state (Login      *)
(* takes the settings and the decoded password as given), so a behaviour   *)
(* follows one of them, its focus, and the other two rest.                 *)
(***************************************************************************)
EXTENDS Login, Settings, Obfuscation, TLC

VARIABLE focus
allVars == <<focus, loginVars, settingsVars, obfVars>>

LoginAccounts ==
  {a \in AccountType :
     /\ a.inline \/ a.env
     /\ a.scheme \in {"native", "gsi"} =>
          ~a.force /\ ~a.mem /\ ~a.store /\ a.renew = "" /\ a.goal = "connect" /\ a.checkTls
     /\ a.plugin => a.renew = "" /\ ~a.store
     /\ ~a.plugin => ~a.force /\ ~a.mem /\ a.checkTls
     /\ a.goal # "connect" => IF a.plugin THEN a.force /\ a.mem ELSE a.renew = "None" /\ ~a.store
     /\ a.scheme # "pam_password" => a.checkTls}

NoEnv == [s \in Known |-> "none"]
MCEnvs == {NoEnv, [NoEnv EXCEPT !["limit"] = "B", !["parser"] = "bad"]}
MCLines ==
  {<<>>, <<<<"slot", "bad">>, <<"limit", "bad">>, <<"limit", "B">>, <<"unknown", "A">>, <<"parser", "B">>>>}
MCEntryLists ==
  {<<<<"slot", "B">>, <<"limit", "B">>>>, <<<<"parser", "B">>, <<"limit", "bad">>>>,
   <<<<"slot", "B">>, <<"unknown", "A">>>>, <<<<"slot", "A">>, <<"slot", "B">>>>}

MCRing == [i \in 1..64 |-> (37 * i + 11) % 256]
MCTexts ==
  UNION {[1..n -> {48, 47, 0, 32}] : n \in 0..3}
    \cup {[i \in 1..n |-> 33 + ((i * 7) % 90)] : n \in {24, 25, 40, 50, 51, 70}}

(* A component at rest: one of its initial states, and an ended login. *)
LoginAtRest ==
  /\ acct = CHOOSE a \in Accounts : TRUE
  /\ srvPolicy = "any" /\ valid = {} /\ pc = "failed" /\ sock = "none" /\ accepted = FALSE /\ wire = {}
  /\ password = "" /\ depot = "" /\ inFile = FALSE /\ result = "" /\ using = ""
  /\ file = "absent" /\ writer = FALSE
SettingsAtRest == SettingsInit /\ env = NoEnv /\ confFile = <<>> /\ ~fatal
ObfuscationAtRest == ObfInit /\ plain = <<>> /\ salt = 0

MCInit ==
  \/ focus = "login" /\ LoginInit /\ SettingsAtRest /\ ObfuscationAtRest
  \/ focus = "settings" /\ SettingsInit /\ LoginAtRest /\ ObfuscationAtRest
  \/ focus = "passwords" /\ ObfInit /\ LoginAtRest /\ SettingsAtRest

MCNext ==
  \/ focus = "login" /\ LoginNext /\ UNCHANGED <<focus, settingsVars, obfVars>>
  \/ focus = "settings" /\ SettingsNext /\ UNCHANGED <<focus, loginVars, obfVars>>
  \/ focus = "passwords" /\ ObfNext /\ UNCHANGED <<focus, loginVars, settingsVars>>

MCSpec == MCInit /\ [][MCNext]_allVars
=============================================================================
