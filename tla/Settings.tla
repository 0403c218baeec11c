------------------------------ MODULE Settings ------------------------------
(***************************************************************************)
(* The settings of the client: autoload of the configuration file and the  *)
(* environment, and the with-blocks that change settings for a while:      *)
(* loadlines (client_configuration/__init__.py), which is global to the    *)
(* process, and xml_mode (helpers/__init__.py), which belongs to a thread. *)
(***************************************************************************)
EXTENDS Naturals, Sequences, SequencesExt

CONSTANTS Threads,    \* threads that open with-blocks
          Lines,      \* contents of a configuration file
          Envs,       \* settings given in the environment
          EntryLists, \* the entries a loadlines block may be given
          MaxDepth,   \* bound on the blocks one thread nests
          MaxBlocks   \* bound on the blocks opened in all

(***************************************************************************)
(* Settings of three kinds: a slot takes any value; irods_query_limit and  *)
(* xml_parser_default are properties whose setter refuses some values,     *)
(* here "bad"; "unknown" is a name no category has.                        *)
(***************************************************************************)
Known == {"slot", "limit", "parser"}
Values == {"A", "B", "bad"}
Entry == (Known \cup {"unknown"}) \X Values
Environment == [Known -> {"none"} \cup Values]
Accepts(e) == e[1] \in Known /\ (e[2] = "bad" => e[1] = "slot")

ASSUME SettingsAssumption ==
  /\ Threads # {}
  /\ Lines \subseteq Seq(Entry) /\ Envs \subseteq Environment
  /\ EntryLists \subseteq Seq(Entry)
  /\ MaxDepth \in Nat /\ MaxBlocks \in Nat

VARIABLES
  env,       \* settings given in the environment: setting -> value or "none"
  confFile,  \* lines of the configuration file
  fatal,     \* PYTHON_IRODSCLIENT_CONFIGURATION_LOAD_ERRORS_FATAL
  value,     \* the current value of each setting
  local,     \* _thrlocal.xml_type of each thread, or "unset"
  stack,     \* the blocks of each thread that are open, innermost last
  at,        \* "start", then where each thread is: "body", "read", "assign", "restore"
  todo,      \* entries each thread has still to load or to restore
  opened,    \* blocks opened so far
  crossed    \* history: settings two blocks saved otherwise than nested

confVars == <<env, confFile, fatal>>
settingsVars == <<confVars, value, local, stack, at, todo, opened, crossed>>

LinesBlock == [kind |-> "lines", saved |-> <<>>]
XmlBlock(p) == [kind |-> "xml", parser |-> p, inner |-> FALSE]

SettingsInit ==
  /\ env \in Envs /\ confFile \in Lines /\ fatal \in BOOLEAN
  /\ value = [s \in Known |-> "A"]
  /\ local = [t \in Threads |-> "unset"] /\ stack = [t \in Threads |-> <<>>]
  /\ at = [t \in Threads |-> "start"] /\ todo = [t \in Threads |-> <<>>]
  /\ opened = 0 /\ crossed = {}

-----------------------------------------------------------------------------
(***************************************************************************)
(* autoload, when the package is imported: the lines of the file in order, *)
(* then the environment.  A bad line is logged; if load errors are fatal   *)
(* the import fails, and no thread runs.                                   *)
(***************************************************************************)
Loaded(v, e) == IF Accepts(e) THEN [v EXCEPT ![e[1]] = e[2]] ELSE v

EnvLines == LET given == {s \in Known : env[s] # "none"} IN
  [i \in 1..Len(SetToSeq(given)) |-> <<SetToSeq(given)[i], env[SetToSeq(given)[i]]>>]
AllLines == confFile \o EnvLines

Autoload ==
  /\ \A t \in Threads : at[t] = "start"
  /\ fatal => \A i \in 1..Len(AllLines) : Accepts(AllLines[i])
  /\ value' = FoldLeft(Loaded, value, AllLines)
  /\ at' = [t \in Threads |-> "body"]
  /\ UNCHANGED <<confVars, local, stack, todo, opened, crossed>>

-----------------------------------------------------------------------------
(* loadlines *)

Push(t, b) == stack' = [stack EXCEPT ![t] = Append(@, b)]
Top(t) == Last(stack[t])
MayOpen(t) == at[t] = "body" /\ Len(stack[t]) < MaxDepth /\ opened < MaxBlocks

EnterLines(t) ==
  /\ MayOpen(t)
  /\ \E es \in EntryLists : todo' = [todo EXCEPT ![t] = es]
  /\ Push(t, LinesBlock) /\ at' = [at EXCEPT ![t] = "read"]
  /\ opened' = opened + 1
  /\ UNCHANGED <<confVars, value, local, crossed>>

(* The finally clause: what was saved is restored in the order of loading. *)
Restores(t, saved) == at' = [at EXCEPT ![t] = "restore"] /\ todo' = [todo EXCEPT ![t] = saved]
SavedBy(b) == IF b.kind = "lines" THEN {b.saved[i][1] : i \in 1..Len(b.saved)} ELSE {}
OpenElsewhere(t, s) ==
  \/ \E u \in Threads \ {t} : \E i \in 1..Len(stack[u]) : s \in SavedBy(stack[u][i])
  \/ s \in SavedBy(Top(t))

(***************************************************************************)
(* _load_config_line reads the old value, for the block to restore, and    *)
(* then assigns.  An unknown name leaves no old value: L[0] raises.        *)
(***************************************************************************)
ReadOld(t) ==
  /\ at[t] = "read" /\ todo[t] # <<>>
  /\ LET s == Head(todo[t])[1] IN
     IF s \notin Known
     THEN Restores(t, Top(t).saved) /\ UNCHANGED <<stack, crossed>>
     ELSE /\ stack' = [stack EXCEPT ![t][Len(stack[t])].saved = Append(@, <<s, value[s]>>)]
          /\ at' = [at EXCEPT ![t] = "assign"] /\ UNCHANGED todo
          /\ crossed' = IF OpenElsewhere(t, s) THEN crossed \cup {s} ELSE crossed
  /\ UNCHANGED <<confVars, value, local, opened>>

(* When the setter refuses and load errors are fatal, the entry is not in *)
(* the list of those to restore: it was not changed.                       *)
Assign(t) ==
  /\ at[t] = "assign"
  /\ value' = Loaded(value, Head(todo[t]))
  /\ IF fatal /\ ~Accepts(Head(todo[t]))
     THEN Restores(t, Front(Top(t).saved))
     ELSE at' = [at EXCEPT ![t] = "read"] /\ todo' = [todo EXCEPT ![t] = Tail(@)]
  /\ UNCHANGED <<confVars, local, stack, opened, crossed>>

EnterBody(t) ==
  /\ at[t] = "read" /\ todo[t] = <<>>
  /\ at' = [at EXCEPT ![t] = "body"]
  /\ UNCHANGED <<confVars, value, local, stack, todo, opened, crossed>>

ExitLines(t) ==
  /\ at[t] = "body" /\ stack[t] # <<>> /\ Top(t).kind = "lines"
  /\ Restores(t, Top(t).saved)
  /\ UNCHANGED <<confVars, value, local, stack, opened, crossed>>

(* A mutation of RestoreOne. *)
RestoreOne_OnlyFirst(t) ==
  /\ at[t] = "restore" /\ todo[t] # <<>>
  /\ value' = Loaded(value, Head(todo[t])) /\ todo' = [todo EXCEPT ![t] = <<>>]
  /\ UNCHANGED <<confVars, local, stack, at, opened, crossed>>

RestoreOne(t) ==
  /\ at[t] = "restore" /\ todo[t] # <<>>
  /\ value' = Loaded(value, Head(todo[t])) /\ todo' = [todo EXCEPT ![t] = Tail(@)]
  /\ UNCHANGED <<confVars, local, stack, at, opened, crossed>>

Restored(t) ==
  /\ at[t] = "restore" /\ todo[t] = <<>>
  /\ stack' = [stack EXCEPT ![t] = Front(@)] /\ at' = [at EXCEPT ![t] = "body"]
  /\ UNCHANGED <<confVars, value, local, todo, opened, crossed>>

-----------------------------------------------------------------------------
(* xml_mode: ET(parser) on entry; in the finally clause ET(None), which sets *)
(* the default of that moment and not the parser of the block around it.     *)

(* A mutation of SetLocal. *)
SetLocal_ForAll(t, p) == local' = [u \in Threads |-> p]

SetLocal(t, p) == local' = [local EXCEPT ![t] = p]

EnterXml(t) ==
  /\ MayOpen(t)
  /\ \E p \in {"A", "B"} : SetLocal(t, p) /\ Push(t, XmlBlock(p))
  /\ opened' = opened + 1
  /\ UNCHANGED <<confVars, value, at, todo, crossed>>

(* The n outermost blocks of b: ET(None) has run inside each of them. *)
Marked(b, n) ==
  [i \in 1..n |-> IF b[i].kind = "xml" THEN [b[i] EXCEPT !.inner = TRUE] ELSE b[i]]

ExitXml(t) ==
  /\ at[t] = "body" /\ stack[t] # <<>> /\ Top(t).kind = "xml"
  /\ SetLocal(t, value["parser"])
  /\ stack' = [stack EXCEPT ![t] = Marked(@, Len(@) - 1)]
  /\ UNCHANGED <<confVars, value, at, todo, opened, crossed>>

(* xml_mode with an argument that names no parser raises inside the try: no *)
(* block begins, but the finally clause runs all the same.                  *)
XmlRefused(t) ==
  /\ at[t] = "body"
  /\ SetLocal(t, value["parser"])
  /\ stack' = [stack EXCEPT ![t] = Marked(@, Len(@))]
  /\ UNCHANGED <<confVars, value, at, todo, opened, crossed>>

SettingsNext ==
  \/ Autoload
  \/ \E t \in Threads :
       EnterLines(t) \/ ReadOld(t) \/ Assign(t) \/ EnterBody(t) \/ ExitLines(t)
         \/ RestoreOne(t) \/ Restored(t) \/ EnterXml(t) \/ ExitXml(t) \/ XmlRefused(t)
SettingsSpec == SettingsInit /\ [][SettingsNext]_settingsVars

-----------------------------------------------------------------------------
(* What autoload is to give a setting: the environment goes before the     *)
(* file, the last good line of the file before the default.                *)
Configured(s) ==
  LET good == {i \in 1..Len(confFile) : confFile[i][1] = s /\ Accepts(confFile[i])} IN
  IF Accepts(<<s, env[s]>>) /\ env[s] # "none" THEN env[s]
  ELSE IF good = {} THEN "A" ELSE confFile[Max(good)][2]

(***************************************************************************)
(* When no block has a setting saved, the setting has the value autoload   *)
(* gave it, although blocks nest, fail half-way in or overlap in other     *)
(* threads -- as long as no two blocks that are not nested, and no two     *)
(* entries of a block, name the same setting.  (loadlines: "Temporarily    *)
(* change the values".)                                                    *)
(***************************************************************************)
OverridesRestored ==
  \A s \in Known \ crossed :
    (\A t \in Threads : /\ at[t] # "start"
                        /\ \A i \in 1..Len(stack[t]) : s \notin SavedBy(stack[t][i])) =>
      value[s] = Configured(s)

(***************************************************************************)
(* In an xml_mode block the thread uses the parser it asked for, whatever  *)
(* other threads do with theirs or with the default, until the same thread *)
(* has called xml_mode once more inside it and that block has ended, or    *)
(* the call was refused: ET(None) then chooses the default and not the     *)
(* parser of the outer block (xml_mode, ET).                               *)
(***************************************************************************)
CurrentParser(t) == IF local[t] = "unset" THEN value["parser"] ELSE local[t]
ParserKept ==
  \A t \in Threads : \A i \in 1..Len(stack[t]) :
    LET b == stack[t][i] IN
    /\ b.kind = "xml" /\ ~b.inner
    /\ \A j \in (i + 1)..Len(stack[t]) : stack[t][j].kind = "lines"
    => CurrentParser(t) = b.parser
=============================================================================
