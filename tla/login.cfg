SPECIFICATION MCSpec
CONSTANTS
  Accounts <- LoginAccounts
  Threads = {1, 2}
  Lines <- MCLines
  Envs <- MCEnvs
  EntryLists <- MCEntryLists
  MaxDepth = 2
  MaxBlocks = 3
  Texts <- MCTexts
  Salts = {0, 76, 840, 3935}
  Ring <- MCRing
INVARIANTS PolicyRespected LoggedInAccepted SecretInTls  OverridesRestored ParserKept ReadBack
PROPERTIES DepotIsolated
CHECK_DEADLOCK FALSE
