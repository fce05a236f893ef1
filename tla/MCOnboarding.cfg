CONSTANTS
  Terminals <- MCTerminals
  Accounts <- MCAccounts
  Polls <- MCPolls
  MaxCommands = 2
  MaxGrants = 3
  MaxKeys = 2
  MaxFaults = 1
  MaxCallbacks = 2
SPECIFICATION FairSpec
INVARIANTS
  TypeOK
  NewestTokensKept
  RegisteredKeyKept
PROPERTIES
  AnnouncedKeyReady
  CommandsEnd
CHECK_DEADLOCK FALSE
