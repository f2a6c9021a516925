SPECIFICATION FairSpec
CONSTANTS
  Callers = {c1}
  Refs = {r1}
  Token = token
  Minted = minted
  StoreEnabled = TRUE
  Pipes = {"closed", "group", "session"}
  MaxMinutes = 2
  MaxTime = 1
  MaxCommands = 2
  MaxCalls = 2
INVARIANTS
  OperatorIsToldTheTruth
  GrantsAreBounded
  StoredIsMinted
PROPERTIES
  LockedVaultStartsNothing
  CallsReturnOrDrain
CHECK_DEADLOCK FALSE
