SPECIFICATION Spec
CONSTANTS
  a = a
  b = b
  Chars = {a, b}
  RunChars = {a}
  Symbols <- MCSymbols
  Values <- MCValues
  NumNames = 2
  Group = 2
  MaxRun = 2
  Budget = 2
  Cap = 4
  MaxText = 5
CHECK_DEADLOCK FALSE
INVARIANTS
  TypeOK
  NoSecretIsLeft
  ValuesGoWhole
  FoundRunsGo
  OnlySecretsGo
