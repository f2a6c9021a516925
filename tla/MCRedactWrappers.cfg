SPECIFICATION Spec
CONSTANTS
  a = a
  b = b
  Chars = {a, b}
  RunChars = {}
  Symbols <- MCCleanSymbols
  Values <- MCValues
  NumNames = 2
  Group = 2
  MaxRun = 4
  Budget = 2
  Cap = 4
  MaxText = 5
CHECK_DEADLOCK FALSE
INVARIANT NoWrappedSecretIsLeft
