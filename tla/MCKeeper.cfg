SPECIFICATION Spec
CONSTANTS
  u1 = u1
  u2 = u2
  big = big
  small = small
  f = f
  v1 = v1
  v2 = v2
  None = None
  Callers = {c1, c2}
  Uids = {u1, u2}
  Places = {top, sub}
  Titles <- MCTitles
  Lower <- MCLower
  Fields = {f}
  Values = {v1, v2}
  Records <- MCRecords
  Labels = {own}
  AuthLabel = login
  CodeLabel = clone
  TokenLabel = token
  ReadsFail = TRUE
  MaxEdits = 1
  MaxRotations = 1
SYMMETRY Symmetry
INVARIANTS
  ReadsStayInFolder
  LoginsAreScrubbed
PROPERTIES
  NamesAreUnambiguous
