SPECIFICATION Spec
CONSTANTS
  i1 = i1
  i2 = i2
  i3 = i3
  t1 = t1
  t2 = t2
  l1 = l1
  l2 = l2
  v1 = v1
  v2 = v2
  None = None
  Empty = empty
  Ids <- MCIds
  Labels <- MCLabels
  Values <- MCValues
  DefaultField = l1
  Callers = {c1, c2}
  Names <- MCNames
  InitialVaults <- TidyInitialVaults
  OpFails = TRUE
  MaxCalls = 3
SYMMETRY Symmetry
INVARIANTS
  ArchiveKeepsValues
  AcknowledgedValuesSurvive
PROPERTIES
  CreateOrAddApart
  ImplementsVault
CHECK_DEADLOCK FALSE
