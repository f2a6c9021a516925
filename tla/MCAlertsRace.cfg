SPECIFICATION Spec
CONSTANTS
  Ids = {a1}
  MaxKills = 0
  MaxAcks = 1
INVARIANTS
  AcknowledgedIsSilent
