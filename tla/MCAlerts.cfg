SPECIFICATION FairSpec
CONSTANTS
  Ids = {a1, a2}
  MaxKills = 1
  MaxAcks = 2
INVARIANTS
  AcksAreFinal
PROPERTIES
  RecordsStay
  OpenAlertsRing
