SPECIFICATION FairSpec
CONSTANTS
  Hooks = {h1, h2}
  Tokens = {t1, t2}
  MaxFaults = 1
INVARIANTS
  SeenIsReported
  PagesOnce
  TraceIsLeft
  DeliveryIsRecorded
PROPERTIES
  AlertsStay
  FindingsRing
CHECK_DEADLOCK FALSE
