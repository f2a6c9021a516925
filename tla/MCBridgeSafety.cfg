SPECIFICATION Spec
CONSTANTS
  Requests = {r1, r2}
  Relays = {b1, b2}
  Kinds = {"call", "notification"}
  Deadlines = TRUE
  MaxFaults <- CrashFaults
SYMMETRY Symmetry
INVARIANTS
  AtMostOnce
  CallsAreAnswered
PROPERTIES
  ResponsesAreStable
  RefinesRpc
