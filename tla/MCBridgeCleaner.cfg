SPECIFICATION FairSpec
CONSTANTS
  Requests = {r1, r2}
  Relays = {b1, b2}
  Kinds = {"call", "notification", "batch", "quietBatch"}
  Deadlines = FALSE
  MaxFaults <- CleanerFaults
INVARIANT
  FilesHaveOwners
PROPERTIES
  CallsSucceed
