SPECIFICATION FairSpec
CONSTANTS
  Lines <- MCLines
  MaxLines = 3
  Room = 1
  MaxFaults = 1
CHECK_DEADLOCK FALSE
INVARIANTS
  TypeOK
  RepliesInOrder
  EndIsComplete
PROPERTIES
  LinesAreTaken
  SessionEnds
