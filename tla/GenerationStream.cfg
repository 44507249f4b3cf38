SPECIFICATION FairSpec
CONSTANTS
  MaxChunks = 3
  MaxRead = 6
INVARIANTS
  ShownIsPrefix
PROPERTIES
  ImplementsReply
  DoneGivesResult
CHECK_DEADLOCK FALSE
