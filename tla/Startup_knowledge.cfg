SPECIFICATION StartupSpec
CONSTANTS
  Backends = {b1}
  MaxStops = 1
INVARIANT KnowledgeBaseIsLoaded
CHECK_DEADLOCK FALSE
