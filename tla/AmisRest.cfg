SPECIFICATION AmisSpec
CONSTANTS
  MaxGenerations = 3
  Backends = {b1, b2}
  MaxStops = 2
  Callers = {c1, c2}
  MaxPools = 3
  Names = {alice, bob}
  Tabs = {t1, t2}
  Requests = {r1, r2}
  MaxUsers = 3
  None = none
  Pages = {1, 2}
  Rows = {1, 2}
  PageSize = 1
  MaxFetches = 2
INVARIANTS
  AmisTypeOK
  RowIsOneGeneration
  ExtraIsOwnRow
  SeedsAreBounded
  IncompleteIsCutShort
  WarmAgentHasOnePool
  DuplicatesAreConcurrent
  SignedOutByAnother
  QuietListIsTrue
CHECK_DEADLOCK FALSE
