SPECIFICATION ClawSpec
CONSTANTS
  Workers = {w1, w2}
  Cwds = {c1}
  Prompts = {p1, p2}
  None = None
  Procs = {claw1, claw2}
  Names = {s1, s2, s3}
  MaxTurns = 2
  MaxUses = 2
  MaxCommands = 2
  MaxFaults = 1
  PreserveRecent = 2
  RotateAfter = 2
  MaxRotatedFiles = 1
  NoName = NoName
  Inputs = {i1, i2}
  PreHooks = 2
  PostHooks = 1
  Nil = Nil
  Servers = {1, 2}
  Pids = {1, 2, 3}
  MaxRequests = 5
  MaxStrays = 1
  MaxDeaths = 1
  MaxCalls = 2
  Fragments = 2
  MaxProviders = 2
  MaxRetries = 1
  Claws = {d1, d2}
  LocalModes = {default, acceptEdits}
  Plan = Plan
  Unset = Unset
  Broken = Broken
  MaxOps = 4
  MaxCuts = 1
  Plugins = {1, 2}
  MaxBuilds = 4
  Managers = {m1, m2}
  Bundled = {b1}
  External = {x1}
  NameOf <- OneName
  MaxVersion = 2
  MaxStoreOps = 3
  MaxStoreFaults = 1
SYMMETRY Symmetry
INVARIANTS
  ClawTypeOK
  PromptIsSettled
  ReplayIsOfLostPrompt
  ReadyFileIsTrue
  TrustIsGranted
  RequestIsPaired
  CompletedTurnsSurvive
  FileIsOwn
  NoToolWithoutConsent
  SuccessIsWitnessed
  NoOrphanServer
  AskedAfterInitialize
  CallRunsOnce
  EveryCallIsHeard
  PlanModeIsUndone
  PluginsAreUpInTurn
  LeftByFailureOnly
PROPERTIES
  KeptIsShipped
  InstalledIsFound
CHECK_DEADLOCK FALSE
