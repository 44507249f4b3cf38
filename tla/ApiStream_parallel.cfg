SPECIFICATION ApiSpec
CONSTANTS
  MaxCalls = 2
  Fragments = 2
  MaxProviders = 1
  MaxRetries = 1
INVARIANT CliHearsEveryCall
CHECK_DEADLOCK FALSE
