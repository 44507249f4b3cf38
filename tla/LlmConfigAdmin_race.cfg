SPECIFICATION Spec
CONSTANTS
  a1 = a1
  a2 = a2
  generation = generation
  embedding = embedding
  Keep = Keep
  Admins = {a1, a2}
  TaskTypes = {generation}
  Faults = FALSE
  MaxProviders = 1
  MaxConfigs = 2
SYMMETRY Symmetry
INVARIANTS
  AtMostOneActive
CHECK_DEADLOCK FALSE
