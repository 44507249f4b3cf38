SPECIFICATION Spec
CONSTANTS
  a1 = a1
  a2 = a2
  generation = generation
  embedding = embedding
  Keep = Keep
  Admins = {a1, a2}
  TaskTypes = {generation, embedding}
  Faults = TRUE
  MaxProviders = 1
  MaxConfigs = 2
SYMMETRY Symmetry
INVARIANTS
  TypeOK
  ReferentialIntegrity
PROPERTIES
  DeletedStaysDeleted
  ActivatedOnlyOnRequest
  ActivationIsExclusive
CHECK_DEADLOCK FALSE
