SPECIFICATION Spec
CONSTANTS
  c1 = c1
  c2 = c2
  generation = generation
  embedding = embedding
  Callers = {c1, c2}
  TaskTypes <- OneTask
  Provider = prov
  GetsPerTask <- OnceEach
  CACHE_TTL = 2
  Lossy = TRUE
  MaxTime = 3
  MaxWrites = 1
SYMMETRY CallerSymmetry
INVARIANTS
  BoundedStaleness
CHECK_DEADLOCK FALSE
