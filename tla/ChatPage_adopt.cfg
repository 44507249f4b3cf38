SPECIFICATION Spec
CONSTANT MaxGenerations = 2
INVARIANT AdoptsItsOwnResult
CHECK_DEADLOCK FALSE
