SPECIFICATION SessionSpec
CONSTANTS
  Procs = {claw1}
  Names = {s1, s2}
  MaxTurns = 1
  MaxUses = 1
  MaxCommands = 2
  MaxFaults = 0
  PreserveRecent = 2
  RotateAfter = 2
  MaxRotatedFiles = 1
  NoName = NoName
PROPERTY ActiveIsNotDeleted
CHECK_DEADLOCK FALSE
