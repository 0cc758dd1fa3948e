\* A write that fails.
CONSTANTS
  MaxLines = 3
  Backups = 1
  MaxLogged = 3
  MaxCrashes = 0
SPECIFICATION Spec
PROPERTY RotatesFullFiles
CHECK_DEADLOCK FALSE
