\* Two backups of two lines, nine lines logged, two crashes.
CONSTANTS
  MaxLines = 2
  Backups = 2
  MaxLogged = 9
  MaxCrashes = 2
SPECIFICATION Spec
INVARIANTS
  TypeOK
  FilesInOrder
  OnlyOldestLost
  FilesBounded
CHECK_DEADLOCK FALSE
