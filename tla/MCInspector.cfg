\* Eight command lines: live camera, video, loop, single image, help; ESC and signals at any time.
CONSTANTS
  Garbage = Garbage
  NaN = NaN
  Blank = Blank
  NoFile = NoFile
  CommandLines <- MCCommandLines
SPECIFICATION Spec
INVARIANTS
  ReleasedAtExit
  PartsOutliveThreads
  SettingsInRange
PROPERTIES
  RequestsEndProgram
CHECK_DEADLOCK FALSE
