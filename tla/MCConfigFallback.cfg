\* A configuration file with a threshold in percent.
CONSTANTS
  Garbage = Garbage
  NaN = NaN
  Blank = Blank
  NoFile = NoFile
  CommandLines <- MCPercent
SPECIFICATION Spec
INVARIANT MalformedIsDefault
CHECK_DEADLOCK FALSE
