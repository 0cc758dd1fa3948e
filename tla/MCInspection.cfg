\* Three rows, two classes, three thresholds apart from each other.
CONSTANTS
  NumRows = 3
  NumClasses = 2
  MaxLevel = 3
  Boxes <- MCBoxes
  Width = 4
  Height = 2
  NmsNum = 1
  NmsDen = 4
  ConfThreshold = 1
  ReviewThreshold = 2
  RejectThreshold = 3
SPECIFICATION Spec
INVARIANTS
  TypeOK
  SurvivorsApart
  LosersHaveWinners
  VerdictFitsScores
