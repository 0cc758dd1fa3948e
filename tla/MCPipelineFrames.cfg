\* The way of the frames: a queue of two, four frames, one run, no display.
CONSTANTS
  Capacity = 2
  Verdicts = {"pass", "reject"}
  Injected = {"store", "rejector"}
  DisplayEnabled = FALSE
  WatchdogEnabled = FALSE
  PruneInterval = 2
  MaxRecords = 1
  MaxFrames = 4
  MaxRuns = 1
SPECIFICATION Spec
INVARIANTS
  TypeOK
  FramesAccountedFor
  RejectsMatchStats
  StoreBounded
PROPERTIES
  HandledInOrder
