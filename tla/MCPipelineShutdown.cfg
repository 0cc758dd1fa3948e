\* Stopping, ESC, restarts and the watchdog: every thread, two runs, a queue of one.
CONSTANTS
  Capacity = 1
  Verdicts = {"reject"}
  Injected = {}
  DisplayEnabled = TRUE
  WatchdogEnabled = TRUE
  PruneInterval = 1
  MaxRecords = 1
  MaxFrames = 2
  MaxRuns = 2
SPECIFICATION Spec
INVARIANTS
  StopIsComplete
PROPERTIES
  StopReturns
  InspectionEnds
  StallIsReported
  ImplementsThreads
