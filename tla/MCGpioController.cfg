\* Real hardware, four triggers, one life of the controller.
CONSTANTS
  Hardware = TRUE
  MaxTriggers = 4
  MaxInits = 1
SPECIFICATION Spec
INVARIANTS
  TypeOK
  PinLowBetweenPulses
  NoWorkerAfterCleanup
PROPERTIES
  TriggersAreServed
  CleanupReturns
