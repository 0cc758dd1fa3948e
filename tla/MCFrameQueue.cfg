\* Two pushers and two poppers, so that notify_one has a choice of sleepers.
CONSTANTS
  Producers = {p1, p2}
  Consumers = {c1, c2}
  Items = {f1, f2}
  Capacity = 2
  MaxPushes = 4
SPECIFICATION Spec
INVARIANTS
  TypeOK
  NobodyLeftAsleep
PROPERTIES
  SleepersAreServed
  StopEndsCalls
  ImplementsChannel
