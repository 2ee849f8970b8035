SPECIFICATION FairSpec
CONSTANTS
  w1 = w1
  w2 = w2
  main = main
  c1 = c1
  c2 = c2
  c3 = c3
  None = None
  Workers = {w1}
  Root = main
  UseCaller = TRUE
  Callbacks = {c1, c2, c3}
  Pins = {None}
  BodyOps = {"ready", "throw", "spawn"}
  MaxSuspends = 1
  FreshStates = {"UNINIT"}
INVARIANTS
  NoAssertFails
  EveryCallbackOnce
  StopDrains
  QueueDrained
PROPERTIES
  StopReturns
  EveryCallbackRuns
