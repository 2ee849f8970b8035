SPECIFICATION Spec
CONSTANTS
  w1 = w1
  w2 = w2
  main = main
  c1 = c1
  c2 = c2
  c3 = c3
  None = None
  Workers = {}
  Root = main
  UseCaller = TRUE
  Callbacks = {c1, c2}
  Pins = {None}
  BodyOps = {"ready", "hold", "throw", "spawn"}
  MaxSuspends = 2
  FreshStates = {"UNINIT", "INIT"}
INVARIANTS
  OneResumer
  RootDestroyable
