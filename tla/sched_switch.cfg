SPECIFICATION Spec
CONSTANTS
  w1 = w1
  w2 = w2
  main = main
  c1 = c1
  c2 = c2
  c3 = c3
  None = None
  Workers = {w1, w2}
  Root = main
  UseCaller = FALSE
  Callbacks = {c1, c2}
  Pins = {None, w1, w2}
  BodyOps = {"ready", "hold", "switchTo", "throw", "spawn"}
  MaxSuspends = 1
  FreshStates = {"UNINIT"}
INVARIANTS
  CountersExact
PROPERTY
  ImplementsJobs
SYMMETRY CallbackSymmetry
