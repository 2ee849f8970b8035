SPECIFICATION Spec
CONSTANTS
  user1 = user1
  user2 = user2
  idler1 = idler1
  idler2 = idler2
  Timers = {1, 2}
  Users = {user1}
  Idlers = {idler1}
  Intervals = {1, 2}
  MAX_TIMEOUT = 2
  IntMax = 7
  MaxLate = 1
  MaxInterrupts = 0
  MaxFired = 2
INVARIANTS
  OneOutcome
  EarliestCovered
