SPECIFICATION FairSpec
CONSTANTS
  user1 = user1
  user2 = user2
  idler1 = idler1
  idler2 = idler2
  Timers = {1}
  Users = {user1, user2}
  Idlers = {idler1}
  Intervals = {1, 2}
  MAX_TIMEOUT = 2
  IntMax = 7
  MaxLate = 1
  MaxInterrupts = 1
  MaxFired = 2
INVARIANTS
  OnePlace
PROPERTIES
  NeverEarly
  DueExpires
