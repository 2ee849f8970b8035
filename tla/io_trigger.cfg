SPECIFICATION Spec
CONSTANTS
  fd1 = fd1
  fd2 = fd2
  wait1 = wait1
  wait2 = wait2
  wait3 = wait3
  idler1 = idler1
  idler2 = idler2
  None = None
  Fds = {fd1}
  Waits = {wait1, wait2}
  Idlers = {idler1}
INVARIANTS
  TriggersRegistered
