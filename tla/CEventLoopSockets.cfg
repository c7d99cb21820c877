\* The poll list of the C loop, with as many slots as sockets; the loop may end.
SPECIFICATION Spec
CONSTANTS
  MaxId = 1
  Delays = {1}
  Horizon = 1
  MaxTimers = 1
  MaxExpirys = 1
  MinDelay = 1
  MinWait = 1
  MaxWait = 2
  MaxFds = 2
  Fds = {f1, f2}
  Deleted = Deleted
SYMMETRY Symmetry
CHECK_DEADLOCK FALSE
INVARIANTS
  NoStaleEvents
  ClosedIsNotDispatched
  WaitingArePolled
