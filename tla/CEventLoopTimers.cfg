\* The timers of the C loop, with more of them than it has slots; the loop may end.
SPECIFICATION FairSpec
CONSTANTS
  MaxId = 3
  Delays = {1, 3}
  Horizon = 4
  MaxTimers = 2
  MaxExpirys = 1
  MinDelay = 1
  MinWait = 1
  MaxWait = 2
  MaxFds = 0
  Fds = {}
  Deleted = Deleted
CHECK_DEADLOCK FALSE
INVARIANTS
  TypeOK
  TimersSorted
  CallbacksMatchTimers
PROPERTIES
  ImplementsTimerService
  DueTimersFire
