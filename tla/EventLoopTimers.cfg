\* Timers that compete, exits, and readers: more than one poll() takes.
SPECIFICATION FairSpec
CONSTANTS
  MaxId = 3
  Delays = {0, 2}
  Horizon = 4
  MaxExpirys = 2
  MinimumDelay = 1
  MinimumWait = 1
  MaximumWait = 2
  Fds = {f1, f2}
  PollLimit = 1
INVARIANTS
  TypeOK
  TimersSorted
  IdsAreUnique
  ClearIsFinal
PROPERTIES
  ImplementsTimerService
  ExitIsFinal
  DueTimersFire
  ExitEndsLoop
