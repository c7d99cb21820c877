\* Requests at the same time.
SPECIFICATION FairSpec
CONSTANTS
  Clients = {c1, c2}
  Configs = {k1}
  MaxThreads = 2
  None = None
PROPERTIES
  FlagSilencesTimers
