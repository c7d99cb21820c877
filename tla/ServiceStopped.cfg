\* The message of a stop request.
SPECIFICATION Spec
CONSTANTS
  Clients = {c1}
  Configs = {k1}
  MaxThreads = 2
  None = None
INVARIANTS
  AlreadyStopped
