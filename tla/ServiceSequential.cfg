\* Requests one after the other, as a single user sends them.
SPECIFICATION Spec
CONSTANTS
  Clients = {c1}
  Configs = {k1, k2}
  MaxThreads = 3
  None = None
INVARIANTS
  TypeOK
  RequestsSucceed
  StartedIsHeard
  StartedIsConfigured
