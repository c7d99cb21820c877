\* Two requests to one plugin, each with two sockets.
SPECIFICATION Spec
CONSTANTS
  Threads = {t1, t2}
  Objects = {o1, o2}
  MaxConnections = 4
SYMMETRY Symmetry
INVARIANTS
  TypeOK
  MessagesReachTheirPeer
  TypeErrorsNeedAClose
  SpentIsClosed
