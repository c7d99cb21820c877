\* Two requests at a time; a name may be taken again, and a service renamed.
SPECIFICATION Spec
CONSTANTS
  Clients = {c1, c2}
  Names = {n1, n2}
  Configs = {k1}
  Plugins = {p1}
  MaxServices = 2
  MaxRunnables = 2
  MaxOverlaps = 1
  Null = Null
SYMMETRY Symmetry
INVARIANTS
  TypeOK
  RunningIsInMap
  FoundByItsName
