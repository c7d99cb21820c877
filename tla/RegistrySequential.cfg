\* One request at a time; two configurations, and transactions that fail.
SPECIFICATION Spec
CONSTANTS
  Clients = {c1}
  Names = {n1, n2}
  Configs = {k1, k2}
  Plugins = {p1}
  MaxServices = 3
  MaxRunnables = 2
  MaxOverlaps = 0
  Null = Null
SYMMETRY Symmetry
INVARIANTS
  ConfiguredAsStored
PROPERTIES
  OwnRowOnly
