\* Features are switched; additions fail, and crashes happen anywhere.
SPECIFICATION Spec
CONSTANTS
  p1 = p1
  p2 = p2
  k1 = k1
  a = a
  b = b
  Null = Null
  Names = {n1}
  Configs = {k1}
  Plugins = {p2}
  Configurable = {}
  Kinds = {a, b}
  Switched = {a, b}
  Offers <- MCOffers
  MaxEnablers = 2
  MaxFeatures = 4
  MaxOffered = 2
VIEW Reachable
INVARIANTS
  FlagMatchesFeed
