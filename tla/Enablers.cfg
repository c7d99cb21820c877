\* A plugin that needs a configuration and one that does not, and crashes anywhere.
SPECIFICATION Spec
CONSTANTS
  p1 = p1
  p2 = p2
  k1 = k1
  a = a
  b = b
  Null = Null
  Names = {n1, n2}
  Configs = {k1}
  Plugins = {p1, p2}
  Configurable = {p1}
  Kinds = {a, b}
  Switched = {}
  Offers <- MCOffers
  MaxEnablers = 2
  MaxFeatures = 3
  MaxOffered = 2
SYMMETRY Symmetry
VIEW Reachable
INVARIANTS
  TypeOK
  FeaturesAreOffered
