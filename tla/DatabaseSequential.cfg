\* Requests one after the other, and crashes anywhere.
SPECIFICATION Spec
CONSTANTS
  Clients = {c1}
  Names = {n1, n2}
  Configs = {k1, k2}
  MaxId = 3
  MaxParts = 2
  Null = Null
SYMMETRY Symmetry
INVARIANTS
  TypeOK
  AddedIsDurable
  FeedsAreWhole
  UpdatedIsDurable
