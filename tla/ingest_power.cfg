SPECIFICATION Spec
CONSTANTS
  i1 = i1  i2 = i2  n1 = n1  n2 = n2  j1 = j1  j2 = j2  w1 = w1
  None = None
  Ids = {i1, i2}
  Names = {n1, n2}
  Jobs = {j1, j2}
  Withdraws = {w1}
  PowerLosses = 1
INVARIANTS NamesAreComplete NothingLost
PROPERTIES PlacementAsPromised
SYMMETRY Symmetry
