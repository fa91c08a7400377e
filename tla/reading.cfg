SPECIFICATION Spec
CONSTANTS
  v1 = v1  v2 = v2  reader = reader  other = other  Spread = Spread  None = None
  Volumes = {v1, v2}
  Versions = {1, 2}  PageCount <- MCPageCount  MaxPages = 2
  Readers = {reader, other}
  Capacity = 1
  Budget = 1
  MaxRequests = 3
  MaxChanges = 1
SYMMETRY Symmetry
INVARIANTS PoolSafe KeptTruthful BudgetKept SpreadAttended
CHECK_DEADLOCK FALSE
