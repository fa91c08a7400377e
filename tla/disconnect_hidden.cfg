SPECIFICATION Spec
CONSTANTS
  u1 = u1  l1 = l1  l2 = l2  comics = comics  manga = manga  s1 = s1  s2 = s2  s3 = s3
  t1 = t1  a1 = a1  a2 = a2  g1 = g1  None = None
  Users = {u1}
  Libraries = {l1, l2}  Categories = {comics, manga}  Series = {s1, s2, s3}
  LibraryOf <- MCLibraryOf  CategoryOf <- MCCategoryOf
  Selections <- MCSelections
  Tokens = {t1}  Capabilities <- MCCapabilities
  Admins = {a1, a2}  Agents = {g1}
  TrailBound = 1  TrimBatch = 1
  MaxOps = 3
  MaxRestarts = 1
SYMMETRY Symmetry
INVARIANTS HiddenWhenDisconnected
CHECK_DEADLOCK FALSE
