SPECIFICATION FairSpec
CONSTANTS
  j1 = j1  j2 = j2  s1 = s1  s2 = s2  p1 = p1  p2 = p2  e1 = e1  e2 = e2  None = None
  Jobs = {j1, j2}
  Series = {s1, s2}
  Providers = {p1, p2}
  Editors = {e1, e2}
  Window = 2
  MaxLimit = 2
  Minimum = 2  Margin = 2  Scores = {0, 2, 3}
  MaxRequests = 2
  MaxRestarts = 1
ACTION_CONSTRAINT FirstFree
PROPERTIES RollingLimit EditsKept LinkLostOnlyIfRaced JobsAsPromised JobsFinish
CHECK_DEADLOCK FALSE
