SPECIFICATION Spec
CONSTANTS
  m1 = m1  m2 = m2  home = home  apart = apart  inside = inside  l1 = l1  l2 = l2  s1 = s1  f1 = f1  f2 = f2  e1 = e1  e2 = e2
  None = None
  Mounts = {m1, m2}  Default = m1
  Paths = {home, apart, inside}  Home = home
  Overlaps <- MCOverlaps
  Libraries = {l1, l2}  MountOf <- MCMountOf
  Series = {s1}  LibraryOf <- MCLibraryOf
  Files = {f1, f2}  SeriesOf <- MCSeriesOf
  Versions = {1, 2}  Unsafe = {2}  Breaking = {}  Scheduled = TRUE
  Editors = {e1}
  MaxChanges = 1
  MaxEdits = 2
PROPERTIES UnplugIsNotDeletion
