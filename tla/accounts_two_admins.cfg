SPECIFICATION Spec
CONSTANTS
  ann = ann  bob = bob  p1 = p1  p2 = p2  r1 = r1  r2 = r2  a1 = a1  a2 = a2  s1 = s1
  None = None
  Users = {ann, bob}
  Passwords = {p1, p2}
  Tokens = {s1}
  Root = ann
  Requests = {r1}
  Admins = {a1, a2}
  OldHashes = FALSE
  MaxCache = 1
INVARIANTS AdminRemains
