SPECIFICATION AuthenticatedSpec
CONSTANTS
  ann = ann  bob = bob  cid = cid  p1 = p1  p2 = p2  r1 = r1  r2 = r2  a1 = a1  a2 = a2  s1 = s1
  None = None  NoBucket = NoBucket
  Users = {ann, bob}
  Passwords = {p1, p2}
  Tokens = {s1}
  Root = ann
  Requests = {r1}
  Admins = {a1, a2}
  OldHashes = TRUE
  MaxCache = 1
  Accounts = {ann, bob, cid}
  PerMinute = 2
  Minute = 3
  MaxKeys = 2
  MaxTime = 3
  MaxTaken = 3
INVARIANTS TypeOK StaleOnlyIfRaced PublicIsForReaders RateExact
PROPERTIES PasswordsKept AdminLostOnlyIfRaced ForgottenInTurn
SYMMETRY PasswordSymmetry
ACTION_CONSTRAINT SecondChangeAlone
