SPECIFICATION FairSpec
CONSTANTS
  r1 = r1  r2 = r2  r3 = r3  home = home
  good = good  bad = bad  ann = ann
  None = None
  Requests = {r1, r2, r3}
  Addresses = {home}
  Credentials = {good, bad}
  UserOf <- OneUser
  Right = {good}
  Locks = {1, 2, 3, 4, 5, 6}
  MaxWaiting = 2
  Grace = 1
  MaxFailures = 2
  MaxInterrupts = 1
INVARIANTS LineSound DelayPaid VerifiedOnce
PROPERTIES Answered
