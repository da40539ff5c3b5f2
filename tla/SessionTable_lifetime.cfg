SPECIFICATION FairSpec
CONSTANTS
  Sess = {s1, s2}
  Req = {r1, r2}
  IdleValues = {2, 3}
  MaxValues = {4}
  PendingTTL = 2
  SweepEvery = 1
  Nil = Nil
INVARIANTS ScrubbedInTime
PROPERTIES NoEarlyEviction AbsoluteLifetime
