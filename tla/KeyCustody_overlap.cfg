SPECIFICATION Spec
CONSTANTS
  Req = {r1, r2}
  Sess = {s1, s2}
  Buf = {b1, b2, b3, b4}
  Rec = {totp}
  Totp = totp
  Pass = {p1}
  MaxDEK = 2
  MaxEpoch = 2
  Overlap = TRUE
  Nil = Nil
SYMMETRY Symmetry
INVARIANTS NoSharedKeyBuffer AliasCurrentOrScrubbed WrapOpens SessionKeyIntact FirstKeyHolds
PROPERTIES KeysLeaveZeroed
CHECK_DEADLOCK FALSE
