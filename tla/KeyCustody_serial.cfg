SPECIFICATION Spec
CONSTANTS
  Req = {r1}
  Sess = {s1}
  Buf = {b1, b2, b3}
  Rec = {totp, c1}
  Totp = totp
  Pass = {p1, p2}
  MaxDEK = 3
  MaxEpoch = 4
  Overlap = FALSE
  Nil = Nil
INVARIANTS NoRecordUnderRetiredKey SessionsCurrent
PROPERTIES OneChangeAtATime 
CHECK_DEADLOCK FALSE
