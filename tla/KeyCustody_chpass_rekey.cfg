SPECIFICATION Spec
CONSTANTS
  Req = {r1, r2}
  Sess = {s1}
  Buf = {b1, b2, b3, b4}
  Rec = {totp, c1}
  Totp = totp
  Pass = {p1}
  MaxDEK = 2
  MaxEpoch = 3
  Overlap = TRUE
  Nil = Nil
SYMMETRY Symmetry
PROPERTIES KeyChangeReseals
CHECK_DEADLOCK FALSE
