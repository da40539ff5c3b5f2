SPECIFICATION Spec
CONSTANTS
  Req = {r1, r2}
  Secret = {s1, s2}
  Start = 2
  MaxStep = 5
  MaxUses = 2
  Nil = Nil
SYMMETRY Symmetry
INVARIANTS LastNotAhead CodeUsedOnceAlone
CHECK_DEADLOCK FALSE
