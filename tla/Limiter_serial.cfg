SPECIFICATION Spec
CONSTANTS
  IP = {a1, a2}
  Req = {r1}
  MaxIP = 2
  MaxAll = 3
  Window = 2
  Lockout = 5
  Sec = 2
  MaxNow = 9
  Nil = Nil
SYMMETRY Symmetry
INVARIANTS FailureBound WaitSuffices
PROPERTIES LockoutHolds
CHECK_DEADLOCK FALSE
