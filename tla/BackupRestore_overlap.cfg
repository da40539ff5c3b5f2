SPECIFICATION Spec
CONSTANTS
  Req = {r1, r2}
  Ino = {i1, i2, i3}
  Keeps = {1}
  ClockStep <- Apart
  Suffix = {0}
  MaxVer = 2
  MaxOps = 3
  MaxCrash = 2
  Faults = TRUE
  LateWrites = TRUE
  Torn = Torn
  Junk = Junk
  Blank = Blank
  Nil = Nil
SYMMETRY Symmetry
INVARIANTS VaultServed
PROPERTIES AtomicallyRestored
CHECK_DEADLOCK FALSE
