SPECIFICATION Spec
CONSTANTS
  Req = {r1, r2}
  a = a
  Empty = Empty
  Name = {a, Empty}
  Files <- Repeated
  MaxBad = 1
  MaxId = 4
  Nil = Nil
SYMMETRY Symmetry
INVARIANTS NoOrphans PageComplete SearchFinds CountsMatchCascade
PROPERTIES ImportSkipsRead
CHECK_DEADLOCK FALSE
