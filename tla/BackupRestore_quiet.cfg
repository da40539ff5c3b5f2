SPECIFICATION FairSpec
CONSTANTS
  Req = {r1}
  Ino = {i1, i2}
  Keeps = {1, 2}
  ClockStep <- Apart
  Suffix = {0}
  MaxVer = 2
  MaxOps = 3
  MaxCrash = 2
  Faults = FALSE
  LateWrites = FALSE
  Torn = Torn
  Junk = Junk
  Blank = Blank
  Nil = Nil
PROPERTIES NothingLost RetentionBound GoodBackupKept RestoreApplied 
CHECK_DEADLOCK FALSE
