SPECIFICATION FairSpec
CONSTANTS
  Req = {r1, r2}
  Envs <- SomeEnvs
  BackupForms <- Schedules
  SessionForms <- Timeouts
  Rows <- SomeRows
  t1 = t1
  t2 = t2
  DefaultAt = t2
  DefaultPar = 4
  MaxCrash = 2
  Off = Off
  Unset = Unset
  Bad = Bad
  Nil = Nil
INVARIANTS InForce AppliedIsStored SchemaComplete
PROPERTIES ComesUp
CHECK_DEADLOCK FALSE
