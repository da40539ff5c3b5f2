SPECIFICATION FairSpec
CONSTANTS
  Req = {r1, r2}
  Zones <- Places
  At = {1, 2}
  Days = 6
  Off = Off
INVARIANTS UntilNextExact ReloadNotLost DailyBackup
PROPERTIES OnTime BackupsGoOn
