CONSTANTS
  web = web
  db = db
  Units = {web}
  Dependents <- Alone
  Tasks = {t1}
  t1 = t1
  MaxShift = 1
  None = None
SPECIFICATION FairSpec
PROPERTY FailedUnitRestarted
