CONSTANTS
  web = web
  db = db
  Units = {web}
  Dependents <- Self
  Tasks = {t1, t2}
  t1 = t1
  t2 = t2
  MaxShift = 1
  None = None
SPECIFICATION FairSpec
INVARIANT TypeOK
PROPERTIES FailureAnswered AttemptsEnd
