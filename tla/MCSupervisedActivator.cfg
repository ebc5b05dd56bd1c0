CONSTANTS
  Conns = {c1}
  c1 = c1
  IdleTimeout = 1
  Protocols = 1
  Tasks = {t1}
  t1 = t1
  MaxShift = 1
  None = None
  Backend = web
  web = web
SPECIFICATION FairSpec
INVARIANT RestartsOnlyInUse
PROPERTY BackendRevived
