CONSTANTS
  Conns = {c1, c2, c3}
  c1 = c1
  c2 = c2
  c3 = c3
  IdleTimeout = 2
  Protocols = 2
  HasChecks = TRUE
SPECIFICATION FairSpec
INVARIANTS TypeOK ActiveCount OneUnitOperation ServedWhileRunning MonitoredOnlyWhileUp NoStrandedWaiter
PROPERTIES ImplementsOnDemandUnit EveryConnAnswered IdleUnitRetired
