CONSTANTS
  Checkers = {k1}
  k1 = k1
  Checks = {i, j, l}
  i = i
  j = j
  l = l
  Retries = 2
  Capacity = 2
  None = None
SPECIFICATION FairSpec
INVARIANTS TypeOK ReportIsCurrent StatusFollowsReports
PROPERTIES ReportsArrive CancelledChecksExit
