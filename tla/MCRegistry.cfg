CONSTANTS
  s = s
  r = r
  i = i
  Units = {s, i}
  Configs <- MixedConfigs
  Failed = {s}
  None = None
SPECIFICATION FairSpec
INVARIANTS TypeOK StaticSupervised ReloadExact
PROPERTY InstanceRegistered
CHECK_DEADLOCK FALSE
