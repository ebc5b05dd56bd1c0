CONSTANTS
  s = s
  r = r
  i = i
  Units = {s, i}
  Configs <- TemplateConfigs
  Failed = {}
  None = None
SPECIFICATION Spec
INVARIANT ReloadDoesNotCrash
