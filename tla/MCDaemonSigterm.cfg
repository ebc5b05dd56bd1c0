CONSTANTS
  Main = main_loop
  TimerLoop = timer_loop
  Workers = {connection}
  Callers = {main_loop, timer_loop, connection}
  Units = {hourly}
  Timers = {hourly}
  Unreadable = {}
  Stuck = {}
  Signals = {"hup", "term"}
  Probes = {probe}
  Managers <- Both
  None = None
  Foreign = Foreign
  Orphan = Orphan
SPECIFICATION Spec
PROPERTY SigtermStops
