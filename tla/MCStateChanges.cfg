CONSTANTS
  Watchers = {k1}
  States = {active, failed, inactive}
  Capacity = 2
  MaxHooks = 2
  None = None
SPECIFICATION FairSpec
INVARIANTS TypeOK 
PROPERTIES  EventsAnnounced
