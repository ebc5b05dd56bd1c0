CONSTANTS
  Clients = {a, b}
  a = a
  b = b
  Sessions = {s1, s2}
  s1 = s1
  s2 = s2
  TTL = 1
  NoSession = NoSession
SYMMETRY Slots
SPECIFICATION Spec
INVARIANTS TypeOK ActiveIsSessions SessionKeepsUnitUp NoLostSocket ShutdownLeavesNothing
