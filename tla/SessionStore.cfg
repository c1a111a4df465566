SPECIFICATION Spec
CONSTANTS
  Callers = {c1, c2}
  FlowKeys = {f1}
  Sids = {s1}
  Values = {v1, v2}
  None = None
  Error = Error
  FlowTTL = 1
  SessionTTL = 1
  MaxTime = 2
  Retries = 1
INVARIANT HandedOutOnce
PROPERTIES ExpiredIsNotServed ImplementsStore
SYMMETRY Symmetry
