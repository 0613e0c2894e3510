SPECIFICATION MCSpec
CONSTANTS
  a1 = a1
  a2 = a2
  c1 = c1
  r1 = r1
  all = all
  models = models
  o1 = o1
  o2 = o2
  k1 = k1
  i1 = i1
  i2 = i2
  Admin = {a1, a2}
  Credential = {c1}
  Request = {r1}
  None = None
  EventId = {i1, i2}
  MaxTime = 1
  Breaker = {all, models}
  All = all
  Operator = {o1, o2}
  Check = {k1}
  Narrow <- ModelCalls
  MaxClock = 2
  MaxTransitions = 2
  Writer = {"worker", "ingestion", "operator"}
  Limit = 2
  Skew = 1
  LastTime = 6
  MaxRows = 6
SYMMETRY Symmetry
CHECK_DEADLOCK FALSE
INVARIANTS
  BreakersHold
  TimelineIsFaithful
PROPERTY
  AccessIsAccounted
