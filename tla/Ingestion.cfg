SPECIFICATION MCSpec
CONSTANTS
  r1 = r1
  r2 = r2
  r3 = r3
  r4 = r4
  r5 = r5
  r6 = r6
  r7 = r7
  r8 = r8
  r9 = r9
  c1 = c1
  c2 = c2
  c3 = c3
  a1 = a1
  p1 = p1
  p2 = p2
  p3 = p3
  p4 = p4
  k1 = k1
  k2 = k2
  k3 = k3
  k4 = k4
  k5 = k5
  i1 = i1
  i2 = i2
  d1 = d1
  d2 = d2
  NoOne = NoOne
  Process = {p1, p2, p3, p4}
  Request = {r1, r2, r3, r4, r5, r6, r7, r8, r9}
  Command = {c1, c2, c3}
  Assigner = {a1}
  Reference = {1, 2, 3}
  SourceKey = {k1, k2, k3, k4, k5}
  CommandId = {i1, i2}
  Deployment = {d1, d2}
  Content <- MCContent
  Resolution <- MCResolution
  Target <- MCTarget
  Existing = {p1, p2}
INVARIANTS
  LocksSuffice
  OnlyLocksBlock
  CorrelationIsSound
  NothingLeftBehind
PROPERTY
  CorrelationIsFinal
