SPECIFICATION MCSpec
CONSTANTS
  a1 = a1
  a2 = a2
  a3 = a3
  a4 = a4
  Action = {a1, a2, a3, a4}
  Policy <- TightPolicy
  Idempotent = {a4}
  MaxTime = 28
  Lag = 1
  Ahead = 1
  MaxEvents = 2
  MaxCrashes = 1
  Day = 8
  Change = 11
  Offset <- Offsets
  MaxShift = 2
  NoQuietHours = NoQuietHours
SYMMETRY Symmetry
CHECK_DEADLOCK FALSE
INVARIANTS
  ContactWithinLimits
  NoCallAcrossOptOut
  BlocksEndAsAnnounced
