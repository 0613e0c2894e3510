SPECIFICATION MCSpec
CONSTANTS
  p1 = p1
  p2 = p2
  e1 = e1
  e2 = e2
  e3 = e3
  Process = {p1, p2}
  Execution = {e1, e2, e3}
  Usage <- Usages
  Price <- OnePrice
  Unit = 2
  Budget <- TightBudget
  Caps <- TightCaps
  MaxCorrections = 2
  MaxTries = 2
  MaxTurns = 2
  LifetimeTurns = 1
  MaxSwitches = 2
  MaxCrashes = 1
  MaxInvalid = 1
  MaxTimeouts = 1
  PlatformPaused = FALSE
  NoExecution = NoExecution
CHECK_DEADLOCK FALSE
INVARIANTS
  LedgerIsExact
  OvershootByOneCall
  AtMostOneLateCall
PROPERTIES
  TurnEnds
