SPECIFICATION MCSpec
CONSTANTS
  e1 = e1
  e2 = e2
  approval = approval
  feedback = feedback
  resolution = resolution
  takeover = takeover
  manual = manual
  retry = retry
  a1 = a1
  Items = {e1, e2, approval, feedback, resolution, takeover, manual, retry}
  Kind <- MCKind
  Scripts <- EveryScript
  EventTypes = {"reply"}
  MaxActions = 1
  MaxChain = 1
  ContinueAfter = 2
  MaxSuggested = 0
  TestSignals = FALSE
  Actions = {a1}
  Outcomes = {"allow", "require_approval"}
  Keys = {"paid"}
  Observes <- MCObserves
  Required <- MCRequired
  MaxFacts = 1
  MaxTimers = 1
  Reordered = FALSE
CHECK_DEADLOCK FALSE
INVARIANTS
  NeverStranded
  SameWakes
  RowsAgree
