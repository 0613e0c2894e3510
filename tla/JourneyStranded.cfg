SPECIFICATION MCSpec
CONSTANTS
  e1 = e1
  e2 = e2
  approval = approval
  feedback = feedback
  resolution = resolution
  takeover = takeover
  manual = manual
  retry = retry
  a1 = a1
  Items = {e1, e2, approval, feedback, resolution, takeover, manual, retry}
  Kind <- MCKind
  Scripts <- EventScript
  EventTypes = {"reply"}
  MaxActions = 1
  MaxChain = 1
  ContinueAfter = 9
  MaxSuggested = 0
  TestSignals = FALSE
  Actions = {a1}
  Outcomes = {"allow", "require_approval", "deny"}
  Keys = {"paid"}
  Observes <- MCObserves
  Required <- MCRequired
  MaxFacts = 2
  MaxTimers = 1
  Reordered = FALSE
CHECK_DEADLOCK FALSE
INVARIANT
  NeverStranded
