SPECIFICATION MCSpec
CONSTANTS
  e1 = e1
  e2 = e2
  approve = approve
  feedback = feedback
  resolve = resolve
  takeover = takeover
  retry = retry
  wake = wake
  Items = {e1, e2, approve, feedback, resolve, takeover, retry, wake}
  Kind <- MCKind
  Scripts <- PriorityScript
  EventTypes = {"enquiry"}
  MaxActions = 0
  MaxChain = 2
  ContinueAfter = 2
  MaxSuggested = 0
  TestSignals = TRUE
CHECK_DEADLOCK FALSE
PROPERTY TakeoverHasPriority
