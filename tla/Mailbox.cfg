SPECIFICATION MCSpec
CONSTANTS
  e1 = e1
  e2 = e2
  approve = approve
  feedback = feedback
  resolve = resolve
  takeover = takeover
  retry = retry
  wake = wake
  Items = {e1, e2, approve, feedback, resolve, takeover, retry, wake}
  Kind <- MCKind
  Scripts <- EveryScript
  EventTypes = {"enquiry"}
  MaxActions = 2
  MaxChain = 2
  ContinueAfter = 2
  MaxSuggested = 1
  TestSignals = TRUE
CHECK_DEADLOCK FALSE
INVARIANTS
  NothingLost
  ActedUponOnce
  ParkedUntilCommand
PROPERTIES
  ImplementsQueues
  PreemptionStopsTurn
  CommandsAreHeard
