SPECIFICATION FairSpec
CONSTANTS
  Messages = {m1, m2}
  Dispatchers = {d1, d2}
  RequeueCommands = {r1}
  MaxAttempts = 2
  MaxCrashes = 1
  SlowDispatchers = TRUE
INVARIANTS
  PublishedIsDelivered
  RowsAreSound
PROPERTIES
  PublishedIsFinal
  ImplementsDelivery
  EventuallySettled
