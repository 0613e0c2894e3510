SPECIFICATION Spec
CONSTANTS
  Messages = {m1}
  Dispatchers = {d1}
  RequeueCommands = {}
  MaxAttempts = 2
  MaxCrashes = 1
  SlowDispatchers = FALSE
INVARIANT BoundedAttempts
