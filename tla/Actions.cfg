SPECIFICATION Spec
CONSTANTS
  Actions = {a1, a2}
  IdempotentActions = {a2}
  Payloads = {p1, p2}
  Executors = {e1, e2}
  Commands = {c1, c2}
SYMMETRY Symmetry
CONSTRAINT Cases
INVARIANTS
  SideEffectAtMostOnce
  ExactApproval
  PauseFencesProvider
  RecordsAreCoherent
  OutcomeIsTruthful
  OneReviewWins
  CompletedIsQuiet
PROPERTIES
  TerminalOutcomeIsFinal
  ImplementsPromise
