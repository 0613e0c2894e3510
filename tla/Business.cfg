SPECIFICATION Spec
CONSTANTS
  None = None
  p1 = p1
  p2 = p2
  s1 = s1
  s2 = s2
  Process = {p1, p2}
  Slots = {s1, s2}
  Rebook = FALSE
  MaxRestarts = 2
CONSTRAINT Cases
SYMMETRY Symmetry
CHECK_DEADLOCK FALSE
INVARIANT
  BooksAgree
