SPECIFICATION Spec
CONSTANTS
  Generators = {a, b}
  a = a
  b = b
  Ids = {1, 2, 3}
  Target = 2
  MaxTime = 5
SYMMETRY Symmetry
CHECK_DEADLOCK FALSE
INVARIANT PaymentsAreAnnounced
