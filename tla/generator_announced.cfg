SPECIFICATION Spec
CONSTANTS
  Generators = {a, b}
  a = a
  b = b
  Ids = {1, 2, 3, 4}
  Target = 2
  MaxTime = 6
SYMMETRY Symmetry
CHECK_DEADLOCK FALSE
INVARIANTS IInv ListsAreAnnounced
PROPERTY PaymentsFollowTheTouch
