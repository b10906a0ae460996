SPECIFICATION Spec
CONSTANTS
  Keys = {k1, k2}
  Values = {v1, v2}
  Null = null
  Sessions = {s1, s2}
  MaxLsn = 3
  MaxCopies = 2
SYMMETRY Symmetry
CHECK_DEADLOCK FALSE
INVARIANTS IInv CurrentRowsAreTheSource OneVersionAtATime VersionsAreTheSource
