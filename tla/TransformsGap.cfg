SPECIFICATION MCSpec
CHECK_DEADLOCK FALSE
CONSTANTS
  Node = {n1, n2, n3, n4}
  Version = {0, 1}
  None = None
  Holes = TRUE
  MaxEdits = 3
  MaxPasses = 3
SYMMETRY NodeSymmetry
INVARIANTS ChangesApplied
