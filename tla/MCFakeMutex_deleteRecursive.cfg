SPECIFICATION Spec
CONSTANTS
  Handles = {h1, h2}
  MaxDepth = 2
  DeleteRecursive = TRUE
SYMMETRY HandleSymmetry
INVARIANTS DeletedIsNotReported
