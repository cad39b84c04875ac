SPECIFICATION Spec
CONSTANTS
  Handles = {h1, h2, h3}
  MaxDepth = 3
  DeleteRecursive = FALSE
SYMMETRY HandleSymmetry
INVARIANTS TypeOK LockedIffOutstanding VerdictIsTruth
