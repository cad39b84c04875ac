SPECIFICATION Spec
CONSTANTS
  Handles = {h1, h2, h3, h4}
  NULL = NULL
  Items = {m1}
  Token = Token
  UBaseMod = 4
  Lengths = {1, 2, 7}
  MaxCredit = 3
  Liberties = {"overwriteEmpty"}
SYMMETRY HandleSymmetry
INVARIANTS TypeOK CountsAreExact EntriesAreMembers NoPhantomEvent NoLostEvent
PROPERTIES ImplementsQueueSet
CHECK_DEADLOCK FALSE
