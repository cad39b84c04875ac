SPECIFICATION Spec
CONSTANTS
  Handles = {h1, h2, h3}
  NULL = NULL
  Items = {m1}
  Token = Token
  UBaseMod = 4
  Lengths = {1, 2}
  MaxCredit = 2
  Liberties = {"overwriteEmpty"}
PROPERTIES OverwriteStoresMessage
CHECK_DEADLOCK FALSE
