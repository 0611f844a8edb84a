SPECIFICATION Spec
CONSTANTS
  Width = 64
  Group = 7
  Limit = 11
  Values <- Boundary
  Foreign <- ForeignOnes
INVARIANTS
  AcceptedIsShort
CHECK_DEADLOCK FALSE
