SPECIFICATION Spec
CONSTANTS
  Width = 64
  Group = 7
  Limit = 11
  Values <- Boundary
  Foreign <- ForeignOnes
INVARIANTS
  TypeOK
  RoundTrip
  NoFalseAlarm
  ForeignDecoded
CHECK_DEADLOCK FALSE
