SPECIFICATION FairSpec
CONSTANTS
  Width = 32
  Group = 7
  Limit = 5
  Values <- Boundary
  Foreign <- ForeignBytes
INVARIANTS
  RoundTrip
  NoFalseAlarm
  ForeignDecoded
  AcceptedIsShort
PROPERTIES
  EveryNumberEnds
CHECK_DEADLOCK FALSE
