SPECIFICATION FairSpec
CONSTANTS
  Conns = {c1, c2}
  Main = Main
  Server = Server
  CtrlC = CtrlC
  Timed = TRUE
  MaxSpurious = 0
  Free = Free
INVARIANTS
  TypeOK
  ScopesRespected
PROPERTIES
  QuietDrainFindsNobodyBusy
  CtrlCEndsProcess
  ShutdownHeardEndsProcess
CHECK_DEADLOCK FALSE
