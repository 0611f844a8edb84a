SPECIFICATION SpecServing
CONSTANTS
  Conns = {c1}
  Main = Main
  Server = Server
  CtrlC = CtrlC
  Timed = TRUE
  MaxSpurious = 0
  Free = Free
INVARIANTS
  GuardsPreventExit
CHECK_DEADLOCK FALSE
