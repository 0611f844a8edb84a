SPECIFICATION FairSpec
CONSTANTS
  Guards = {}
  Exiters = {e1, e2}
  AsyncWaiters = {w1, w2}
  BlockingWaiters = {b1, b2}
  Drainers = {}
  TimedDrainers = {}
  MaxSpurious = 0
  Free = Free
INVARIANTS
  NoEarlyExit
PROPERTIES
  RegisteredAreWoken
