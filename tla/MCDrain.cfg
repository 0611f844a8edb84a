SPECIFICATION FairSpec
CONSTANTS
  Guards = {g1, g2, g3}
  Exiters = {}
  AsyncWaiters = {}
  BlockingWaiters = {}
  Drainers = {d1, d2}
  TimedDrainers = {d1}
  MaxSpurious = 1
  Free = Free
INVARIANTS
  TypeOK
  LockDiscipline
  CounterMatchesGuards
  NoLostWakeup
PROPERTIES
  ContractSafety
  ContractProgress
CHECK_DEADLOCK FALSE
