SPECIFICATION Spec
CONSTANTS
  r1 = r1
  r2 = r2
  r3 = r3
  NoRunner = NoRunner
  Runners = {r1, r2, r3}
  Intervals = {1}
  StaleFloor = 2
  MaxPatrol = 5
  MaxTime = 7
  Regimes <- CalmOrFree
SYMMETRY AnyRunner
INVARIANT TypeOK
INVARIANT SingleRunner
INVARIANT JudgedByHeartbeat
INVARIANT NoLockLeft
