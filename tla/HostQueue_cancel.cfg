SPECIFICATION Spec
CONSTANTS
  h1 = h1  h2 = h2
  s1 = s1  s2 = s2
  rH = rH  rF = rF  rG = rG
  wH = wH  f1 = f1  f2 = f2  g1 = g1  g2 = g2
  k1 = k1
  Host = {h1, h2}
  Sync = {s1}
  Run = {rH, rG}
  Row = {wH, g1, g2}
  Rollback = {}
  SyncHost <- mcSyncHost
  RowRun <- mcRowRun
  RowHost <- mcRowHost
  RollbackHost <- mcRollbackHost
  Kind <- mcKind
  Age <- mcAge
  MaxSends = 1
  May = {"cancel", "orchError", "orchTimeout", "runDeadline", "slowGroup"}
INVARIANTS Exclusive ExecutingIsHeld
PROPERTIES ImplementsRunLife
CHECK_DEADLOCK FALSE
