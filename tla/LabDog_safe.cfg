SPECIFICATION Spec
CONSTANTS
  Parts = {"session", "remediation", "autonomy"}
  w1 = w1  w2 = w2  c1 = c1  c2 = c2  e1 = e1  e2 = e2  a1 = a1  a2 = a2
  d1 = d1  d2 = d2  g1 = g1  g2 = g2
  Worker = {w1, w2}
  Operator = {c1, c2}
  MaxRequests = 2
  MaxAsked = 2
  Faults = {"raises", "workerDies"}
  Ses = {e1, e2}
  MaxChanges = 2
  MaxRollbacks = 2
  Alert = {a1, a2}
  MaxNotices = 2
  Crash = TRUE
  May = {"dies", "slowCheck", "queuesLong", "forgets", "message"}
  Delivery = {}
  Managed = {}
  Install = Install
  CommitId = {2}
  Before = 0
  File <- Files
  GroupModules <- SomeModules
  Trouble = {}
  MaxHands = 0
SYMMETRY Alike
INVARIANTS TypeOK
  OnlyApprovedRuns DecisionIsDelivered
   OneRollbackAtATime UndoneStaysUnattended
PROPERTIES VerdictIsFinal
CHECK_DEADLOCK FALSE
