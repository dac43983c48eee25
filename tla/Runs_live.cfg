SPECIFICATION RunsFairSpec
CONSTANTS
  Abouts = {"run", "status"}
  o1 = o1  o2 = o2  g1 = g1  g2 = g2  m1 = m1  m2 = m2  a1 = a1  a2 = a2
  Settled = TRUE
  N = 3
  Parallelism = 2
  Orch = {o1, o2}
  First = o1
  Nobody = Nobody
  Contended = {1}
  May = {"orchDies", "stall", "workerDies"}
  Member = {m1, m2}
  Fates = {{}}
  Module = {"firewall", "service"}
  MaxEdits = 0
  MaxOps = 1
  Group = {g1, g2}
  Key = {"ssh", "web", "any"}
  Packet = {"ssh", "web"}
  Covers <- Reach
  SystemKey = "ssh"
  MaxRank = 2
  MaxPriority = 1
  MaxRows = 3
  Alert = {a1, a2}
  MaxNotices = 2
  Crash = TRUE
  Delivery = {}
  Managed = {}
  Install = Install
  CommitId = {2}
  Before = 0
  File <- Files
  GroupModules <- SomeModules
  Trouble = {}
  MaxHands = 0
INVARIANTS Findable BatchesKeepParallelism
PROPERTIES EveryRowReached StatusConverges BadgeConverges ImplementsRunLife
CHECK_DEADLOCK FALSE
