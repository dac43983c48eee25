SPECIFICATION RunsSpec
CONSTANTS
  Abouts = {"gitops"}
  o1 = o1  o2 = o2  g1 = g1  g2 = g2  m1 = m1  m2 = m2  a1 = a1  a2 = a2
  Settled = FALSE
  N = 2
  Parallelism = 1
  Orch = {o1, o2}
  First = o1
  Nobody = Nobody
  Contended = {1, 2}
  May = {"orchDies", "stall", "slowBatch", "sendError", "softLimit", "workerDies", "cancel", "runDeadline"}
  Member = {m1, m2}
  Fates = {{}}
  Module = {"firewall"}
  MaxEdits = 1
  MaxOps = 2
  Group = {g1, g2}
  Key = {"ssh", "web", "any"}
  Packet = {"ssh", "web"}
  Covers <- Reach
  SystemKey = "ssh"
  MaxRank = 2
  MaxPriority = 1
  MaxRows = 3
  Alert = {a1, a2}
  MaxNotices = 3
  Crash = TRUE
  Delivery = {d1, d2}
  Managed = {g1, g2}
  Install = Install
  CommitId = {1, 2, 3}
  Before = 0
  File <- Files
  GroupModules <- SomeModules
  Trouble = {}
  MaxHands = 0
INVARIANT BadFileStopsNoOther
CHECK_DEADLOCK FALSE
