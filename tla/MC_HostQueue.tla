---------------------------- MODULE MC_HostQueue ----------------------------
(* Instances of HostQueue for TLC.                                         *)
EXTENDS HostQueue, TLC

CONSTANTS h1, h2,          \* hosts
          s1, s2,          \* syncs
          rH, rF, rG,      \* a host-targeted, a fanned-out and a group run
          wH, f1, f2, g1, g2,
          k1               \* a rollback

\* s1 and rH are on h1, s2 is on h2, rF and rG are on both hosts.
mcSyncHost == [s \in Sync |-> IF s = s1 THEN h1 ELSE h2]
mcRowRun ==
  [w \in Row |-> CASE w = wH -> rH [] w \in {f1, f2} -> rF [] OTHER -> rG]
mcRowHost == [w \in Row |-> IF w \in {wH, f1, g1} THEN h1 ELSE h2]
mcRollbackHost == [b \in Rollback |-> h1]
mcKind ==
  [r \in Run |->
     CASE r = rH -> "host" [] r = rF -> "fanout" [] OTHER -> "group"]

\* The group dispatch is older than what it competes with for h1, and younger
\* than what it competes with for h2.
mcAge == [o \in Sync \cup Run |->
  CASE o = s1 -> 4 [] o = rH -> 3 [] o = rG -> 2 [] o = rF -> 1
    [] OTHER -> 0]
=============================================================================
