------------------------------ MODULE SyncStatus ------------------------------
(***************************************************************************)
(* What LabDog says of one host: the status of each of its modules and the *)
(* badge over them.  They are written by syncs (tasks/                     *)
(* host_sync_orchestrator.py, tasks/sync_sweeper.py), the periodic drift   *)
(* checks (tasks/drift_sweep.py with the module bodies tasks/*_drift.py),   *)
(* the checks an operator asks for (api/drift.py, api/*_drift.py,           *)
(* api/*_sync.py), state collection (api/host_state.py), the drift check   *)
(* that is an action (tasks/builtin_dispatchers.py), rolled-back actions    *)
(* (workflows/steps/rollback.py) and edits of what is wanted               *)
(* (hosts/dependents.py).                                                  *)
(*                                                                         *)
(* Desired and actual configurations are versions.  Who may work on the    *)
(* host is HostMutex's: `op' is the operation that has it.  A session of   *)
(* the ORM holds the row and the badge as it loaded them, and a write      *)
(* reaches the database only when it differs from that.  Left out: hosts   *)
(* without a key or a known firewall, the first connection's host key, and *)
(* a job swept while its worker is alive.                                  *)
(***************************************************************************)
EXTENDS Naturals, FiniteSets

CONSTANTS Module,     \* of firewall, service, hosts_file, linux_user, cron, ...
          MaxEdits,   \* bound: edits of what is wanted, and of the host
          MaxOps      \* bound: operations and checks that are asked for

ASSUME StatusAssumption == MaxEdits \in Nat /\ MaxOps \in Nat

VARIABLES desired,   \* merged desired state of each module
          actual,    \* what the host has
          hms,       \* HostModuleStatus.sync_status
          badge,     \* Host.sync_status
          enabled,   \* modules with periodic drift checks
          op,        \* the operation that has claimed the host
          probe,     \* the drift checks under way
          outage,    \* the host cannot be reached
          edits,     \* how many edits there were
          asked      \* how many operations and checks were asked for

statusVars ==
  <<desired, actual, hms, badge, enabled, op, probe, outage, edits, asked>>

Version == 0..MaxEdits
Other == MaxEdits + 1      \* changed by hand, half applied or rolled back
Verdicts == {"in_sync", "out_of_sync"}
Badge == {"unknown", "error"} \cup Verdicts
ModuleStatus == {"running"} \cup Badge

\* Modules whose periodic check leaves the badge alone, and whose check on
\* demand leaves it alone when it fails.
Quiet == {"service", "hosts_file", "linux_user"}
QuietOnError == {"service", "hosts_file"}

Checker == Module \X {"sweep", "operator"}
\* row, shown: status and badge as loaded; found, summary: what is to be
\* written; stamp: how much was edited and asked when it began (a history)
NoProbe == [pc |-> "idle", wants |-> 0, row |-> "unknown", shown |-> "unknown",
            found |-> "none", summary |-> "none", stamp |-> 0]
NoOp == [kind |-> "none", on |-> {}, plan |-> [m \in Module |-> 0],
         failed |-> {}, shown |-> "unknown", alive |-> FALSE]

Op == [kind : {"none", "sync", "playing", "played", "collect", "drift",
               "action"},
       on : SUBSET Module, plan : [Module -> Version],
       failed : SUBSET Module, shown : Badge, alive : BOOLEAN]
Probe == [pc : {"idle", "connect", "found"}, wants : Version,
          row : ModuleStatus, shown : Badge, found : Badge \cup {"none"},
          summary : Badge \cup {"none"}, stamp : 0..(MaxEdits + MaxOps)]

StatusTypeOK ==
  /\ desired \in [Module -> Version]
  /\ actual \in [Module -> Version \cup {Other}]
  /\ hms \in [Module -> ModuleStatus] /\ badge \in Badge
  /\ enabled \subseteq Module
  /\ op \in Op /\ probe \in [Checker -> Probe]
  /\ outage \in {"ahead", "on", "over"}
  /\ edits \in 0..MaxEdits /\ asked \in 0..MaxOps

StatusInit ==
  /\ desired = [m \in Module |-> 0]
  /\ actual \in [Module -> {0, Other}]
  /\ hms = [m \in Module |-> "unknown"] /\ badge = "unknown"
  /\ enabled \in SUBSET Module
  /\ op = NoOp /\ probe = [c \in Checker |-> NoProbe]
  /\ outage \in {"ahead", "on"} /\ edits = 0 /\ asked = 0

-----------------------------------------------------------------------------
\* What a flush writes: nothing when the value is the one that was loaded.
Dirty(loaded, new) == IF new = loaded THEN "none" ELSE new
Write(old, dirty) == IF dirty = "none" THEN old ELSE dirty
Flush(old, loaded, new) == Write(old, Dirty(loaded, new))

\* refresh_host_sync_status
Summary(rows) ==
  LET S == {rows[m] : m \in Module} IN
    CASE "error" \in S -> "error"
      [] "out_of_sync" \in S /\ "error" \notin S -> "out_of_sync"
      [] S = {"unknown"} -> "unknown"
      [] OTHER -> "in_sync"

Compare(has, wants) == IF has = wants THEN "in_sync" ELSE "out_of_sync"

Free == op.kind = "none"

-----------------------------------------------------------------------------
(* What is wanted, and what the host has                                   *)

\* An edit of the module's rules; the status is left to the next check.
Edit(m) ==
  /\ edits < MaxEdits /\ edits' = edits + 1
  /\ desired' = [desired EXCEPT ![m] = edits + 1]
  /\ UNCHANGED <<actual, hms, badge, enabled, op, probe, outage, asked>>

\* invalidate_host_ref_dependents: an edit of a host that others refer to.
EditReference(m) ==
  /\ m \in {"firewall", "hosts_file"}
  /\ edits < MaxEdits /\ edits' = edits + 1
  /\ desired' = [desired EXCEPT ![m] = edits + 1]
  /\ hms' = [hms EXCEPT ![m] = "out_of_sync"]
  /\ UNCHANGED <<actual, badge, enabled, op, probe, outage, asked>>

ChangeByHand(m) ==
  /\ edits < MaxEdits /\ edits' = edits + 1
  /\ actual' = [actual EXCEPT ![m] = Other]
  /\ UNCHANGED <<desired, hms, badge, enabled, op, probe, outage, asked>>

Outage ==
  /\ \/ outage = "ahead" /\ outage' = "on"
     \/ outage = "on" /\ outage' = "over"
  /\ UNCHANGED <<desired, actual, hms, badge, enabled, op, probe, edits, asked>>

\* update_drift_settings, of the host or of a module.
Toggle(m) ==
  /\ asked < MaxOps /\ asked' = asked + 1
  /\ enabled' = IF m \in enabled THEN enabled \ {m} ELSE enabled \cup {m}
  /\ UNCHANGED <<desired, actual, hms, badge, op, probe, outage, edits>>

-----------------------------------------------------------------------------
(* Operations that claim the host                                          *)

Claim(kind, on) ==
  /\ Free /\ asked < MaxOps /\ asked' = asked + 1
  /\ op' = [NoOp EXCEPT !.kind = kind, !.on = on, !.alive = TRUE,
                        !.shown = IF kind = "sync" THEN @ ELSE badge]

\* _claim_or_defer and _prepare_run, one transaction.
ClaimSync ==
  \E on \in (SUBSET Module) \ {{}} :
    /\ Claim("sync", on)
    /\ hms' = [m \in Module |-> IF m \in on THEN "running" ELSE hms[m]]
    /\ UNCHANGED <<desired, actual, badge, enabled, probe, outage, edits>>

\* build_host_sync_plan, and the playbook is at work on the host.
Play ==
  /\ op.kind = "sync" /\ op.alive /\ outage # "on"
  /\ op' = [op EXCEPT !.kind = "playing", !.plan = desired]
  /\ actual' = [m \in Module |-> IF m \in op.on THEN Other ELSE actual[m]]
  /\ UNCHANGED <<desired, hms, badge, enabled, probe, outage, edits, asked>>

\* run_ansible returns the outcome of each module.
EndPlay ==
  /\ op.kind = "playing" /\ op.alive
  /\ \E failed \in SUBSET op.on :
       /\ outage = "on" => failed = op.on
       /\ op' = [op EXCEPT !.kind = "played", !.failed = failed,
                           !.plan = NoOp.plan]
       /\ actual' = [m \in Module |-> IF m \in op.on \ failed THEN op.plan[m]
                                      ELSE actual[m]]
  /\ UNCHANGED <<desired, hms, badge, enabled, probe, outage, edits, asked>>

\* The plan or the playbook raises: every module is an error.
BreakPlay ==
  /\ op.kind \in {"sync", "playing"} /\ op.alive /\ outage = "on"
  /\ op' = [op EXCEPT !.kind = "played", !.failed = op.on,
                      !.plan = NoOp.plan]
  /\ UNCHANGED <<desired, actual, hms, badge, enabled, probe, outage, edits,
                 asked>>

Outcome(failed) ==
  hms' = [m \in Module |-> CASE m \in failed -> "error"
                             [] m \in op.on \ failed -> "in_sync"
                             [] OTHER -> hms[m]]

\* _finalise_run; the badge is left alone.
FinaliseSync ==
  /\ op.kind = "played" /\ op.alive
  /\ Outcome(op.failed)
  /\ op' = NoOp
  /\ UNCHANGED <<desired, actual, badge, enabled, probe, outage, edits, asked>>

\* _collect_state_async: one module or all of them.
ClaimCollect ==
  /\ \E on \in {Module} \cup {{m} : m \in Module} : Claim("collect", on)
  /\ UNCHANGED <<desired, actual, hms, badge, enabled, probe, outage, edits>>

\* collect_module_state with the checks of what was collected.
Collect ==
  /\ op.kind = "collect" /\ op.alive
  /\ IF outage = "on"
       THEN /\ hms' = [m \in Module |-> IF m \in op.on THEN "unknown"
                                        ELSE hms[m]]
            /\ badge' = Flush(badge, op.shown, "error")
       ELSE /\ \E broken \in SUBSET op.on :
                 /\ broken # {} => outage # "over"
                 /\ hms' = [m \in Module |->
                      CASE m \in broken -> "error"
                        [] m \in op.on \ broken ->
                             Compare(actual[m], desired[m])
                        [] OTHER -> hms[m]]
            /\ badge' = Flush(badge, op.shown, Summary(hms'))
  /\ op' = NoOp
  /\ UNCHANGED <<desired, actual, enabled, probe, outage, edits, asked>>

\* _drift_check_async: the firewall's check as an operation of its own.
ClaimDrift ==
  /\ "firewall" \in Module /\ Claim("drift", {})
  /\ UNCHANGED <<desired, actual, hms, badge, enabled, probe, outage, edits>>

CheckClaimed ==
  /\ op.kind = "drift" /\ op.alive
  /\ IF outage = "on"
       THEN /\ \E s \in {"unknown", "error"} :
                 badge' = Flush(badge, op.shown, s)
            /\ UNCHANGED hms
       ELSE /\ hms' = [hms EXCEPT !["firewall"] =
                         Compare(actual["firewall"], desired["firewall"])]
            /\ badge' = Flush(badge, op.shown, Summary(hms'))
  /\ op' = NoOp
  /\ UNCHANGED <<desired, actual, enabled, probe, outage, edits, asked>>

\* Any other action; one that is rolled back marks the host.
ClaimAction ==
  /\ Claim("action", {})
  /\ UNCHANGED <<desired, actual, hms, badge, enabled, probe, outage, edits>>

EndAction ==
  /\ op.kind = "action" /\ op.alive
  /\ \E changed \in SUBSET Module :
       actual' = [m \in Module |-> IF m \in changed THEN Other ELSE actual[m]]
  /\ badge' \in {badge, Flush(badge, op.shown, "out_of_sync")}
  /\ op' = NoOp
  /\ UNCHANGED <<desired, hms, enabled, probe, outage, edits, asked>>

WorkerDied ==
  /\ op.alive
  /\ op' = [NoOp EXCEPT !.kind = op.kind, !.on = op.on]
  /\ UNCHANGED <<desired, actual, hms, badge, enabled, probe, outage, edits,
                 asked>>

SweepOp_Job ==    \* mutant: the job is failed and its modules forgotten
  /\ ~Free /\ ~op.alive
  /\ op' = NoOp
  /\ UNCHANGED <<desired, actual, hms, badge, enabled, probe, outage, edits,
                 asked>>
\* _sweep_stale_syncs_async finalises a sync as failed; the action sweeper
\* frees the host of the others.
SweepOp ==
  /\ ~Free /\ ~op.alive
  /\ IF op.kind = "collect" THEN UNCHANGED hms ELSE Outcome(op.on)
  /\ op' = NoOp
  /\ UNCHANGED <<desired, actual, badge, enabled, probe, outage, edits, asked>>

-----------------------------------------------------------------------------
(* Checks that do not                                                      *)

Load(c) ==
  probe' = [probe EXCEPT ![c] =
    [NoProbe EXCEPT !.pc = "connect", !.wants = desired[c[1]],
                    !.row = hms[c[1]], !.shown = badge,
                    !.stamp = IF c[2] = "sweep" THEN edits + asked ELSE 0]]

StartSweep_Claimed(m) ==    \* mutant: whoever has the host
  /\ m \in enabled /\ probe[<<m, "sweep">>] = NoProbe
  /\ Load(<<m, "sweep">>)
  /\ UNCHANGED <<desired, actual, hms, badge, enabled, op, outage, edits,
                 asked>>
StartSweep_NotFailed(m) ==    \* mutant: what failed is not tried again
  /\ m \in enabled /\ probe[<<m, "sweep">>] = NoProbe
  /\ Free /\ hms[m] # "error"
  /\ Load(<<m, "sweep">>)
  /\ UNCHANGED <<desired, actual, hms, badge, enabled, op, outage, edits,
                 asked>>
\* sweep_module, step 1: a claimed host is skipped for this tick.
StartSweep(m) ==
  /\ m \in enabled /\ probe[<<m, "sweep">>] = NoProbe
  /\ Free
  /\ Load(<<m, "sweep">>)
  /\ UNCHANGED <<desired, actual, hms, badge, enabled, op, outage, edits,
                 asked>>

AskCheck(m) ==
  /\ asked < MaxOps /\ asked' = asked + 1
  /\ probe[<<m, "operator">>] = NoProbe
  /\ Load(<<m, "operator">>)
  /\ UNCHANGED <<desired, actual, hms, badge, enabled, op, outage, edits>>

Found(c, found, summary) ==
  probe' = [probe EXCEPT ![c] =
    [NoProbe EXCEPT !.pc = "found", !.stamp = probe[c].stamp,
                    !.found = Dirty(probe[c].row, found),
                    !.summary = Dirty(probe[c].shown, summary)]]
\* The badge as this check's transaction sees it.
Refreshed(c, found) ==
  Summary([hms EXCEPT ![c[1]] = Flush(@, probe[c].row, found)])

Sees_Quiet(c) ==    \* mutant: no periodic check refreshes the badge
  LET v == Compare(actual[c[1]], probe[c].wants) IN
    /\ probe[c].pc = "connect" /\ outage # "on"
    /\ CASE c = <<"firewall", "operator">> -> Found(c, "none", v)
         [] c[2] = "sweep" -> Found(c, v, "none")
         [] OTHER -> Found(c, v, Refreshed(c, v))
    /\ UNCHANGED <<desired, actual, hms, badge, enabled, op, outage, edits,
                   asked>>
\* check_<module>_drift_for_one_host, and the endpoints' bodies.
Sees(c) ==
  LET v == Compare(actual[c[1]], probe[c].wants) IN
    /\ probe[c].pc = "connect" /\ outage # "on"
    /\ CASE c = <<"firewall", "operator">> -> Found(c, "none", v)
         [] c[1] \in Quiet /\ c[2] = "sweep" -> Found(c, v, "none")
         [] OTHER -> Found(c, v, Refreshed(c, v))
    /\ UNCHANGED <<desired, actual, hms, badge, enabled, op, outage, edits,
                   asked>>

\* A periodic check that fails: _check_drift_for_one_host speaks of the host,
\* the other modules of themselves.
SweepFails(m) ==
  /\ probe[<<m, "sweep">>].pc = "connect" /\ outage = "on"
  /\ \E s \in {"unknown", "error"} :
       IF m = "firewall" THEN Found(<<m, "sweep">>, "none", s)
                         ELSE Found(<<m, "sweep">>, s, "none")
  /\ UNCHANGED <<desired, actual, hms, badge, enabled, op, outage, edits,
                 asked>>

CheckFails(m) ==
  LET c == <<m, "operator">> IN
    /\ probe[c].pc = "connect" /\ outage = "on"
    /\ CASE m = "firewall" -> Found(c, "none", "error")
         [] m = "resolver" -> Found(c, "none", "none")
         [] m \in QuietOnError -> Found(c, "error", "none")
         [] OTHER -> Found(c, "error", Refreshed(c, "error"))
    /\ UNCHANGED <<desired, actual, hms, badge, enabled, op, outage, edits,
                   asked>>

Commits(c) ==
  /\ hms' = [hms EXCEPT ![c[1]] = Write(@, probe[c].found)]
  /\ badge' = Write(badge, probe[c].summary)
  /\ probe' = [probe EXCEPT ![c] = NoProbe]
  /\ UNCHANGED <<desired, actual, enabled, op, outage, edits, asked>>

CommitSweep_Blind(m) ==    \* mutant: step 3 does not look again
  probe[<<m, "sweep">>].pc = "found" /\ Commits(<<m, "sweep">>)
\* Step 3: the verdict is written under the lock of a host nobody claimed, ...
CommitSweep(m) ==
  /\ probe[<<m, "sweep">>].pc = "found" /\ Free
  /\ Commits(<<m, "sweep">>)

\* ... or rolled back.
DiscardSweep(m) ==
  /\ probe[<<m, "sweep">>].pc = "found" /\ ~Free
  /\ probe' = [probe EXCEPT ![<<m, "sweep">>] = NoProbe]
  /\ UNCHANGED <<desired, actual, hms, badge, enabled, op, outage, edits,
                 asked>>

CommitAsked(m) ==
  probe[<<m, "operator">>].pc = "found" /\ Commits(<<m, "operator">>)

-----------------------------------------------------------------------------
SweepOf(m) ==
  \/ StartSweep(m) \/ Sees(<<m, "sweep">>) \/ SweepFails(m)
  \/ CommitSweep(m) \/ DiscardSweep(m)
CheckOf(m) == Sees(<<m, "operator">>) \/ CheckFails(m) \/ CommitAsked(m)
Operate ==
  \/ Play \/ EndPlay \/ BreakPlay \/ FinaliseSync \/ Collect \/ CheckClaimed
  \/ EndAction \/ SweepOp

StatusNext ==
  \/ \E m \in Module :
       \/ Edit(m) \/ EditReference(m) \/ ChangeByHand(m) \/ Toggle(m)
       \/ AskCheck(m) \/ SweepOf(m) \/ CheckOf(m)
  \/ ClaimSync \/ ClaimCollect \/ ClaimDrift \/ ClaimAction
  \/ Operate \/ WorkerDied \/ Outage

StatusSpec == StatusInit /\ [][StatusNext]_statusVars

\* Checks are on the beat and every command has a deadline, operations end or
\* are swept, and the host comes back.
StatusFairness ==
  /\ \A m \in Module : WF_statusVars(SweepOf(m)) /\ WF_statusVars(CheckOf(m))
  /\ WF_statusVars(Operate) /\ WF_statusVars(outage = "on" /\ Outage)
StatusFairSpec == StatusSpec /\ StatusFairness

-----------------------------------------------------------------------------
\* A module that shows as running is being synced: whatever dies, raises or
\* checks it meanwhile, the status does not outlive the job.
RunningIsSynced ==
  \A m \in Module :
    hms[m] = "running"
    => m \in op.on /\ op.kind \in {"sync", "playing", "played"}

\* drift_sweep.py: a periodic check does not write over the status a sync is
\* maintaining; that takes the sync, an operator's own check or an edit.
SweepYields ==
  [][\A m \in Module :
       hms[m] = "running" /\ hms'[m] # "running"
       => op' # op \/ edits' # edits \/ probe[<<m, "operator">>].pc = "found"
     ]_statusVars

\* A periodic check that writes a wrong verdict was overtaken: an edit came, or
\* an operation or a check was asked for, after it had begun. It never judges
\* the half-applied state of an operation that was there before it.
WrongIsOvertaken ==
  [][\A m \in Module :
       LET p == probe[<<m, "sweep">>] IN
         /\ p.pc = "found" /\ probe'[<<m, "sweep">>] = NoProbe /\ Free
         /\ p.found \in Verdicts
         /\ p.found # Compare(actual[m], desired[m])
         => edits + asked > p.stamp]_statusVars

\* Once nobody edits or asks any more, what the periodic checks cover is shown
\* as it is: a lost, stale or discarded verdict is made good by the next.
StatusConverges ==
  \A m \in Module :
    <>[](m \in enabled => hms[m] = Compare(actual[m], desired[m]))

\* And the badge says what the rows say, if the checks include a module that
\* refreshes it.
BadgeConverges == <>[](enabled \subseteq Quiet \/ badge = Summary(hms))
=============================================================================
