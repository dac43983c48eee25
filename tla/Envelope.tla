------------------------------ MODULE Envelope ------------------------------
(***************************************************************************)
(* What a run of a destructive action does around its playbook: snapshot,  *)
(* verify, roll back, clean up, persist (tasks/action_host.py per host,    *)
(* tasks/action_group.py for a whole group, workflows/steps/), beside a    *)
(* cancel, the orchestrator, the sweeper and "Clean up orphaned snapshots" *)
(* (workflows/snapshot_cleanup.py).                                        *)
(*                                                                         *)
(* A run drives one task per member, or one task for all.  The second      *)
(* takes each phase with all members before the next: the members stand at *)
(* the phases of Position, nobody enters one while another is behind it,   *)
(* and what the code commits at once for all of them is one step of its    *)
(* Team.  Claims, batches, deferrals are HostQueue's and Orchestrator's;   *)
(* here a run is running and a member may start at any time.  Left out:    *)
(* dry runs, post-run syncs, retries of a locked VM, and the age after     *)
(* which the snapshots of a run nobody knows are cleaned up.               *)
(***************************************************************************)
EXTENDS Naturals

CONSTANTS Member,  \* the hosts of the run
          Fates    \* what may happen to one run: sets of events, see below

\* "raises"    a step raises, or the task reaches its soft time limit
\* "dies"      a worker is killed
\* "cancel"    the run is cancelled
\* "driver"    the orchestrator of a run of per-host tasks raises, or reaches
\*             its own soft time limit
\* "overdue"   a task outlasts per_host_deadline_seconds, or the run its own
\* "timesOut"  ansible-runner stops a play at its time limit, some hosts midway

Mishaps == {"raises", "dies", "cancel", "driver", "overdue", "timesOut"}
ASSUME EnvelopeAssumption == Fates \subseteq SUBSET Mishaps

VARIABLES fate,     \* what may happen to this run
          plan,     \* the action, its mappings and the run's toggles
          parent,   \* ActionRun.status
          driven,   \* has the run an orchestrator?
          token,    \* a cancel: "set" in Redis, "done" with the database
          hostRow,  \* ActionHostRun: its status, and is snapshot_name set?
          stage,    \* where each member's task is
          good,     \* what a task makes of its member's play and verify
          vm,       \* how far the play got on the host
          saved,    \* the member's snapshot
          cleaner   \* a clean-up: where it is, and the hosts it spares

envVars ==
  <<fate, plan, parent, driven, token, hostRow, stage, good, vm, saved,
    cleaner>>
parentVars == <<fate, plan, parent, driven, token>>
hostVars == <<hostRow, stage, good, vm, saved>>

\* A rollback and the deletion that follows it are one phase.
Position == [snap |-> 1, name |-> 2, unsaved |-> 2, play |-> 3, verify |-> 4,
             undo |-> 5, drop |-> 5, tidy |-> 6, save |-> 7, close |-> 8]
Working == DOMAIN Position
Terminal == {"succeeded", "failed", "cancelled"}
RowTerminal == Terminal \cup {"skipped"}

EnvelopeTypeOK ==
  /\ fate \in Fates
  /\ plan \in [grouped : BOOLEAN, mapped : SUBSET Member, verify : BOOLEAN,
               undo : BOOLEAN]
  /\ parent \in {"running", "partial"} \cup Terminal
  /\ driven \in BOOLEAN
  /\ token \in {"no", "set", "done"}
  /\ hostRow \in [Member -> [status : {"queued", "running"} \cup RowTerminal,
                             named : BOOLEAN]]
  /\ stage \in [Member -> Working \cup {"queued", "dead", "over"}]
  /\ good \in [Member -> BOOLEAN]
  /\ vm \in [Member -> {"before", "part", "after"}]
  /\ saved \in [Member -> {"none", "kept", "deleted", "reaped"}]
  /\ cleaner \in [pc : {"idle", "reading", "deleting"}, spared : SUBSET Member]

\* A group dispatch has claimed its members and committed their rows; those
\* without an SSH key are skipped, and only counted in the end.
EnvelopeInit ==
  /\ fate \in Fates
  /\ plan \in [grouped : BOOLEAN, mapped : SUBSET Member, verify : BOOLEAN,
               undo : BOOLEAN]
  /\ parent = "running"
  /\ driven = ~plan.grouped
  /\ token = "no"
  /\ \E keyless \in SUBSET Member :
       /\ hostRow = [m \in Member |->
            [status |-> IF ~plan.grouped THEN "queued"
                        ELSE IF m \in keyless THEN "skipped" ELSE "running",
             named |-> FALSE]]
       /\ stage = [m \in Member |->
            IF ~plan.grouped THEN "queued"
            ELSE IF m \in keyless THEN "close" ELSE "snap"]
  /\ good = [m \in Member |-> TRUE]
  /\ vm = [m \in Member |-> "before"]
  /\ saved = [m \in Member |-> "none"]
  /\ cleaner = [pc |-> "idle", spared |-> {}]

-----------------------------------------------------------------------------
(* Tasks, rows and the run *)

Behind(p) == {m \in Member : /\ stage[m] \in Working
                             /\ Position[stage[m]] < Position[p]}
At(m, p) == stage[m] = p /\ (plan.grouped => Behind(p) = {})
\* Who takes a step together with m: all of a group's task, or m alone.
Team(m) ==
  IF plan.grouped
    THEN {n \in Member : /\ stage[n] \in Working
                         /\ Position[stage[n]] = Position[stage[m]]}
    ELSE {m}

\* What a task knew goes with it.
Forgets(members) == good' = [m \in Member |-> m \in members \/ good[m]]
StageTo(m, p) == stage' = [stage EXCEPT ![m] = p]
Snapshotted(m) == m \in plan.mapped

\* Phases E and F: back to the snapshot, rid of it, or neither.
AfterVerdict(m, ok) ==
  IF ~Snapshotted(m) THEN "save"
  ELSE IF ok THEN "tidy"
  ELSE IF plan.undo THEN "undo" ELSE "save"
AfterPlay(m, ok) ==
  IF ok /\ Snapshotted(m) /\ plan.verify THEN "verify" ELSE AfterVerdict(m, ok)

\* The status the rows of a run add up to: a skipped row counts against a
\* group dispatch, and not against a run of per-host tasks.
Has(rows, statuses) == \E m \in Member : rows[m].status \in statuses
SumOver(rows, bad) == IF ~Has(rows, bad) THEN "succeeded"
                      ELSE IF Has(rows, {"succeeded"}) THEN "partial"
                      ELSE "failed"
Sum(rows) == SumOver(rows, {"failed"})
GroupSum(rows) == SumOver(rows, {"failed", "skipped"})
RowsClosed == \A m \in Member : hostRow[m].status \in RowTerminal

-----------------------------------------------------------------------------
(* The envelope *)

\* A per-host task claims its row, which it may have seen no token before, ...
Begin(m) ==
  /\ stage[m] = "queued" /\ hostRow[m].status = "queued"
  /\ hostRow' = [hostRow EXCEPT ![m].status = "running"]
  /\ StageTo(m, "snap")
  /\ UNCHANGED <<parentVars, good, vm, saved, cleaner>>

\* ... or sees the token: it leaves, and does not ask whether the run is over.
CancelledBeforeStart(m) ==
  /\ stage[m] = "queued" /\ hostRow[m].status = "queued"
  /\ token # "no"
  /\ hostRow' = [hostRow EXCEPT ![m].status = "cancelled"]
  /\ StageTo(m, "over")
  /\ UNCHANGED <<parentVars, good, vm, saved, cleaner>>

\* The host of a row that is claimed has no SSH key.
SkipHost(m) ==
  /\ ~plan.grouped /\ stage[m] = "snap"
  /\ hostRow' = [hostRow EXCEPT ![m].status = "skipped"]
  /\ StageTo(m, "close")
  /\ UNCHANGED <<parentVars, good, vm, saved, cleaner>>

\* Preflight, for one host, or its snapshot failed, which may exist all the
\* same.  A group's task writes that down with the names.
NotSnapshotted(m) ==
  /\ At(m, "snap") /\ (plan.grouped => Snapshotted(m))
  /\ \E snapshot \in {"none"} \cup (IF Snapshotted(m) THEN {"kept"} ELSE {}) :
       saved' = [saved EXCEPT ![m] = snapshot]
  /\ IF plan.grouped
       THEN StageTo(m, "unsaved") /\ UNCHANGED hostRow
       ELSE StageTo(m, "close")
            /\ hostRow' = [hostRow EXCEPT ![m].status = "failed"]
  /\ UNCHANGED <<parentVars, good, vm, cleaner>>

TakeSnapshot(m) ==
  /\ At(m, "snap")
  /\ saved' = [saved EXCEPT ![m] = IF Snapshotted(m) THEN "kept" ELSE @]
  /\ StageTo(m, "name")
  /\ UNCHANGED <<parentVars, hostRow, good, vm, cleaner>>

\* ActionHostRun.snapshot_name, and a group's members without a snapshot out.
NameSnapshot(m) ==
  /\ stage[m] \in {"name", "unsaved"} /\ (plan.grouped => Behind("name") = {})
  /\ hostRow' = [n \in Member |->
       IF n \notin Team(m) THEN hostRow[n]
       ELSE IF stage[n] = "unsaved" THEN [hostRow[n] EXCEPT !.status = "failed"]
       ELSE [hostRow[n] EXCEPT !.named = Snapshotted(n)]]
  /\ stage' = [n \in Member |->
       IF n \notin Team(m) THEN stage[n]
       ELSE IF stage[n] = "unsaved" THEN "close" ELSE "play"]
  /\ UNCHANGED <<parentVars, good, vm, saved, cleaner>>

\* The play: it ends on a host, fails there, never gets to change it, or is
\* stopped midway.  A group's task takes a host it has seen without a failure
\* for one that succeeded.
PlayEnds == {"finished", "failed", "untouched"}
            \cup (IF "timesOut" \in fate THEN {"stopped"} ELSE {})
RunPlay(m) ==
  /\ At(m, "play")
  /\ \E end \in [Team(m) -> PlayEnds] :
       LET ok(n) == end[n] = "finished" \/ (plan.grouped /\ end[n] = "stopped")
       IN /\ good' = [n \in Member |->
                        IF n \in Team(m) THEN ok(n) ELSE good[n]]
          /\ vm' = [n \in Member |->
                      IF n \notin Team(m) THEN vm[n]
                      ELSE IF end[n] = "finished" THEN "after"
                      ELSE IF end[n] = "untouched" THEN "before" ELSE "part"]
          /\ stage' = [n \in Member |->
               IF n \in Team(m) THEN AfterPlay(n, ok(n)) ELSE stage[n]]
  /\ UNCHANGED <<parentVars, hostRow, saved, cleaner>>

Verify_Forgiven(m) ==    \* mutant: rolled back, and recorded as its play went
  /\ At(m, "verify")
  /\ \E passed \in BOOLEAN : StageTo(m, AfterVerdict(m, passed))
  /\ UNCHANGED <<parentVars, hostRow, good, vm, saved, cleaner>>
\* The pack's playbook, or services, packages and the assistant.
Verify(m) ==
  /\ At(m, "verify")
  /\ \E passed \in BOOLEAN :
       /\ good' = [good EXCEPT ![m] = passed]
       /\ StageTo(m, AfterVerdict(m, passed))
  /\ UNCHANGED <<parentVars, hostRow, vm, saved, cleaner>>

\* rollback_to_snapshot: the host is back, ...
Undo(m) ==
  /\ At(m, "undo") /\ saved[m] = "kept"
  /\ vm' = [vm EXCEPT ![m] = "before"]
  /\ \E next \in {"drop", "save"} : StageTo(m, next)    \* save: without SSH
  /\ UNCHANGED <<parentVars, hostRow, good, saved, cleaner>>

UndoFails_Unread(m) ==    \* mutant: whatever rollback_to_snapshot returned
  /\ At(m, "undo")
  /\ StageTo(m, "drop")
  /\ UNCHANGED <<parentVars, hostRow, good, vm, saved, cleaner>>
\* ... or it is not, which is logged.
UndoFails(m) ==
  /\ At(m, "undo")
  /\ StageTo(m, "save")
  /\ UNCHANGED <<parentVars, hostRow, good, vm, saved, cleaner>>

\* The snapshot of a host that is back, or that needs none: Proxmox deletes it,
\* or fails to, which is never fatal.
DeleteSnapshot(m) ==
  /\ At(m, "drop") \/ At(m, "tidy")
  /\ \/ UNCHANGED saved
     \/ saved[m] = "kept" /\ saved' = [saved EXCEPT ![m] = "deleted"]
  /\ StageTo(m, "save")
  /\ UNCHANGED <<parentVars, hostRow, good, vm, cleaner>>

\* Phase G, over whatever the row says by now.
Persist(m) ==
  /\ At(m, "save")
  /\ hostRow' = [n \in Member |->
       IF n \notin Team(m) THEN hostRow[n]
       ELSE [hostRow[n] EXCEPT
               !.status = IF good[n] THEN "succeeded" ELSE "failed"]]
  /\ stage' = [n \in Member |-> IF n \in Team(m) THEN "close" ELSE stage[n]]
  /\ Forgets(Team(m))
  /\ UNCHANGED <<parentVars, vm, saved, cleaner>>

\* _aggregate_and_finalise, which asks for a cancel only, or
\* finalise_run_if_complete, which closes an open run whose rows are closed.
Finish(m) ==
  /\ At(m, "close")
  /\ parent' = IF plan.grouped
                 THEN IF parent = "cancelled" THEN parent
                      ELSE GroupSum(hostRow)
                 ELSE IF parent = "running" /\ RowsClosed THEN Sum(hostRow)
                      ELSE parent
  /\ stage' = [n \in Member |-> IF n \in Team(m) THEN "over" ELSE stage[n]]
  /\ UNCHANGED <<fate, plan, driven, token, hostRow, good, vm, saved, cleaner>>

-----------------------------------------------------------------------------
(* What goes wrong *)

\* The hosts of m's task, and what a play that breaks off leaves of them.
Hands(m) ==
  IF plan.grouped THEN {n \in Member : stage[n] \in Working} ELSE {m}
BrokenOff(m) ==
  \E part \in SUBSET {n \in Hands(m) : stage[n] = "play"} :
    vm' = [n \in Member |-> IF n \in part THEN "part" ELSE vm[n]]

\* _on_failure and _on_soft_timeout fail the row, _mark_run_failed the run and
\* the rows that are open: nothing is verified or rolled back.
Raise(m) ==
  /\ "raises" \in fate
  /\ stage[m] \in Working /\ (stage[m] = "close" => plan.grouped)
  /\ BrokenOff(m)
  /\ hostRow' = [n \in Member |->
       IF n \in Hands(m) /\ (plan.grouped => hostRow[n].status = "running")
         THEN [hostRow[n] EXCEPT !.status = "failed"] ELSE hostRow[n]]
  /\ parent' = IF plan.grouped THEN "failed" ELSE parent
  /\ stage' = [n \in Member |->
       IF n \in Hands(m) THEN IF plan.grouped THEN "over" ELSE "close"
       ELSE stage[n]]
  /\ Forgets(Hands(m))
  /\ UNCHANGED <<fate, plan, driven, token, saved, cleaner>>

TaskDies(m) ==
  /\ "dies" \in fate
  /\ stage[m] \in Working
  /\ BrokenOff(m)
  /\ stage' = [n \in Member |-> IF n \in Hands(m) THEN "dead" ELSE stage[n]]
  /\ Forgets(Hands(m))
  /\ UNCHANGED <<parentVars, hostRow, saved, cleaner>>

\* _sweep_stale_host_runs, for the row of a worker that is gone, or that takes
\* longer than its host may: a group's task has the time of all of them.
SweepHostRow(m) ==
  /\ \/ stage[m] = "dead"
     \/ "overdue" \in fate /\ stage[m] \in Working
  /\ hostRow[m].status = "running"
  /\ hostRow' = [hostRow EXCEPT ![m].status = "failed"]
  /\ UNCHANGED <<parentVars, stage, good, vm, saved, cleaner>>

\* The orchestrator's or the sweeper's finalise.
SumUpRun ==
  /\ parent = "running" /\ RowsClosed
  /\ parent' = Sum(hostRow)
  /\ UNCHANGED <<fate, plan, driven, token, hostVars, cleaner>>

\* Rows no task has claimed are cancelled; hosts at work are left to finish.
CancelQueued ==
  hostRow' = [m \in Member |->
    IF hostRow[m].status = "queued"
      THEN [hostRow[m] EXCEPT !.status = "cancelled"] ELSE hostRow[m]]

\* cancel_run sets the token of a run it has read, ...
CancelAsked ==
  /\ "cancel" \in fate /\ token = "no"
  /\ token' = IF parent = "running" THEN "set" ELSE "done"
  /\ UNCHANGED <<fate, plan, parent, driven, hostVars, cleaner>>

\* ... and cancels it as it was then.  An orchestrator that sees the token does
\* the same to a run that is open.
CancelCommitted ==
  /\ token = "set"
  /\ token' = "done"
  /\ parent' = "cancelled"
  /\ CancelQueued
  /\ UNCHANGED <<fate, plan, driven, stage, good, vm, saved, cleaner>>

\* _mark_run_failed: the rows are left as they are.
DriverRaises ==
  /\ "driver" \in fate /\ driven
  /\ driven' = FALSE
  /\ parent' = "failed"
  /\ UNCHANGED <<fate, plan, token, hostVars, cleaner>>

\* _finalise_soft_limited.
DriverTimesOut ==
  /\ "driver" \in fate /\ driven
  /\ driven' = FALSE
  /\ parent' = IF parent = "cancelled" THEN parent
               ELSE IF Has(hostRow, {"succeeded"}) THEN "partial" ELSE "failed"
  /\ CancelQueued
  /\ UNCHANGED <<fate, plan, token, stage, good, vm, saved, cleaner>>

\* _sweep_stale_runs, past run_deadline_seconds.
RunOverdue ==
  /\ "overdue" \in fate
  /\ parent = "running" /\ ~RowsClosed
  /\ parent' = "failed"
  /\ CancelQueued
  /\ UNCHANGED <<fate, plan, driven, token, stage, good, vm, saved, cleaner>>

-----------------------------------------------------------------------------
(* The clean-up of orphaned snapshots *)

\* Snapshots that open rows name are in use, ...
CleanRead ==
  /\ cleaner.pc = "idle"
  /\ cleaner' = [pc |-> "reading",
                 spared |-> {m \in Member :
                               /\ hostRow[m].named
                               /\ hostRow[m].status \in {"queued", "running"}}]
  /\ UNCHANGED <<parentVars, hostVars>>

CleanRuns_AnyRun ==    \* mutant: whatever an open row names, is in use; no more
  /\ cleaner.pc = "reading"
  /\ cleaner' = [cleaner EXCEPT !.pc = "deleting"]
  /\ UNCHANGED <<parentVars, hostVars>>
\* ... those of a closed run are not, ...
CleanRuns ==
  /\ cleaner.pc = "reading"
  /\ cleaner' = IF parent = "running" THEN [pc |-> "idle", spared |-> {}]
                                      ELSE [cleaner EXCEPT !.pc = "deleting"]
  /\ UNCHANGED <<parentVars, hostVars>>

\* ... Proxmox lists what there is, some time later, and deletes it or fails to:
\* a snapshot that is deleted was there when it was listed.
CleanDelete(m) ==
  /\ cleaner.pc = "deleting" /\ m \notin cleaner.spared
  /\ saved[m] = "kept"
  /\ saved' = [saved EXCEPT ![m] = "reaped"]
  /\ UNCHANGED <<parentVars, hostRow, stage, good, vm, cleaner>>

CleanEnd ==
  /\ cleaner.pc = "deleting"
  /\ cleaner' = [pc |-> "idle", spared |-> {}]
  /\ UNCHANGED <<parentVars, hostVars>>

-----------------------------------------------------------------------------
EnvelopeNext ==
  \/ \E m \in Member :
       \/ Begin(m) \/ CancelledBeforeStart(m) \/ SkipHost(m)
       \/ NotSnapshotted(m) \/ TakeSnapshot(m) \/ NameSnapshot(m)
       \/ RunPlay(m) \/ Verify(m) \/ Undo(m) \/ UndoFails(m)
       \/ DeleteSnapshot(m) \/ Persist(m) \/ Finish(m)
       \/ Raise(m) \/ TaskDies(m) \/ SweepHostRow(m) \/ CleanDelete(m)
  \/ SumUpRun \/ CancelAsked \/ CancelCommitted
  \/ DriverRaises \/ DriverTimesOut \/ RunOverdue
  \/ CleanRead \/ CleanRuns \/ CleanEnd

EnvelopeSpec == EnvelopeInit /\ [][EnvelopeNext]_envVars

-----------------------------------------------------------------------------
\* A host that a play left half changed is one the run can still put back: no
\* task deletes its snapshot ("rolls back any host whose action or verify
\* failed"; without auto_rollback it is "retained for manual recovery").
WayBackIsKept ==
  \A m \in Member : vm[m] = "part" => saved[m] # "deleted"

\* A run recorded as succeeded ran its play to the end on each of its hosts,
\* and left it so, but for hosts it never touched: those without a key, unless
\* it was a group dispatch, and those whose task saw the token of a cancel that
\* has not reached the database.  A row says succeeded of the first kind only.
SuccessIsEarned ==
  \A m \in Member :
    /\ hostRow[m].status = "succeeded" => vm[m] = "after"
    /\ parent = "succeeded" /\ hostRow[m].status # "succeeded"
       => /\ vm[m] = "before" /\ saved[m] = "none"
          /\ \/ hostRow[m].status = "skipped"
             \/ hostRow[m].status = "cancelled" /\ token # "no"

\* The clean-up takes no snapshot from a task that may still need it, unless
\* the run was closed over the task: by a cancel, by an orchestrator that fails,
\* or by the sweeper.  A snapshot that is not named yet then looks like one of a
\* run that is over.
Needs == {"name", "play", "verify", "undo"}
ClosedOver ==
  (IF "cancel" \in fate THEN {"cancelled"} ELSE {})
  \cup (IF {"driver", "overdue"} \cap fate # {}
          THEN {"failed", "partial"} ELSE {})
InUseIsKept ==
  \A m \in Member :
    stage[m] \in Needs /\ saved[m] = "reaped" => parent \in ClosedOver
=============================================================================
