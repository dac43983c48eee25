------------------------------ MODULE HostQueue ------------------------------
(***************************************************************************)
(* The per-host queue of LabDog (backend/app/tasks/host_lock.py) and the   *)
(* Celery tasks that meet in it:                                           *)
(*                                                                         *)
(*   - a sync           one SyncJob row, run by run_host_sync;             *)
(*   - a per-host row   one ActionHostRun, run by run_action_host or by a  *)
(*                      built-in that takes the host (drift_check,         *)
(*                      collect_state); its ActionRun targets one host     *)
(*                      ("host") or is fanned out over a group ("fanout"); *)
(*   - a group dispatch an ActionRun whose single task works on every      *)
(*                      member at once ("group");                          *)
(*   - a rollback       one AIRollback: the assistant restores a host to a *)
(*                      snapshot. It never waits: a busy host refuses it.  *)
(*                                                                         *)
(* A task claims its host(s) in one transaction under the Postgres         *)
(* advisory locks of those hosts, so a claim is one step here. From the    *)
(* commit on, the host is held by the status columns alone. The task then  *)
(* works, commits its final status, and releases each host: the oldest     *)
(* pending operation of that host is sent to the broker again. Between any *)
(* two commits every other task, the API and the sweepers may run.         *)
(*                                                                         *)
(* A _builtin.sync row runs without the lock and is not in this module.    *)
(***************************************************************************)
EXTENDS Naturals, FiniteSets

CONSTANTS
  Host,      \* managed hosts
  Sync,      \* SyncJob rows that may be created
  Run,       \* ActionRun rows that may be created
  Row,       \* ActionHostRun rows: one per host of a run
  Rollback,  \* AIRollback rows that may be created
  SyncHost,  \* SyncJob.host_id
  RowRun,    \* ActionHostRun.action_run_id
  RowHost,   \* ActionHostRun.host_id
  RollbackHost, \* AIRollback.host_id
  Kind,      \* how a run is dispatched: "host", "fanout" or "group"
  Age,       \* created_at of a SyncJob or an ActionRun
  MaxSends,  \* bound: how often orchestrators send one row's task
  May        \* the events of the environment that are allowed to happen

Events == { "cancel",       \* POST /runs/{id}/cancel
            "workerDies",   \* a worker is killed while its task works
            "lateDeath",    \* ... after its final status, before its release
            "lostMessage",  \* the broker loses a task
            "orchError",    \* the orchestrator's driver raises
            "orchTimeout",  \* the orchestrator reaches its soft time limit
            "runDeadline",  \* a live run outlasts run_deadline_seconds
            "slowGroup",    \* a live group task outlasts its rows' deadline
            "orphan",       \* a queued run is an hour old
            "noKey" }       \* a group member has no SSH key

Rows(r) == { w \in Row : RowRun[w] = r }
Members(r) == { RowHost[w] : w \in Rows(r) }
Group == { r \in Run : Kind[r] = "group" }

ASSUME StructureAssumption ==
  /\ SyncHost \in [Sync -> Host]
  /\ RowRun \in [Row -> Run]
  /\ RowHost \in [Row -> Host]
  /\ RollbackHost \in [Rollback -> Host]
  /\ Kind \in [Run -> {"host", "fanout", "group"}]
  /\ \A v, w \in Row : RowRun[v] = RowRun[w] /\ RowHost[v] = RowHost[w] => v = w
  /\ \A r \in Run : Kind[r] = "host" => \A v, w \in Rows(r) : v = w
  /\ \A r \in Run : Rows(r) # {}
  /\ Sync \cap Run = {} /\ Sync \cap Row = {} /\ Run \cap Row = {}
  /\ Rollback \cap (Sync \cup Run \cup Row) = {}

ASSUME AgeAssumption ==
  /\ Age \in [Sync \cup Run -> Nat]
  /\ \A a, b \in Sync \cup Run : Age[a] = Age[b] => a = b

ASSUME BoundAssumption == MaxSends \in Nat /\ May \subseteq Events

VARIABLES
  syncSt,    \* SyncJob.status
  syncMsg,   \* copies of run_host_sync(job) in the broker
  syncTask,  \* the task that claimed the job
  rowSt,     \* ActionHostRun.status
  rowMsg,    \* copies of the per-host task in the broker
  rowSent,   \* how often an orchestrator has sent the row
  rowTask,   \* the task that claimed the row
  runSt,     \* ActionRun.status
  runMsg,    \* copies of run_action(run) in the broker
  groupMsg,  \* copies of the group task in the broker
  groupTask, \* the group task of a run
  groupOwes, \* hosts the group task claimed and has not released
  sweepOwes, \* hosts the action sweeper is to release on behalf of a run
  cancel,    \* POST /runs/{id}/cancel: not called, token set, or answered
  backSt,    \* AIRollback.status
  backTask   \* run_rollback, from the claim by the API on

syncVars == <<syncSt, syncMsg, syncTask>>
rowVars == <<rowSt, rowMsg, rowSent, rowTask>>
runVars == <<runSt, runMsg, sweepOwes, cancel>>
groupVars == <<groupMsg, groupTask, groupOwes>>
backVars == <<backSt, backTask>>
vars == <<syncVars, rowVars, runVars, groupVars, backVars>>

\* Every final status but "cancelled" is "ended": how an operation ended
\* makes no difference to the queue.
SyncStatus == {"none", "pending", "running", "ended"}
RunStatus == {"none", "queued", "pending", "running", "ended", "cancelled"}
RowStatus == RunStatus \cup {"skipped"}    \* "skipped": no SSH key
TaskState == {"idle", "working", "dead", "closing", "releasing"}
GroupState == TaskState \cup {"preflight", "claimed", "closed"}

TypeOK ==
  /\ syncSt \in [Sync -> SyncStatus]
  /\ syncMsg \in [Sync -> Nat]
  /\ syncTask \in [Sync -> TaskState]
  /\ rowSt \in [Row -> RowStatus]
  /\ rowMsg \in [Row -> Nat]
  /\ rowSent \in [Row -> 0..MaxSends]
  /\ rowTask \in [Row -> TaskState]
  /\ runSt \in [Run -> RunStatus]
  /\ runMsg \in [Run -> Nat]
  /\ groupMsg \in [Run -> Nat]
  /\ groupTask \in [Run -> GroupState]
  /\ groupOwes \in [Run -> SUBSET Host]
  /\ sweepOwes \in [Run -> SUBSET Host]
  /\ cancel \in [Run -> {"no", "token", "done"}]
  /\ backSt \in [Rollback -> {"none", "running", "ended"}]
  /\ backTask \in [Rollback -> TaskState]

Init ==
  /\ syncSt = [s \in Sync |-> "none"]
  /\ syncMsg = [s \in Sync |-> 0]
  /\ syncTask = [s \in Sync |-> "idle"]
  /\ rowSt = [w \in Row |-> "none"]
  /\ rowMsg = [w \in Row |-> 0]
  /\ rowSent = [w \in Row |-> 0]
  /\ rowTask = [w \in Row |-> "idle"]
  /\ runSt = [r \in Run |-> "none"]
  /\ runMsg = [r \in Run |-> 0]
  /\ groupMsg = [r \in Run |-> 0]
  /\ groupTask = [r \in Run |-> "idle"]
  /\ groupOwes = [r \in Run |-> {}]
  /\ sweepOwes = [r \in Run |-> {}]
  /\ cancel = [r \in Run |-> "no"]
  /\ backSt = [b \in Rollback |-> "none"]
  /\ backTask = [b \in Rollback |-> "idle"]

-----------------------------------------------------------------------------
(* host_lock.py: who holds a host, and whom a release wakes.               *)

RunOpen(r) == runSt[r] \in {"queued", "running", "pending"}
NoRows(r) == \A w \in Rows(r) : rowSt[w] = "none"
Token(r) == cancel[r] # "no"    \* the key actions.cancel.<id> is in Redis
RowsDone_Running(r) ==    \* mutant: a running row does not count as open
  \A w \in Rows(r) : rowSt[w] \notin {"none", "queued", "pending"}
RowsDone(r) == \A w \in Rows(r) : rowSt[w] \in {"ended", "skipped", "cancelled"}

\* UPDATE ActionHostRun SET status = to WHERE run AND status IN from.
MoveRows(r, from, to) ==
  [w \in Row |-> IF RowRun[w] = r /\ rowSt[w] \in from THEN to ELSE rowSt[w]]

\* The scans of check_host_busy; self holds the ActionRun it is told to
\* exclude.
RollbackHolds(h) ==
  \E b \in Rollback : RollbackHost[b] = h /\ backSt[b] = "running"
SyncHolds(h) == \E s \in Sync : SyncHost[s] = h /\ syncSt[s] = "running"
HostRunHolds(h, self) ==
  \E r \in Run \ self :
     Kind[r] = "host" /\ h \in Members(r) /\ runSt[r] = "running"
RowHolds(h, self) ==
  \E w \in Row : /\ RowHost[w] = h
                 /\ RowRun[w] \notin self
                 /\ rowSt[w] = "running"
                 /\ runSt[RowRun[w]] = "running"
ClaimedGroupHolds(h, self) ==
  \E r \in Run \ self : /\ Kind[r] # "host"
                        /\ h \in Members(r)
                        /\ runSt[r] = "running"
                        /\ NoRows(r)

Busy_BeforeLoad(h, self) ==    \* mutant: scan 3b is missing (BUG-62)
  RollbackHolds(h) \/ SyncHolds(h) \/ HostRunHolds(h, self) \/ RowHolds(h, self)
Busy(h, self) ==
  \/ RollbackHolds(h)
  \/ SyncHolds(h)
  \/ HostRunHolds(h, self)
  \/ RowHolds(h, self)
  \/ ClaimedGroupHolds(h, self)

\* The three queues a release chooses from: syncs, runs deferred before they
\* had rows, deferred rows of a run that is still open.
WaitingSyncs(h) == { s \in Sync : SyncHost[s] = h /\ syncSt[s] = "pending" }
WaitingRuns(h) ==
  { r \in Run : runSt[r] = "pending" /\ h \in Members(r) /\ NoRows(r) }
WaitingRows(h) ==
  { w \in Row : RowHost[w] = h /\ rowSt[w] = "pending" /\ RunOpen(RowRun[w]) }

Waiting_NoRows(h) ==    \* mutant: deferred rows are never selected (BUG-62)
  WaitingSyncs(h) \cup WaitingRuns(h)
Waiting(h) == WaitingSyncs(h) \cup WaitingRuns(h) \cup WaitingRows(h)

RunOf(o) == IF o \in Row THEN RowRun[o] ELSE o
Oldest(waiting) ==
  { o \in waiting : \A p \in waiting : Age[RunOf(o)] <= Age[RunOf(p)] }

DispatchNext_Unmarked(h, ended) ==    \* mutant: all are left pending, as syncs
  LET next == Oldest({ o \in Waiting(h) : RunOf(o) # ended })
      SendTo(msg, o) == IF o \in next THEN msg[o] + 1 ELSE msg[o]
  IN /\ UNCHANGED <<rowSt, runSt>>
     /\ syncMsg' = [s \in Sync |-> SendTo(syncMsg, s)]
     /\ rowMsg' = [w \in Row |-> SendTo(rowMsg, w)]
     /\ runMsg' = [r \in Run |-> SendTo(runMsg, r)]
\* dispatch_next_pending_for_host, but for the operation that just ended. A
\* sync stays pending until its task claims it; a run or a row leaves pending
\* here, so that no second release sends it.
DispatchNext(h, ended) ==
  LET next == Oldest({ o \in Waiting(h) : RunOf(o) # ended }) IN
  \/ /\ next = {}
     /\ UNCHANGED <<syncMsg, rowSt, rowMsg, runSt, runMsg>>
  \/ \E s \in next \cap Sync :
       /\ syncMsg' = [syncMsg EXCEPT ![s] = @ + 1]
       /\ UNCHANGED <<rowSt, rowMsg, runSt, runMsg>>
  \/ \E w \in next \cap Row :
       /\ rowSt' = [rowSt EXCEPT ![w] = "queued"]
       /\ rowMsg' = [rowMsg EXCEPT ![w] = @ + 1]
       /\ UNCHANGED <<syncMsg, runSt, runMsg>>
  \/ \E r \in next \cap Run :
       /\ runSt' = [runSt EXCEPT ![r] = "queued"]
       /\ runMsg' = [runMsg EXCEPT ![r] = @ + 1]
       /\ UNCHANGED <<syncMsg, rowSt, rowMsg>>

Claimable_NotRunning(w) == rowSt[w] # "running"    \* mutant
\* is_claimable: a second delivery of a row's task finds it started.
Claimable(w) == rowSt[w] = "queued"

\* A host-targeted run waits, and goes on, with its only row.
DeferParent(r) ==
  runSt' = [runSt EXCEPT ![r] =
    IF Kind[r] = "host" /\ @ \in {"queued", "running"} THEN "pending" ELSE @]
ResumeParent_Never(r) == UNCHANGED runSt    \* mutant
ResumeParent_Always(r) ==    \* mutant: not only from pending
  runSt' = [runSt EXCEPT ![r] = IF Kind[r] = "host" THEN "running" ELSE @]
ResumeParent(r) ==
  runSt' = [runSt EXCEPT ![r] =
    IF Kind[r] = "host" /\ @ = "pending" THEN "running" ELSE @]

\* finalise_run_if_complete: end a run whose rows are all final; a run that
\* was closed meanwhile keeps its status.
FinaliseRun(r) ==
  runSt' = [runSt EXCEPT ![r] =
    IF RowsDone(r) /\ RunOpen(r) THEN "ended" ELSE @]

-----------------------------------------------------------------------------
(* Syncs: api/sync.py and host_sync_orchestrator.py.                       *)

\* The API commits a pending row and sends its task.
SubmitSync(s) ==
  /\ syncSt[s] = "none"
  /\ syncSt' = [syncSt EXCEPT ![s] = "pending"]
  /\ syncMsg' = [syncMsg EXCEPT ![s] = @ + 1]
  /\ UNCHANGED <<syncTask, rowVars, runVars, groupVars, backVars>>

StartSync_Requeue(s) ==    \* mutant: a busy host queues a sync as it does a row
  /\ syncMsg[s] > 0
  /\ Busy(SyncHost[s], {})
  /\ syncMsg' = [syncMsg EXCEPT ![s] = @ - 1]
  /\ syncSt' = [syncSt EXCEPT ![s] = "queued"]
  /\ UNCHANGED <<syncTask, rowVars, runVars, groupVars, backVars>>

\* A worker takes a copy of the task: it drops it when another copy has the
\* job, leaves the job pending when the host is busy, or claims it.
StartSync(s) ==
  /\ syncMsg[s] > 0
  /\ syncMsg' = [syncMsg EXCEPT ![s] = @ - 1]
  /\ \/ /\ syncSt[s] # "pending" \/ Busy(SyncHost[s], {})
        /\ UNCHANGED <<syncSt, syncTask>>
     \/ /\ syncSt[s] = "pending"
        /\ ~Busy(SyncHost[s], {})
        /\ syncSt' = [syncSt EXCEPT ![s] = "running"]
        /\ syncTask' = [syncTask EXCEPT ![s] = "working"]
  /\ UNCHANGED <<rowVars, runVars, groupVars, backVars>>

FinishSync(s) ==
  /\ syncTask[s] = "working"
  /\ syncSt' = [syncSt EXCEPT ![s] = "ended"]
  /\ syncTask' = [syncTask EXCEPT ![s] = "releasing"]
  /\ UNCHANGED <<syncMsg, rowVars, runVars, groupVars, backVars>>

\* The finally block of the task, or the sync sweeper after it failed the job.
ReleaseSync(s) ==
  /\ syncTask[s] = "releasing"
  /\ syncTask' = [syncTask EXCEPT ![s] = "idle"]
  /\ DispatchNext(SyncHost[s], s)
  /\ UNCHANGED <<syncSt, rowSent, rowTask, sweepOwes, cancel, groupVars,
                 backVars>>

\* sync_sweeper: a job running for half an hour has no worker any more.
SweepSync(s) ==
  /\ syncTask[s] = "dead"
  /\ syncSt' = [syncSt EXCEPT ![s] = "ended"]
  /\ syncTask' = [syncTask EXCEPT ![s] = "releasing"]
  /\ UNCHANGED <<syncMsg, rowVars, runVars, groupVars, backVars>>

-----------------------------------------------------------------------------
(* Runs: api/actions.py and action_orchestrator.py. Which rows go out in   *)
(* which batch is left open here: any queued row may be sent.              *)

SubmitRun(r) ==
  /\ runSt[r] = "none"
  /\ runSt' = [runSt EXCEPT ![r] = "queued"]
  /\ runMsg' = [runMsg EXCEPT ![r] = @ + 1]
  /\ UNCHANGED <<sweepOwes, cancel, syncVars, rowVars, groupVars, backVars>>

\* run_action: drop a run that is not queued, hand a group dispatch to its
\* own task, or open the run with a queued row per host.
RunAction(r) ==
  /\ runMsg[r] > 0
  /\ runMsg' = [runMsg EXCEPT ![r] = @ - 1]
  /\ \/ /\ runSt[r] # "queued"
        /\ UNCHANGED <<runSt, rowSt, groupMsg>>
     \/ /\ runSt[r] = "queued"
        /\ r \in Group
        /\ groupMsg' = [groupMsg EXCEPT ![r] = @ + 1]
        /\ UNCHANGED <<runSt, rowSt>>
     \/ /\ runSt[r] = "queued"
        /\ r \notin Group
        /\ runSt' = [runSt EXCEPT ![r] = "running"]
        /\ rowSt' = MoveRows(r, RowStatus, "queued")
        /\ UNCHANGED groupMsg
  /\ UNCHANGED <<sweepOwes, cancel, syncVars, rowMsg, rowSent, rowTask,
                 groupTask, groupOwes, backVars>>

\* The orchestrator, or one that took the run over, sends a queued row.
OrchSend(w) ==
  /\ runSt[RowRun[w]] \in {"running", "pending"}
  /\ rowSt[w] = "queued"
  /\ rowSent[w] < MaxSends
  /\ rowMsg' = [rowMsg EXCEPT ![w] = @ + 1]
  /\ rowSent' = [rowSent EXCEPT ![w] = @ + 1]
  /\ UNCHANGED <<rowSt, rowTask, syncVars, runVars, groupVars, backVars>>

\* The orchestrator at the end of its batches, or pass 2 of action_sweeper
\* when every row is final and nobody closed the run.
CloseRun(r) ==
  /\ RunOpen(r)
  /\ RowsDone(r)
  /\ FinaliseRun(r)
  /\ UNCHANGED <<runMsg, sweepOwes, cancel, syncVars, rowVars, groupVars,
                 backVars>>

\* _mark_run_cancelled: the driver saw the token between two batches.
OrchSeesCancel(r) ==
  /\ Token(r)
  /\ r \notin Group
  /\ runSt[r] \in {"running", "pending"}
  /\ runSt' = [runSt EXCEPT ![r] = "cancelled"]
  /\ rowSt' = MoveRows(r, {"queued", "pending"}, "cancelled")
  /\ UNCHANGED <<runMsg, sweepOwes, cancel, syncVars, rowMsg, rowSent,
                 rowTask, groupVars, backVars>>

\* _finalise_soft_limited: the driver waited for 12 hours.
OrchTimeout(r) ==
  /\ "orchTimeout" \in May
  /\ r \notin Group
  /\ runSt[r] \in {"running", "pending"}
  /\ runSt' = [runSt EXCEPT ![r] = "ended"]
  /\ rowSt' = MoveRows(r, {"queued"}, "cancelled")
  /\ UNCHANGED <<runMsg, sweepOwes, cancel, syncVars, rowMsg, rowSent,
                 rowTask, groupVars, backVars>>

\* _mark_run_failed: the driver raised. The run ends whatever its status was,
\* its rows are left as they are.
OrchError(r) ==
  /\ "orchError" \in May
  /\ r \notin Group
  /\ runSt[r] \notin {"none", "queued"}
  /\ runSt' = [runSt EXCEPT ![r] = "ended"]
  /\ UNCHANGED <<runMsg, sweepOwes, cancel, syncVars, rowVars, groupVars,
                 backVars>>

\* POST /runs/{id}/cancel reads the run and sets the Redis token. A run that
\* is over gets no more than the token ...
RequestCancel(r) ==
  /\ "cancel" \in May
  /\ runSt[r] # "none"
  /\ cancel[r] = "no"
  /\ cancel' = [cancel EXCEPT ![r] = IF RunOpen(r) THEN "token" ELSE "done"]
  /\ UNCHANGED <<runSt, runMsg, sweepOwes, syncVars, rowVars, groupVars,
                 backVars>>

\* ... any other is cancelled on the strength of that read, with the rows that
\* have not started. A row that runs is left to finish.
CommitCancel(r) ==
  /\ cancel[r] = "token"
  /\ cancel' = [cancel EXCEPT ![r] = "done"]
  /\ runSt' = [runSt EXCEPT ![r] = "cancelled"]
  /\ rowSt' = MoveRows(r, {"queued", "pending"}, "cancelled")
  /\ UNCHANGED <<runMsg, sweepOwes, syncVars, rowMsg, rowSent, rowTask,
                 groupVars, backVars>>

-----------------------------------------------------------------------------
(* Per-host rows: action_host.py and the locking built-ins.                *)

\* A worker takes a copy of the per-host task: it drops it when another copy
\* has the row, cancels the row when it sees the token, defers it - and a
\* host-targeted run with it - when the host is busy, or claims it and resumes
\* the run. The token is read before the lock, and not by the built-ins.
StartRow(w) ==
  LET r == RowRun[w] IN
  /\ rowMsg[w] > 0
  /\ rowMsg' = [rowMsg EXCEPT ![w] = @ - 1]
  /\ \/ /\ ~Claimable(w)
        /\ UNCHANGED <<rowSt, rowTask, runSt>>
     \/ /\ rowSt[w] = "queued"
        /\ Token(r)
        /\ rowSt' = [rowSt EXCEPT ![w] = "cancelled"]
        /\ UNCHANGED <<rowTask, runSt>>
     \/ /\ Claimable(w)
        /\ Busy(RowHost[w], {r})
        /\ rowSt' = [rowSt EXCEPT ![w] = "pending"]
        /\ DeferParent(r)
        /\ UNCHANGED rowTask
     \/ /\ Claimable(w)
        /\ ~Busy(RowHost[w], {r})
        /\ rowSt' = [rowSt EXCEPT ![w] = "running"]
        /\ rowTask' = [rowTask EXCEPT ![w] = "working"]
        /\ ResumeParent(r)
  /\ UNCHANGED <<rowSent, runMsg, sweepOwes, cancel, syncVars, groupVars,
                 backVars>>

\* The final status of the row, whatever the envelope came to.
FinishRow(w) ==
  /\ rowTask[w] = "working"
  /\ rowSt' = [rowSt EXCEPT ![w] = "ended"]
  /\ rowTask' = [rowTask EXCEPT ![w] = "closing"]
  /\ UNCHANGED <<rowMsg, rowSent, syncVars, runVars, groupVars, backVars>>

\* post_run_sync: a sync is left pending for the release that follows.
QueuePostRunSync(w, s) ==
  /\ rowTask[w] = "closing"
  /\ SyncHost[s] = RowHost[w]
  /\ syncSt[s] = "none"
  /\ syncSt' = [syncSt EXCEPT ![s] = "pending"]
  /\ UNCHANGED <<syncMsg, syncTask, rowVars, runVars, groupVars, backVars>>

CloseParent_Late(w) ==    \* mutant: left to the orchestrator (BUG-117)
  /\ rowTask[w] = "closing"
  /\ rowTask' = [rowTask EXCEPT ![w] = "releasing"]
  /\ UNCHANGED <<rowSt, rowMsg, rowSent, runVars, syncVars, groupVars,
                 backVars>>

\* The parent is closed before the host is released.
CloseParent(w) ==
  /\ rowTask[w] = "closing"
  /\ rowTask' = [rowTask EXCEPT ![w] = "releasing"]
  /\ FinaliseRun(RowRun[w])
  /\ UNCHANGED <<rowSt, rowMsg, rowSent, runMsg, sweepOwes, cancel, syncVars,
                 groupVars, backVars>>

ReleaseRow(w) ==
  /\ rowTask[w] = "releasing"
  /\ rowTask' = [rowTask EXCEPT ![w] = "idle"]
  /\ DispatchNext(RowHost[w], RowRun[w])
  /\ UNCHANGED <<syncSt, syncTask, rowSent, sweepOwes, cancel, groupVars,
                 backVars>>

\* action_sweeper, pass 1: a row past its deadline has no worker any more, but
\* one of a group dispatch may (its task's limits are the whole run's). The
\* sweeper releases the host.
SweepRow(w) ==
  LET r == RowRun[w] IN
  /\ rowSt[w] = "running"
  /\ \/ rowTask[w] = "dead"
     \/ r \in Group /\ (groupTask[r] = "dead" \/ "slowGroup" \in May)
  /\ rowSt' = [rowSt EXCEPT ![w] = "ended"]
  /\ rowTask' = [rowTask EXCEPT ![w] = "idle"]
  /\ sweepOwes' = [sweepOwes EXCEPT ![r] = @ \cup {RowHost[w]}]
  /\ UNCHANGED <<rowMsg, rowSent, runSt, runMsg, cancel, syncVars, groupVars,
                 backVars>>

-----------------------------------------------------------------------------
(* Group dispatch: action_group.py.                                        *)

\* The task reads the token and goes on, or cancels the run.
StartGroup(r) ==
  /\ groupMsg[r] > 0
  /\ groupTask[r] = "idle"
  /\ groupMsg' = [groupMsg EXCEPT ![r] = @ - 1]
  /\ IF Token(r) THEN /\ runSt' = [runSt EXCEPT ![r] = "cancelled"]
                      /\ UNCHANGED groupTask
                 ELSE /\ groupTask' = [groupTask EXCEPT ![r] = "preflight"]
                      /\ UNCHANGED runSt
  /\ UNCHANGED <<runMsg, sweepOwes, cancel, groupOwes, syncVars, rowVars,
                 backVars>>

\* _claim_or_defer_group: under the locks of every member, defer the run or
\* claim them all. The status the run has meanwhile is overwritten.
ClaimGroup(r) ==
  /\ groupTask[r] = "preflight"
  /\ IF \E h \in Members(r) : Busy(h, {})
     THEN /\ runSt' = [runSt EXCEPT ![r] = "pending"]
          /\ groupTask' = [groupTask EXCEPT ![r] = "idle"]
          /\ UNCHANGED groupOwes
     ELSE /\ runSt' = [runSt EXCEPT ![r] = "running"]
          /\ groupTask' = [groupTask EXCEPT ![r] = "claimed"]
          /\ groupOwes' = [groupOwes EXCEPT ![r] = Members(r)]
  /\ UNCHANGED <<runMsg, sweepOwes, cancel, groupMsg, syncVars, rowVars,
                 backVars>>

\* A run cancelled since the claim is left alone.
Abandoned_Never(r) == FALSE    \* mutant
Abandoned(r) == runSt[r] = "cancelled"

\* The load transaction creates the members' rows, running; a member without an
\* SSH key is skipped.
LoadGroup(r) ==
  /\ groupTask[r] = "claimed"
  /\ \/ /\ Abandoned(r)
        /\ groupTask' = [groupTask EXCEPT ![r] = "releasing"]
        /\ UNCHANGED <<runSt, rowSt>>
     \/ /\ ~Abandoned(r)
        /\ runSt' = [runSt EXCEPT ![r] = "running"]
        /\ groupTask' = [groupTask EXCEPT ![r] = "working"]
        /\ \E skipped \in SUBSET Rows(r) :
             /\ skipped = {} \/ "noKey" \in May
             /\ rowSt' = [w \in Row |-> IF w \in skipped THEN "skipped"
                                       ELSE IF w \in Rows(r) THEN "running"
                                       ELSE rowSt[w]]
  /\ UNCHANGED <<runMsg, sweepOwes, cancel, groupMsg, groupOwes, syncVars,
                 rowMsg, rowSent, rowTask, backVars>>

\* The final status of every member in one transaction ...
FinishGroup(r) ==
  /\ groupTask[r] = "working"
  /\ rowSt' = MoveRows(r, RowStatus \ {"skipped"}, "ended")
  /\ groupTask' = [groupTask EXCEPT ![r] = "closing"]
  /\ UNCHANGED <<rowMsg, rowSent, rowTask, groupMsg, groupOwes, syncVars,
                 runVars, backVars>>

\* ... and _aggregate_and_finalise, which leaves a cancelled run cancelled.
CloseGroup(r) ==
  /\ groupTask[r] = "closing"
  /\ runSt' = [runSt EXCEPT ![r] = IF @ = "cancelled" THEN @ ELSE "ended"]
  /\ groupTask' = [groupTask EXCEPT ![r] = "closed"]
  /\ UNCHANGED <<runMsg, sweepOwes, cancel, groupMsg, groupOwes, syncVars,
                 rowVars, backVars>>

\* post_run_sync for a member, unless the run was cancelled.
QueueGroupSync(r, s) ==
  /\ groupTask[r] = "closed"
  /\ runSt[r] = "ended"
  /\ SyncHost[s] \in Members(r)
  /\ syncSt[s] = "none"
  /\ syncSt' = [syncSt EXCEPT ![s] = "pending"]
  /\ UNCHANGED <<syncMsg, syncTask, rowVars, runVars, groupVars, backVars>>

\* Soft time limit or an exception: _mark_run_failed, whatever the status was.
FailGroup(r) ==
  /\ groupTask[r] \in {"claimed", "working"}
  /\ runSt' = [runSt EXCEPT ![r] = "ended"]
  /\ rowSt' = MoveRows(r, {"queued", "running"}, "ended")
  /\ groupTask' = [groupTask EXCEPT ![r] = "releasing"]
  /\ UNCHANGED <<runMsg, sweepOwes, cancel, groupMsg, groupOwes, syncVars,
                 rowMsg, rowSent, rowTask, backVars>>

\* release_host_queue: one member after the other, in transactions of their own.
ReleaseGroup(r, h) ==
  /\ groupTask[r] \in {"closed", "releasing"}
  /\ h \in groupOwes[r]
  /\ groupOwes' = [groupOwes EXCEPT ![r] = @ \ {h}]
  /\ groupTask' = [groupTask EXCEPT ![r] =
       IF groupOwes[r] = {h} THEN "idle" ELSE "releasing"]
  /\ DispatchNext(h, r)
  /\ UNCHANGED <<syncSt, syncTask, rowSent, rowTask, sweepOwes, cancel,
                 groupMsg, backVars>>

-----------------------------------------------------------------------------
(* Rollbacks by the assistant: api/ai.py, ai/remediation.py.               *)

\* prepare_rollback claims the host under its lock or refuses. At most one
\* rollback of a host runs (unique index).
StartRollback(b) ==
  /\ backSt[b] = "none"
  /\ ~Busy(RollbackHost[b], {})
  /\ backSt' = [backSt EXCEPT ![b] = "running"]
  /\ backTask' = [backTask EXCEPT ![b] = "working"]
  /\ UNCHANGED <<syncVars, rowVars, runVars, groupVars>>

\* run_rollback restored the machine, or release_abandoned gave it up.
FinishRollback(b) ==
  /\ backTask[b] \in {"working", "dead"}
  /\ backSt' = [backSt EXCEPT ![b] = "ended"]
  /\ backTask' = [backTask EXCEPT ![b] = "releasing"]
  /\ UNCHANGED <<syncVars, rowVars, runVars, groupVars>>

ReleaseRollback(b) ==
  /\ backTask[b] = "releasing"
  /\ backTask' = [backTask EXCEPT ![b] = "idle"]
  /\ DispatchNext(RollbackHost[b], b)
  /\ UNCHANGED <<syncSt, syncTask, rowSent, rowTask, sweepOwes, cancel,
                 groupVars, backSt>>

-----------------------------------------------------------------------------
(* Pass 2 of action_sweeper, and what can go wrong with workers and broker. *)

\* A running run past its overall deadline is failed, its waiting rows are
\* cancelled, the rows that run are left running, and the hosts it held are
\* handed on. The deadline counts from the claim and outlasts the load.
SweepRun(r) ==
  /\ runSt[r] = "running"
  /\ "runDeadline" \in May \/ groupTask[r] = "dead"
  /\ groupTask[r] # "claimed"
  /\ ~RowsDone(r)
  /\ runSt' = [runSt EXCEPT ![r] = "ended"]
  /\ rowSt' = MoveRows(r, {"queued", "pending"}, "cancelled")
  /\ sweepOwes' = [sweepOwes EXCEPT ![r] = @ \cup
       { RowHost[w] : w \in {v \in Rows(r) : rowSt[v] = "running"} } \cup
       (IF Kind[r] = "host" \/ NoRows(r) THEN Members(r) ELSE {})]
  /\ UNCHANGED <<runMsg, cancel, rowMsg, rowSent, rowTask, syncVars,
                 groupVars, backVars>>

SweepRelease(r, h) ==
  /\ h \in sweepOwes[r]
  /\ sweepOwes' = [sweepOwes EXCEPT ![r] = @ \ {h}]
  /\ DispatchNext(h, r)
  /\ UNCHANGED <<syncSt, syncTask, rowSent, rowTask, cancel, groupVars,
                 backVars>>

\* A run still queued an hour after its creation is given up.
SweepOrphan(r) ==
  /\ "orphan" \in May
  /\ runSt[r] = "queued"
  /\ NoRows(r)
  /\ runSt' = [runSt EXCEPT ![r] = "ended"]
  /\ UNCHANGED <<runMsg, sweepOwes, cancel, syncVars, rowVars, groupVars,
                 backVars>>

\* A worker is killed: the status columns stay, the task is gone.
WorkerDies ==
  /\ "workerDies" \in May
  /\ \/ \E s \in Sync : /\ syncTask[s] = "working"
                        /\ syncTask' = [syncTask EXCEPT ![s] = "dead"]
                        /\ UNCHANGED <<rowTask, groupTask>>
     \/ \E w \in Row : /\ rowTask[w] = "working"
                       /\ rowTask' = [rowTask EXCEPT ![w] = "dead"]
                       /\ UNCHANGED <<syncTask, groupTask>>
     \/ \E r \in Run : /\ groupTask[r] \in {"claimed", "working"}
                       /\ groupTask' = [groupTask EXCEPT ![r] = "dead"]
                       /\ UNCHANGED <<syncTask, rowTask>>
  /\ UNCHANGED <<syncSt, syncMsg, rowSt, rowMsg, rowSent, groupMsg, groupOwes,
                 runVars, backVars>>

\* ... between its final status and the end of its releases.
LateDeath ==
  /\ "lateDeath" \in May
  /\ \/ \E s \in Sync : /\ syncTask[s] = "releasing"
                        /\ syncTask' = [syncTask EXCEPT ![s] = "idle"]
                        /\ UNCHANGED <<rowTask, groupTask, groupOwes>>
     \/ \E w \in Row : /\ rowTask[w] \in {"closing", "releasing"}
                       /\ rowTask' = [rowTask EXCEPT ![w] = "idle"]
                       /\ UNCHANGED <<syncTask, groupTask, groupOwes>>
     \/ \E r \in Run : /\ groupTask[r] \in {"closing", "closed", "releasing"}
                       /\ groupTask' = [groupTask EXCEPT ![r] = "idle"]
                       /\ groupOwes' = [groupOwes EXCEPT ![r] = {}]
                       /\ UNCHANGED <<syncTask, rowTask>>
  /\ UNCHANGED <<syncSt, syncMsg, rowSt, rowMsg, rowSent, groupMsg, runVars,
                 backVars>>

\* The broker, or a worker that had only just taken it, loses a task.
LoseMessage ==
  /\ "lostMessage" \in May
  /\ \/ \E s \in Sync : /\ syncMsg[s] > 0
                        /\ syncMsg' = [syncMsg EXCEPT ![s] = @ - 1]
                        /\ UNCHANGED <<rowMsg, runMsg, groupMsg>>
     \/ \E w \in Row : /\ rowMsg[w] > 0
                       /\ rowMsg' = [rowMsg EXCEPT ![w] = @ - 1]
                       /\ UNCHANGED <<syncMsg, runMsg, groupMsg>>
     \/ \E r \in Run : /\ runMsg[r] > 0
                       /\ runMsg' = [runMsg EXCEPT ![r] = @ - 1]
                       /\ UNCHANGED <<syncMsg, rowMsg, groupMsg>>
     \/ \E r \in Run : /\ groupMsg[r] > 0
                       /\ groupMsg' = [groupMsg EXCEPT ![r] = @ - 1]
                       /\ UNCHANGED <<syncMsg, rowMsg, runMsg>>
  /\ UNCHANGED <<syncSt, syncTask, rowSt, rowSent, rowTask, runSt, sweepOwes,
                 cancel, groupTask, groupOwes, backVars>>

-----------------------------------------------------------------------------
SyncStep(s) ==
  StartSync(s) \/ FinishSync(s) \/ ReleaseSync(s) \/ SweepSync(s)

RowStep(w) ==
  \/ StartRow(w) \/ FinishRow(w) \/ CloseParent(w) \/ ReleaseRow(w)
  \/ SweepRow(w)

GroupStep(r) ==
  \/ StartGroup(r) \/ ClaimGroup(r) \/ LoadGroup(r) \/ FinishGroup(r)
  \/ CloseGroup(r) \/ \E h \in Host : ReleaseGroup(r, h)

RunStep(r) ==
  \/ RunAction(r) \/ CloseRun(r) \/ OrchSeesCancel(r) \/ SweepRun(r)
  \/ \E h \in Host : SweepRelease(r, h)

RollbackStep(b) == FinishRollback(b) \/ ReleaseRollback(b)

Submit ==
  \/ \E s \in Sync : SubmitSync(s)
  \/ \E r \in Run : SubmitRun(r)
  \/ \E b \in Rollback : StartRollback(b)
  \/ \E w \in Row, s \in Sync : QueuePostRunSync(w, s)
  \/ \E r \in Run, s \in Sync : QueueGroupSync(r, s)

Cancel == \E r \in Run : RequestCancel(r) \/ CommitCancel(r)

Fault ==
  \/ \E r \in Run : \/ OrchTimeout(r) \/ OrchError(r) \/ FailGroup(r)
                     \/ SweepOrphan(r)
  \/ WorkerDies \/ LateDeath \/ LoseMessage

Next ==
  \/ Submit \/ Cancel \/ Fault
  \/ \E s \in Sync : SyncStep(s)
  \/ \E w \in Row : OrchSend(w) \/ RowStep(w)
  \/ \E r \in Run : GroupStep(r) \/ RunStep(r)
  \/ \E b \in Rollback : RollbackStep(b)

Spec == Init /\ [][Next]_vars

\* A task in the broker is taken, a task that works ends (its time limits see
\* to that), a sweeper runs every few minutes.
Fairness ==
  /\ \A s \in Sync : WF_vars(SyncStep(s))
  /\ \A w \in Row : WF_vars(OrchSend(w)) /\ WF_vars(RowStep(w))
  /\ \A r \in Run : WF_vars(GroupStep(r)) /\ WF_vars(RunStep(r))
  /\ \A b \in Rollback : WF_vars(RollbackStep(b))

FairSpec == Spec /\ Fairness
-----------------------------------------------------------------------------
(* Safety                                                                  *)

\* The operations whose status says that they hold host h.
Holders(h) ==
  { b \in Rollback : RollbackHost[b] = h /\ backSt[b] = "running" }
  \cup { s \in Sync : SyncHost[s] = h /\ syncSt[s] = "running" }
  \cup { w \in Row : /\ RowHost[w] = h
                     /\ rowSt[w] = "running"
                     /\ runSt[RowRun[w]] = "running" }
  \cup { r \in Run : /\ Kind[r] # "host"
                     /\ h \in Members(r)
                     /\ runSt[r] = "running"
                     /\ NoRows(r) }

\* The operations with a live task that works on host h.
Executing(h) ==
  { b \in Rollback : RollbackHost[b] = h /\ backTask[b] = "working" }
  \cup { s \in Sync : SyncHost[s] = h /\ syncTask[s] = "working" }
  \cup { w \in Row : RowHost[w] = h /\ rowTask[w] = "working" }
  \cup { w \in Row : /\ RowHost[w] = h
                     /\ groupTask[RowRun[w]] = "working"
                     /\ rowSt[w] # "skipped" }

\* No host is ever claimed by two operations, whatever is cancelled, swept,
\* lost or killed (check_host_busy and the claims made on its answer).
Exclusive == \A h \in Host : \A a, b \in Holders(h) : a = b

\* A group dispatch is in one place at a time - on its way to run_action, on
\* its way to the group task, or with that task - and it is not sent again once
\* its rows exist. The claim has no other defence: _claim_or_defer_group asks
\* for no status, so a second task of a run would load the members twice.
InOnePlace(r) ==
  LET sent == runMsg[r] + groupMsg[r] IN
  /\ sent <= IF groupTask[r] = "idle" THEN 1 ELSE 0
  /\ runSt[r] \in {"none", "pending"} => sent = 0 /\ groupTask[r] = "idle"
  /\ ~NoRows(r) => sent = 0 /\ groupTask[r] \notin {"preflight", "claimed"}
  /\ groupTask[r] = "claimed" => runSt[r] \in {"running", "cancelled"}
GroupInOnePlace == \A r \in Group : InOnePlace(r)

\* No two tasks work on one host at the same time.
OneTaskPerHost == \A h \in Host : \A a, b \in Executing(h) : a = b

\* A task that works on a host is seen by check_host_busy, unless its run or
\* its row was closed under it.
ExecutingIsHeld ==
  \A h \in Host : \A o \in Executing(h) :
    \/ o \in Holders(h)
    \/ o \in Row /\ (~RunOpen(RowRun[o]) \/ rowSt[o] = "ended")

Final == {"ended", "cancelled"}

\* A row that was started or given up is never started again, however often its
\* task was sent, and a row that ended stays ended.
RowStartsOnce ==
  [][\A w \in Row :
       /\ rowSt[w] = "running" => rowSt'[w] \in {"running", "ended"}
       /\ rowSt[w] = "skipped" => rowSt'[w] = "skipped"
       /\ rowSt[w] \in Final => rowSt'[w] \in Final
    ]_vars

\* A run dispatched per host is not reopened once it was cancelled or ended,
\* by a row that was deferred or is resumed meanwhile.
RunStaysClosed ==
  [][\A r \in Run \ Group :
       runSt[r] \in Final => runSt'[r] \in Final]_vars

-----------------------------------------------------------------------------
(* Nothing waits for nothing                                               *)

\* Somebody is on the way to release host h, or to claim it and release it.
Promised(h) ==
  \/ \E b \in Rollback : RollbackHost[b] = h /\ backTask[b] # "idle"
  \/ \E s \in Sync : /\ SyncHost[s] = h
                     /\ \/ syncTask[s] # "idle"
                        \/ syncSt[s] = "pending" /\ syncMsg[s] > 0
  \/ \E w \in Row : /\ RowHost[w] = h
                    /\ \/ rowTask[w] # "idle"
                       \/ /\ rowSt[w] = "queued"
                          /\ \/ rowMsg[w] > 0
                             \/ RunOpen(RowRun[w]) /\ rowSent[w] < MaxSends
  \/ \E r \in Run : /\ h \in Members(r)
                    /\ \/ runSt[r] = "queued" /\ runMsg[r] + groupMsg[r] > 0
                       \/ groupTask[r] = "preflight"
                       \/ groupTask[r] = "dead" /\ runSt[r] = "running"
  \/ \E r \in Run : h \in groupOwes[r] /\ groupTask[r] # "dead"
  \/ \E r \in Run : h \in sweepOwes[r]

\* An operation waiting for a host is woken: its host is promised, or an older
\* group dispatch waits for the host, which will take it first.
Woken(o, h) ==
  \/ Promised(h)
  \/ \E r \in Group \cap Waiting(h) : Age[r] < Age[RunOf(o)]

\* No lost wakeup: whatever is deferred, a release on one of its hosts is still
\* to come (release_host_queue in every finally block, and the sweepers').
NoLostWakeup ==
  \A h \in Host : \A o \in Waiting(h) :
    \E g \in IF o \in Run THEN Members(o) ELSE {h} : Woken(o, g)

\* Whatever is submitted comes to an end, deferred or not.
Served ==
  /\ \A s \in Sync : syncSt[s] = "pending" ~> syncSt[s] = "ended"
  /\ \A r \in Run : runSt[r] = "queued" ~> runSt[r] \in {"ended", "cancelled"}

-----------------------------------------------------------------------------
(* The queue implements HostMutex: the holders of a host are read off the  *)
(* status columns, and the rows of a run hold in the name of the run.      *)

holder == [h \in Host |-> { RunOf(o) : o \in Holders(h) }]

Mutex == INSTANCE HostMutex WITH
  Op <- Rollback \cup Sync \cup Run,
  Whole <- Group,
  Hosts <- [r \in Group |-> Members(r)]

\* Every step of the queue grants free hosts to one operation - all of its
\* members to a group dispatch - or gives hosts up, or does neither.
ImplementsMutex == Mutex!Spec

-----------------------------------------------------------------------------
(* The queue implements RunLife for the runs that are dispatched per host: *)
(* a deferred row still waits, and its run with it is still open.          *)

HostRun == Run \ Group
HostRow == { w \in Row : RowRun[w] \in HostRun }

RunLifeOf(status) ==
  IF status \in {"running", "pending"} THEN "open" ELSE status
RowLifeOf(status) ==
  CASE status = "none" -> "none"
    [] status \in {"queued", "pending"} -> "waiting"
    [] status = "running" -> "working"
    [] OTHER -> "over"

runLife == [r \in HostRun |-> RunLifeOf(runSt[r])]
rowLife == [w \in HostRow |-> RowLifeOf(rowSt[w])]

Life == INSTANCE RunLife WITH
  Run <- HostRun, Row <- HostRow, run <- runLife, row <- rowLife

\* Every step of the queue takes one run, or one row, of those dispatched per
\* host a step further in its life, or none: whatever is deferred, sent again,
\* cancelled or swept meanwhile, a row starts once, none starts in a cancelled
\* run, and no run opens twice (StartRow, dispatch_next_pending_for_host,
\* cancel_run and the sweepers, each of which writes both tables).
ImplementsRunLife == Life!Spec
=============================================================================
