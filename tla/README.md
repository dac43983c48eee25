# LabDog in TLA+

LabDog manages a fleet of Linux hosts: it syncs firewall rules, users, packages
and cron jobs to them, runs Ansible actions on one host or a group, checks for
drift, takes configuration from git repositories, and lets an assistant repair
what an alert reports. A FastAPI process accepts the requests, Celery workers
carry them out, Postgres holds all state, Redis carries tasks, events and cancel
tokens, and Celery beat starts periodic sweepers. This directory specifies the
parts of it in which order, failure and concurrency decide whether the result is
right, checks them with TLC on small instances, and proves their safety
properties with TLAPS.

All paths are under `src/backend/app` unless they start with `docs/` or `src/`
(`docs/` is `src/docs/`).

## Inventory

| part | state it keeps | operations | what is hard, and what must hold | module |
|---|---|---|---|---|
| per-host queue `tasks/host_lock.py` | none of its own: the status columns of `SyncJob`, `ActionRun`, `ActionHostRun`, `AIRollback` | busy check, claim or defer, pick the next, release | claims from five kinds of task; a claim and the rows that show it are written at different times. One holder per host; nothing waits that nobody will wake | `HostQueue`, `HostMutex` |
| sync task `tasks/host_sync_orchestrator.py` | `SyncJob.status`, module statuses | submit, claim or defer, play, finish, release | a job is delivered again by each release; a status must not outlive its job | `HostQueue`, `SyncStatus` |
| action orchestrator `tasks/action_orchestrator.py` | `ActionRun.status`, owner, heartbeat | open the run, send batches, wait, aggregate, let go, resume | dies between two sends; two of them for one run. No row starts twice, the run ends | `Orchestrator` |
| per-host and group executors `tasks/action_host.py`, `tasks/action_group.py` | `ActionHostRun`, `ActionRun`, snapshots in Proxmox | claim, snapshot, play, verify, roll back, clean up, persist, close, release | order of closing and releasing; runs that are closed over a task; a host that was half changed keeps a way back, a success is earned | `HostQueue`, `Envelope` |
| sweepers `tasks/action_sweeper.py`, `tasks/sync_sweeper.py` | none | close what a dead worker left, hand hosts on, take over runs | run beside tasks that are alive | `HostQueue`, `Orchestrator` |
| cancel `api/actions.py` | Redis token, `ActionRun.status` | token, then commit | between token and commit, and against claim and resume | `HostQueue`, `Orchestrator`, `Envelope` |
| assistant sessions `ai/`, `tasks/ai_task.py`, `tasks/ai_approvals.py` | `AISession`, `AIApprovalRequest` | turns, park, decide, expire, resume, cancel | nothing locks a session; decision, expiry and cancel race | `AISession` |
| fixes and rollbacks `ai/remediation.py`, `ai/snapshots.py`, `tasks/ai_remediation.py` | `AIToolCall`, `AIRollback`, `AlertEvent.remediation_outcome` | snapshot, check, judge, roll back, abandon, prune | two changes of one host undo each other; late checks; sessions that time or an operator's message takes out of the code's sight | `Remediation`, `HostQueue` |
| alerts `ai/alerts.py`, `alerts/`, `tasks/alert_handling.py` | `AlertEvent`, `AlertActionDispatch` | record, start the labelled action, judge, hand over | repeated notifications, commit before hand-over | `Alerts` |
| statuses and drift `tasks/drift_sweep.py`, `api/host_state.py`, `tasks/*_drift.py` | `HostModuleStatus`, `Host.sync_status` | sync, collect, check, edit | a check takes minutes and overlaps whatever claims the host | `SyncStatus` |
| desired state `merge_utils.py`, `rules/merge.py`, `rules/desired_state.py` | rules of groups and hosts, group priorities | edit, merge, sort | first match decides: dropping and sorting must not change who | `DesiredState` |
| GitOps `tasks/gitops.py`, `gitops/` | `GitRepository`, `HostGroup.gitops_*`, rows of every module, `SyncJob` | webhook, clone, import, stage, commit, send | one long transaction per push, beside others and beside operators; what is staged in it is sent after it, or lost with a list | `GitOps` |
| post-run sync `sync/post_run.py` | `SyncJob` | a pending sync before the release | must precede the release | `HostQueue` |
| built-ins `tasks/builtin_dispatchers.py` | rows of both worlds | `drift_check`, `collect_state` claim a host; `_builtin.sync` waits for a `SyncJob` | job may be final before the row is deferred on it | first two in `HostQueue` |
| scheduler, scans, timeouts, CA deploy | `ScheduledAction`, `ScanRun` | due checks, in-flight guards | skip or double-fire | not modelled |
| registry, packs, notifications, metrics, terminal, auth, crypto, frontend, packaging | | | I/O, text and request plumbing | not modelled |

The parts interact only through rows and messages: a handler commits status
columns, sends a task by name through the broker, and a worker reads the columns
again when it gets the task, possibly twice, late, or never. The hazards that
follow from this are listed, each at its line, under "hazards" in PROJECT.json;
what is left out of each part is said under "components" there.

## How the project is built

There is one module per component. Components that share state are one module
(`HostQueue` is the queue with all five kinds of task that meet in it);
components that share only the fact that something happens are separate, and
each names the other's part as an environment step. `HostQueue` may send any
queued row of an open run; which rows are sent when is `Orchestrator`'s.
`Orchestrator`'s rows "may be deferred"; when is `HostQueue`'s. What the two
halves agree on about a run and its rows is `RunLife`, which both implement.
`Envelope` is
what happens between the claim and the final status of a row. `SyncStatus` takes
`HostMutex` for granted: one operation has the host. `Alerts` starts and ends
runs and sessions without looking into them.

| module | what it is |
|---|---|
| `HostQueue`, `HostMutex` | the queue, and what it promises its hosts as an abstract specification |
| `RunLife` | what a run that is dispatched per host promises those who asked for it; abstract, implemented by both `HostQueue` and `Orchestrator` |
| `Orchestrator` | one run, its orchestrators, take-overs and batches |
| `Envelope` | one run's snapshots, plays, verifications and rollbacks |
| `AISession` | one session of the assistant with its approvals |
| `Remediation` | the changes sessions make on one host, their checks and rollbacks |
| `Alerts` | alerts with their labelled action and the hand-over to the assistant |
| `SyncStatus` | what LabDog shows of one host |
| `DesiredState` | the rows a host inherits and the ruleset made of them |
| `GitOps` | pushes, imports, operators and the staged sync |
| `*_proofs` | theorems about the module of that name; `Configuration_proofs` is about `DesiredState` and `GitOps` |
| `MC_HostQueue`, `MC_GitOps` | hosts, operations and commits for TLC |
| `MC_Runs`, `MC_LabDog` | several components side by side for TLC, see [Runs](#runs) |

In every module one action is what one database transaction does, together with
the messages sent after it. Where the code reads in one transaction and writes
in another, the read and the write are two actions and what was read is kept in
a variable. Definitions that end in `_Something` and are marked "mutant" are
plausible bugs: nothing uses them but PROJECT.json, which names for every
property one such bug under which it no longer holds.

## The models

### HostQueue

| variable | code |
|---|---|
| `syncSt`, `rowSt`, `runSt`, `backSt` | `SyncJob.status`, `ActionHostRun.status`, `ActionRun.status`, `AIRollback.status`. "none": the row does not exist yet. All final values but "cancelled" (and "skipped") are "ended" |
| `syncMsg`, `rowMsg`, `runMsg`, `groupMsg` | copies of the four Celery tasks in the broker; unordered, and repeated when sent twice |
| `syncTask`, `rowTask`, `groupTask`, `backTask` | where the one task that claimed the operation is: at work, dead, closing, releasing |
| `rowSent` | how often orchestrators sent a row, bounded by `MaxSends` |
| `groupOwes`, `sweepOwes` | hosts a group task, or the sweeper for a run, has still to release |
| `cancel` | not called; token in Redis; committed |

A claim is read, decision and commit under the advisory locks of the hosts, so
it is one step (`StartSync`, `StartRow`, `ClaimGroup`, `StartRollback`), as is the
pick of the next operation (`DispatchNext`, under the host's lock). What the code
does in separate transactions is separate here: a group dispatch claims, loads
its rows, persists, aggregates and releases host by host; an executor persists,
closes the run, and releases; the cancel endpoint reads, sets the token, and
commits on what it read; a sweep and its releases. Which rows an orchestrator
sends when is left open: any queued row of an open run.

The environment's events are a CONSTANT set `May`, so that a run names exactly
the faults it allows: cancels, workers killed at work or between their final
status and their release, lost messages, drivers that raise or time out, runs
past their deadline, a slow group task swept as stale, orphans, members without
an SSH key. A message is sent only by a step that moves a status, by `OrchSend`
(bounded by `MaxSends`), or by a release, and there are finitely many releases,
so the message counters need no other bound.

`HostMutex` is the abstract specification: a host has at most one holder, an
operation on a whole group gets all its hosts in one step and keeps no others,
and a host changes hands only by way of being free. `HostQueue` reads `holder`
off the status columns (a row holds in its run's name). TLC checks that it
implements it, and the theorem `MutexImplemented` says so for every instance.

`RunLife` is the other: the life of a run that is dispatched per host and of its
rows. A run is queued, opens with all of its rows, and ends or is cancelled; a row
waits, works, is over; nothing goes back, and a row starts only in a run that is
not cancelled. A deferred row (`pending`) still waits, and the run of a deferred
row is still open, so the whole of deferral, waking and resuming are stutters. The
code keeps this promise without any one place that makes it: the claim, the
release, the cancel endpoint, the sweepers and the drivers each update the two
tables in transactions of their own. A group dispatch is left out: its members
start together, and its claim does overwrite a cancel (see
[Known limitations](#known-limitations)).

Simplified:

- A cancel writes its columns without the host lock. It may fall between any two
  steps of the model but not inside a claim's transaction, some milliseconds
  long. Inside a claim it would leave what it leaves right after it: the row
  runs, the run is cancelled, for `resume_deferred_parent` is one conditional
  UPDATE. Inside a deferral (`action_host.py:427-444`) `pending` would be written
  over the cancel, which the models do not have; a task woken later still finds
  the token while it lives.
- The sweeper's read and its commit of one row or run are one step.
- The Redis token does not expire (it lives for an hour).
- Deleting a host or changing a group while operations wait, per-host rows that
  exist before a group claim (`action_group.py:241-253`), an action removed from
  the registry, and the unique index on active syncs are left out. A group has
  at least one member.
- `_builtin.sync` rows, which run without the lock, are left out.
- What is done on the host is the time between a claim and a final status.

### Orchestrator

| variable | code |
|---|---|
| `runSt`, `owner` | `ActionRun.status`, `ActionRun.orchestrator_id`. "ended": by `finalise_run_if_complete` or the sweeper's copy of it; "failed": by whoever gave up on the run |
| `heartbeat` | `ActionRun.heartbeat_at`: NULL, younger or older than `ORCHESTRATOR_STALE_SECONDS` |
| `cancel` | not called; token in Redis; committed |
| `phase`, `todo`, `batch`, `toSend` | the locals of `_drive`: where it is, hosts of later batches, the batch (a resumed one starts with the hosts in flight), and what of it is still to send |
| `rowSt`, `rowMsg`, `rowTask` | as in `HostQueue`, for the rows of this run |
| `deferred` | rows that were deferred; each is at most once (the bound on deferrals) |

The run targets a group or the fleet, so it is never `pending` itself. A step is
one transaction: `_check_in` with the decision that follows it (`Ready`, `Wait`,
`Stop`), one message (`Send`), `_let_go`, a take-over with its message, a claim.
Between the check-in and the last message of a batch the orchestrator looks at
nothing, so it can be superseded there and send on, and the model has that. A
check-in that cannot read the database is a stall: the orchestrator waits and the
heartbeat ages. Time is two events, a heartbeat that goes stale and, where a run
allows it, a deadline or limit that is reached.

`Orch` bounds the take-overs: an orchestrator is killed or stalls only while
there is another to come after it. This is also the assumption under which the
code can promise anything, for the sweeper replaces orchestrators for ever but a
run whose every orchestrator dies ends by its deadline.

`Orchestrator` implements the same `RunLife` with the one run it has: orchestrators
that are superseded or come back late may send, close and fail what they no longer
own, but none of that opens the run again or starts a host twice.

Left out: an action key that is unknown, a target without hosts, errors of the
database other than a stall, a resume message that is lost (the same as an
orchestrator that is killed before it resumes, which is in), and the time the
cancel token lives.

### Envelope

| variable | code |
|---|---|
| `fate` | which of the events below may happen to this run; chosen at the start from the constant `Fates` |
| `plan` | the action's manifest, the Proxmox mappings, `verify` and `auto_rollback` of the run; one task per host or one for the group |
| `parent`, `hostRow` | `ActionRun.status`; `ActionHostRun.status`, "skipped" included, and whether `snapshot_name` is set |
| `driven`, `token` | has the run an orchestrator that has not given up; a cancel, in Redis only or committed |
| `stage`, `good` | the phase a member's task is in (preflight and snapshot A/B, play C, verify D, rollback E, clean-up F, persist G, close), and the verdict in its locals |
| `vm`, `saved` | the host, before, after or midway through its play; its snapshot in Proxmox |
| `cleaner` | the endpoint that cleans up orphaned snapshots, between its reads |

A group's task takes each phase with all its members before the next. The model
has the phases once: `Behind` keeps a member from entering one while another is
in an earlier one, and what the code commits at once for all members is one step
of its `Team`. A Proxmox call succeeds, fails, or fails after having done its
work; a play ends, fails, is never begun, or is stopped by ansible-runner's time
limit. `"reaped"` is a snapshot the clean-up deleted, `"deleted"` one a task did,
so that the properties can tell whose fault it is.

A run is closed by the task that finishes last (`Finish`), by whoever finds its
rows closed (`SumUpRun`), or from outside: a cancel in its two halves
(`CancelAsked` sets the token, `CancelCommitted` writes the columns; a task that
sees the token in between cancels its row alone, `CancelledBeforeStart`), an
orchestrator that raises (`_mark_run_failed`, `DriverRaises`) or reaches its soft
limit (`_finalise_soft_limited`, `DriverTimesOut`), and the sweeper's deadlines
of a row and of the run (`SweepHostRow`, `RunOverdue`). All but the first two
leave tasks at work. `Sum` counts as the code does: failed rows only for per-host
tasks (`finalise_run_if_complete`), failed and skipped ones for a group dispatch
(`_aggregate_and_finalise`). Events of time and failure may come at any moment a
`fate` allows them; `driven` says only that an orchestrator gives up once.

Left out: dry runs, post-run syncs, retries of a locked VM, the age after which
snapshots of an unknown run are cleaned up, what verify looks at, and a host that
is deleted meanwhile.

### AISession

| variable | code |
|---|---|
| `session`, `requests` | `AISession.status`; the statuses of its `AIApprovalRequest` rows, oldest first |
| `mail` | `run_chat_session` and `resume_session` messages |
| `worker` | the tasks that run for the session: where each is, the status its ORM object was loaded with, and the request it resumes |
| `call`, `calls` | `decide_approval`, `cancel_session`, `send_message` between read and commit, and how many there were |
| `sweep` | `expire_stale_approvals` between read and commit |
| `sdk` | which runner: `ai/loop.py` or `ai/agent_sdk/runner.py`, which may park more than one call of a turn |
| `granted`, `ran`, `died` | history: requests that were ever approved, how often each command ran, whether a worker died with its message |

`Store` is the point of the model: SQLAlchemy writes a column only when the
new value differs from the loaded one, so a task that loaded `running` and
"sets" `running` leaves a cancel that came in between alone. Left out: the
transcript, spend, snapshots (`Remediation`), archiving and deleting.

### Remediation

| variable | code |
|---|---|
| `fix`, `outcome` | an alert's session: status, level of autonomy, is its task alive, and `sight`: "kept", "lost" to the lookups that ask for its age, or in sight "again" when it was reopened or when its late task has ended; `AlertEvent.remediation_outcome` |
| `check` | the `check_remediation` task of a fix |
| `disk` | the host: the sessions whose changes are on it |
| `toolCalls` | `AIToolCall` rows that change the host, in the order of `started_at`; `taken` is the order of their snapshots, `holds` the disk a snapshot has, `gone` that it was deleted |
| `back` | `AIRollback` rows with their tasks |
| `newestOnly` | the storage restores its newest snapshot only (ZFS) |

Times are positions in `toolCalls`. Three bounds of time are not: `_in_flight`
takes a session for dead 7500 seconds after it was created, though its task's
limit runs from when a worker took it; `awaiting_check` and `find_due` look back
24 hours; `recently_made_worse` as long. `LoseSight` is the moment one of the
first two passes, with the event `queuesLong` if the session's task is alive, or
`forgets` if the session is over and was not checked; with `forgets`, `Worse`
does not hold either. A fix that is out of sight is neither checked nor called
unchecked: `ClaimCheck` and `TooLate` are about those that `find_due` still sees.
`Reopen` is `send_message` on a session that is over, with the event `message`: no
`resolve`, no advisory lock, and its age is counted from when it was created, so
it may be out of sight at once. Left out: hosts without snapshots, LabDog's own
host, chat sessions, other work on the host (a refusal), a second task of a
session that is cancelled and written to while its first still runs, and the
"Clean up orphaned snapshots" endpoint, see
[Known limitations](#known-limitations).

### Alerts

| variable | code |
|---|---|
| `event`, `dispatch` | `AlertEvent` (status, outcome, has a session, investigations started by themselves); `AlertActionDispatch` with its run |
| `notices`, `handle` | notifications recorded (bounded); `handle_alert` messages |
| `handler`, `button`, `tick` | the handler, the investigate button and `check_alert_actions` between read and commit |
| `lost` | alerts whose message or hand-over a crash swallowed |

Every alert carries the same label. Guards that can only refuse (cooldown,
allow-list, scope, token, budget, provider) are one choice.

### SyncStatus

| variable | code |
|---|---|
| `desired`, `actual` | merged desired state and the host's, per module, as versions; `Other` for what nobody asked for |
| `hms`, `badge`, `enabled` | `HostModuleStatus.sync_status`, `Host.sync_status`, periodic checks switched on |
| `op` | the operation that has the host: a sync, state collection, the drift-check action, another action |
| `probe` | a check between load, connection and commit, one per module by the sweep and one by an operator, with the row and the badge as its ORM session loaded them |
| `outage`, `edits`, `asked` | the host cannot be reached (once, at any time); bounds |

`Write`/`Dirty` is again the ORM's rule. `Quiet` are the modules whose periodic
check leaves the badge alone. Left out: hosts without a key or a known firewall,
the first connection's host key, and a job swept while its worker lives.

### DesiredState

`rows` is the table of one module's rows (the firewall's rules are the hardest
case, and the ones modelled through to the ruleset) and `rank` the priorities of
the host's groups. The actions are the edits of `api/rules.py` and
`api/groups.py`; the algorithms are operators over the state: `Precedes` is the
precedence of `merge_utils.py` and `rules/merge.py`, `Merged` what is left of
duplicates and overrides, `EmittedBefore` the sort, `Deciders(p)` the rule that
the host's first-match firewall applies to packet `p`. The reference definition
they are checked against is `Best(p)`. Left out: chain policies, membership, and
what the other modules make of their winners.

### GitOps

| variable | code |
|---|---|
| `lastSha`, `bound` | `GitRepository.last_commit_sha`; `gitops_enabled` and `gitops_status` of each group |
| `content` | the rows of each module of each group, and of the install-wide settings |
| `task` | `process_webhook` of each delivery: where it is in clone, `_global.yaml`, group after group, handler after handler |
| `tx` | its transaction: what it wrote and nobody sees yet, whom it locked, whom it marked, whether it inserted the host's `SyncJob` and has it on the list of those to send |
| `job`, `posted` | the host's sync jobs, of the firewall and of another module; the message |
| `hands` | what operators did (bound) |

The commits are a constant: `File[c][x]` says what commit `c` has for group `x`,
section by section, as a set of entries of five kinds. `Asked` is what each of
the ten handlers makes of a section: rows, a refusal, rows the database refuses,
or no opinion. A Postgres deadlock is an action: one transaction of a ring of
waiters is rolled back. `job` is of one host; what the other hosts of its group
do to it is in `StagingRaises`: `_trigger_group_sync` stages host after host and
returns its list at the end, so a host with two active jobs - the modelled one,
or, with the trouble `crowded`, another - makes it raise, after the modelled one
was staged or before, and what was staged is committed and on nobody's list. Left out: signatures and branches (a push is ignored),
order within a list (the firewall's is compared as a set), chain policies, scans
of a repository, export, audit rows.

## Runs

`HostQueue`, and `Envelope` for its finding, are checked by themselves. For the
rest, components that share no state are put side by side in `MC_Runs` and
`MC_LabDog`: the initial state chooses one (`about`, `part`), only its variables
move, and the state space is the sum, not the product, of theirs. The type
invariant is a CASE over the choice. A component that is not chosen starts in one
fixed state. A fairness conjunct may join actions of several components for the
same reason: at most one of them can ever be enabled.

| run | question | instance |
|---|---|---|
| `queue_faults` | types; `OneTaskPerHost`: no two tasks work on one host; `GroupInOnePlace`: a group dispatch is never sent or run twice; `RowStartsOnce`: nor is a row; `ImplementsMutex` | sync, fanned-out run, group; every row sent twice; deaths early and late, losses, orphans, members without key |
| `queue_cancel` | `Exclusive`: no host claimed twice; `ExecutingIsHeld`: a working task is seen by the busy check unless it was closed under it; `ImplementsRunLife`: a run opens once, a row starts once and never after a cancel | sync, host-targeted run, group, with cancels, failing and timed-out drivers, and sweeps of live runs |
| `queue_served` | `NoLostWakeup`: whatever waits has a release of its host to come; `Served`: all that is submitted ends | sync, host-targeted run, fanned-out run, group, rollback; no faults |
| `runs_safe` | orchestrator: `EndedMeansDone`; envelope: `WayBackIsKept`, `SuccessIsEarned`, `InUseIsKept`; statuses: `RunningIsSynced`, `SweepYields`, `WrongIsOvertaken`; desired state: `FirstMatchIsBest`; alerts: `AnsweredOnce`, `WaitingIsWatched`; GitOps: `SyncedIsOneCommit`, `StagedIsSent`; types of all | every event of every component; in the envelope one run of two members with the fates below, no play stopped at its time limit |
| `runs_live` | `Findable`: an open run with rows that nothing will start can be taken over; `BatchesKeepParallelism` across a take-over; `ImplementsRunLife`; `EveryRowReached`; `StatusConverges`, `BadgeConverges` | three hosts with a parallelism of two, orchestrators killed or stalled, workers killed; two modules, an outage |
| `labdog_safe` | sessions: `OnlyApprovedRuns`, `DecisionIsDelivered`; remediation: `OneUnattendedFix`, `OneRollbackAtATime`, `UndoneStaysUnattended`, `VerdictIsFinal`; types | two workers, operators and sessions; deaths, exceptions, slow checks, and in one part sessions that queue long, fixes that are forgotten, messages |
| `labdog_live` | `ParkedIsLeft`, `FixIsJudged`, `AlertIsAnswered`, `DeliveryEnds` | as above with one operator and one session; two alerts; two deliveries that lock two groups |
| `overlap`, `cutshort`, `undone`, `twice`, `badfile` | violated, see [Findings](#findings) | |

### Bounds, and why they are enough

**The queue.** Two hosts. The host-targeted run and the sync are on one, the
group and the fanned-out run on both, and the group dispatch is older than what it
competes with for `h1` and younger than what it competes with for `h2`, so it is
both overtaken and overtaking. A group that is blocked by one member and free on
the other is the only case where an operation is in more than one queue, and each
queue has an operation of each kind that can compete in it. No symmetry is used:
ages distinguish the operations and hosts.

**The orchestrator.** Two orchestrators, the second of which becomes the owner by
a take-over. In `runs_live` three hosts and a parallelism of two, so that a
take-over finds hosts in flight, hosts to send, and room for one of them; in
`runs_safe` two hosts and a parallelism of one give a second batch.

**The envelope.** Two members, every plan. A group's members can be at two
different phases of a failing run; a third is at one of those. What happens to a
run is one of three sets of events: a step that raises and a worker killed; an
orchestrator that gives up and a cancel; a step that raises and the deadlines of
row and run. Each way to close a run is together with one that interrupts its
tasks or competes to close it; all five at once are left to the theorems, which
hold for any `Fates`.

**A session.** Two workers, as a race for one message takes two; two operators
with two requests in flight between them; two approval requests, so that one can
be newer than the one a late decision is about.

**Remediation.** Two sessions, two calls that change the host, two rollbacks: the
smallest instance in which a rollback can undo another's undoing. The module is
checked in two parts: `remediation`, where no session gets out of sight or is
reopened, and `autonomy`, where these happen and nothing is rolled back. Their
product is too large for a run of minutes; the theorems are about it. Workers,
operators and sessions are symmetric and `SYMMETRY` is used in the runs that
check invariants and action properties of them, never with liveness.

**Alerts.** Two alerts with three notifications: a repeat, and a second alert
whose handler finds the first one's run.

**Statuses.** One module with an edit and two operations or checks in `runs_safe`
(the races are within a module); two modules in `runs_live`, of which one does not
refresh the badge.

**Desired state.** Two groups and the host, three rows ever, three keys of which
one covers the packets of both others: enough for a duplicate in a third place, an
override and an overlap at once.

**GitOps.** Two groups and the install-wide file, two deliveries, two commits
and, in `runs_safe`, two operator actions. The three commits of `MC_GitOps`
contain every kind of section: the first an install-wide file and one group's,
with a protected package; the second both groups', one with a section that its
handler refuses; the third a malformed install-wide file, and a package listed
twice. `runs_safe` has the first two, which differ in
modules and in which groups have files; `labdog_live` the first and third, so that
both deliveries lock both groups and wait for each other; `badfile` all three. Three modules stand for eight: one with
unique rows, one that may be silent, one without an API lock.

Deadlock is not checked: every component stops when everything it was given is
over. Counters of messages are not bounded by a constraint anywhere.

`NoLostWakeup` is not checked with every fault, because the code does not have it
then: see [Known limitations](#known-limitations).

### Fairness

- `HostQueue`: weak fairness per operation, of the steps of a sync, a row, a group
  task, a run and a rollback. A worker takes what is in the broker; a task at work
  ends, for its time limits see to that; beat starts the sweepers every five
  minutes. `Served` is not implied by the fairness of a lock: a step that defers
  an operation is a step taken, and the operation is only served because some
  release finds it in its queue.
- `Orchestrator`: weak fairness of an orchestrator, which lives unless it is
  killed; of a row, its wake-up included, which is what `HostQueue` shows as
  `Served`; of the sweeper; and of the ageing of a dead orchestrator's heartbeat.
- `AISession`: weak fairness of tasks, of an operator's request once it is under
  way, and of the expiry sweep; strong fairness of `CapHit`: the model may ask for
  tools turn after turn, but turns, time and budget are capped.
- `Remediation`, `Alerts`, `GitOps`: tasks and sweeps; runs that were started
  end; locks are granted once they are free.
- `SyncStatus`: each module's sweep, an operator's check once asked for, an
  operation's end (a dead one is swept), and an outage's end.

The API's requests, edits, cancels, stalls and faults are never fair.

## Findings

Five runs expect a violation. Each is a disagreement between the code and what
the repository says of it; PROJECT.json quotes both sides.

- `overlap`, `OneTaskPerHost`. Cancelling a run lets its working hosts finish, but
  a row holds its host only while its run is running, so the host is free at
  once. The theorem `TasksAlone` says that this and the other three ways to close
  a run under its tasks are the only ways.
- `cutshort`, `WayBackIsKept`. A group's play stopped at its time limit counts as
  a success on the hosts it had reached, whose snapshots are then deleted. The
  theorems `WayBackKept` and `SuccessEarned` hold without such a stop.
- `undone`, `UndoneStaysUndone`. A call that was asked for before another
  session's change and approved after it has a snapshot with that change in it,
  but is ordered by when it was asked for.
- `twice`, `GrantIsOneShot`. Two resume messages of one parked session both find
  it waiting, and both run the approved command. The theorem `OneWorkerGrantsOnce`
  says what it takes: with one task of a session at a time and no worker killed
  behind the command it ran, the promise holds.
- `badfile`, `BadFileStopsNoOther`. A package named twice in one group's file
  breaks the database session of the whole push.

## Known limitations

What follows was met while modelling. It is read off the code, stated in
the models where they have it, and has no run of its own.

The queue and its executors:

- A release wakes one operation. If that is cancelled before its task claims the
  host, nobody wakes the next, though `host_lock.py:704` says "No starvation as
  long as ordering is FIFO." A worker that dies between final status and release
  (`action_host.py:1387`) and a lost message have the same effect, as no sweeper
  looks for a free host with work waiting. This is why `queue_served` has no
  faults.
- The group claim overwrites a cancel that came after the token check
  (`action_group.py:274`, `:320`).
- The sweeper releases a host and closes its host-targeted run afterwards
  (`action_sweeper.py:118`), the order the executors gave up.
- A member without an SSH key is held during a group's claim window and released
  by no sweeper if the group's worker dies (`action_group.py:433`).
- A deferred row is put back to `queued` in one transaction and sent after it
  (`host_lock.py:871`); a process that dies between leaves a row nobody sends.
- Deferred hosts count as done for their batch, so the next batch goes out and
  more than `parallelism` hosts can work at a time. `BatchesKeepParallelism` is
  what is left of the promise. Nor is it kept when an orchestrator gives up on a
  batch whose tasks are still in the broker.
- `_mark_run_failed` does not ask who owns the run (`action_orchestrator.py:886`):
  an orchestrator that hangs in a send past its heartbeat fails the run under its
  successor. The rows not yet sent stay `queued` (`:887`); after the soft limit
  deferred ones stay `pending` (`:902`). `EveryRowReached` is therefore asked
  without failures of the driver.

Snapshots and rollbacks:

- Nothing is rolled back when a step of the envelope raises or the task reaches
  its soft limit; if that happens between clean-up and persist the row is failed
  with its snapshot deleted.
- `Clean up orphaned snapshots' spares the snapshots that open rows name, and
  otherwise those of runs that are open (`workflows/snapshot_cleanup.py:80-93`).
  A run that is closed over a working task leaves a snapshot that is taken and
  not named yet, or was named between the two reads, without protection. It is
  closed like this by a cancel, by an orchestrator that raises
  (`action_orchestrator.py:875`) or reaches its soft limit (`:898`), and by the
  sweeper's deadline, whose deadline for a row also takes the row from among the
  open ones. `InUseIsKept` says that there is no other way, a task that raises, a
  worker that dies and the aggregation of rows included. The clean-up also
  deletes snapshots "retained for manual recovery" once their run is over.
- A run of per-host tasks counts failed rows only
  (`action_orchestrator.py:174-177`, `action_sweeper.py:229-232`): it is
  `succeeded' though hosts were skipped for want of a key, or all of them were,
  while a group dispatch counts these against it (`action_group.py:1397`). It is
  also `succeeded' though a task cancelled its row by the token
  (`action_host.py:361-371`), if the others end before the cancel is committed;
  the cancel then overwrites that. `SuccessIsEarned` says that a success is
  otherwise of every host, and that these were not touched.
- `_parse_snapshot_name` (`workflows/snapshot_cleanup.py:44-60`) reads the
  assistant's `labdog-ai-<session>-<ts>` as a snapshot of run `<session>`, so the
  clean-up takes snapshots the retention of `docs/ui/settings.md:212` should keep.
  `Remediation` does not have this clean-up. It is called a periodic task but
  only `POST /proxmox/cleanup-snapshots` starts it.
- A rollback that takes longer than `ABANDONED_AFTER` (`ai/remediation.py:271`) is
  marked failed while it works; `OneRollbackAtATime` is conditional on that.
- A group's rollback marks a detached `Host` object, so its `out_of_sync` is never
  written (`action_group.py`, `_rollback_all`, against `docs/ui/actions.md:588`).
- A cancelled session's last command may still be running when its fix is rolled
  back, and brings the change with it (`cancelledWorks`); so does an automatic
  rollback that was planned before another one ended, as its claim does not ask
  again which rollbacks there were, or whether the session was set to work again
  (`stalePlan`). `UndoneStaysUnattended` is checked and proved without these two
  and without `slowRollback`.

Assistant and alerts:

- More than one unattended fix can be at work on a host, or wait for its verdict.
  `_in_flight` (`ai/alert_autonomy.py:268`) asks for sessions created in the last
  7500 seconds, the task's time limit, but a session can wait for a worker before
  that limit starts to run. `awaiting_check` (`ai/remediation.py:578`) asks for
  those that ended in the last 24 hours. `send_message` (`api/ai.py:796`) puts a
  full-auto session that is over to work again without asking either.
  `OneUnattendedFix` is about the sessions to which none of this happened.
- A fix that was not checked for 24 hours, because LabDog was down, is never
  checked and never marked unchecked: `find_due` does not see it
  (`ai/remediation.py:187`). `FixIsJudged` is checked without this.
- A cancel that comes between the last look for one and `finish_session` is
  overwritten.
- Two alert handlers may both find no run in flight (`alerts/labels.py:40`), and a
  firing notification that arrives after its own "resolved" is never handled.

Statuses and desired state:

- The periodic checks of three modules never refresh the badge, the firewall's
  check on demand writes the badge only. `BadgeConverges` is conditional on a
  module that refreshes it. Users with a sudo rule are never in sync.
- The firewall is compared as a set, so a re-ordering is no drift. Of two host
  overrides with an equal match the last wins (`rules/merge.py:71-79`), the
  reverse of every other precedence, and `create_host_rule` allows both;
  `FirstMatchIsBest` is conditional on there being one. `docs/README.md:121` says
  firewalls have no host-level overrides. `/etc/hosts` lines are sorted by row
  priority only (`hosts_mgmt/merge.py:196`).

GitOps:

- Pushes are imported in the order workers get to them; nothing knows which
  commit is newer (`tasks/gitops.py:54`).
- A group's import that fails keeps the modules already written, though
  `docs/examples/gitops/README.md:201` says it "rolls back the whole transaction";
  its hosts are not synced. `last_commit_sha` is recorded all the same, so the
  redelivery is skipped. `SyncedIsOneCommit` speaks of groups that show `synced`.
- Only the firewall is synced after an import, and not on a host that has an
  active job, even one that read the old state. A pending job whose message was
  lost blocks later ones.
- `_trigger_group_sync` raises on a host with two active jobs
  (`tasks/gitops.py:232`); the group shows an error, the jobs it had staged for the
  hosts before are committed at `:181`, and nobody sends them, for their list was
  its return value. `StagedIsSent` excepts this (`"unsent"`) and a worker that
  died between the commit and the messages.
- Groups are loaded once per push; one released in between is imported all the
  same. `PUT /groups/{id}` and schedules are not refused for a bound group, and
  `check_gitops_lock` checks before it writes. `SyncedIsOneCommit` leaves the
  schedules out.
- Two repositories that both have a `_global.yaml` replace each other's scans, and
  `delete_git_repo` raises for a repository with more than one group.

## Proofs

Every theorem holds for any value of the constants that meets the named
assumption of the module: any hosts, groups, operations, workers, alerts,
bounds, and any set of faults unless the theorem names those it excludes. The
assumptions say what a constant is (kinds, memberships, distinct ages, bounds
that are numbers, `File` a table of commits), never how the system behaves.
`PROJECT.json` lists the theorems; what follows is how they are argued.

**`HostQueue_proofs`** (`StructureAssumption`, `AgeAssumption`,
`BoundAssumption`).

- `IInv` adds to the types two facts: only a group has a group task and its
  message, and what does not exist yet has no rows and no task (`Existing`); a
  group dispatch is in one place (`GroupInOnePlace`: message, wait for locks,
  claim window or rows). Without the
  second, mutual exclusion is not inductive: two copies of one dispatch could
  load their rows over each other. It gives `TypeCorrect`, `GroupDispatchedOnce`.
- `MutualExclusion`: every other step shrinks the holders of a host
  (`NoNewHolderShrinks`); a claim finds them empty because `Busy` was false; a
  group's load replaces the run by its rows, which hold in its name.
- `MutexImplemented`: each step of the queue, mapped by `holder`, grants free
  hosts to one operation, lets hosts go, or stutters (`MutexStep`).
- `RunsLiveOnce`: the refinement of `RunLife`. Its invariant `LifeFrame` is what
  the abstract steps ask for and no column says: an open run has rows, a run that
  is not open yet has none, a row does not wait in a cancelled run
  (`RowsFollowRun`, the invariant of `RunLife` itself), and only a run that exists
  is asked to be cancelled. Lemmas say which change of the columns is which
  abstract step (`LifeEnds`, `LifeCancels`, `LifeOfOneRow`, and `LifeKept` for a
  stutter); `LifeStep` maps each action to one of them.
- `TaskFrame`, which tasks a step may set to work, gives `WorkIsSeen`; with
  `May \cap Closing = {}`, nothing closes a run under its tasks (`StaysOpen`) and
  `TasksAlone` follows. `overlap` shows the premise is needed.
- `RowMoves` and `RunMoves`, the edges a status may take, give `RowsStartOnce` and
  `RunsStayClosed`.
- `NothingWaitsForNothing`, no lost wakeup, has an invariant in two parts. `Books`:
  each status that holds a host has its task behind it, a queued row has a message
  or a driver that has not sent it, a group task owes all its members until it
  releases them; so a busy host is `Firm`, it is worked on or somebody who goes
  there is on the way (`BusyFirm`). `AllWoken`: a waiter has a firm host among its
  own, or a host that an older group dispatch still on its way (`Coming`) shares.
  A group that is on its way promises no release, since another member may be
  busy, and that is why it must be older: it was chosen by age over the waiter
  (`ReleaseWakes`), and if it defers, it waits behind a firm host of its own. The
  theorem allows slow and failing group tasks and members without a key, and
  assumes that an orchestrator sends a row at all (`MaxSends > 0`). It excludes
  the other eight events, and each alone breaks it: TLC finds `NoLostWakeup`
  violated under `Spec` when one is put in `May` of `HostQueue_served.cfg` -
  for `runDeadline`, with `Sync = {s1, s2}`, `Run = {rF, rG}`,
  `Row = {f1, f2, g2}` and no rollback.

**`Orchestrator_proofs`** (`OrchestratorAssumption`). `IInv`: types, a run that
was not started has no rows and a task at work a running one (`RowsInOrder`), what
an orchestrator has in its locals in each phase (`Phases`), and that the owner on
record still has to send what was not sent, or is dead, has yet to read the rows,
or will cancel them (`OwnerRemembers`). It gives `TypeCorrect`, `StartsOnce`,
`CanBeTakenOver`, `EndedIsDone`. `ParallelismKept` is by a second invariant,
`Batched`: what is launched fits the parallelism, rows are sent in order, and the
owner sees all that were. It excludes `slowBatch`, an orchestrator that gives up waiting,
since the next batch then joins the last. `RunLivesOnce` is the refinement of
`RunLife`, from the types, `RowsInOrder` and `RowsFollowRun`.

**`AISession_proofs`.** An operator decides on a request that exists
(`DecidesOne`), which gives `SessionTypeCorrect`; an approval on record, or in a
task's locals, was committed by an operator (`GrantsAreKnown`), which gives
`NothingRunsUnapproved`; for `DecisionsAreDelivered`, a task that resumes has read
a parked session (`Resuming`), and a sweep that found the session at work has not
found what a session that has parked since waits for (`Sweeping`).
`OneWorkerGrantsOnce` has two hypotheses, one worker and none killed. Its invariant
`RunsOnce` says that a session that is parked, with no task behind the command it
just ran, waits for a request that never ran, and so does a task about to run it:
the task that ran the command stores `running` over the `waiting_approval` it had
loaded, which only a new request sets again.

**`Alerts_proofs`.** An alert is a token in one place: its message, its handler,
its run that is not judged yet, the hand-over, or its session (`OnToken`,
`OneToken`), and a check writes verdicts only on runs that have none
(`TickInOrder`). Together `AlertInductive`,
from which `Once` and, with what is settled (`RestIsSettled`), `NoneIsForgotten`.

**`Remediation_proofs`.** One frame lemma per table (`CallsFrame`, `BackFrame`,
`FixFrame`, `CheckFrame`) says what any step may do to it. From them
`RemTypeCorrect`, `VerdictStands`, `RollbacksAreJudged`, `RollbacksAlone`
(`OneRunning`) and `FixesAlone` (a session whose task works is open or is yet to
hear that it was cancelled, `WorkIsOpen`; only `Open` adds a fix that is at work or
waits for its verdict, and only when there is none: a session that gets out of
sight leaves the count for good, and one that is reopened is not back in it).
`UndoneStaysOff`, what a
rollback undid is not back on the host unless an operator acted in between, is the
longest: a call that waits for its answer is the last of its session
(`CallsInOrder`); whose changes are on the host or in a snapshot is in the table,
an unattended session before its first change is (`OnTheBooks`), and which change
is a session's first never changes (`FirstStays`); a rollback goes to its
session's first change and no unattended session changes the host beside it
(`RowsInOrder`); a session that was rolled back and may change the host again is
set aside by the property's own hypothesis; one at work is still one that `check_rollback` allows
(`MayRestore`). It excludes `slowRollback` (a restore that outlives its row),
`cancelledWorks` (a cancelled session's last command runs on) and `stalePlan` (a
rollback between a plan and its claim). TLC finds the property violated with any
one of the three, so none can be dropped.

**`SyncStatus_proofs`.** `RunningMeansSynced` and `SweepsYield` from what may set
a module to running (`RunningFrame`). `WrongWasOvertaken`: a probe that was not
overtaken saw what is there (`Fresh`).

**`Configuration_proofs`.** For `DesiredState`: `Precedes` is a strict total order
on rows because priorities of a host's groups are distinct; the sort orders the
merged rows by it; it is well-founded on a finite table, so the first row that
matches a packet exists and is the strongest that does: `StrongestDecides`. For
`GitOps`: group locks have one holder (`OneHolder`), a transaction touches only
what it locked (`UnderLock`), and has handled the modules before its position
(`Handled`): `SyncedIsOne`. Who sends a staged job stays until it is sent
(`StagedGetsSent`), which excepts what dies with a worker or
is lost with a list (`"unsent"`), not more: a job that was there before, or that
another delivery staged, is nobody's exception.

**`Envelope_proofs`.** Two inductive invariants, for any members and `Fates`.
`RunFrame` is about rows, run and clean-up: a row is open while its task is at
work or dead, unless the sweeper or a failing group task closed it
(`RowFollowsTask`); a group's members are in phases the code can have them in
together (`GroupTogether`); a host whose task did not begin has no snapshot and no
change (`NotYetTouched`); a row that is cancelled in an open or succeeded run saw
the token (`CancelIsAsked`); a run recorded as succeeded has only closed rows, none
of them failed (`SuccessIsClosed`); a run that failed with a task at work was closed
over it, by its orchestrator or the sweeper (`ClosedUnder`); and a clean-up that got to delete found the
run closed and spares what open rows named (`CleansClosed`). It gives `InUseKept`.
`WorkFrame` adds what each phase knows of its host: what its verdict says of the
play (`PlayFollowsTask`), and that rows say succeeded of those only
(`RowIsEarned`); it gives `WayBackKept` and `SuccessEarned`, which exclude
`timesOut`, the finding `cutshort`.

### Proved, and in no passing run

- `RunsStayClosed` and the orchestrator's `StartsOnce`: the runs check
  `ImplementsRunLife`, which says more.
- `InUseKept`, `SuccessEarned` and `WayBackKept` for all events of a run at once,
  and the theorems of `Remediation_proofs` for messages and lost sight beside
  rollbacks: the runs have them apart.
- `OneWorkerGrantsOnce`: the runs of a session have two workers. With `Worker = {w1}`
  in `LabDog_twice.cfg` TLC agrees.
- `RunLivesOnce` for cancels, failing drivers and deadlines: `runs_live` has the
  deaths and stalls. With `May` of `Runs_safe.cfg` TLC agrees.

### Only model-checked

- Liveness (`Served`, `EveryRowReached`, `StatusConverges`, `BadgeConverges`,
  `ParkedIsLeft`, `FixIsJudged`, `AlertIsAnswered`, `DeliveryEnds`): fairness and
  `ENABLED` are out of reach of the prover's backends.
- `RunsTypeOK` and `MC_LabDog!TypeOK` only choose between the components' type
  invariants, each of which is proved.

## Not modelled

PROJECT.json gives a reason for each component. In short: text (policy, diffs,
manifests, metrics, notifications), processes of others (Ansible, SSH, Proxmox
beyond its outcomes), cryptography, request plumbing and the frontend have no
state whose order matters or none that TLC can hold. The scheduler, network
scans, deadline arithmetic, the CA deploy, `_builtin.sync` and token versions have
some; they are small or repeat a pattern that is modelled (an in-flight guard, a
`SyncJob`, a lock of its own) and were left for that reason.

What would be next, in this order: the deferral of `_builtin.sync` on a job that
may already be final, since it joins the two halves of `HostQueue`; the scheduler's
guard against a second run; cancelling a scan; deadlines as proved arithmetic.

## Running it

```
tlc -config HostQueue_faults.cfg MC_HostQueue     # _cancel, _served, _overlap
tlc -config Runs_safe.cfg MC_Runs                 # Runs_live
tlc -config Envelope_cutshort.cfg Envelope
tlc -config LabDog_safe.cfg MC_LabDog             # _live, _undone, _twice
tlc -config Runs_badfile.cfg MC_Runs
tlapm HostQueue_proofs.tla                        # likewise each *_proofs
```

The modules need the TLA+ community modules; TLC takes at most a few minutes for
a run and tlapm (1.4.5, with Z3, Zenon and LS4) for a module.
