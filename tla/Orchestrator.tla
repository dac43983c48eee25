----------------------------- MODULE Orchestrator -----------------------------
(***************************************************************************)
(* One ActionRun of a group or the fleet that is dispatched per host, and  *)
(* the orchestrators that drive it (app/tasks/action_orchestrator.py). An  *)
(* orchestrator sends the rows of the run in batches, waits for each       *)
(* batch, and writes a heartbeat as it goes. When the heartbeat goes stale *)
(* the action sweeper takes the orchestrator for dead and makes a new one  *)
(* the owner, which carries on from the rows. The old one may be alive     *)
(* after all: it finds out at its next check-in.                           *)
(*                                                                         *)
(* The per-host tasks are those of HostQueue. Of the host lock only its    *)
(* effect is here: a row may find its host busy, is deferred, and is sent  *)
(* again by the host queue whenever it pleases.                            *)
(***************************************************************************)
EXTENDS Naturals, FiniteSets

CONSTANTS
  N,            \* how many hosts the run has; its rows are 1..N, by row id
  Parallelism,  \* ActionRun.parallelism; 0 stands for "all at once"
  Orch,         \* task ids that orchestrators may have
  First,        \* ... and the one of run_action
  Nobody,       \* ActionRun.orchestrator_id is NULL
  Contended,    \* rows whose hosts other operations may keep busy
  May           \* the events of the environment that are allowed to happen

Row == 1..N

Events == { "orchDies",    \* the orchestrator's worker is killed
            "stall",       \* it cannot check in for ORCHESTRATOR_STALE_SECONDS
            "slowBatch",   \* it gives up waiting for a batch
            "sendError",   \* the broker refuses a message
            "softLimit",   \* the orchestrator works longer than it may
            "workerDies",  \* the worker of a per-host task is killed
            "cancel",      \* POST /runs/{id}/cancel
            "runDeadline" }\* the run outlasts run_deadline_seconds

ASSUME OrchestratorAssumption ==
  /\ N \in Nat \ {0}
  /\ Parallelism \in Nat
  /\ First \in Orch
  /\ Nobody \notin Orch
  /\ Contended \subseteq Row
  /\ May \subseteq Events

VARIABLES
  runSt,      \* ActionRun.status
  owner,      \* ActionRun.orchestrator_id
  heartbeat,  \* ActionRun.heartbeat_at: NULL, recent or stale
  cancel,     \* POST /runs/{id}/cancel: not called, token set, or answered
  phase,      \* where an orchestrator is in _drive
  todo,       \* its rows in batches it has not reached
  batch,      \* the batch it sends or waits for, or was in flight on its resume
  toSend,     \* the rows of the batch it has still to send
  rowSt,      \* ActionHostRun.status
  rowMsg,     \* copies of the per-host task in the broker
  rowTask,    \* the per-host task that claimed the row
  deferred    \* rows that have found their host busy (bound: once each)

runVars == <<runSt, owner, heartbeat, cancel>>
orchVars == <<phase, todo, batch, toSend>>
rowVars == <<rowSt, rowMsg, rowTask, deferred>>
vars == <<runVars, orchVars, rowVars>>

\* An orchestrator's task is in the broker, is run by a worker, is over, or was
\* killed.
Sent == {"start", "resume"}
Active == {"ready", "sending", "waiting", "closing", "cancelling", "leaving"}
Phase == {"none", "done", "dead"} \cup Sent \cup Active

RowStatus == {"none", "queued", "pending", "running", "ended", "cancelled"}

\* The columns, the messages and the memory of every task are what they may be;
\* a task is taken from the broker only if it was sent.
TypeOK ==
  /\ runSt \in {"queued", "running", "ended", "failed", "cancelled"}
  /\ owner \in Orch \cup {Nobody}
  /\ heartbeat \in {"none", "fresh", "stale"}
  /\ cancel \in {"no", "token", "done"}
  /\ phase \in [Orch -> Phase]
  /\ todo \in [Orch -> SUBSET Row]
  /\ batch \in [Orch -> SUBSET Row]
  /\ toSend \in [Orch -> SUBSET Row]
  /\ rowSt \in [Row -> RowStatus]
  /\ rowMsg \in [Row -> Nat]
  /\ rowTask \in [Row -> {"idle", "working", "dead", "closing"}]
  /\ deferred \in SUBSET Row

\* create_run committed the run and sent run_action.
Init ==
  /\ runSt = "queued"
  /\ owner = Nobody
  /\ heartbeat = "none"
  /\ cancel = "no"
  /\ phase = [o \in Orch |-> IF o = First THEN "start" ELSE "none"]
  /\ todo = [o \in Orch |-> {}]
  /\ batch = [o \in Orch |-> {}]
  /\ toSend = [o \in Orch |-> {}]
  /\ rowSt = [w \in Row |-> "none"]
  /\ rowMsg = [w \in Row |-> 0]
  /\ rowTask = [w \in Row |-> "idle"]
  /\ deferred = {}

-----------------------------------------------------------------------------
(* Rows and batches.                                                       *)

RowsDone_Deferred ==    \* mutant: a deferred row counts as final (BUG-62)
  \A w \in Row : rowSt[w] \in {"pending", "ended", "cancelled"}
RowsDone == \A w \in Row : rowSt[w] \in {"ended", "cancelled"}
InFlight(S) == \E w \in S : rowSt[w] \in {"queued", "running"}

\* UPDATE ActionHostRun SET status = "cancelled" WHERE status IN from.
CancelRows(from) ==
  rowSt' = [w \in Row |-> IF rowSt[w] \in from THEN "cancelled" ELSE rowSt[w]]

\* finalise_run_if_complete, whoever calls it.
FinaliseRun ==
  runSt' = IF RowsDone /\ runSt = "running" THEN "ended" ELSE runSt

\* The first n rows of S, by id.
Take(S, n) == { w \in S : Cardinality({ v \in S : v < w }) < n }

NextBatch_Full(o) ==    \* mutant: the hosts in flight do not count
  batch[o] \cup IF Parallelism = 0 THEN todo[o] ELSE Take(todo[o], Parallelism)
\* _batches, and _resume_batches: the hosts in flight count against the first
\* batch of a resumed run.
NextBatch(o) ==
  LET taken == Cardinality(batch[o])
      room == IF taken < Parallelism THEN Parallelism - taken ELSE 0
  IN batch[o] \cup IF Parallelism = 0 THEN todo[o] ELSE Take(todo[o], room)

-----------------------------------------------------------------------------
(* An orchestrator.                                                        *)

Goto(o, p) == phase' = [phase EXCEPT ![o] = p]

\* It is over, and what it had in memory with it.
Forget(o) ==
  /\ todo' = [todo EXCEPT ![o] = {}]
  /\ batch' = [batch EXCEPT ![o] = {}]
  /\ toSend' = [toSend EXCEPT ![o] = {}]

\* run_action claims a queued run and creates its rows, or returns.
Start(o) ==
  /\ phase[o] = "start"
  /\ IF runSt = "queued"
     THEN /\ runSt' = "running"
          /\ owner' = o
          /\ heartbeat' = "fresh"
          /\ rowSt' = [w \in Row |-> "queued"]
          /\ todo' = [todo EXCEPT ![o] = Row]
          /\ Goto(o, "ready")
     ELSE /\ Goto(o, "done")
          /\ UNCHANGED <<runSt, owner, heartbeat, rowSt, todo>>
  /\ UNCHANGED <<cancel, batch, toSend, rowMsg, rowTask, deferred>>

Resume_Pending(o) ==    \* mutant: the queued rows are left to the host queue
  /\ phase[o] = "resume"
  /\ heartbeat' = "fresh"
  /\ batch' = [batch EXCEPT ![o] = { w \in Row : rowSt[w] = "running" }]
  /\ Goto(o, IF batch'[o] = {} THEN "closing" ELSE "ready")
  /\ UNCHANGED <<runSt, owner, todo, cancel, toSend, rowVars>>
\* resume_run goes on from the rows: those running are waited for, those
\* queued are sent again, whether or not they had been sent before.
Resume(o) ==
  /\ phase[o] = "resume"
  /\ IF owner = o /\ runSt = "running"
     THEN /\ heartbeat' = "fresh"
          /\ batch' = [batch EXCEPT ![o] = { w \in Row : rowSt[w] = "running" }]
          /\ todo' = [todo EXCEPT ![o] = { w \in Row : rowSt[w] = "queued" }]
          /\ Goto(o, IF InFlight(Row) THEN "ready" ELSE "closing")
     ELSE /\ Goto(o, "done")
          /\ UNCHANGED <<heartbeat, todo, batch>>
  /\ UNCHANGED <<runSt, owner, cancel, toSend, rowVars>>

\* _check_in: the heartbeat is written by the owner only, and what it finds on
\* the way says how to go on.
CheckIn(o) ==
  IF owner = o THEN heartbeat' = "fresh" ELSE UNCHANGED heartbeat
Cancelled == runSt = "cancelled" \/ (runSt = "running" /\ cancel # "no")
Go(o) == owner = o /\ runSt = "running" /\ cancel = "no"

\* ... when it is not "go": stop, or cancel what is left first.
Stop(o) ==
  /\ phase[o] \in {"ready", "waiting"}
  /\ ~Go(o)
  /\ CheckIn(o)
  /\ Goto(o, CASE owner # o -> "leaving"
               [] owner = o /\ Cancelled -> "cancelling"
               [] OTHER -> "closing")
  /\ Forget(o)
  /\ UNCHANGED <<runSt, owner, cancel, rowVars>>

\* _ready: the next batch may go out.
Ready(o) ==
  /\ phase[o] = "ready"
  /\ Go(o)
  /\ CheckIn(o)
  /\ LET next == NextBatch(o) IN
     /\ batch' = [batch EXCEPT ![o] = next]
     /\ toSend' = [toSend EXCEPT ![o] = next \ batch[o]]
     /\ todo' = [todo EXCEPT ![o] = @ \ next]
     /\ Goto(o, IF next = batch[o] THEN "waiting" ELSE "sending")
  /\ UNCHANGED <<runSt, owner, cancel, rowVars>>

\* _dispatch: one message after the other, without another look at the run.
Send(o) ==
  /\ phase[o] = "sending"
  /\ \E w \in Take(toSend[o], 1) :
       /\ rowMsg' = [rowMsg EXCEPT ![w] = @ + 1]
       /\ toSend' = [toSend EXCEPT ![o] = @ \ {w}]
       /\ Goto(o, IF toSend[o] = {w} THEN "waiting" ELSE "sending")
  /\ UNCHANGED <<runVars, todo, batch, rowSt, rowTask, deferred>>

LeaveBatch(o) ==
  /\ Goto(o, IF todo[o] = {} THEN "closing" ELSE "ready")
  /\ batch' = [batch EXCEPT ![o] = {}]

\* _wait: on to the next batch when no row of this one is queued or running;
\* a deferred row counts as done.
Wait(o) ==
  /\ phase[o] = "waiting"
  /\ Go(o)
  /\ CheckIn(o)
  /\ IF InFlight(batch[o]) THEN UNCHANGED <<phase, batch>> ELSE LeaveBatch(o)
  /\ UNCHANGED <<runSt, owner, cancel, todo, toSend, rowVars>>

\* ... or after _batch_wait_seconds regardless.
GiveUp(o) ==
  /\ "slowBatch" \in May
  /\ phase[o] = "waiting"
  /\ Go(o)
  /\ CheckIn(o)
  /\ LeaveBatch(o)
  /\ UNCHANGED <<runSt, owner, cancel, todo, toSend, rowVars>>

Close(o) ==
  /\ phase[o] = "closing"
  /\ FinaliseRun
  /\ Goto(o, "leaving")
  /\ UNCHANGED <<owner, heartbeat, cancel, todo, batch, toSend, rowVars>>

\* _mark_run_cancelled, unless the run has ended meanwhile.
MarkCancelled(o) ==
  /\ phase[o] = "cancelling"
  /\ IF runSt \in {"ended", "failed"}
     THEN UNCHANGED <<runSt, rowSt>>
     ELSE runSt' = "cancelled" /\ CancelRows({"queued", "pending"})
  /\ Goto(o, "leaving")
  /\ UNCHANGED <<owner, heartbeat, cancel, todo, batch, toSend, rowMsg, rowTask,
                 deferred>>

\* The broker refuses a message: _mark_run_failed, whoever owns the run.
MarkFailed(o) ==
  /\ "sendError" \in May
  /\ phase[o] = "sending"
  /\ runSt' = "failed"
  /\ Goto(o, "leaving")
  /\ Forget(o)
  /\ UNCHANGED <<owner, heartbeat, cancel, rowVars>>

\* The orchestrator's own time is up: _finalise_soft_limited.
SoftLimit(o) ==
  /\ "softLimit" \in May
  /\ phase[o] \in {"ready", "sending", "waiting"}
  /\ runSt' = IF runSt = "cancelled" THEN runSt ELSE "failed"
  /\ CancelRows({"queued"})
  /\ Goto(o, "leaving")
  /\ Forget(o)
  /\ UNCHANGED <<owner, heartbeat, cancel, rowMsg, rowTask, deferred>>

LetGo_Unfenced(o) ==    \* mutant: whoever owns the run meanwhile
  /\ phase[o] = "leaving"
  /\ owner' = Nobody
  /\ heartbeat' = "none"
  /\ Goto(o, "done")
  /\ UNCHANGED <<runSt, cancel, todo, batch, toSend, rowVars>>
\* _let_go: give the run back, if it is still this orchestrator's.
LetGo(o) ==
  /\ phase[o] = "leaving"
  /\ IF owner = o THEN owner' = Nobody /\ heartbeat' = "none"
                  ELSE UNCHANGED <<owner, heartbeat>>
  /\ Goto(o, "done")
  /\ UNCHANGED <<runSt, cancel, todo, batch, toSend, rowVars>>

-----------------------------------------------------------------------------
(* The sweeper: action_sweeper.py.                                         *)

\* An orchestrator that may still be made the owner (bound on take-overs).
Spare == { o \in Orch : phase[o] = "none" }

\* _take_over: a running run with a stale heartbeat gets a new owner.
TakeOver(o) ==
  /\ o \in Spare
  /\ runSt = "running"
  /\ heartbeat = "stale"
  /\ ~RowsDone
  /\ owner' = o
  /\ heartbeat' = "fresh"
  /\ Goto(o, "resume")
  /\ UNCHANGED <<runSt, cancel, todo, batch, toSend, rowVars>>

SweepDone ==
  /\ runSt = "running"
  /\ RowsDone
  /\ FinaliseRun
  /\ UNCHANGED <<owner, heartbeat, cancel, orchVars, rowVars>>

SweepDeadline ==
  /\ "runDeadline" \in May
  /\ runSt = "running"
  /\ ~RowsDone
  /\ runSt' = "failed"
  /\ CancelRows({"queued", "pending"})
  /\ UNCHANGED <<owner, heartbeat, cancel, orchVars, rowMsg, rowTask, deferred>>

\* Time passes for an owner that does not check in: it is dead, or - while
\* there is another to take over - still in the broker, or held up.
GoesStale ==
  /\ heartbeat = "fresh"
  /\ \/ owner \in Orch /\ phase[owner] = "dead"
     \/ "stall" \in May /\ Spare # {}
  /\ heartbeat' = "stale"
  /\ UNCHANGED <<runSt, owner, cancel, orchVars, rowVars>>

-----------------------------------------------------------------------------
(* Cancelling: api/actions.py, the token first and the status after it.    *)

RequestCancel ==
  /\ "cancel" \in May
  /\ cancel = "no"
  /\ runSt \in {"queued", "running"}
  /\ cancel' = "token"
  /\ UNCHANGED <<runSt, owner, heartbeat, orchVars, rowVars>>

CommitCancel ==
  /\ cancel = "token"
  /\ cancel' = "done"
  /\ runSt' = "cancelled"
  /\ CancelRows({"queued", "pending"})
  /\ UNCHANGED <<owner, heartbeat, orchVars, rowMsg, rowTask, deferred>>

-----------------------------------------------------------------------------
(* The per-host tasks: action_host.py, and the queue of the host.          *)

Receive_Again(w) ==     \* mutant: a message is not gone when it is taken
  rowMsg' = [rowMsg EXCEPT ![w] = @ - 1]
Receive(w) == rowMsg[w] > 0 /\ rowMsg' = [rowMsg EXCEPT ![w] = @ - 1]

Claimable_Taken(w) ==   \* mutant: a copy looks for the end of its row only
  rowSt[w] \notin {"ended", "cancelled"}
Claimable(w) == rowSt[w] = "queued"

\* A copy of the task finds the row taken, cancels it for the token, defers it,
\* or claims it: the token is read before the claim.
StartRow(w) ==
  /\ Receive(w)
  /\ \/ /\ ~Claimable(w)
        /\ UNCHANGED <<rowSt, rowTask, deferred>>
     \/ /\ Claimable(w)
        /\ cancel # "no"
        /\ rowSt' = [rowSt EXCEPT ![w] = "cancelled"]
        /\ UNCHANGED <<rowTask, deferred>>
     \/ /\ Claimable(w)
        /\ w \in Contended \ deferred
        /\ rowSt' = [rowSt EXCEPT ![w] = "pending"]
        /\ deferred' = deferred \cup {w}
        /\ UNCHANGED rowTask
     \/ /\ Claimable(w)
        /\ rowSt' = [rowSt EXCEPT ![w] = "running"]
        /\ rowTask' = [rowTask EXCEPT ![w] = "working"]
        /\ UNCHANGED deferred
  /\ UNCHANGED <<runVars, orchVars>>

\* dispatch_next_pending_for_host, for a row of an open run, when whatever kept
\* the host busy releases it.
Wake(w) ==
  /\ rowSt[w] = "pending"
  /\ runSt = "running"
  /\ rowSt' = [rowSt EXCEPT ![w] = "queued"]
  /\ rowMsg' = [rowMsg EXCEPT ![w] = @ + 1]
  /\ UNCHANGED <<rowTask, deferred, runVars, orchVars>>

FinishRow(w) ==
  /\ rowTask[w] = "working"
  /\ rowSt' = [rowSt EXCEPT ![w] = "ended"]
  /\ rowTask' = [rowTask EXCEPT ![w] = "closing"]
  /\ UNCHANGED <<rowMsg, deferred, runVars, orchVars>>

CloseParent(w) ==
  /\ rowTask[w] = "closing"
  /\ rowTask' = [rowTask EXCEPT ![w] = "idle"]
  /\ FinaliseRun
  /\ UNCHANGED <<owner, heartbeat, cancel, orchVars, rowSt, rowMsg, deferred>>

SweepRow(w) ==
  /\ rowTask[w] = "dead"
  /\ rowSt' = [rowSt EXCEPT ![w] = "ended"]
  /\ rowTask' = [rowTask EXCEPT ![w] = "idle"]
  /\ UNCHANGED <<rowMsg, deferred, runVars, orchVars>>

-----------------------------------------------------------------------------
(* What is killed. A killed orchestrator has a successor in reserve.       *)

OrchDies(o) ==
  /\ "orchDies" \in May
  /\ Spare # {}
  /\ phase[o] \in Active \cup {"resume"}
  /\ Goto(o, "dead")
  /\ Forget(o)
  /\ UNCHANGED <<runVars, rowVars>>

\* A per-host task is killed at work, or between its row's end and its run's.
WorkerDies(w) ==
  /\ "workerDies" \in May
  /\ \/ rowTask[w] = "working" /\ rowTask' = [rowTask EXCEPT ![w] = "dead"]
     \/ rowTask[w] = "closing" /\ rowTask' = [rowTask EXCEPT ![w] = "idle"]
  /\ UNCHANGED <<rowSt, rowMsg, deferred, runVars, orchVars>>

-----------------------------------------------------------------------------
OrchStep(o) ==
  \/ Start(o) \/ Resume(o) \/ Stop(o) \/ Ready(o) \/ Send(o) \/ Wait(o)
  \/ Close(o) \/ MarkCancelled(o) \/ LetGo(o)

RowStep(w) ==
  StartRow(w) \/ Wake(w) \/ FinishRow(w) \/ CloseParent(w) \/ SweepRow(w)

Sweep == SweepDone \/ \E o \in Orch : TakeOver(o)

Next ==
  \/ \E o \in Orch :
       OrchStep(o) \/ GiveUp(o) \/ MarkFailed(o) \/ SoftLimit(o) \/ OrchDies(o)
  \/ \E w \in Row : RowStep(w) \/ WorkerDies(w)
  \/ Sweep \/ SweepDeadline \/ GoesStale \/ RequestCancel \/ CommitCancel

Spec == Init /\ [][Next]_vars

\* An orchestrator that lives goes on, a per-host task is taken and ends, a busy
\* host is released (HostQueue's Served), the sweeper runs every five minutes,
\* and time passes for a dead orchestrator.
Fairness ==
  /\ \A o \in Orch : WF_vars(OrchStep(o))
  /\ \A w \in Row : WF_vars(RowStep(w))
  /\ WF_vars(Sweep)
  /\ WF_vars(GoesStale /\ owner \in Orch /\ phase[owner] = "dead")

FairSpec == Spec /\ Fairness
-----------------------------------------------------------------------------
(* Properties.                                                             *)

\* The rows that will not start unless an orchestrator sends their task.
Unsent == { w \in Row : rowSt[w] = "queued" /\ rowMsg[w] = 0 }

\* A run is never left with rows that nobody will send: as long as one of its
\* rows is queued and not in the broker, it has a heartbeat, which either moves
\* or goes stale (_let_go, and what it must not clear).
Findable ==
  runSt = "running" /\ Unsent # {} => owner # Nobody /\ heartbeat # "none"

\* No more hosts run at once than the run's parallelism, whoever sent them,
\* except those the host queue sent again later (_resume_batches).
BatchesKeepParallelism ==
  Parallelism > 0 =>
    Cardinality({ w \in Row \ deferred : rowSt[w] = "running" }) <= Parallelism

\* A run that ended, as opposed to one that was failed or cancelled, has no
\* host that is still to run, waits or works (finalise_run_if_complete, with
\* every caller it has).
EndedMeansDone ==
  runSt = "ended" => \A w \in Row : rowSt[w] \in {"ended", "cancelled"}

\* A host that has started does not start again, however many orchestrators
\* have sent its task (_resume_run_async: "whichever copy of such a host's task
\* runs second finds the row claimed and does nothing").
RowStartsOnce ==
  [][\A w \in Row :
       /\ rowSt[w] = "running" => rowSt'[w] \in {"running", "ended"}
       /\ rowSt[w] \in {"ended", "cancelled"} => rowSt'[w] = rowSt[w]]_vars

\* Every host of a run comes to an end, though orchestrators and workers die,
\* and the run with it ("The hosts the run had not reached then run as usual").
EveryRowReached ==
  /\ \A w \in Row : rowSt[w] = "queued" ~> rowSt[w] \in {"ended", "cancelled"}
  /\ runSt = "running" ~> runSt \in {"ended", "cancelled"}

-----------------------------------------------------------------------------
(* The orchestrated run implements RunLife.                                *)

RunLifeOf(status) ==
  CASE status = "running" -> "open"
    [] status = "failed" -> "ended"
    [] OTHER -> status
RowLifeOf(status) ==
  CASE status = "none" -> "none"
    [] status \in {"queued", "pending"} -> "waiting"
    [] status = "running" -> "working"
    [] OTHER -> "over"

runLife == [r \in {1} |-> RunLifeOf(runSt)]
rowLife == [w \in Row |-> RowLifeOf(rowSt[w])]

Life == INSTANCE RunLife WITH
  Run <- {1}, RowRun <- [w \in Row |-> 1], run <- runLife, row <- rowLife

\* However many orchestrators drive the run one after the other or side by side,
\* it lives once: its rows are created once, each starts once, none of them
\* after a cancel was committed, and no orchestrator opens it again.
ImplementsRunLife == Life!Spec
=============================================================================
