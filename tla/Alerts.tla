-------------------------------- MODULE Alerts --------------------------------
(***************************************************************************)
(* What alerts about one host set off, all labelled with the same action   *)
(* and asking for the assistant when that does not help: intake            *)
(* (ai/alerts.py, api/webhooks.py, tasks/ai_alerts.py), the labelled action *)
(* (alerts/labels.py), its check and the hand-over (tasks/                  *)
(* alert_handling.py), the AI policy and the investigate button             *)
(* (tasks/ai_alerts.py, api/alerts.py).                                     *)
(*                                                                         *)
(* Nothing locks an alert or the host: every task and request reads in one *)
(* step and commits in another.  The runs themselves are Orchestrator's,   *)
(* the sessions AISession's; here they start and end.  Left out: the       *)
(* guards on list, scope and token, which never let a run start, and the   *)
(* provider and budget checks, which never let a session start.            *)
(***************************************************************************)
EXTENDS Naturals, FiniteSets

CONSTANTS Alert,      \* firings: fingerprint and start time
          MaxNotices, \* bound: notifications received
          Crash       \* processes may end between a commit and what follows

ASSUME AlertAssumption == MaxNotices \in Nat

VARIABLES event,    \* AlertEvent of each firing
          notices,  \* how many notifications were recorded
          handle,   \* handle_alert messages
          dispatch, \* AlertActionDispatch of each alert, and its run
          handler,  \* the alert's task between read and commit
          button,   \* the investigate request between read and commit
          tick,     \* check_alert_actions between read, commit and hand-over
          lost      \* alerts whose message or hand-over was lost in a crash

alertVars == <<event, notices, handle, dispatch, handler, button, tick, lost>>

\* in_flight stands for queued, pending and running; failed for _RUN_FAILED.
RunStatus == {"none", "in_flight", "succeeded", "failed"}
CheckOutcome == {"none", "fixed", "not_effective", "run_failed"}

Event == [status : {"none", "firing", "resolved"},
          outcome : {"none", "waiting_on_action", "handled_by_action",
                     "started", "skipped"},
          session : BOOLEAN, automatic : Nat]
Dispatch == [run : RunStatus, check : CheckOutcome, runs : Nat]

AlertTypeOK ==
  /\ event \in [Alert -> Event]
  /\ notices \in 0..MaxNotices
  /\ handle \in [Alert -> Nat]
  /\ dispatch \in [Alert -> Dispatch]
  /\ handler \in [Alert ->
       {"idle", "act", "inFlight", "decide", "start", "skip"}]
  /\ button \in [Alert -> BOOLEAN]
  /\ tick \in [pc : {"idle", "commit", "handOver"},
               found : [Alert -> CheckOutcome], over : SUBSET Alert]
  /\ lost \subseteq Alert

NoTick == [pc |-> "idle", found |-> [a \in Alert |-> "none"], over |-> {}]

AlertInit ==
  /\ event = [a \in Alert |-> [status |-> "none", outcome |-> "none",
                               session |-> FALSE, automatic |-> 0]]
  /\ notices = 0
  /\ handle = [a \in Alert |-> 0]
  /\ dispatch = [a \in Alert |-> [run |-> "none", check |-> "none", runs |-> 0]]
  /\ handler = [a \in Alert |-> "idle"]
  /\ button = [a \in Alert |-> FALSE]
  /\ tick = NoTick /\ lost = {}

-----------------------------------------------------------------------------
Notify_Repeats(a, status) ==    \* mutant: a repeat is handled again
  /\ notices < MaxNotices /\ notices' = notices + 1
  /\ event[a].status # "resolved"
  /\ event' = [event EXCEPT ![a].status = status]
  /\ IF status # "firing"
       THEN UNCHANGED <<handle, lost>>
       ELSE \/ handle' = [handle EXCEPT ![a] = @ + 1] /\ UNCHANGED lost
            \/ Crash /\ lost' = lost \cup {a} /\ UNCHANGED handle
  /\ UNCHANGED <<dispatch, handler, button, tick>>
\* record: one row per firing, whose status follows the last notification;
\* the first one, if it fires, is sent to handle_alert after the commit.
Notify(a, status) ==
  /\ notices < MaxNotices /\ notices' = notices + 1
  /\ event[a].status # "resolved"
  /\ event' = [event EXCEPT ![a].status = status]
  /\ IF event[a].status # "none" \/ status # "firing"
       THEN UNCHANGED <<handle, lost>>
       ELSE \/ handle' = [handle EXCEPT ![a] = @ + 1] /\ UNCHANGED lost
            \/ Crash /\ lost' = lost \cup {a} /\ UNCHANGED handle
  /\ UNCHANGED <<dispatch, handler, button, tick>>

HandlerAt(a, pc) == handler' = [handler EXCEPT ![a] = pc]

\* _handle reads the alert and the runs alerts started, in dispatch_for.
Handle(a) ==
  /\ handle[a] > 0 /\ handler[a] = "idle"
  /\ handle' = [handle EXCEPT ![a] = @ - 1]
  /\ HandlerAt(a,
       IF event[a].status # "firing" THEN "decide"
       ELSE IF \E b \in Alert : dispatch[b].run = "in_flight" THEN "inFlight"
       ELSE "act")
  /\ UNCHANGED <<event, notices, dispatch, button, tick, lost>>

\* Its commit: the run is created and sent to the orchestrator.
Act(a) ==
  /\ handler[a] = "act"
  /\ dispatch' = [dispatch EXCEPT ![a].run = "in_flight", ![a].runs = @ + 1]
  /\ event' = [event EXCEPT ![a].outcome = "waiting_on_action"]
  /\ HandlerAt(a, "idle")
  /\ UNCHANGED <<notices, handle, button, tick, lost>>

\* The run already going decides, through its own alert.
LeaveToOther(a) ==
  /\ handler[a] = "inFlight"
  /\ event' = [event EXCEPT ![a].outcome = "handled_by_action"]
  /\ HandlerAt(a, "idle")
  /\ UNCHANGED <<notices, handle, dispatch, button, tick, lost>>

\* The action is not allowed, or in its cooldown: over to the AI.
NotAllowed(a) ==
  /\ handler[a] = "act"
  /\ HandlerAt(a, "decide")
  /\ UNCHANGED <<event, notices, handle, dispatch, button, tick, lost>>

\* _decide_and_run reads the alert: switched off, resolved or investigated
\* already are skips.
DecideAlert(a) ==
  /\ handler[a] = "decide"
  /\ \/ /\ event[a].status = "firing" /\ ~event[a].session
        /\ HandlerAt(a, "start")
     \/ HandlerAt(a, "skip")
  /\ UNCHANGED <<event, notices, handle, dispatch, button, tick, lost>>

StartSession(a, automatic) ==
  event' = [event EXCEPT ![a].outcome = "started", ![a].session = TRUE,
                         ![a].automatic = @ + automatic]

StartAlert(a) ==
  /\ handler[a] = "start"
  /\ StartSession(a, 1)
  /\ HandlerAt(a, "idle")
  /\ UNCHANGED <<notices, handle, dispatch, button, tick, lost>>

SkipAlert(a) ==
  /\ handler[a] = "skip"
  /\ event' = [event EXCEPT ![a].outcome = "skipped"]
  /\ HandlerAt(a, "idle")
  /\ UNCHANGED <<notices, handle, dispatch, button, tick, lost>>

\* investigate_alert_now.
Press(a) ==
  /\ event[a].status # "none" /\ ~event[a].session /\ ~button[a]
  /\ button' = [button EXCEPT ![a] = TRUE]
  /\ UNCHANGED <<event, notices, handle, dispatch, handler, tick, lost>>

Pressed(a) ==
  /\ button[a]
  /\ StartSession(a, 0)
  /\ button' = [button EXCEPT ![a] = FALSE]
  /\ UNCHANGED <<notices, handle, dispatch, handler, tick, lost>>

-----------------------------------------------------------------------------
\* The run ends (Orchestrator).
RunEnds(a) ==
  /\ dispatch[a].run = "in_flight"
  /\ \E status \in {"succeeded", "failed"} :
       dispatch' = [dispatch EXCEPT ![a].run = status]
  /\ UNCHANGED <<event, notices, handle, handler, button, tick, lost>>

Finds_Ended(a) ==    \* mutant: a run that failed is never judged
  IF dispatch[a].check # "none" \/ dispatch[a].run # "succeeded" THEN {"none"}
  ELSE IF event[a].status = "resolved" THEN {"fixed"}
  ELSE {"none", "not_effective"}
\* What _check makes of a started run that was not judged yet; a succeeded one
\* is given some minutes before it counts as without effect.
Finds(a) ==
  IF dispatch[a].check # "none" \/ dispatch[a].run \in {"none", "in_flight"}
    THEN {"none"}
  ELSE IF dispatch[a].run = "failed" THEN {"run_failed"}
  ELSE IF event[a].status = "resolved" THEN {"fixed"}
  ELSE {"none", "not_effective"}

Check_NoEffect ==    \* mutant: only what had no effect is handed over
  /\ tick.pc = "idle"
  /\ \E found \in [Alert -> CheckOutcome] :
       /\ \A a \in Alert : found[a] \in Finds(a)
       /\ \E a \in Alert : found[a] # "none"
       /\ tick' = [pc |-> "commit", found |-> found, over |->
            {a \in Alert : /\ found[a] = "not_effective"
                           /\ ~event[a].session
                           /\ event[a].status = "firing"}]
  /\ UNCHANGED <<event, notices, handle, dispatch, handler, button, lost>>
\* _check reads, ...
Check ==
  /\ tick.pc = "idle"
  /\ \E found \in [Alert -> CheckOutcome] :
       /\ \A a \in Alert : found[a] \in Finds(a)
       /\ \E a \in Alert : found[a] # "none"
       /\ tick' = [pc |-> "commit", found |-> found, over |->
            {a \in Alert : /\ found[a] \in {"not_effective", "run_failed"}
                           /\ ~event[a].session
                           /\ event[a].status = "firing"}]
  /\ UNCHANGED <<event, notices, handle, dispatch, handler, button, lost>>

\* ... writes the verdicts, ...
CommitCheck ==
  /\ tick.pc = "commit"
  /\ dispatch' = [a \in Alert |->
       IF tick.found[a] = "none" THEN dispatch[a]
       ELSE [dispatch[a] EXCEPT !.check = tick.found[a]]]
  /\ event' = [a \in Alert |->
       IF tick.found[a] = "fixed" /\ ~event[a].session
         THEN [event[a] EXCEPT !.outcome = "handled_by_action"] ELSE event[a]]
  /\ tick' = [NoTick EXCEPT !.pc = "handOver", !.over = tick.over]
  /\ UNCHANGED <<notices, handle, handler, button, lost>>

\* ... and only then hands over, one alert after the other, in this process.
HandOver(a) ==
  /\ tick.pc = "handOver" /\ a \in tick.over /\ handler[a] = "idle"
  /\ tick' = [tick EXCEPT !.over = @ \ {a}]
  /\ HandlerAt(a, "decide")
  /\ UNCHANGED <<event, notices, handle, dispatch, button, lost>>

EndCheck ==
  /\ tick.pc = "handOver" /\ (tick.over = {} \/ Crash)
  /\ tick' = NoTick
  /\ lost' = lost \cup tick.over
  /\ UNCHANGED <<event, notices, handle, dispatch, handler, button>>

-----------------------------------------------------------------------------
AlertTask(a) ==
  \/ Handle(a) \/ Act(a) \/ LeaveToOther(a) \/ NotAllowed(a) \/ DecideAlert(a)
  \/ StartAlert(a) \/ SkipAlert(a) \/ Pressed(a)
Tick == Check \/ CommitCheck \/ EndCheck \/ \E a \in Alert : HandOver(a)

AlertNext ==
  \/ \E a \in Alert :
       \/ AlertTask(a) \/ RunEnds(a) \/ Press(a)
       \/ \E status \in {"firing", "resolved"} : Notify(a, status)
  \/ Tick

AlertSpec == AlertInit /\ [][AlertNext]_alertVars

\* Tasks run, the check is on the beat, and runs end.
AlertFairness == \A a \in Alert :
  WF_alertVars(AlertTask(a)) /\ WF_alertVars(RunEnds(a)) /\ WF_alertVars(Tick)
AlertFairSpec == AlertSpec /\ AlertFairness

\* However often a firing alert is repeated, and whatever becomes of its action,
\* the action runs once for it and one investigation follows by itself.
AnsweredOnce ==
  \A a \in Alert : dispatch[a].runs <= 1 /\ event[a].automatic <= 1

\* An alert that waits for its action, still firing, is looked at again: its
\* run is not judged yet, or it is handed over, or being looked at already.
WaitingIsWatched ==
  \A a \in Alert \ lost :
    event[a].outcome = "waiting_on_action" /\ event[a].status = "firing"
    => \/ dispatch[a].check = "none" \/ event[a].session
       \/ a \in tick.over \/ handler[a] # "idle"

\* An alert that fires is answered: its action handled it, a session looks at
\* it, or its row says why none does; waiting is not the last word.
AlertIsAnswered ==
  \A a \in Alert :
    (event[a].status = "firing" /\ ~event[a].session)
      ~> (\/ event[a].outcome \in {"handled_by_action", "started", "skipped"}
          \/ event[a].status = "resolved" \/ event[a].session \/ a \in lost)
=============================================================================
