----------------------------- MODULE Remediation -----------------------------
(***************************************************************************)
(* What becomes of the changes assistant sessions make on one host:        *)
(* snapshots (ai/snapshots.py) and their retention (tasks/ai_snapshots.py), *)
(* the level an alert's session may run at (ai/alert_autonomy.py), the     *)
(* check of an unattended fix and the rollbacks (ai/remediation.py,        *)
(* tasks/ai_remediation.py, roll_back_session in api/ai.py).               *)
(*                                                                         *)
(* The host's disk is the set of sessions whose changes are on it.  A call   *)
(* that changes the host is a row from when the model asked for it - which *)
(* is its started_at - and gets its snapshot, the disk from before it, when *)
(* it runs: at once, or once somebody approved it.  Times are compared as  *)
(* positions in `toolCalls'.  The minutes a check waits, the age at which  *)
(* a session is not looked up any more and the retention days are steps    *)
(* that may come at any time.                                              *)
(* Left out: hosts without snapshots, LabDog's own host, chat sessions, a  *)
(* second task of a session that is cancelled and written to, and other    *)
(* work on the host, which refuses a rollback that may be refused anyway.  *)
(***************************************************************************)
EXTENDS Naturals, Sequences, FiniteSets, FiniteSetsExt

CONSTANTS Ses,           \* sessions, each started for an alert of its own
          MaxChanges,      \* bound: calls that change the host
          MaxRollbacks,  \* bound: rollbacks started
          May            \* events, see below

\* "dies"            a worker is killed, or the process between commit and send
\* "slowCheck"       a check outlives ABANDONED_AFTER, in the queue or waiting
\* "slowRollback"    so does a rollback
\* "cancelledWorks"  a command of a cancelled session's last turn still runs
\* "stalePlan"       the host is rolled back, or the session reopened, between
\*                   a plan and its claim
\* "queuesLong"      7500 seconds after it was created a session still works,
\*                   as its limit runs from when a worker takes it
\* "forgets"         24 hours pass after a fix that was not checked, or after
\*                   the verdict that it made things worse
\* "message"         an operator writes to a session that is over

ASSUME RemAssumption == MaxChanges \in Nat /\ MaxRollbacks \in Nat

VARIABLES fix,         \* status and level of each session; is its task alive
          outcome,     \* AlertEvent.remediation_outcome of its alert
          check,       \* its check_remediation task
          disk,        \* sessions whose changes are on the host
          toolCalls,   \* AIToolCall rows that change the host, by id
          back,        \* AIRollback rows in the order they were started
          newestOnly   \* the storage restores its newest snapshot only

remVars == <<fix, outcome, check, disk, toolCalls, back, newestOnly>>

Verdict == {"fixed", "not_effective", "made_worse", "unchecked"}
Judged == Verdict \ {"unchecked"}

Fix == [status : {"none", "open", "ended", "cancelled"},
        level : {"full_auto", "approval"}, works : BOOLEAN,
        sight : {"kept", "lost", "again"}]
\* taken: 0 until its snapshot is, then how many were before it, plus one
ToolCall == [ses : Ses, taken : 0..MaxChanges, holds : SUBSET Ses,
             gone : BOOLEAN]
\* to: the call whose snapshot it restores; at: the last call before it
Rollback == [ses : Ses, to : 1..MaxChanges, at : 0..MaxChanges,
             status : {"running", "succeeded", "failed", "refused"},
             trigger : {"automatic", "manual"},
             task : {"sent", "lost", "restoring", "restored", "failing",
                     "refusing", "done"}]

RemTypeOK ==
  /\ fix \in [Ses -> Fix]
  /\ outcome \in [Ses -> Verdict \cup {"none", "checking"}]
  /\ check \in [Ses -> {"none", "sent", "judging", "worse", "planned"}]
  /\ disk \subseteq Ses
  /\ toolCalls \in Seq(ToolCall) /\ Len(toolCalls) <= MaxChanges
  /\ back \in Seq(Rollback) /\ Len(back) <= MaxRollbacks
  /\ newestOnly \in BOOLEAN

RemInit ==
  /\ fix = [e \in Ses |->
              [status |-> "none", level |-> "approval", works |-> FALSE,
               sight |-> "kept"]]
  /\ outcome = [e \in Ses |-> "none"]
  /\ check = [e \in Ses |-> "none"]
  /\ disk = {} /\ toolCalls = <<>> /\ back = <<>>
  /\ newestOnly \in BOOLEAN

-----------------------------------------------------------------------------
(* What the code looks up *)

Taken == {i \in DOMAIN toolCalls : toolCalls[i].taken > 0}
Changes(e) == {i \in Taken : toolCalls[i].ses = e}
Changed(e) == Changes(e) # {}
FirstChange(e) == Min(Changes(e))

Unattended(e) == fix[e].status # "none" /\ fix[e].level = "full_auto"
InSight(e) == fix[e].sight # "lost"
\* _in_flight, which takes a session older than its task may get for dead.
InFlight(e) == Unattended(e) /\ fix[e].status = "open" /\ InSight(e)
\* _JUDGED: a cancelled session is not checked.
Unjudged(e) ==
  /\ Unattended(e) /\ fix[e].status = "ended" /\ Changed(e)
  /\ outcome[e] \in {"none", "checking"}
\* awaiting_check, find_due: nobody looks back further than LOOKBACK, ...
AwaitsCheck(e) == Unjudged(e) /\ InSight(e)
\* ... nor, for recently_made_worse, than WORSE_SUSPENDS_FULL_AUTO.
Worse(e) == outcome[e] = "made_worse" /\ "forgets" \notin May
FullAutoRefused_NotAwaiting ==    \* mutant: a fix may wait for its verdict
  \E e \in Ses : InFlight(e) \/ Worse(e)
FullAutoRefused ==
  \E e \in Ses : InFlight(e) \/ AwaitsCheck(e) \/ Worse(e)

Running == {k \in DOMAIN back : back[k].status = "running"}
\* check_host_busy, as far as rollbacks go.
HostBusy == Running # {}
\* Rollbacks whose task works on the host or is about to say how it went.
Working == {"restoring", "restored", "failing", "refusing"}
AtWork == {k \in DOMAIN back : back[k].task \in Working}

ActiveRollback(k) == back[k].status \in {"running", "succeeded"}
\* _passed_over: another session's rollback, started after e asked for its
\* first change, went back to a call that was asked for before that.
PassedOver(e) ==
  \E k \in DOMAIN back :
    /\ back[k].ses # e /\ ActiveRollback(k)
    /\ back[k].at >= FirstChange(e) /\ back[k].to < FirstChange(e)

RollbackAllowed_AnyTime(e, self) ==    \* mutant: whatever happened since
  /\ fix[e].status \in {"ended", "cancelled"}
  /\ \A k \in DOMAIN back \ {self} : back[k].ses = e => ~ActiveRollback(k)
  /\ Changed(e) /\ ~toolCalls[FirstChange(e)].gone
\* check_rollback, for all but the rollback numbered `self'.
RollbackAllowed(e, self) ==
  /\ fix[e].status \in {"ended", "cancelled"}
  /\ \A k \in DOMAIN back \ {self} : back[k].ses = e => ~ActiveRollback(k)
  /\ Changed(e) /\ ~toolCalls[FirstChange(e)].gone
  /\ ~PassedOver(e)

NewRow(e, trigger, status, task) ==
  [ses |-> e, to |-> IF Changed(e) THEN FirstChange(e) ELSE 1,
   at |-> Len(toolCalls), status |-> status, trigger |-> trigger, task |-> task]

-----------------------------------------------------------------------------
(* Sessions *)

\* resolve, and the session created in the same transaction under its lock.
\* Other guards (cooldown, daily cap, settings) may refuse full auto as well.
Open(e) ==
  /\ fix[e].status = "none"
  /\ \E level \in {"full_auto", "approval"} :
       /\ level = "full_auto" => ~FullAutoRefused
       /\ fix' = [fix EXCEPT ![e] =
                    [status |-> "open", level |-> level, works |-> TRUE,
                     sight |-> "kept"]]
  /\ UNCHANGED <<outcome, check, disk, toolCalls, back, newestOnly>>

Works(e) ==
  fix[e].works /\ (fix[e].status = "open" \/ "cancelledWorks" \in May)
Snapshot_ByCall(e) ==    \* mutant: numbered like its call
  [ses |-> e, taken |-> Len(toolCalls) + 1, holds |-> disk, gone |-> FALSE]
Snapshot(e) == [ses |-> e, taken |-> Cardinality(Taken) + 1, holds |-> disk,
                gone |-> FALSE]

\* An unattended session changes the host unless that is busy.
Change(e) ==
  /\ Works(e) /\ Unattended(e) /\ Len(toolCalls) < MaxChanges
  /\ ~HostBusy
  /\ toolCalls' = Append(toolCalls, Snapshot(e))
  /\ disk' = disk \cup {e}
  /\ UNCHANGED <<fix, outcome, check, back, newestOnly>>

\* Any other session asks somebody first, one call at a time, ...
Propose(e) ==
  /\ Works(e) /\ ~Unattended(e) /\ Len(toolCalls) < MaxChanges
  /\ \A i \in DOMAIN toolCalls : toolCalls[i].ses = e => i \in Taken
  /\ toolCalls' = Append(toolCalls, [Snapshot(e) EXCEPT !.taken = 0,
                                                       !.holds = {}])
  /\ UNCHANGED <<fix, outcome, check, disk, back, newestOnly>>

\* ... and execute_approved runs it when they agreed, on a busy host too.
Approved(i) ==
  /\ i \notin Taken /\ Works(toolCalls[i].ses)
  /\ toolCalls' = [toolCalls EXCEPT ![i] = Snapshot(@.ses)]
  /\ disk' = disk \cup {toolCalls[i].ses}
  /\ UNCHANGED <<fix, outcome, check, back, newestOnly>>

\* The task ends; a cancelled session is told so between two turns.
EndSession(e) ==
  /\ fix[e].works
  /\ fix' = [fix EXCEPT ![e].works = FALSE,
                        ![e].status = IF @ = "open" THEN "ended" ELSE @,
                        ![e].sight = IF @ = "lost" THEN "again" ELSE @]
  /\ UNCHANGED <<outcome, check, disk, toolCalls, back, newestOnly>>

SessionDies(e) ==
  /\ "dies" \in May /\ fix[e].works
  /\ fix' = [fix EXCEPT ![e].works = FALSE]
  /\ UNCHANGED <<outcome, check, disk, toolCalls, back, newestOnly>>

CancelSession(e) ==
  /\ fix[e].status = "open"
  /\ fix' = [fix EXCEPT ![e].status = "cancelled"]
  /\ UNCHANGED <<outcome, check, disk, toolCalls, back, newestOnly>>

\* send_message, on any session that is over: with neither resolve nor its lock,
\* and it may be too old for _in_flight by now.  Bound: not after a request that
\* nobody granted.
Reopen(e) ==
  /\ "message" \in May /\ fix[e].status \in {"ended", "cancelled"}
  /\ \A i \in DOMAIN toolCalls : toolCalls[i].ses = e => i \in Taken
  /\ \E sight \in {"again", "lost"} :
       /\ fix[e].sight = "lost" => sight = "lost"
       /\ fix' = [fix EXCEPT ![e].status = "open", ![e].works = TRUE,
                             ![e].sight = sight]
  /\ UNCHANGED <<outcome, check, disk, toolCalls, back, newestOnly>>

\* Time passes: over a session whose worker died, too.
LoseSight(e) ==
  /\ \/ InFlight(e) /\ (fix[e].works => "queuesLong" \in May)
     \/ AwaitsCheck(e) /\ "forgets" \in May
  /\ fix' = [fix EXCEPT ![e].sight = "lost"]
  /\ UNCHANGED <<outcome, check, disk, toolCalls, back, newestOnly>>

-----------------------------------------------------------------------------
(* Checks *)

Resolve(e, verdict) == outcome' = [outcome EXCEPT ![e] = verdict]
CheckAt(e, pc) == check' = [check EXCEPT ![e] = pc]

\* find_due and claim; the check is sent after the commit.
ClaimCheck(e) ==
  /\ AwaitsCheck(e) /\ outcome[e] = "none"
  /\ Resolve(e, "checking")
  /\ \E pc \in {"sent"} \cup (IF "dies" \in May THEN {"none"} ELSE {}) :
       CheckAt(e, pc)
  /\ UNCHANGED <<fix, disk, toolCalls, back, newestOnly>>

\* LabDog was not running when the check fell due.
TooLate(e) ==
  /\ AwaitsCheck(e) /\ outcome[e] = "none"
  /\ Resolve(e, "unchecked")
  /\ UNCHANGED <<fix, check, disk, toolCalls, back, newestOnly>>

AbandonCheck_Slow(e) ==    \* mutant: not for a check that was never run
  /\ outcome[e] = "checking"
  /\ check[e] # "none" /\ "slowCheck" \in May
  /\ Resolve(e, "unchecked")
  /\ UNCHANGED <<fix, check, disk, toolCalls, back, newestOnly>>
\* release_abandoned.
AbandonCheck(e) ==
  /\ outcome[e] = "checking"
  /\ check[e] = "none" \/ "slowCheck" \in May
  /\ Resolve(e, "unchecked")
  /\ UNCHANGED <<fix, check, disk, toolCalls, back, newestOnly>>

PickCheck(e) ==
  /\ check[e] = "sent"
  /\ CheckAt(e, IF outcome[e] = "checking" THEN "judging" ELSE "none")
  /\ UNCHANGED <<fix, outcome, disk, toolCalls, back, newestOnly>>

Record_Overwrites(e) ==    \* mutant: no compare before the set
  /\ check[e] = "judging"
  /\ \E verdict \in Verdict :
       /\ Resolve(e, verdict)
       /\ CheckAt(e, IF verdict = "made_worse" THEN "worse" ELSE "none")
  /\ UNCHANGED <<fix, disk, toolCalls, back, newestOnly>>
\* judge, and record_outcome's compare-and-set; a check that was closed while
\* it ran stops here.
Record(e) ==
  /\ check[e] = "judging"
  /\ \E verdict \in Verdict :
       /\ Resolve(e, IF outcome[e] = "checking" THEN verdict ELSE outcome[e])
       /\ CheckAt(e, IF outcome[e] = "checking" /\ verdict = "made_worse"
                       THEN "worse" ELSE "none")
  /\ UNCHANGED <<fix, disk, toolCalls, back, newestOnly>>

CheckDies(e) ==
  /\ "dies" \in May /\ check[e] # "none"
  /\ CheckAt(e, "none")
  /\ UNCHANGED <<fix, outcome, disk, toolCalls, back, newestOnly>>

\* roll_back_automatically: switched off, refused or still busy, which leaves a
\* refused row that nothing looks up, ...
RefuseAuto(e) ==
  /\ check[e] \in {"worse", "planned"}
  /\ CheckAt(e, "none")
  /\ UNCHANGED <<fix, outcome, disk, toolCalls, back, newestOnly>>

\* ... planned, ...
PlanAuto(e) ==
  /\ check[e] = "worse" /\ RollbackAllowed(e, 0)
  /\ CheckAt(e, "planned")
  /\ UNCHANGED <<fix, outcome, disk, toolCalls, back, newestOnly>>

ClaimAuto_Busy(e) ==    \* mutant: nobody asks whether the host is busy
  /\ check[e] = "planned" /\ Len(back) < MaxRollbacks
  /\ \A k \in DOMAIN back : back[k].ses = e => ~ActiveRollback(k)
  /\ RollbackAllowed(e, 0) \/ "stalePlan" \in May
  /\ back' = Append(back, NewRow(e, "automatic", "running", "restoring"))
  /\ CheckAt(e, "none")
  /\ UNCHANGED <<fix, outcome, disk, toolCalls, newestOnly>>
\* ... and claimed under the host's lock, with the unique index behind it.
ClaimAuto(e) ==
  /\ check[e] = "planned" /\ Len(back) < MaxRollbacks
  /\ ~HostBusy
  /\ \A k \in DOMAIN back : back[k].ses = e => ~ActiveRollback(k)
  /\ RollbackAllowed(e, 0) \/ "stalePlan" \in May
  /\ back' = Append(back, NewRow(e, "automatic", "running", "restoring"))
  /\ CheckAt(e, "none")
  /\ UNCHANGED <<fix, outcome, disk, toolCalls, newestOnly>>

-----------------------------------------------------------------------------
(* Rollbacks *)

Row(k, status, task) ==
  back' = [back EXCEPT ![k].status = status, ![k].task = task]

\* roll_back_session; run_rollback plans again, so a stale plan is harmless.
RequestRollback(e) ==
  /\ RollbackAllowed(e, 0) /\ ~HostBusy /\ Len(back) < MaxRollbacks
  /\ \E task \in {"sent"} \cup (IF "dies" \in May THEN {"lost"} ELSE {}) :
       back' = Append(back, NewRow(e, "manual", "running", task))
  /\ UNCHANGED <<fix, outcome, check, disk, toolCalls, newestOnly>>

PickRollback_Silent(k) ==    \* mutant: a refusal is not written
  /\ back[k].task = "sent"
  /\ IF back[k].status # "running" THEN Row(k, back[k].status, "done")
     ELSE IF RollbackAllowed(back[k].ses, k) THEN Row(k, "running", "restoring")
     ELSE Row(k, "running", "done")
  /\ UNCHANGED <<fix, outcome, check, disk, toolCalls, newestOnly>>
PickRollback(k) ==
  /\ back[k].task = "sent"
  /\ IF back[k].status # "running" THEN Row(k, back[k].status, "done")
     ELSE IF RollbackAllowed(back[k].ses, k) THEN Row(k, "running", "restoring")
     ELSE Row(k, "refused", "done")
  /\ UNCHANGED <<fix, outcome, check, disk, toolCalls, newestOnly>>

\* Snapshots newer than the one to restore, where those are in the way.
InTheWay(k) ==
  {i \in Taken : newestOnly /\ ~toolCalls[i].gone
                 /\ toolCalls[i].taken > toolCalls[back[k].to].taken}
CannotRestore(k) ==
  toolCalls[back[k].to].gone \/ ~(InTheWay(k) \subseteq Changes(back[k].ses))

Delete(gone) ==
  toolCalls' = [i \in DOMAIN toolCalls |->
                  IF i \in gone THEN [toolCalls[i] EXCEPT !.gone = TRUE]
                                ELSE toolCalls[i]]

\* _clear_the_way finds that it cannot, ...
RefuseRestore(k) ==
  /\ back[k].task = "restoring" /\ CannotRestore(k)
  /\ Row(k, back[k].status, "refusing")
  /\ UNCHANGED <<fix, outcome, check, disk, toolCalls, newestOnly>>

\* ... or Proxmox fails, some of what is in the way deleted by then, ...
FailRestore(k) ==
  /\ back[k].task = "restoring" /\ ~CannotRestore(k)
  /\ \E oldest \in InTheWay(k) \cup {MaxChanges + 1} :
       Delete({i \in InTheWay(k) : i >= oldest})
  /\ Row(k, back[k].status, "failing")
  /\ UNCHANGED <<fix, outcome, check, disk, newestOnly>>

\* ... or the host goes back in time.
Restore(k) ==
  /\ back[k].task = "restoring" /\ ~CannotRestore(k)
  /\ Delete(InTheWay(k))
  /\ disk' = toolCalls[back[k].to].holds
  /\ Row(k, back[k].status, "restored")
  /\ UNCHANGED <<fix, outcome, check, newestOnly>>

\* perform_rollback writes how it went over whatever the row says; a host that
\* does not answer after its restore is a failed one.
EndRollback(k) ==
  /\ \/ /\ back[k].task = "restored"
        /\ \E status \in {"succeeded", "failed"} : Row(k, status, "done")
     \/ back[k].task = "failing" /\ Row(k, "failed", "done")
     \/ back[k].task = "refusing" /\ Row(k, "refused", "done")
  /\ UNCHANGED <<fix, outcome, check, disk, toolCalls, newestOnly>>

RollbackDies(k) ==
  /\ "dies" \in May
  /\ k \in AtWork
  /\ Row(k, back[k].status, "lost")
  /\ UNCHANGED <<fix, outcome, check, disk, toolCalls, newestOnly>>

\* release_abandoned.
AbandonRollback(k) ==
  /\ back[k].status = "running"
  /\ back[k].task = "lost" \/ "slowRollback" \in May
  /\ Row(k, "failed", back[k].task)
  /\ UNCHANGED <<fix, outcome, check, disk, toolCalls, newestOnly>>

-----------------------------------------------------------------------------
(* Around them *)

\* prune_ai_snapshots, days after the session.
Prune(i) ==
  /\ i \in Taken /\ ~toolCalls[i].gone /\ ~fix[toolCalls[i].ses].works
  /\ Delete({i})
  /\ UNCHANGED <<fix, outcome, check, disk, back, newestOnly>>

SweepStep ==
  \/ \E e \in Ses : ClaimCheck(e) \/ TooLate(e) \/ AbandonCheck(e)
  \/ \E k \in DOMAIN back : AbandonRollback(k)
TaskStep ==
  \/ \E e \in Ses :
       PickCheck(e) \/ Record(e) \/ RefuseAuto(e) \/ PlanAuto(e) \/ ClaimAuto(e)
  \/ \E k \in DOMAIN back :
       PickRollback(k) \/ RefuseRestore(k) \/ FailRestore(k) \/ Restore(k)
       \/ EndRollback(k)

RemNext ==
  \/ SweepStep \/ TaskStep
  \/ \E e \in Ses :
       \/ Open(e) \/ Change(e) \/ Propose(e) \/ EndSession(e)
       \/ SessionDies(e) \/ CancelSession(e) \/ Reopen(e) \/ LoseSight(e)
       \/ CheckDies(e) \/ RequestRollback(e)
  \/ \E k \in DOMAIN back : RollbackDies(k)
  \/ \E i \in DOMAIN toolCalls : Approved(i) \/ Prune(i)

RemSpec == RemInit /\ [][RemNext]_remVars

-----------------------------------------------------------------------------
\* Whatever alerts come in together, one unattended fix at a time is at work
\* on the host or waits for its verdict, of those that the code does not lose
\* sight of: a session that still works 7500 seconds after it was created, or
\* that an operator's message set to work again, may have others beside it, and
\* so may a fix that went unchecked for 24 hours.
Unfinished(e) ==
  \/ Unattended(e) /\ fix[e].status = "open" /\ fix[e].works
  \/ Unjudged(e)
OneUnattendedFix ==
  Cardinality({e \in Ses : Unfinished(e) /\ fix[e].sight = "kept"}) <= 1

\* Two rollbacks never restore the host at the same time, and none does behind
\* the back of the row that holds the host, as long as no restore takes longer
\* than ABANDONED_AFTER.
OneRollbackAtATime ==
  "slowRollback" \notin May => Cardinality(Running \cup AtWork) <= 1

\* What a rollback undid comes back only by a rollback of a session that asked
\* somebody: whose calls are older, on the books, than their snapshots.  A
\* session that is written to may change the host anew.
UndoneStaysUnattended ==
  \A k \in DOMAIN back :
    /\ back[k].status = "succeeded"
    /\ \A j \in DOMAIN back \ {k} : Unattended(back[j].ses)
    /\ \A i \in Changes(back[k].ses) : i <= back[k].at
    => back[k].ses \notin disk

\* _passed_over refuses what "would bring it back".
UndoneStaysUndone ==
  \A k \in DOMAIN back : back[k].status = "succeeded" => back[k].ses \notin disk

\* A host is rolled back on LabDog's own account only after a verdict that
\* stands: never once its operator was told that the fix was not checked.
AutoRollbackIsJudged ==
  \A k \in DOMAIN back :
    back[k].trigger = "automatic" =>
      /\ outcome[back[k].ses] = "made_worse"
      /\ fix[back[k].ses].level = "full_auto"

\* A verdict, or the word that there will be none, is the last word.
VerdictIsFinal ==
  [][\A e \in Ses : outcome[e] \in Verdict => outcome'[e] = outcome[e]]_remVars

\* Workers work, and the sweep is on the beat.
RemFairness == WF_remVars(TaskStep) /\ WF_remVars(SweepStep)
RemFairSpec == RemSpec /\ RemFairness

\* Every unattended fix gets a verdict or the word that it was not checked.
FixIsJudged == \A e \in Ses : Unjudged(e) ~> ~Unjudged(e)
=============================================================================
