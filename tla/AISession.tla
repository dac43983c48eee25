------------------------------ MODULE AISession ------------------------------
(***************************************************************************)
(* One assistant session that needs approval for what changes a host:      *)
(* tasks/ai_task.py and tasks/ai_approvals.py, the two runners (ai/loop.py, *)
(* ai/agent_sdk/runner.py), ai/approvals.py and the endpoints of api/ai.py *)
(* that cancel it, decide for it and send it another message.              *)
(*                                                                         *)
(* A step is what one database transaction does, with the message it sends *)
(* after it.  Nothing locks the session row, so an endpoint, a task and the *)
(* expiry sweep each read in one step and write in another; `loaded' is    *)
(* the status a worker's ORM object holds, and a write reaches the row only *)
(* when it differs from that.  Left out: transcript, spend, snapshots (a   *)
(* failed one is a command that does not run), archiving and deleting.     *)
(***************************************************************************)
EXTENDS Naturals, Sequences, SequencesExt, FiniteSets

CONSTANTS Worker,       \* tasks that may run at one time
          Operator,     \* requests the operators may have in flight
          MaxRequests,  \* bound: approval requests of the session
          MaxAsked,     \* bound: operator requests
          Faults        \* what may go wrong: "workerDies", "raises"

ASSUME SessionAssumption == MaxRequests \in Nat /\ MaxAsked \in Nat

VARIABLES session,   \* AISession.status
          requests,  \* status of each AIApprovalRequest, oldest first
          mail,      \* run_chat_session and resume_session messages
          worker,    \* the task each worker runs
          call,      \* the operators' requests between read and commit
          calls,     \* how many of them there were
          sweep,     \* expire_stale_approvals between read and commit
          sdk,       \* the provider is driven by AgentSDKRunner
          granted,   \* requests for which an approval was ever committed
          ran,       \* how often the command of each request ran
          died       \* a worker was killed with its message acknowledged

aiVars == <<session, requests, mail, worker, call, calls, sweep, sdk,
            granted, ran, died>>

Terminal == {"succeeded", "failed", "cancelled"}
Status == {"queued", "running", "waiting_approval"} \cup Terminal
Decision == {"approved", "rejected"}
RequestStatus == {"pending", "expired"} \cup Decision
Request == 1..MaxRequests

Idle == [pc |-> "idle", loaded |-> "queued", req |-> 0, verdict |-> "pending"]
NoCall == [kind |-> "none", req |-> 0]
NoSweep == [stale |-> {}, parked |-> FALSE]

Pc == {"idle", "starting", "turn", "asked", "parked", "ending", "finish",
       "resume", "ran"}
Job == [pc : Pc, loaded : Status, req : 0..MaxRequests,
        verdict : RequestStatus]
Call == [kind : Decision \cup {"none", "cancel", "message"},
         req : 0..MaxRequests]

SessionTypeOK ==
  /\ session \in Status
  /\ requests \in Seq(RequestStatus) /\ Len(requests) <= MaxRequests
  /\ mail \in [run : Nat, resume : Nat]
  /\ worker \in [Worker -> Job]
  /\ call \in [Operator -> Call]
  /\ calls \in 0..MaxAsked
  /\ sweep \in [stale : SUBSET Request, parked : BOOLEAN]
  /\ sdk \in BOOLEAN
  /\ granted \subseteq Request
  /\ ran \in [Request -> Nat]
  /\ died \in BOOLEAN

Pending == {r \in DOMAIN requests : requests[r] = "pending"}

\* create_session has committed and sent its message.
SessionInit ==
  /\ session = "queued" /\ requests = <<>>
  /\ mail = [run |-> 1, resume |-> 0]
  /\ worker = [w \in Worker |-> Idle]
  /\ call = [c \in Operator |-> NoCall] /\ calls = 0
  /\ sweep = NoSweep
  /\ sdk \in BOOLEAN
  /\ granted = {} /\ ran = [r \in Request |-> 0] /\ died = FALSE

-----------------------------------------------------------------------------
(* The worker's side *)

At(w, pcs) == worker[w].pc \in pcs
Goto(w, pc) == worker' = [worker EXCEPT ![w].pc = pc]
End(w) == worker' = [worker EXCEPT ![w] = Idle]

\* A flush of `session.status = s': no UPDATE when s is what was loaded.
Store(w, s) == session' = IF worker[w].loaded = s THEN session ELSE s

\* _run_session_async: only a cancelled session is left alone.
PickUp(w) ==
  /\ At(w, {"idle"}) /\ mail.run > 0
  /\ mail' = [mail EXCEPT !.run = @ - 1]
  /\ IF session = "cancelled"
       THEN UNCHANGED worker
       ELSE worker' = [worker EXCEPT ![w] =
                         [Idle EXCEPT !.pc = "starting", !.loaded = session]]
  /\ UNCHANGED <<session, requests, call, calls, sweep, sdk, granted, ran,
                 died>>

PickUpResume_Granted(w) ==    \* mutant: only an approval goes on
  /\ At(w, {"idle"}) /\ mail.resume > 0
  /\ mail' = [mail EXCEPT !.resume = @ - 1]
  /\ IF /\ session = "waiting_approval"
        /\ requests # <<>> /\ Last(requests) = "approved"
       THEN worker' = [worker EXCEPT ![w] =
              [pc |-> "resume", loaded |-> session,
               req |-> Len(requests), verdict |-> Last(requests)]]
       ELSE UNCHANGED worker
  /\ UNCHANGED <<session, requests, call, calls, sweep, sdk, granted, ran,
                 died>>
\* _resume_session_async: a parked session whose newest request is decided.
PickUpResume(w) ==
  /\ At(w, {"idle"}) /\ mail.resume > 0
  /\ mail' = [mail EXCEPT !.resume = @ - 1]
  /\ IF /\ session = "waiting_approval"
        /\ requests # <<>> /\ Last(requests) # "pending"
       THEN worker' = [worker EXCEPT ![w] =
              [pc |-> "resume", loaded |-> session,
               req |-> Len(requests), verdict |-> Last(requests)]]
       ELSE UNCHANGED worker
  /\ UNCHANGED <<session, requests, call, calls, sweep, sdk, granted, ran,
                 died>>

\* The provider is disabled, over budget, or has no tools to investigate with.
Refuse(w) ==
  /\ At(w, {"starting", "resume"})
  /\ Store(w, "failed") /\ End(w)
  /\ UNCHANGED <<requests, mail, call, calls, sweep, sdk, granted, ran,
                 died>>

Execute_NotRejected(w) ==    \* mutant: what expired runs as well
  /\ At(w, {"resume"}) /\ worker[w].verdict # "rejected"
  /\ \E runs \in {0, 1} : ran' = [ran EXCEPT ![worker[w].req] = @ + runs]
  /\ Goto(w, "ran")
  /\ UNCHANGED <<session, requests, mail, call, calls, sweep, sdk, granted,
                 died>>
\* execute_approved runs the stored call; without its snapshot it does not.
Execute(w) ==
  /\ At(w, {"resume"}) /\ worker[w].verdict = "approved"
  /\ \E runs \in {0, 1} : ran' = [ran EXCEPT ![worker[w].req] = @ + runs]
  /\ Goto(w, "ran")
  /\ UNCHANGED <<session, requests, mail, call, calls, sweep, sdk, granted,
                 died>>

\* A rejected or expired request only changes what the model is told.
SkipRefused(w) ==
  /\ At(w, {"resume"}) /\ worker[w].verdict # "approved"
  /\ Goto(w, "ran")
  /\ UNCHANGED <<session, requests, mail, call, calls, sweep, sdk, granted,
                 ran, died>>

\* The decision is in the transcript and the session goes on.
Continue(w) ==
  /\ At(w, {"ran"})
  /\ Store(w, "running")
  /\ worker' = [worker EXCEPT ![w] =
                   [Idle EXCEPT !.pc = "starting", !.loaded = "running"]]
  /\ UNCHANGED <<requests, mail, call, calls, sweep, sdk, granted, ran,
                 died>>

\* Both runners' run(); the SDK looks for a cancel after the first answer.
Start(w) ==
  /\ At(w, {"starting"})
  /\ Store(w, "running")
  /\ worker' = [worker EXCEPT ![w].pc = IF sdk THEN "asked" ELSE "turn",
                              ![w].loaded = "running"]
  /\ UNCHANGED <<requests, mail, call, calls, sweep, sdk, granted, ran,
                 died>>

\* Between two turns of the model: the cancel check, ...
CheckTurn(w) ==
  /\ At(w, {"turn"})
  /\ IF session = "cancelled" THEN End(w) ELSE Goto(w, "asked")
  /\ UNCHANGED <<session, requests, mail, call, calls, sweep, sdk, granted,
                 ran, died>>

\* ... and _cap_hit with the budget check, which end every session at last.
CapHit(w) ==
  /\ At(w, {"turn"}) /\ session # "cancelled"
  /\ Goto(w, "ending")
  /\ UNCHANGED <<session, requests, mail, call, calls, sweep, sdk, granted,
                 ran, died>>

\* The model asks for calls that need no approval, ...
CallTools(w) ==
  /\ At(w, {"asked"})
  /\ Goto(w, "turn")
  /\ UNCHANGED <<session, requests, mail, call, calls, sweep, sdk, granted,
                 ran, died>>

\* ... or gives its last answer, or is stopped in the middle of one.
LastAnswer(w) ==
  /\ At(w, {"asked"})
  /\ Goto(w, "ending")
  /\ UNCHANGED <<session, requests, mail, call, calls, sweep, sdk, granted,
                 ran, died>>

ProviderError(w) ==
  /\ At(w, {"asked"}) \/ (sdk /\ At(w, {"parked"}))
  /\ Store(w, "failed") /\ End(w)
  /\ UNCHANGED <<requests, mail, call, calls, sweep, sdk, granted, ran,
                 died>>

\* approvals.park: a request of its own, and the session waits for it.
NewRequest(w) ==
  /\ Len(requests) < MaxRequests
  /\ requests' = Append(requests, "pending")
  /\ Store(w, "waiting_approval")

\* AgentLoop drops the other calls of the turn and returns, ...
ParkInLoop(w) ==
  /\ ~sdk /\ At(w, {"asked"})
  /\ NewRequest(w) /\ End(w)
  /\ UNCHANGED <<mail, call, calls, sweep, sdk, granted, ran, died>>

\* ... the SDK may ask for another of them before it is interrupted.
ParkInSDK(w) ==
  /\ sdk /\ At(w, {"asked", "parked"})
  /\ NewRequest(w)
  /\ worker' = [worker EXCEPT ![w].pc = "parked",
                              ![w].loaded = "waiting_approval"]
  /\ UNCHANGED <<mail, call, calls, sweep, sdk, granted, ran, died>>

\* AgentSDKRunner.run after the interrupt: parked already, nothing to write.
Parked(w) ==
  /\ At(w, {"parked"})
  /\ End(w)
  /\ UNCHANGED <<session, requests, mail, call, calls, sweep, sdk, granted,
                 ran, died>>

\* The last look for a cancel, and finish_session in a step of its own.
CheckEnd(w) ==
  /\ At(w, {"ending"})
  /\ IF session = "cancelled" THEN End(w) ELSE Goto(w, "finish")
  /\ UNCHANGED <<session, requests, mail, call, calls, sweep, sdk, granted,
                 ran, died>>

Finish(w) ==
  /\ At(w, {"finish"})
  /\ \E s \in {"succeeded", "failed"} : Store(w, s)
  /\ End(w)
  /\ UNCHANGED <<requests, mail, call, calls, sweep, sdk, granted, ran,
                 died>>

\* An exception out of the runner: _force_fail is a Core UPDATE by key.
Raise(w) ==
  /\ "raises" \in Faults
  /\ At(w, {"starting", "turn", "asked", "parked", "ending", "finish"})
  /\ session' = "failed"
  /\ End(w)
  /\ UNCHANGED <<requests, mail, call, calls, sweep, sdk, granted, ran,
                 died>>

\* A killed worker: its message was acknowledged when it was received.
WorkerDies(w) ==
  /\ "workerDies" \in Faults /\ ~died
  /\ ~At(w, {"idle"})
  /\ died' = TRUE
  /\ End(w)
  /\ UNCHANGED <<session, requests, mail, call, calls, sweep, sdk, granted,
                 ran>>

-----------------------------------------------------------------------------
(* The operators' side, and the sweep *)

Ask(c, kind, r) ==
  /\ call[c] = NoCall /\ calls < MaxAsked
  /\ calls' = calls + 1
  /\ call' = [call EXCEPT ![c] = [kind |-> kind, req |-> r]]
  /\ UNCHANGED <<session, requests, mail, worker, sweep, sdk, granted, ran,
                 died>>

\* decide_approval up to its checks.
AskDecision(c) ==
  \E r \in Pending, d \in Decision :
    session = "waiting_approval" /\ Ask(c, d, r)

\* cancel_session leaves an ended session as it is.
AskCancel(c) == session \notin Terminal /\ Ask(c, "cancel", 0)

\* send_message refuses a session that works or waits.
AskMessage(c) == session \in Terminal /\ Ask(c, "message", 0)

Decide(c) ==
  /\ call[c].kind \in Decision
  /\ requests' = [requests EXCEPT ![call[c].req] = call[c].kind]
  /\ granted' = IF call[c].kind = "approved"
                  THEN granted \cup {call[c].req} ELSE granted
  /\ mail' = [mail EXCEPT !.resume = @ + 1]
  /\ call' = [call EXCEPT ![c] = NoCall]
  /\ UNCHANGED <<session, worker, calls, sweep, sdk, ran, died>>

ExpirePending == [r \in DOMAIN requests |->
                    IF r \in Pending THEN "expired" ELSE requests[r]]

Cancel(c) ==
  /\ call[c].kind = "cancel"
  /\ session' = "cancelled"
  /\ requests' = ExpirePending
  /\ call' = [call EXCEPT ![c] = NoCall]
  /\ UNCHANGED <<mail, worker, calls, sweep, sdk, granted, ran,
                 died>>

SendMessage(c) ==
  /\ call[c].kind = "message"
  /\ session' = "queued"
  /\ mail' = [mail EXCEPT !.run = @ + 1]
  /\ call' = [call EXCEPT ![c] = NoCall]
  /\ UNCHANGED <<requests, worker, calls, sweep, sdk, granted, ran,
                 died>>

\* expire_stale_approvals reads the lapsed requests and their session, ...
FindStale ==
  /\ sweep = NoSweep
  /\ \E stale \in (SUBSET Pending) \ {{}} :
       sweep' = [stale |-> stale, parked |-> session = "waiting_approval"]
  /\ UNCHANGED <<session, requests, mail, worker, call, calls, sdk, granted,
                 ran, died>>

ExpireStale_Quiet ==    \* mutant: nobody is told
  /\ sweep # NoSweep
  /\ requests' = [r \in DOMAIN requests |->
                    IF r \in sweep.stale THEN "expired" ELSE requests[r]]
  /\ sweep' = NoSweep
  /\ UNCHANGED <<session, mail, worker, call, calls, sdk, granted, ran, died>>
\* ... writes them by key, commits, and resumes the session per request.
ExpireStale ==
  /\ sweep # NoSweep
  /\ requests' = [r \in DOMAIN requests |->
                    IF r \in sweep.stale THEN "expired" ELSE requests[r]]
  /\ mail' = IF sweep.parked
               THEN [mail EXCEPT !.resume = @ + Cardinality(sweep.stale)]
               ELSE mail
  /\ sweep' = NoSweep
  /\ UNCHANGED <<session, worker, call, calls, sdk, granted, ran,
                 died>>

-----------------------------------------------------------------------------
Task(w) ==
  \/ PickUp(w) \/ PickUpResume(w) \/ Refuse(w) \/ Execute(w)
  \/ SkipRefused(w) \/ Continue(w) \/ Start(w) \/ CheckTurn(w) \/ CapHit(w)
  \/ CallTools(w) \/ LastAnswer(w) \/ ProviderError(w)
  \/ ParkInLoop(w) \/ ParkInSDK(w) \/ Parked(w) \/ CheckEnd(w) \/ Finish(w)

Commit(c) == Decide(c) \/ Cancel(c) \/ SendMessage(c)
SessionNext ==
  \/ \E w \in Worker : Task(w) \/ Raise(w) \/ WorkerDies(w)
  \/ \E c \in Operator :
       AskDecision(c) \/ AskCancel(c) \/ AskMessage(c) \/ Commit(c)
  \/ FindStale \/ ExpireStale

SessionSpec == SessionInit /\ [][SessionNext]_aiVars

\* Workers work, requests are answered and the sweep is on the beat; the caps
\* bound the turns of a session, so CapHit cannot be passed over for ever.
SessionFairness ==
  /\ \A w \in Worker : WF_aiVars(Task(w)) /\ SF_aiVars(CapHit(w))
  /\ \A c \in Operator : WF_aiVars(Commit(c))
  /\ WF_aiVars(FindStale \/ ExpireStale)
SessionFairSpec == SessionSpec /\ SessionFairness

-----------------------------------------------------------------------------
\* A command that needs approval runs on a host only after an operator's
\* approval of that very request was committed, whatever expires or is
\* cancelled around it.
OnlyApprovedRuns == \A r \in Request : ran[r] > 0 => r \in granted

\* A parked session whose newest request is decided will be picked up: its
\* resume is in the broker or at work.  (A killed worker loses its message.)
DecisionIsDelivered ==
  /\ session = "waiting_approval" /\ requests # <<>>
  /\ Last(requests) # "pending" /\ ~died
  => mail.resume > 0 \/ \E w \in Worker : At(w, {"resume", "ran"})

\* Nobody has to decide: a parked session is parked no longer in the end.
ParkedIsLeft ==
  session = "waiting_approval" ~> (session # "waiting_approval" \/ died)

\* approvals.py: "A grant is one shot."
GrantIsOneShot == \A r \in Request : ran[r] <= 1
=============================================================================
