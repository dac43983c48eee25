-------------------------- MODULE AISession_proofs --------------------------
(***************************************************************************)
(* Proofs about AISession, for any number of workers and operators, any    *)
(* bounds, either runner and any faults.                                   *)
(***************************************************************************)
EXTENDS AISession, SequenceTheorems, FiniteSetTheorems, TLAPS

(***************************************************************************)
(* What the shared parts of the actions do to the types                    *)
(***************************************************************************)

LEMMA IdleType == Idle \in Job /\ NoCall \in Call
  BY SessionAssumption
  DEF Idle, NoCall, Job, Call, Pc, Status, Terminal, RequestStatus, Decision

LEMMA StoreType ==
  ASSUME SessionTypeOK, NEW w \in Worker, NEW s \in Status, Store(w, s)
  PROVE  session' \in Status
  BY DEF Store, SessionTypeOK

LEMMA EndType ==
  ASSUME SessionTypeOK, NEW w \in Worker, End(w)
  PROVE  worker' \in [Worker -> Job]
  BY IdleType DEF End, SessionTypeOK

LEMMA JobParts ==
  ASSUME NEW j \in Job
  PROVE  /\ \A pc \in Pc : [j EXCEPT !.pc = pc] \in Job
         /\ \A pc \in Pc, s \in Status :
              [j EXCEPT !.pc = pc, !.loaded = s] \in Job
         /\ j.req \in 0..MaxRequests /\ j.loaded \in Status
  BY DEF Job

LEMMA GotoType ==
  ASSUME SessionTypeOK, NEW w \in Worker, NEW pc \in Pc, Goto(w, pc)
  PROVE  worker' \in [Worker -> Job]
<1>1. worker[w] \in Job
  BY DEF SessionTypeOK
<1>2. [worker[w] EXCEPT !.pc = pc] \in Job
  BY <1>1, JobParts
<1>3. worker' = [worker EXCEPT ![w] = [worker[w] EXCEPT !.pc = pc]]
  BY DEF Goto
<1>4. QED
  BY <1>2, <1>3 DEF SessionTypeOK

LEMMA RequestsType ==
  ASSUME SessionTypeOK, NEW f \in [DOMAIN requests -> RequestStatus]
  PROVE  f \in Seq(RequestStatus) /\ Len(f) = Len(requests)
<1>1. requests \in Seq(RequestStatus)
  BY DEF SessionTypeOK
<1>2. DOMAIN f = 1..Len(requests) /\ Len(requests) \in Nat
  BY <1>1, LenProperties
<1>3. f \in Seq(RequestStatus)
  BY <1>2, SeqDef
<1>4. QED
  BY <1>2, <1>3, LenProperties

LEMMA NewRequestType ==
  ASSUME SessionTypeOK, NEW w \in Worker, NewRequest(w)
  PROVE  /\ requests' \in Seq(RequestStatus) /\ Len(requests') <= MaxRequests
         /\ session' \in Status
  BY SessionAssumption, StoreType
  DEF NewRequest, SessionTypeOK, RequestStatus, Status

LEMMA MailType ==
  ASSUME SessionTypeOK
  PROVE  /\ mail.run \in Nat /\ mail.resume \in Nat
         /\ \A n \in Nat : /\ [mail EXCEPT !.run = n]
                                 \in [run : Nat, resume : Nat]
                          /\ [mail EXCEPT !.resume = n]
                                 \in [run : Nat, resume : Nat]
  BY DEF SessionTypeOK

(***************************************************************************)
(* Type correctness                                                        *)
(***************************************************************************)

\* An operator who decides decides on a request that exists.
DecidesOne == \A c \in Operator :
  call[c].kind \in Decision => call[c].req \in DOMAIN requests

LEMMA TypeStep ==
  SessionTypeOK /\ DecidesOne /\ [SessionNext]_aiVars => SessionTypeOK'
<1> SUFFICES ASSUME SessionTypeOK, DecidesOne, [SessionNext]_aiVars
             PROVE  SessionTypeOK'
  OBVIOUS
<1> USE DEF SessionTypeOK
<1>a. /\ Pc = {"idle", "starting", "turn", "asked", "parked", "ending",
               "finish", "resume", "ran"}
      /\ Status = {"queued", "running", "waiting_approval", "succeeded",
                   "failed", "cancelled"}
  BY DEF Pc, Status, Terminal
<1>1. ASSUME NEW w \in Worker, PickUp(w) PROVE SessionTypeOK'
  <2>1. [Idle EXCEPT !.pc = "starting", !.loaded = session] \in Job
    BY Zenon, <1>a, IdleType, JobParts
  <2>2. worker' \in [Worker -> Job]
    BY <1>1, <2>1 DEF PickUp
  <2>3. mail' \in [run : Nat, resume : Nat]
    BY <1>1 DEF PickUp
  <2>4. QED
    BY <1>1, <2>2, <2>3, SMTT(60) DEF PickUp
<1>2. ASSUME NEW w \in Worker, PickUpResume(w) PROVE SessionTypeOK'
  <2>1. requests # <<>> => /\ Last(requests) \in RequestStatus
                           /\ Len(requests) \in 0..MaxRequests
    BY SessionAssumption DEF Last
  <2>2. requests # <<>> => [pc |-> "resume", loaded |-> session,
               req |-> Len(requests), verdict |-> Last(requests)] \in Job
    BY <1>a, <2>1 DEF Job
  <2>3. worker' \in [Worker -> Job]
    BY <1>2, <2>2 DEF PickUpResume
  <2>4. mail' \in [run : Nat, resume : Nat]
    BY <1>2, MailType, mail.resume - 1 \in Nat DEF PickUpResume
  <2>5. QED
    BY <1>2, <2>3, <2>4 DEF PickUpResume
<1>3. ASSUME NEW w \in Worker, Refuse(w) PROVE SessionTypeOK'
  BY <1>3, <1>a, StoreType, EndType DEF Refuse
<1>4. ASSUME NEW w \in Worker, Execute(w) PROVE SessionTypeOK'
  <2>1. worker' \in [Worker -> Job]
    BY <1>4, <1>a, GotoType DEF Execute
  <2>2. PICK runs \in {0, 1} : ran' = [ran EXCEPT ![worker[w].req] = @ + runs]
    BY <1>4 DEF Execute
  <2>3. ran' \in [Request -> Nat]
    <3>1. CASE worker[w].req \in Request
      BY <2>2, <3>1
    <3>2. CASE worker[w].req \notin Request
      BY <2>2, <3>2
    <3>3. QED
      BY <3>1, <3>2
  <2>4. QED
    BY <1>4, <2>1, <2>3 DEF Execute
<1>5. ASSUME NEW w \in Worker, SkipRefused(w) PROVE SessionTypeOK'
  BY <1>5, <1>a, GotoType DEF SkipRefused
<1>6. ASSUME NEW w \in Worker, Continue(w) PROVE SessionTypeOK'
  <2>1. [Idle EXCEPT !.pc = "starting", !.loaded = "running"] \in Job
    BY Zenon, <1>a, IdleType, JobParts
  <2>2. worker' \in [Worker -> Job]
    BY <1>6, <2>1 DEF Continue
  <2>3. QED
    BY <1>6, <1>a, <2>2, StoreType DEF Continue
<1>7. ASSUME NEW w \in Worker, Start(w) PROVE SessionTypeOK'
  <2>1. \A pc \in Pc :
          [worker[w] EXCEPT !.pc = pc, !.loaded = "running"] \in Job
    BY ZenonT(60), <1>a, JobParts
  <2>2. worker' = [worker EXCEPT ![w] =
          [worker[w] EXCEPT !.pc = IF sdk THEN "asked" ELSE "turn",
                            !.loaded = "running"]]
    BY <1>7 DEF Start
  <2>3. worker' \in [Worker -> Job]
    BY <1>a, <2>1, <2>2
  <2>4. QED
    BY <1>7, <1>a, <2>3, StoreType, SMTT(60) DEF Start
<1>8. ASSUME NEW w \in Worker, CheckTurn(w) PROVE SessionTypeOK'
  BY <1>8, <1>a, EndType, GotoType DEF CheckTurn
<1>9. ASSUME NEW w \in Worker, CapHit(w) PROVE SessionTypeOK'
  BY <1>9, <1>a, GotoType DEF CapHit
<1>10. ASSUME NEW w \in Worker, CallTools(w) PROVE SessionTypeOK'
  BY <1>10, <1>a, GotoType DEF CallTools
<1>11. ASSUME NEW w \in Worker, LastAnswer(w) PROVE SessionTypeOK'
  BY <1>11, <1>a, GotoType DEF LastAnswer
<1>12. ASSUME NEW w \in Worker, ProviderError(w) PROVE SessionTypeOK'
  BY <1>12, <1>a, StoreType, EndType DEF ProviderError
<1>13. ASSUME NEW w \in Worker, ParkInLoop(w) PROVE SessionTypeOK'
  BY <1>13, NewRequestType, EndType DEF ParkInLoop
<1>14. ASSUME NEW w \in Worker, ParkInSDK(w) PROVE SessionTypeOK'
  <2>1. [worker[w] EXCEPT !.pc = "parked", !.loaded = "waiting_approval"]
          \in Job
    BY Zenon, <1>a, JobParts
  <2>2. worker' = [worker EXCEPT ![w] =
          [worker[w] EXCEPT !.pc = "parked", !.loaded = "waiting_approval"]]
    BY <1>14 DEF ParkInSDK
  <2>3. QED
    BY <1>14, <2>1, <2>2, NewRequestType DEF ParkInSDK
<1>15. ASSUME NEW w \in Worker, Parked(w) PROVE SessionTypeOK'
  BY <1>15, EndType DEF Parked
<1>16. ASSUME NEW w \in Worker, CheckEnd(w) PROVE SessionTypeOK'
  BY <1>16, <1>a, EndType, GotoType DEF CheckEnd
<1>17. ASSUME NEW w \in Worker, Finish(w) PROVE SessionTypeOK'
  BY <1>17, <1>a, StoreType, EndType DEF Finish
<1>18. ASSUME NEW w \in Worker, Raise(w) PROVE SessionTypeOK'
  BY <1>18, <1>a, EndType DEF Raise
<1>19. ASSUME NEW w \in Worker, WorkerDies(w) PROVE SessionTypeOK'
  BY <1>19, EndType DEF WorkerDies
<1>20. ASSUME NEW c \in Operator,
              NEW kind \in Decision \cup {"cancel", "message"},
              NEW r \in 0..MaxRequests, Ask(c, kind, r)
       PROVE  SessionTypeOK'
  <2>1. [kind |-> kind, req |-> r] \in Call
    BY DEF Call
  <2>2. calls' \in 0..MaxAsked
    BY <1>20, SessionAssumption DEF Ask
  <2>3. QED
    BY <1>20, <2>1, <2>2 DEF Ask
<1>21. ASSUME NEW c \in Operator,
              AskDecision(c) \/ AskCancel(c) \/ AskMessage(c)
       PROVE  SessionTypeOK'
  <2>1. Pending \subseteq 0..MaxRequests
    BY SessionAssumption DEF Pending
  <2>2. CASE AskDecision(c)
    BY <1>20, <2>1, <2>2 DEF AskDecision
  <2>3. CASE AskCancel(c) \/ AskMessage(c)
    <3>1. 0 \in 0..MaxRequests
      BY SessionAssumption
    <3>2. QED
      BY <1>20, <2>3, <3>1 DEF AskCancel, AskMessage
  <2>4. QED
    BY <1>21, <2>2, <2>3
<1>22. ASSUME NEW c \in Operator, Decide(c) PROVE SessionTypeOK'
  <2>1. call[c].req \in DOMAIN requests /\ call[c].kind \in RequestStatus
    BY <1>22 DEF Decide, DecidesOne, RequestStatus
  <2>2. requests' \in Seq(RequestStatus) /\ Len(requests') = Len(requests)
    BY <1>22, <2>1, RequestsType DEF Decide
  <2>3. granted' \subseteq Request
    BY <1>22, <2>1, SessionAssumption DEF Decide, Request
  <2>4. mail' \in [run : Nat, resume : Nat]
    BY <1>22 DEF Decide
  <2>5. call' \in [Operator -> Call]
    BY <1>22, IdleType DEF Decide
  <2>6. QED
    BY <1>22, <2>2, <2>3, <2>4, <2>5 DEF Decide
<1>23. ASSUME NEW c \in Operator, Cancel(c) PROVE SessionTypeOK'
  <2>1. ExpirePending \in [DOMAIN requests -> RequestStatus]
    BY DEF ExpirePending, RequestStatus
  <2>2. requests' \in Seq(RequestStatus) /\ Len(requests') = Len(requests)
    BY <1>23, <2>1, RequestsType DEF Cancel
  <2>3. call' \in [Operator -> Call]
    BY <1>23, IdleType DEF Cancel
  <2>4. QED
    BY <1>23, <1>a, <2>2, <2>3 DEF Cancel
<1>24. ASSUME NEW c \in Operator, SendMessage(c) PROVE SessionTypeOK'
  <2>1. mail' \in [run : Nat, resume : Nat]
    BY <1>24, MailType DEF SendMessage
  <2>2. call' \in [Operator -> Call]
    BY <1>24, IdleType DEF SendMessage
  <2>3. QED
    BY <1>24, <1>a, <2>1, <2>2 DEF SendMessage
<1>25. CASE FindStale
  <2>1. Pending \subseteq Request
    BY SessionAssumption DEF Pending, Request
  <2>2. sweep' \in [stale : SUBSET Request, parked : BOOLEAN]
    BY <1>25, <2>1 DEF FindStale
  <2>3. QED
    BY <1>25, <2>2 DEF FindStale
<1>26. CASE ExpireStale
  <2>1. requests' \in [DOMAIN requests -> RequestStatus]
    BY <1>26 DEF ExpireStale, RequestStatus
  <2>2. requests' \in Seq(RequestStatus) /\ Len(requests') = Len(requests)
    BY <2>1, RequestsType
  <2>3. Cardinality(sweep.stale) \in Nat
    <3>1. IsFiniteSet(Request)
      BY SessionAssumption, FS_Interval DEF Request
    <3>2. IsFiniteSet(sweep.stale)
      BY <3>1, FS_Subset
    <3>3. QED
      BY <3>2, FS_CardinalityType
  <2>4. mail' \in [run : Nat, resume : Nat]
    <3>1. mail.resume + Cardinality(sweep.stale) \in Nat
      BY <2>3
    <3>2. QED
      BY <1>26, <3>1, MailType DEF ExpireStale
  <2>5. sweep' \in [stale : SUBSET Request, parked : BOOLEAN]
    BY <1>26 DEF ExpireStale, NoSweep
  <2>6. QED
    BY <1>26, <2>2, <2>4, <2>5 DEF ExpireStale
<1>27. CASE UNCHANGED aiVars
  BY <1>27 DEF aiVars
<1>28. QED
  BY <1>1, <1>2, <1>3, <1>4, <1>5, <1>6, <1>7, <1>8, <1>9, <1>10, <1>11,
     <1>12, <1>13, <1>14, <1>15, <1>16, <1>17, <1>18, <1>19, <1>21, <1>22,
     <1>23, <1>24, <1>25, <1>26, <1>27
  DEF SessionNext, Task, Commit

LEMMA DecidesOneStep ==
  SessionTypeOK /\ DecidesOne /\ [SessionNext]_aiVars => DecidesOne'
<1> SUFFICES ASSUME SessionTypeOK, DecidesOne, [SessionNext]_aiVars
             PROVE  DecidesOne'
  OBVIOUS
<1> USE DEF DecidesOne
<1>1. requests \in Seq(RequestStatus) /\ call \in [Operator -> Call]
  BY DEF SessionTypeOK
<1>2. ASSUME NEW w \in Worker, NewRequest(w), UNCHANGED call
      PROVE  DecidesOne'
  <2>1. DOMAIN requests \subseteq DOMAIN requests'
    BY <1>1, <1>2 DEF NewRequest, RequestStatus
  <2>2. QED
    BY <1>2, <2>1
<1>3. ASSUME NEW w \in Worker, Task(w) \/ Raise(w) \/ WorkerDies(w)
      PROVE  DecidesOne'
  <2>1. CASE ParkInLoop(w) \/ ParkInSDK(w)
    BY <1>2, <2>1 DEF ParkInLoop, ParkInSDK
  <2>2. CASE ~(ParkInLoop(w) \/ ParkInSDK(w))
    <3>1. UNCHANGED <<requests, call>>
      BY <1>3, <2>2
      DEF Task, PickUp, PickUpResume, Refuse, Execute, SkipRefused, Continue,
          Start, CheckTurn, CapHit, CallTools, LastAnswer, ProviderError,
          Parked, CheckEnd, Finish, Raise, WorkerDies
    <3>2. QED
      BY <3>1
  <2>3. QED
    BY <2>1, <2>2
<1>4. ASSUME NEW c \in Operator, AskDecision(c) PROVE DecidesOne'
  <2>1. PICK r \in Pending, d \in Decision : Ask(c, d, r)
    BY <1>4 DEF AskDecision
  <2>2. QED
    BY <1>1, <2>1 DEF Ask, Pending
<1>5. ASSUME NEW c \in Operator, AskCancel(c) \/ AskMessage(c)
      PROVE  DecidesOne'
  BY <1>1, <1>5 DEF AskCancel, AskMessage, Ask, Decision
<1>6. ASSUME NEW c \in Operator, Commit(c) PROVE DecidesOne'
  <2>1. DOMAIN requests' = DOMAIN requests
    BY <1>6 DEF Commit, Decide, Cancel, SendMessage, ExpirePending
  <2>2. call' = [call EXCEPT ![c] = NoCall]
    BY <1>6 DEF Commit, Decide, Cancel, SendMessage
  <2>3. QED
    BY <1>1, <2>1, <2>2 DEF NoCall, Decision
<1>7. CASE FindStale \/ ExpireStale
  <2>1. DOMAIN requests' = DOMAIN requests /\ UNCHANGED call
    BY <1>7 DEF FindStale, ExpireStale
  <2>2. QED
    BY <2>1
<1>8. CASE UNCHANGED aiVars
  BY <1>8 DEF aiVars
<1>9. QED
  BY <1>3, <1>4, <1>5, <1>6, <1>7, <1>8 DEF SessionNext

\* THEOREM: the variables keep their types, and an operator decides on a
\* request of the session.
THEOREM SessionTypeCorrect == SessionSpec => [](SessionTypeOK /\ DecidesOne)
<1>1. SessionInit => SessionTypeOK /\ DecidesOne
  <2> SUFFICES ASSUME SessionInit PROVE SessionTypeOK /\ DecidesOne
    OBVIOUS
  <2>1. <<>> \in Seq(RequestStatus) /\ Len(<<>>) = 0
    BY EmptySeq
  <2>2. session \in Status /\ calls \in 0..MaxAsked
    BY SessionAssumption DEF SessionInit, Status
  <2>3. worker \in [Worker -> Job] /\ call \in [Operator -> Call]
    BY IdleType DEF SessionInit
  <2>4. /\ mail \in [run : Nat, resume : Nat]
        /\ sweep \in [stale : SUBSET Request, parked : BOOLEAN]
    BY DEF SessionInit, NoSweep
  <2>5. DecidesOne
    BY DEF SessionInit, DecidesOne, NoCall, Decision
  <2>6. requests = <<>> /\ sdk \in BOOLEAN /\ died \in BOOLEAN
        /\ granted \subseteq Request /\ ran \in [Request -> Nat]
    BY DEF SessionInit
  <2>7. QED
    BY <2>1, <2>2, <2>3, <2>4, <2>5, <2>6, SessionAssumption
    DEF SessionTypeOK
<1>2. QED
  BY <1>1, TypeStep, DecidesOneStep, PTL DEF SessionSpec

(***************************************************************************)
(* Nothing runs without an approval                                        *)
(***************************************************************************)

\* An approval on record was committed by an operator, and so was the one that
\* a task goes by; what a task has read stays true, since approvals are not
\* taken back.
GrantsAreKnown ==
  /\ \A r \in DOMAIN requests : requests[r] = "approved" => r \in granted
  /\ \A w \in Worker : At(w, {"resume"}) /\ worker[w].verdict = "approved"
                         => worker[w].req \in granted

ApprovalInv ==
  SessionTypeOK /\ DecidesOne /\ GrantsAreKnown /\ OnlyApprovedRuns

LEMMA ApprovalStep == ApprovalInv /\ [SessionNext]_aiVars => ApprovalInv'
<1> SUFFICES ASSUME ApprovalInv, [SessionNext]_aiVars
             PROVE  (GrantsAreKnown /\ OnlyApprovedRuns)'
  BY TypeStep, DecidesOneStep DEF ApprovalInv
<1> USE DEF GrantsAreKnown, OnlyApprovedRuns, At
<1>1. /\ requests \in Seq(RequestStatus) /\ worker \in [Worker -> Job]
      /\ ran \in [Request -> Nat] /\ granted \subseteq Request
      /\ GrantsAreKnown /\ OnlyApprovedRuns /\ DecidesOne
  BY DEF ApprovalInv, SessionTypeOK
<1>2. \A w \in Worker : worker[w] \in Job
  BY <1>1
<1>3. ASSUME NEW w \in Worker, UNCHANGED <<requests, ran, granted>>,
             NEW j, j.pc # "resume", worker' = [worker EXCEPT ![w] = j]
      PROVE  (GrantsAreKnown /\ OnlyApprovedRuns)'
  BY <1>1, <1>3
<1>4. ASSUME NEW w \in Worker, NEW pc \in Pc \ {"resume"}, Goto(w, pc),
             UNCHANGED <<requests, ran, granted>>
      PROVE  (GrantsAreKnown /\ OnlyApprovedRuns)'
  <2>1. [worker[w] EXCEPT !.pc = pc].pc # "resume"
    BY <1>2, <1>4 DEF Job
  <2>2. QED
    BY <1>3, <1>4, <2>1 DEF Goto
<1>5. ASSUME NEW w \in Worker, End(w), UNCHANGED <<requests, ran, granted>>
      PROVE  (GrantsAreKnown /\ OnlyApprovedRuns)'
  BY <1>3, <1>5 DEF End, Idle
<1>6. ASSUME NEW w \in Worker, NewRequest(w)
      PROVE  \A r \in DOMAIN requests' :
               requests'[r] = "approved" => r \in granted
  BY <1>1, <1>6 DEF NewRequest, RequestStatus
<1>7. ASSUME NEW w \in Worker, PickUp(w)
      PROVE  (GrantsAreKnown /\ OnlyApprovedRuns)'
  BY <1>1, <1>7 DEF PickUp, Idle
<1>8. ASSUME NEW w \in Worker, PickUpResume(w)
      PROVE  (GrantsAreKnown /\ OnlyApprovedRuns)'
  <2>1. requests # <<>> => /\ Len(requests) \in DOMAIN requests
                           /\ Last(requests) = requests[Len(requests)]
    BY <1>1 DEF Last
  <2>2. QED
    BY <1>1, <1>8, <2>1 DEF PickUpResume
<1>9. ASSUME NEW w \in Worker, Execute(w)
      PROVE  (GrantsAreKnown /\ OnlyApprovedRuns)'
  <2>1. worker[w].req \in granted
    BY <1>1, <1>9 DEF Execute
  <2>2. PICK runs \in {0, 1} : ran' = [ran EXCEPT ![worker[w].req] = @ + runs]
    BY <1>9 DEF Execute
  <2>3. OnlyApprovedRuns'
    BY <1>1, <1>9, <2>1, <2>2 DEF Execute
  <2>4. [worker[w] EXCEPT !.pc = "ran"].pc = "ran"
    BY <1>2 DEF Job
  <2>5. GrantsAreKnown'
    BY <1>1, <1>9, <2>4 DEF Execute, Goto
  <2>6. QED
    BY <2>3, <2>5
<1>10. ASSUME NEW w \in Worker, Continue(w)
       PROVE  (GrantsAreKnown /\ OnlyApprovedRuns)'
  BY <1>3, <1>10 DEF Continue, Idle
<1>11. ASSUME NEW w \in Worker, Start(w)
       PROVE  (GrantsAreKnown /\ OnlyApprovedRuns)'
  <2>1. \A pc \in {"asked", "turn"} :
          [worker[w] EXCEPT !.pc = pc, !.loaded = "running"].pc = pc
    BY <1>2 DEF Job
  <2>2. worker' = [worker EXCEPT ![w] =
          [worker[w] EXCEPT !.pc = IF sdk THEN "asked" ELSE "turn",
                            !.loaded = "running"]]
    BY <1>11 DEF Start
  <2>3. QED
    BY <1>3, <1>11, <2>1, <2>2 DEF Start
<1>12. ASSUME NEW w \in Worker, ParkInLoop(w)
       PROVE  (GrantsAreKnown /\ OnlyApprovedRuns)'
  BY <1>1, <1>6, <1>12 DEF ParkInLoop, End, Idle
<1>13. ASSUME NEW w \in Worker, ParkInSDK(w)
       PROVE  (GrantsAreKnown /\ OnlyApprovedRuns)'
  <2>1. [worker[w] EXCEPT !.pc = "parked",
                          !.loaded = "waiting_approval"].pc = "parked"
    BY <1>2 DEF Job
  <2>2. QED
    BY <1>1, <1>6, <1>13, <2>1 DEF ParkInSDK
<1>14. ASSUME NEW w \in Worker,
              SkipRefused(w) \/ CapHit(w) \/ CallTools(w) \/ LastAnswer(w)
       PROVE  (GrantsAreKnown /\ OnlyApprovedRuns)'
  BY <1>4, <1>14 DEF SkipRefused, CapHit, CallTools, LastAnswer, Pc
<1>15. ASSUME NEW w \in Worker,
              \/ Refuse(w) \/ ProviderError(w) \/ Parked(w) \/ Finish(w)
              \/ Raise(w) \/ WorkerDies(w)
       PROVE  (GrantsAreKnown /\ OnlyApprovedRuns)'
  BY <1>5, <1>15
  DEF Refuse, ProviderError, Parked, Finish, Raise, WorkerDies
<1>16. ASSUME NEW w \in Worker, CheckTurn(w) \/ CheckEnd(w)
       PROVE  (GrantsAreKnown /\ OnlyApprovedRuns)'
  BY <1>4, <1>5, <1>16 DEF CheckTurn, CheckEnd, Pc
<1>17. ASSUME NEW c \in Operator, Decide(c)
       PROVE  (GrantsAreKnown /\ OnlyApprovedRuns)'
  <2>1. call[c].req \in DOMAIN requests
    BY <1>1, <1>17 DEF Decide, DecidesOne
  <2>2. QED
    BY <1>1, <1>17, <2>1 DEF Decide, Decision
<1>18. ASSUME NEW c \in Operator, Cancel(c)
       PROVE  (GrantsAreKnown /\ OnlyApprovedRuns)'
  BY <1>1, <1>18 DEF Cancel, ExpirePending
<1>19. CASE ExpireStale
  BY <1>1, <1>19 DEF ExpireStale
<1>20. ASSUME UNCHANGED <<requests, worker, granted, ran>>
       PROVE  (GrantsAreKnown /\ OnlyApprovedRuns)'
  BY <1>1, <1>20
<1>21. ASSUME NEW c \in Operator,
              AskDecision(c) \/ AskCancel(c) \/ AskMessage(c) \/ SendMessage(c)
       PROVE  (GrantsAreKnown /\ OnlyApprovedRuns)'
  BY <1>20, <1>21 DEF AskDecision, AskCancel, AskMessage, Ask, SendMessage
<1>22. CASE FindStale \/ UNCHANGED aiVars
  BY <1>20, <1>22 DEF FindStale, aiVars
<1>23. QED
  BY <1>7, <1>8, <1>9, <1>10, <1>11, <1>12, <1>13, <1>14, <1>15, <1>16,
     <1>17, <1>18, <1>19, <1>21, <1>22
  DEF SessionNext, Task, Commit

\* THEOREM: a command that needs approval never runs on a host unless an
\* operator's approval of that very request was committed before, whatever
\* expires, is cancelled, dies or is sent twice around it.
THEOREM NothingRunsUnapproved == SessionSpec => []OnlyApprovedRuns
<1>1. SessionInit => GrantsAreKnown /\ OnlyApprovedRuns
  BY DEF SessionInit, GrantsAreKnown, OnlyApprovedRuns, At, Idle
<1>2. SessionSpec => []ApprovalInv
  <2>1. SessionInit /\ SessionTypeOK /\ DecidesOne => ApprovalInv
    BY <1>1 DEF ApprovalInv
  <2>2. QED
    BY SessionTypeCorrect, <2>1, ApprovalStep, PTL DEF SessionSpec
<1>3. ApprovalInv => OnlyApprovedRuns
  BY DEF ApprovalInv
<1>4. QED
  BY <1>2, <1>3, PTL

(***************************************************************************)
(* A decision is delivered                                                 *)
(***************************************************************************)

\* A task that resumes has read a parked session. The sweep found something,
\* and if it found the session at work, then what it found is not what a
\* session that has parked since is waiting for.
Resuming == \A w \in Worker :
  At(w, {"resume", "ran"}) => worker[w].loaded = "waiting_approval"
Sweeping ==
  \/ sweep = NoSweep
  \/ /\ sweep.stale # {} /\ sweep.stale \subseteq DOMAIN requests
     /\ ~sweep.parked /\ session = "waiting_approval"
        => Len(requests) \notin sweep.stale
DeliveryInv ==
  SessionTypeOK /\ DecidesOne /\ Resuming /\ Sweeping /\ DecisionIsDelivered

\* The session waits for a request that is decided.
Decided ==
  /\ session = "waiting_approval" /\ requests # <<>>
  /\ Last(requests) # "pending" /\ ~died
Carried == mail.resume > 0 \/ \E w \in Worker : At(w, {"resume", "ran"})

\* A step after which nothing else is decided, and that leaves who carries a
\* decision alone.
LEMMA CarriesOn ==
  ASSUME DecisionIsDelivered, Decided' => Decided,
         mail.resume > 0 => mail'.resume > 0,
         \A w \in Worker :
           At(w, {"resume", "ran"}) => At(w, {"resume", "ran"})'
  PROVE  DecisionIsDelivered'
BY DEF DecisionIsDelivered, Decided, Carried

\* Nobody but a task that parks makes the session wait.
LEMMA StoreWaits ==
  ASSUME NEW w \in Worker, NEW s, s # "waiting_approval", Store(w, s),
         session' = "waiting_approval"
  PROVE  session = "waiting_approval"
BY DEF Store

\* Steps of a task that neither resumes nor parks.
LEMMA WorkDelivers ==
  ASSUME DeliveryInv, NEW w \in Worker, NEW j \in Job,
         worker' = [worker EXCEPT ![w] = j],
         ~At(w, {"resume", "ran"}), j.pc \notin {"resume", "ran"},
         session' = "waiting_approval" => session = "waiting_approval",
         UNCHANGED <<requests, sweep>>, died => died',
         mail.resume > 0 => mail'.resume > 0
  PROVE  (Resuming /\ Sweeping /\ DecisionIsDelivered)'
<1> USE DEF DeliveryInv
<1>1. worker \in [Worker -> Job]
  BY DEF SessionTypeOK
<1>2. \A v \in Worker : v # w => worker'[v] = worker[v]
  BY <1>1
<1>3. worker'[w] = j
  BY <1>1
<1>4. Resuming'
  BY <1>2, <1>3 DEF Resuming, At
<1>5. Sweeping'
  BY DEF Sweeping
<1>6. \A v \in Worker :
        At(v, {"resume", "ran"}) => At(v, {"resume", "ran"})'
  BY <1>2 DEF At
<1>7. Decided' => Decided
  BY DEF Decided
<1>8. QED
  BY <1>4, <1>5, <1>6, <1>7, CarriesOn

\* A task that parks leaves a request that nobody has decided.
LEMMA ParkDelivers ==
  ASSUME DeliveryInv, NEW w \in Worker, NewRequest(w), NEW j \in Job,
         worker' = [worker EXCEPT ![w] = j], j.pc \notin {"resume", "ran"},
         UNCHANGED sweep
  PROVE  (Resuming /\ Sweeping /\ DecisionIsDelivered)'
<1> USE DEF DeliveryInv
<1>1. worker \in [Worker -> Job] /\ requests \in Seq(RequestStatus)
  BY DEF SessionTypeOK
<1>2. Resuming'
  BY <1>1 DEF Resuming, At
<1>3. /\ requests' \in Seq(RequestStatus) /\ Len(requests') = Len(requests) + 1
      /\ Last(requests') = "pending"
      /\ DOMAIN requests \subseteq DOMAIN requests'
      /\ Len(requests') \notin DOMAIN requests
  BY <1>1 DEF NewRequest, RequestStatus, Last
<1>4. Sweeping'
  BY <1>3 DEF Sweeping
<1>5. DecisionIsDelivered'
  BY <1>3 DEF DecisionIsDelivered
<1>6. QED
  BY <1>2, <1>4, <1>5

LEMMA TaskDelivers ==
  ASSUME DeliveryInv, NEW w \in Worker, Task(w) \/ Raise(w) \/ WorkerDies(w)
  PROVE  (Resuming /\ Sweeping /\ DecisionIsDelivered)'
<1> DEFINE Goal == (Resuming /\ Sweeping /\ DecisionIsDelivered)'
<1> SUFFICES Goal
  OBVIOUS
<1>1. /\ worker \in [Worker -> Job] /\ worker[w] \in Job
      /\ Idle \in Job /\ Idle.pc = "idle"
      /\ mail.resume \in Nat
      /\ requests \in Seq(RequestStatus)
  BY IdleType DEF DeliveryInv, SessionTypeOK, Idle
<1>2. Pc = {"idle", "starting", "turn", "asked", "parked", "ending", "finish",
            "resume", "ran"}
  BY DEF Pc
<1>3. ASSUME NEW pc \in Pc
      PROVE  /\ [worker[w] EXCEPT !.pc = pc] \in Job
             /\ [worker[w] EXCEPT !.pc = pc].pc = pc
             /\ [worker[w] EXCEPT !.pc = pc].loaded = worker[w].loaded
  BY <1>1 DEF Job
<1> HIDE DEF Goal
\* Steps between two looks at the database.
<1>4. ASSUME ~At(w, {"resume", "ran"}), NEW pc \in Pc \ {"resume", "ran"},
             Goto(w, pc), UNCHANGED <<session, requests, mail, sweep, died>>
      PROVE  Goal
  BY <1>3, <1>4, WorkDelivers DEF Goto, Goal
\* The end of a task that does not resume.
<1>5. ASSUME ~At(w, {"resume", "ran"}), End(w),
             session' = "waiting_approval" => session = "waiting_approval",
             UNCHANGED <<requests, mail, sweep>>, died => died'
      PROVE  Goal
  BY <1>1, <1>5, WorkDelivers DEF End, Goal
<1>6. CASE PickUp(w)
  <2>1. [Idle EXCEPT !.pc = "starting", !.loaded = session] \in Job
    BY <1>1, <1>2 DEF Job, DeliveryInv, SessionTypeOK
  <2>2. [Idle EXCEPT !.pc = "starting", !.loaded = session].pc = "starting"
    BY <1>1 DEF Job
  <2>3. PICK j \in Job :
          /\ j.pc \in {"idle", "starting"}
          /\ worker' = [worker EXCEPT ![w] = j]
    <3>1. CASE UNCHANGED worker
      <4>1. worker' = [worker EXCEPT ![w] = worker[w]]
        BY <1>1, <3>1
      <4>2. QED
        BY <1>1, <1>6, <4>1 DEF PickUp, At
    <3>2. QED
      BY <1>6, <2>1, <2>2, <3>1 DEF PickUp
  <2>4. mail'.resume = mail.resume
    BY <1>6 DEF PickUp, DeliveryInv, SessionTypeOK
  <2>5. ~At(w, {"resume", "ran"})
    BY <1>6 DEF PickUp, At
  <2>6. UNCHANGED <<session, requests, sweep, died>>
    BY <1>6 DEF PickUp
  <2>7. QED
    BY <2>3, <2>4, <2>5, <2>6, WorkDelivers DEF Goal
\* A message is spent on a decision, or on none.
<1>7. CASE PickUpResume(w)
  <2>1. UNCHANGED <<session, requests, sweep, died>>
    BY <1>7 DEF PickUpResume
  <2>2. CASE Decided
    <3>1. worker' = [worker EXCEPT ![w] =
            [pc |-> "resume", loaded |-> session, req |-> Len(requests),
             verdict |-> Last(requests)]]
      BY <1>7, <2>2 DEF PickUpResume, Decided
    <3>2. /\ worker'[w].pc = "resume" /\ worker'[w].loaded = "waiting_approval"
          /\ \A v \in Worker : v # w => worker'[v] = worker[v]
      BY <1>1, <2>2, <3>1 DEF Decided
    <3>3. QED
      BY <2>1, <3>2 DEF Goal, DeliveryInv, Resuming, Sweeping,
         DecisionIsDelivered, At
  <2>3. CASE ~Decided
    <3>1. \A v \in Worker :
            \/ worker'[v] = worker[v]
            \/ worker'[v].loaded = "waiting_approval"
      BY <1>1, <1>7 DEF PickUpResume
    <3>2. ~Decided'
      BY <2>1, <2>3 DEF Decided
    <3>3. QED
      BY <2>1, <3>1, <3>2 DEF Goal, DeliveryInv, Resuming, Sweeping,
         DecisionIsDelivered, At, Decided
  <2>4. QED
    BY <2>2, <2>3
\* A task that resumes leaves the session waiting no longer.
<1>8. CASE (Refuse(w) \/ Continue(w)) /\ At(w, {"resume", "ran"})
  <2>1. worker[w].loaded = "waiting_approval"
    BY <1>8 DEF DeliveryInv, Resuming
  <2>2. session' # "waiting_approval"
    BY <1>8, <2>1 DEF Refuse, Continue, Store
  <2>3. /\ worker'[w].pc \notin {"resume", "ran"}
        /\ \A v \in Worker : v # w => worker'[v] = worker[v]
    BY <1>1, <1>8 DEF Refuse, Continue, End, Idle
  <2>4. UNCHANGED <<requests, sweep>>
    BY <1>8 DEF Refuse, Continue
  <2>5. QED
    BY <2>2, <2>3, <2>4 DEF Goal, DeliveryInv, Resuming, Sweeping,
       DecisionIsDelivered, At
<1>9. CASE Execute(w) \/ SkipRefused(w)
  <2>1. /\ Goto(w, "ran") /\ worker[w].pc = "resume"
        /\ UNCHANGED <<session, requests, mail, sweep, died>>
    BY <1>9 DEF Execute, SkipRefused, At
  <2>2. /\ worker'[w].pc = "ran" /\ worker'[w].loaded = worker[w].loaded
        /\ \A v \in Worker : v # w => worker'[v] = worker[v]
    BY <1>1, <1>2, <1>3, <2>1 DEF Goto
  <2>3. QED
    BY <2>1, <2>2 DEF Goal, DeliveryInv, Resuming, Sweeping,
       DecisionIsDelivered, At
<1>10. CASE Refuse(w) /\ ~At(w, {"resume", "ran"})
  BY <1>5, <1>10, StoreWaits DEF Refuse
<1>11. CASE Start(w)
  <2>1. PICK pc \in {"asked", "turn"} :
          worker' = [worker EXCEPT ![w] = [worker[w] EXCEPT
                       !.pc = pc, !.loaded = "running"]]
    BY <1>11 DEF Start
  <2>2. /\ [worker[w] EXCEPT !.pc = pc, !.loaded = "running"] \in Job
        /\ [worker[w] EXCEPT !.pc = pc, !.loaded = "running"].pc = pc
    BY <1>1, <1>2 DEF Job, Status
  <2>3. ~At(w, {"resume", "ran"})
    BY <1>11 DEF Start, At
  <2>4. session' = "waiting_approval" => session = "waiting_approval"
    BY <1>11, StoreWaits DEF Start
  <2>5. UNCHANGED <<requests, sweep, mail, died>>
    BY <1>11 DEF Start
  <2>6. QED
    BY <2>1, <2>2, <2>3, <2>4, <2>5, WorkDelivers DEF Goal
<1>12. CASE CheckTurn(w) \/ CheckEnd(w)
  BY <1>2, <1>4, <1>5, <1>12 DEF CheckTurn, CheckEnd, At
<1>13. CASE CapHit(w) \/ CallTools(w) \/ LastAnswer(w)
  BY <1>2, <1>4, <1>13 DEF CapHit, CallTools, LastAnswer, At
<1>14. CASE ProviderError(w) \/ Finish(w)
  <2>1. PICK s \in {"succeeded", "failed"} : Store(w, s)
    BY <1>14 DEF ProviderError, Finish
  <2>2. QED
    BY <1>5, <1>14, <2>1, StoreWaits DEF ProviderError, Finish, At
<1>15. CASE Parked(w) \/ Raise(w)
  BY <1>5, <1>15 DEF Parked, Raise, At
<1>16. CASE ParkInLoop(w)
  BY <1>1, <1>16, ParkDelivers DEF ParkInLoop, End, Goal
<1>17. CASE ParkInSDK(w)
  <2>1. worker' = [worker EXCEPT ![w] = [worker[w] EXCEPT
                     !.pc = "parked", !.loaded = "waiting_approval"]]
    BY <1>17 DEF ParkInSDK
  <2>2. /\ [worker[w] EXCEPT !.pc = "parked",
                             !.loaded = "waiting_approval"] \in Job
        /\ [worker[w] EXCEPT !.pc = "parked",
                             !.loaded = "waiting_approval"].pc = "parked"
    BY <1>1, <1>2 DEF Job, Status
  <2>3. QED
    BY <1>17, <2>1, <2>2, ParkDelivers DEF ParkInSDK, Goal
<1>18. CASE WorkerDies(w)
  <2>1. /\ worker'[w].pc = "idle" /\ died'
        /\ \A v \in Worker : v # w => worker'[v] = worker[v]
        /\ UNCHANGED <<session, requests, sweep>>
    BY <1>1, <1>18 DEF WorkerDies, End
  <2>2. QED
    BY <2>1 DEF Goal, DeliveryInv, Resuming, Sweeping, DecisionIsDelivered, At
<1>19. ~At(w, {"resume", "ran"}) => ~Continue(w)
  BY DEF Continue, At
<1>20. QED
  BY <1>6, <1>7, <1>8, <1>9, <1>10, <1>11, <1>12, <1>13, <1>14, <1>15, <1>16,
     <1>17, <1>18, <1>19
  DEF Task

LEMMA DeliveryStep == DeliveryInv /\ [SessionNext]_aiVars => DeliveryInv'
<1> SUFFICES ASSUME DeliveryInv, [SessionNext]_aiVars
             PROVE  (Resuming /\ Sweeping /\ DecisionIsDelivered)'
  BY TypeStep, DecidesOneStep DEF DeliveryInv
<1>1. /\ requests \in Seq(RequestStatus) /\ mail.resume \in Nat
      /\ Resuming /\ Sweeping /\ DecisionIsDelivered
  BY DEF DeliveryInv, SessionTypeOK
\* Whoever decides, or ends the session, leaves the tasks alone.
<1>2. ASSUME UNCHANGED worker
      PROVE  /\ Resuming'
             /\ \A w \in Worker :
                  At(w, {"resume", "ran"}) => At(w, {"resume", "ran"})'
  BY <1>1, <1>2 DEF Resuming, At
<1>3. ASSUME NEW c \in Operator,
             AskDecision(c) \/ AskCancel(c) \/ AskMessage(c)
      PROVE  (Resuming /\ Sweeping /\ DecisionIsDelivered)'
  <2>1. UNCHANGED <<session, requests, mail, worker, sweep, died>>
    BY <1>3 DEF AskDecision, AskCancel, AskMessage, Ask
  <2>2. QED
    BY <1>1, <1>2, <2>1 DEF Sweeping, DecisionIsDelivered, At
<1>4. ASSUME NEW c \in Operator, Decide(c)
      PROVE  (Resuming /\ Sweeping /\ DecisionIsDelivered)'
  <2>1. /\ requests' = [requests EXCEPT ![call[c].req] = call[c].kind]
        /\ UNCHANGED <<session, worker, sweep>>
        /\ mail'.resume = mail.resume + 1
    BY <1>4 DEF Decide, DeliveryInv, SessionTypeOK
  <2>2. DOMAIN requests' = DOMAIN requests /\ Len(requests') = Len(requests)
    <3>1. call[c].req \in DOMAIN requests /\ call[c].kind \in RequestStatus
      BY <1>4 DEF Decide, DeliveryInv, DecidesOne, RequestStatus
    <3>2. requests' \in [DOMAIN requests -> RequestStatus]
      BY <1>1, <2>1, <3>1
    <3>3. QED
      BY <3>2, RequestsType DEF DeliveryInv
  <2>3. QED
    BY <1>1, <1>2, <2>1, <2>2 DEF Sweeping, DecisionIsDelivered
<1>5. ASSUME NEW c \in Operator, Cancel(c)
      PROVE  (Resuming /\ Sweeping /\ DecisionIsDelivered)'
  <2>1. /\ session' # "waiting_approval" /\ UNCHANGED <<worker, sweep>>
        /\ DOMAIN requests' = DOMAIN requests
    BY <1>5 DEF Cancel, ExpirePending
  <2>2. QED
    BY <1>1, <1>2, <2>1 DEF Sweeping, DecisionIsDelivered
<1>6. ASSUME NEW c \in Operator, SendMessage(c)
      PROVE  (Resuming /\ Sweeping /\ DecisionIsDelivered)'
  <2>1. /\ session' # "waiting_approval"
        /\ UNCHANGED <<worker, requests, sweep>>
    BY <1>6 DEF SendMessage
  <2>2. QED
    BY <1>1, <1>2, <2>1 DEF Sweeping, DecisionIsDelivered
<1>7. CASE FindStale
  <2>1. PICK stale \in (SUBSET Pending) \ {{}} :
          sweep' = [stale |-> stale, parked |-> session = "waiting_approval"]
    BY <1>7 DEF FindStale
  <2>2. UNCHANGED <<session, requests, mail, worker, died>>
    BY <1>7 DEF FindStale
  <2>3. Sweeping'
    <3>1. sweep'.stale = stale /\ sweep'.parked = (session = "waiting_approval")
      BY <2>1
    <3>2. stale # {} /\ stale \subseteq DOMAIN requests
      BY DEF Pending
    <3>3. QED
      BY <2>2, <3>1, <3>2 DEF Sweeping
  <2>4. QED
    BY <1>1, <1>2, <2>2, <2>3 DEF DecisionIsDelivered, At
\* What the sweep expires is what the session waits for only if it told it.
<1>8. CASE ExpireStale
  <2>1. /\ requests' = [r \in DOMAIN requests |->
                         IF r \in sweep.stale THEN "expired" ELSE requests[r]]
        /\ UNCHANGED <<session, worker, died>> /\ sweep' = NoSweep
    BY <1>8 DEF ExpireStale
  <2>2. Sweeping'
    BY <2>1 DEF Sweeping
  <2>3. /\ sweep.stale # {} /\ sweep.stale \subseteq DOMAIN requests
        /\ ~sweep.parked /\ session = "waiting_approval"
           => Len(requests) \notin sweep.stale
    BY <1>1, <1>8 DEF Sweeping, ExpireStale
  <2>4. DOMAIN requests' = DOMAIN requests /\ Len(requests') = Len(requests)
    <3>1. requests' \in [DOMAIN requests -> RequestStatus]
      BY <1>1, <2>1 DEF RequestStatus
    <3>2. QED
      BY <3>1, RequestsType DEF DeliveryInv
  <2>5. CASE sweep.parked
    <3>1. IsFiniteSet(sweep.stale)
      <4>1. sweep.stale \subseteq Request /\ IsFiniteSet(Request)
        BY SessionAssumption, FS_Interval
        DEF DeliveryInv, SessionTypeOK, Request
      <4>2. QED
        BY <4>1, FS_Subset
    <3>2. Cardinality(sweep.stale) \in Nat /\ Cardinality(sweep.stale) # 0
      BY <2>3, <3>1, FS_CardinalityType, FS_EmptySet
    <3>3. mail'.resume = mail.resume + Cardinality(sweep.stale)
      BY <1>8, <2>5 DEF ExpireStale, DeliveryInv, SessionTypeOK
    <3>4. mail'.resume > 0
      BY <1>1, <3>2, <3>3
    <3>5. QED
      BY <1>2, <2>1, <2>2, <3>4 DEF DecisionIsDelivered
  <2>6. CASE ~sweep.parked
    <3>1. mail' = mail
      BY <1>8, <2>6 DEF ExpireStale
    <3>2. Decided' => Decided
      <4> SUFFICES ASSUME session = "waiting_approval", requests' # <<>>,
                          Last(requests') # "pending", ~died
                   PROVE  requests # <<>> /\ Last(requests) # "pending"
        BY <2>1 DEF Decided
      <4>1. requests # <<>> /\ Len(requests) \in DOMAIN requests
        BY <1>1, <2>1, <2>4
      <4>2. requests'[Len(requests)] = requests[Len(requests)]
        BY <2>1, <2>3, <2>6, <4>1
      <4>3. QED
        BY <2>4, <4>1, <4>2 DEF Last
    <3>3. QED
      BY <1>1, <1>2, <2>1, <2>2, <3>1, <3>2, CarriesOn
  <2>7. QED
    BY <2>5, <2>6
<1>9. CASE UNCHANGED aiVars
  BY <1>1, <1>2, <1>9 DEF aiVars, Sweeping, DecisionIsDelivered, At
<1>10. QED
  BY <1>3, <1>4, <1>5, <1>6, <1>7, <1>8, <1>9, TaskDelivers
  DEF SessionNext, Commit

\* THEOREM: a parked session whose newest request is decided, by an operator or
\* by the sweep, has a resume in the broker or at work, unless a worker died,
\* whoever decides, expires, cancels and parks at the same time.
THEOREM DecisionsAreDelivered == SessionSpec => []DecisionIsDelivered
<1>1. SessionInit => Resuming /\ Sweeping /\ DecisionIsDelivered
  BY DEF SessionInit, Resuming, Sweeping, DecisionIsDelivered, At, Idle
<1>2. SessionSpec => []DeliveryInv
  <2>1. SessionInit /\ SessionTypeOK /\ DecidesOne => DeliveryInv
    BY <1>1 DEF DeliveryInv
  <2>2. QED
    BY SessionTypeCorrect, <2>1, DeliveryStep, PTL DEF SessionSpec
<1>3. DeliveryInv => DecisionIsDelivered
  BY DEF DeliveryInv
<1>4. QED
  BY <1>2, <1>3, PTL

(***************************************************************************)
(* One worker runs a grant once                                            *)
(***************************************************************************)

\* What makes a grant one shot when one task runs at a time: a parked session
\* whose command no task has just run waits for a request that never ran, and
\* so does the task that is about to run it.
NewestNeverRan == requests # <<>> => ran[Len(requests)] = 0
RunsOnce ==
  /\ GrantIsOneShot
  /\ \A r \in Request : r \notin DOMAIN requests => ran[r] = 0
  /\ \A w \in Worker :
       /\ At(w, {"resume", "ran"}) => worker[w].loaded = "waiting_approval"
       /\ At(w, {"resume"}) =>
            /\ requests # <<>> /\ worker[w].req = Len(requests)
            /\ NewestNeverRan
       /\ session = "waiting_approval" /\ ~At(w, {"ran"}) => NewestNeverRan

\* A step that runs nothing and asks for nothing: no task becomes one that
\* resumes, and a session that is parked after it was parked before it, with
\* no task that leaves it parked behind the command it ran.
LEMMA RunsNothing ==
  ASSUME SessionTypeOK, RunsOnce, UNCHANGED ran,
         DOMAIN requests' = 1..Len(requests),
         Len(requests') = Len(requests), requests' = <<>> <=> requests = <<>>,
         \A v \in Worker : At(v, {"resume", "ran"})' => worker'[v] = worker[v],
         session' = "waiting_approval" =>
           /\ session = "waiting_approval"
           /\ \A v \in Worker : At(v, {"ran"}) => At(v, {"ran"})'
  PROVE  RunsOnce'
<1>1. requests \in Seq(RequestStatus) /\ DOMAIN requests = 1..Len(requests)
  BY DEF SessionTypeOK
<1>2. GrantIsOneShot' /\ (NewestNeverRan <=> NewestNeverRan')
  BY DEF RunsOnce, GrantIsOneShot, NewestNeverRan
<1>3. \A r \in Request : r \notin DOMAIN requests' => ran'[r] = 0
  BY <1>1 DEF RunsOnce
<1>4. ASSUME NEW w \in Worker
      PROVE  /\ At(w, {"resume", "ran"})'
                  => worker'[w].loaded = "waiting_approval"
             /\ At(w, {"resume"})' =>
                  /\ requests' # <<>> /\ worker'[w].req = Len(requests')
                  /\ NewestNeverRan'
             /\ session' = "waiting_approval" /\ ~At(w, {"ran"})'
                  => NewestNeverRan'
  BY <1>2 DEF RunsOnce, At
<1>5. QED
  BY <1>2, <1>3, <1>4 DEF RunsOnce

\* The same for a step of one task, which is idle or at work with the model
\* when it is done; if it ran the command, the session goes on.
LEMMA TaskRunsNothing ==
  ASSUME SessionTypeOK, RunsOnce, UNCHANGED <<ran, requests>>,
         NEW w \in Worker, NEW j, j.pc \notin {"resume", "ran"},
         worker' = [worker EXCEPT ![w] = j],
         session' = "waiting_approval" =>
           session = "waiting_approval" /\ ~At(w, {"ran"})
  PROVE  RunsOnce'
<1>1. worker \in [Worker -> Job] /\ DOMAIN requests = 1..Len(requests)
  BY DEF SessionTypeOK
<1>2. \A v \in Worker : At(v, {"resume", "ran"})' => worker'[v] = worker[v]
  BY <1>1 DEF At
<1>3. session' = "waiting_approval" =>
        \A v \in Worker : At(v, {"ran"}) => At(v, {"ran"})'
  BY <1>1 DEF At
<1>4. QED
  BY <1>1, <1>2, <1>3, RunsNothing

OneAtATime == \A v, w \in Worker : v = w

LEMMA RunsOnceStep ==
  ASSUME OneAtATime, "workerDies" \notin Faults,
         SessionTypeOK, DecidesOne, RunsOnce, [SessionNext]_aiVars
  PROVE  RunsOnce'
<1>1. /\ requests \in Seq(RequestStatus) /\ worker \in [Worker -> Job]
      /\ ran \in [Request -> Nat] /\ DOMAIN requests = 1..Len(requests)
      /\ Len(requests) \in Nat /\ (requests # <<>> => Len(requests) \in Request)
  BY SessionAssumption DEF SessionTypeOK, Request
<1>2. \A w \in Worker : worker[w] \in Job
  BY <1>1
<1>3. ASSUME NEW w \in Worker, UNCHANGED <<ran, requests>>, End(w),
             session' = "waiting_approval" =>
               session = "waiting_approval" /\ ~At(w, {"ran"})
      PROVE  RunsOnce'
  BY <1>3, TaskRunsNothing DEF End, Idle
<1>4. ASSUME NEW w \in Worker, UNCHANGED <<session, ran, requests>>,
             NEW pc \in Pc \ {"resume", "ran"}, Goto(w, pc), ~At(w, {"ran"})
      PROVE  RunsOnce'
  <2>1. [worker[w] EXCEPT !.pc = pc].pc = pc
    BY <1>2 DEF Job
  <2>2. QED
    BY <1>4, <2>1, TaskRunsNothing DEF Goto
<1>5. ASSUME UNCHANGED <<ran, worker, requests>>,
              session' = "waiting_approval" => session = "waiting_approval"
       PROVE  RunsOnce'
  BY <1>1, <1>5, RunsNothing DEF At
<1>6. ASSUME NEW w \in Worker, PickUp(w) PROVE RunsOnce'
  <2>1. [Idle EXCEPT !.pc = "starting", !.loaded = session].pc = "starting"
    BY DEF Idle
  <2>2. CASE session = "cancelled"
    BY <1>6, <1>5, <2>2 DEF PickUp
  <2>3. CASE session # "cancelled"
    BY <1>6, <2>1, <2>3, TaskRunsNothing DEF PickUp, At
  <2>4. QED
    BY <2>2, <2>3
<1>7. ASSUME NEW w \in Worker, PickUpResume(w) PROVE RunsOnce'
  <2> DEFINE j == [pc |-> "resume", loaded |-> session,
                   req |-> Len(requests), verdict |-> Last(requests)]
             parked == /\ session = "waiting_approval"
                       /\ requests # <<>> /\ Last(requests) # "pending"
  <2>1. CASE ~parked
    <3>1. UNCHANGED <<worker, session, requests, ran>>
      BY <1>7, <2>1 DEF PickUpResume
    <3>2. QED
      BY <1>5, <3>1
  <2>2. CASE parked
    <3>1. /\ worker' = [worker EXCEPT ![w] = j]
          /\ UNCHANGED <<session, requests, ran>>
      BY <1>7, <2>2 DEF PickUpResume
    <3>2. NewestNeverRan
      BY <1>7, <2>2 DEF RunsOnce, PickUpResume, At
    <3>3. GrantIsOneShot' /\ NewestNeverRan'
          /\ \A r \in Request : r \notin DOMAIN requests' => ran'[r] = 0
      BY <3>1, <3>2 DEF RunsOnce, GrantIsOneShot, NewestNeverRan
    <3>4. \A v \in Worker : worker'[v] = j
      BY <1>1, <3>1 DEF OneAtATime
    <3>5. QED
      BY <2>2, <3>1, <3>3, <3>4 DEF RunsOnce, At
  <2>3. QED
    BY <2>1, <2>2
<1>8. ASSUME NEW w \in Worker, Execute(w) PROVE RunsOnce'
  <2>1. /\ requests # <<>> /\ worker[w].req = Len(requests)
        /\ ran[Len(requests)] = 0 /\ worker[w].loaded = "waiting_approval"
    BY <1>8 DEF Execute, RunsOnce, At, NewestNeverRan
  <2>2. PICK n \in {0, 1} : ran' = [ran EXCEPT ![worker[w].req] = @ + n]
    BY <1>8 DEF Execute
  <2>3. GrantIsOneShot'
    BY <1>1, <2>1, <2>2 DEF RunsOnce, GrantIsOneShot
  <2>4. UNCHANGED requests
    BY <1>8 DEF Execute
  <2>5. \A r \in Request : r \notin DOMAIN requests' => ran'[r] = 0
    BY <1>1, <2>1, <2>2, <2>4 DEF RunsOnce
  <2>6. \A v \in Worker : /\ worker'[v].pc = "ran"
                          /\ worker'[v].loaded = "waiting_approval"
    BY <1>1, <1>2, <1>8, <2>1 DEF Execute, Goto, OneAtATime, Job
  <2>7. QED
    BY <2>3, <2>5, <2>6 DEF RunsOnce, At
<1>9. ASSUME NEW w \in Worker, SkipRefused(w) PROVE RunsOnce'
  <2>1. UNCHANGED <<session, requests, ran>> /\ At(w, {"resume"})
    BY <1>9 DEF SkipRefused
  <2>2. \A v \in Worker : worker'[v] = [worker[v] EXCEPT !.pc = "ran"]
    BY <1>1, <1>9 DEF SkipRefused, Goto, OneAtATime
  <2>3. \A v \in Worker : /\ worker'[v].pc = "ran"
                          /\ worker'[v].loaded = worker[v].loaded
    BY <1>2, <2>2 DEF Job
  <2>4. \A v \in Worker : worker[v].loaded = "waiting_approval"
    BY <2>1 DEF RunsOnce, At, OneAtATime
  <2>5. QED
    BY <2>1, <2>3, <2>4 DEF RunsOnce, At, GrantIsOneShot
<1>10. ASSUME NEW w \in Worker, Continue(w) PROVE RunsOnce'
  <2>1. worker[w].loaded = "waiting_approval"
    BY <1>10 DEF Continue, RunsOnce, At
  <2>2. session' # "waiting_approval"
    BY <1>10, <2>1 DEF Continue, Store
  <2>3. QED
    BY <1>10, <2>2, TaskRunsNothing DEF Continue, Idle
<1>11. ASSUME NEW w \in Worker, Start(w) PROVE RunsOnce'
  <2>1. \A pc \in {"asked", "turn"} :
          [worker[w] EXCEPT !.pc = pc, !.loaded = "running"].pc = pc
    BY <1>2 DEF Job
  <2>2. worker' = [worker EXCEPT ![w] =
          [worker[w] EXCEPT !.pc = IF sdk THEN "asked" ELSE "turn",
                            !.loaded = "running"]]
    BY <1>11 DEF Start
  <2>3. ~At(w, {"ran"}) /\ UNCHANGED <<ran, requests>>
        /\ (session' = "waiting_approval" => session = "waiting_approval")
    BY <1>11 DEF Start, Store, At
  <2>4. QED
    BY <2>1, <2>2, <2>3, TaskRunsNothing
<1>12. ASSUME NEW w \in Worker, NewRequest(w), UNCHANGED ran,
              worker'[w].pc \in {"idle", "parked"}
       PROVE  RunsOnce'
  <2>1. /\ Len(requests') = Len(requests) + 1
        /\ DOMAIN requests' = 1..(Len(requests) + 1)
        /\ Len(requests) + 1 \in Request
    BY <1>1, <1>12, SessionAssumption DEF NewRequest, Request
  <2>2. \A r \in Request : r \notin DOMAIN requests => ran'[r] = 0
    BY <1>12 DEF RunsOnce
  <2>3. ran'[Len(requests')] = 0
        /\ \A r \in Request : r \notin DOMAIN requests' => ran'[r] = 0
    BY <1>1, <2>1, <2>2
  <2>4. GrantIsOneShot' /\ NewestNeverRan'
    BY <1>12, <2>3 DEF RunsOnce, GrantIsOneShot, NewestNeverRan
  <2>5. \A v \in Worker : worker'[v].pc \in {"idle", "parked"}
    BY <1>12 DEF OneAtATime
  <2>6. QED
    BY <1>12, <2>3, <2>4, <2>5 DEF RunsOnce, At
<1>13. ASSUME NEW w \in Worker, ParkInLoop(w) PROVE RunsOnce'
  <2>1. worker'[w].pc = "idle"
    BY <1>1, <1>13 DEF ParkInLoop, End, Idle
  <2>2. QED
    BY <1>12, <1>13, <2>1 DEF ParkInLoop
<1>14. ASSUME NEW w \in Worker, ParkInSDK(w) PROVE RunsOnce'
  <2>1. worker'[w].pc = "parked"
    BY <1>1, <1>2, <1>14 DEF ParkInSDK, Job
  <2>2. QED
    BY <1>12, <1>14, <2>1 DEF ParkInSDK
<1>15. ASSUME NEW w \in Worker, CapHit(w) \/ CallTools(w) \/ LastAnswer(w)
       PROVE  RunsOnce'
  BY <1>4, <1>15 DEF CapHit, CallTools, LastAnswer, At, Pc
<1>16. ASSUME NEW w \in Worker, CheckTurn(w) \/ CheckEnd(w) PROVE RunsOnce'
  <2>1. ~At(w, {"ran"}) /\ UNCHANGED <<session, ran, requests>>
    BY <1>16 DEF CheckTurn, CheckEnd, At
  <2>2. QED
    BY <1>3, <1>4, <1>16, <2>1 DEF CheckTurn, CheckEnd, Pc
<1>17. ASSUME NEW w \in Worker,
              \/ Refuse(w) \/ ProviderError(w) \/ Parked(w) \/ Finish(w)
              \/ Raise(w)
       PROVE  RunsOnce'
  <2>1. ~At(w, {"ran"}) /\ End(w) /\ UNCHANGED <<ran, requests>>
    BY <1>17 DEF Refuse, ProviderError, Parked, Finish, Raise, At
  <2>2. session' = "waiting_approval" => session = "waiting_approval"
    BY <1>17 DEF Refuse, ProviderError, Parked, Finish, Raise, Store
  <2>3. QED
    BY <1>3, <2>1, <2>2
<1>18. ASSUME UNCHANGED <<ran, worker>>,
              session' = "waiting_approval" => session = "waiting_approval",
              NEW f \in [DOMAIN requests -> RequestStatus], requests' = f
       PROVE  RunsOnce'
  <2>1. f \in Seq(RequestStatus) /\ Len(f) = Len(requests)
    BY RequestsType, <1>18
  <2>2. DOMAIN f = 1..Len(requests) /\ (f = <<>> <=> requests = <<>>)
    BY <1>1, <2>1, EmptySeq, LenProperties
  <2>3. QED
    BY <1>18, <2>1, <2>2, RunsNothing DEF At
<1>19. ASSUME NEW c \in Operator, Decide(c) PROVE RunsOnce'
  <2>1. [requests EXCEPT ![call[c].req] = call[c].kind]
          \in [DOMAIN requests -> RequestStatus]
    BY <1>1, <1>19 DEF Decide, DecidesOne, RequestStatus
  <2>2. QED
    BY <1>18, <1>19, <2>1 DEF Decide
<1>20. ASSUME NEW c \in Operator, Cancel(c) PROVE RunsOnce'
  <2>1. ExpirePending \in [DOMAIN requests -> RequestStatus]
    BY <1>1 DEF ExpirePending, RequestStatus
  <2>2. QED
    BY <1>18, <1>20, <2>1 DEF Cancel
<1>21. CASE ExpireStale
  <2> DEFINE f == [r \in DOMAIN requests |->
                     IF r \in sweep.stale THEN "expired" ELSE requests[r]]
  <2>1. f \in [DOMAIN requests -> RequestStatus]
    BY <1>1 DEF RequestStatus
  <2>2. requests' = f /\ UNCHANGED <<ran, worker, session>>
    BY <1>21 DEF ExpireStale
  <2>3. QED
    BY <1>18, <2>1, <2>2
<1>22. ASSUME NEW c \in Operator,
              AskDecision(c) \/ AskCancel(c) \/ AskMessage(c) \/ SendMessage(c)
       PROVE  RunsOnce'
  BY <1>5, <1>22 DEF AskDecision, AskCancel, AskMessage, Ask, SendMessage
<1>23. CASE FindStale \/ UNCHANGED aiVars
  BY <1>5, <1>23 DEF FindStale, aiVars
<1>24. QED
  BY <1>6, <1>7, <1>8, <1>9, <1>10, <1>11, <1>13, <1>14, <1>15, <1>16,
     <1>17, <1>19, <1>20, <1>21, <1>22, <1>23
  DEF SessionNext, Task, Commit, WorkerDies

\* THEOREM: where one task of a session runs at a time and no worker is killed,
\* an approval runs its command once at most, however often its resume is sent
\* and whatever is decided, cancelled, expires or is asked next. The two
\* hypotheses are what it takes: with a second worker it is false.
THEOREM OneWorkerGrantsOnce ==
  ASSUME OneAtATime, "workerDies" \notin Faults
  PROVE  SessionSpec => []GrantIsOneShot
<1>1. SessionInit => RunsOnce
  <2> SUFFICES ASSUME SessionInit PROVE RunsOnce
    OBVIOUS
  <2>1. GrantIsOneShot /\ (\A r \in Request : ran[r] = 0)
        /\ session = "queued" /\ \A w \in Worker : worker[w].pc = "idle"
    BY DEF SessionInit, GrantIsOneShot, Idle
  <2>2. QED
    BY <2>1 DEF RunsOnce, At
<1>2. SessionTypeOK /\ DecidesOne /\ RunsOnce /\ [SessionNext]_aiVars
        => RunsOnce'
  BY RunsOnceStep
<1>3. RunsOnce => GrantIsOneShot
  BY DEF RunsOnce
<1>4. QED
  BY SessionTypeCorrect, <1>1, <1>2, <1>3, PTL DEF SessionSpec
=============================================================================
