--------------------------- MODULE HostQueue_proofs ---------------------------
(***************************************************************************)
(* Proofs about HostQueue, for all hosts, operations and environments.     *)
(***************************************************************************)
EXTENDS HostQueue, TLAPS, WellFoundedInduction

(***************************************************************************)
(* Type correctness                                                        *)
(***************************************************************************)

\* A release keeps the types of what it may change.
LEMMA DispatchNextType ==
  ASSUME TypeOK, NEW h, NEW ended, DispatchNext(h, ended)
  PROVE  /\ syncMsg' \in [Sync -> Nat]
         /\ rowSt' \in [Row -> RowStatus]
         /\ rowMsg' \in [Row -> Nat]
         /\ runSt' \in [Run -> RunStatus]
         /\ runMsg' \in [Run -> Nat]
<1> DEFINE next == Oldest({ o \in Waiting(h) : RunOf(o) # ended })
<1>1. CASE next = {} /\ UNCHANGED <<syncMsg, rowSt, rowMsg, runSt, runMsg>>
  BY <1>1 DEF TypeOK
<1>2. CASE \E s \in next \cap Sync :
             /\ syncMsg' = [syncMsg EXCEPT ![s] = @ + 1]
             /\ UNCHANGED <<rowSt, rowMsg, runSt, runMsg>>
  BY <1>2 DEF TypeOK
<1>3. CASE \E w \in next \cap Row :
             /\ rowSt' = [rowSt EXCEPT ![w] = "queued"]
             /\ rowMsg' = [rowMsg EXCEPT ![w] = @ + 1]
             /\ UNCHANGED <<syncMsg, runSt, runMsg>>
  BY <1>3 DEF TypeOK, RowStatus, RunStatus
<1>4. CASE \E r \in next \cap Run :
             /\ runSt' = [runSt EXCEPT ![r] = "queued"]
             /\ runMsg' = [runMsg EXCEPT ![r] = @ + 1]
             /\ UNCHANGED <<syncMsg, rowSt, rowMsg>>
  BY <1>4 DEF TypeOK, RunStatus
<1>5. QED
  BY <1>1, <1>2, <1>3, <1>4, Zenon DEF DispatchNext

\* Every step keeps the types.
LEMMA TypeStep == TypeOK /\ [Next]_vars => TypeOK'
<1> SUFFICES ASSUME TypeOK, [Next]_vars PROVE TypeOK'
  OBVIOUS
<1> USE DEF TypeOK, SyncStatus, RowStatus, RunStatus, TaskState, GroupState,
            syncVars, rowVars, runVars, groupVars, backVars
<1>a. /\ SyncHost \in [Sync -> Host]
      /\ RowRun \in [Row -> Run]
      /\ RowHost \in [Row -> Host]
      /\ MaxSends \in Nat
  BY StructureAssumption, BoundAssumption
<1> USE <1>a
<1>1. ASSUME NEW s \in Sync, SubmitSync(s) PROVE TypeOK'
  BY <1>1 DEF SubmitSync
<1>2. ASSUME NEW s \in Sync, StartSync(s) PROVE TypeOK'
  BY <1>2 DEF StartSync
<1>3. ASSUME NEW s \in Sync, FinishSync(s) PROVE TypeOK'
  BY <1>3 DEF FinishSync
<1>4. ASSUME NEW s \in Sync, SweepSync(s) PROVE TypeOK'
  BY <1>4 DEF SweepSync
<1>5. ASSUME NEW s \in Sync, ReleaseSync(s) PROVE TypeOK'
  BY <1>5, DispatchNextType DEF ReleaseSync
<1>6. ASSUME NEW r \in Run, SubmitRun(r) PROVE TypeOK'
  BY <1>6 DEF SubmitRun
<1>7. ASSUME NEW r \in Run, RunAction(r) PROVE TypeOK'
  <2>1. runMsg' \in [Run -> Nat]
    BY <1>7 DEF RunAction
  <2>2. runSt' \in [Run -> RunStatus]
    BY <1>7 DEF RunAction
  <2>3. rowSt' \in [Row -> RowStatus]
    BY <1>7 DEF RunAction, MoveRows
  <2>4. groupMsg' \in [Run -> Nat]
    BY <1>7 DEF RunAction
  <2>5. UNCHANGED <<rowMsg, rowSent, rowTask, groupTask, groupOwes, sweepOwes,
                    cancel, syncVars, backVars>>
    BY <1>7 DEF RunAction
  <2>6. QED
    BY <2>1, <2>2, <2>3, <2>4, <2>5
<1>8. ASSUME NEW w \in Row, OrchSend(w) PROVE TypeOK'
  BY <1>8 DEF OrchSend
<1>9. ASSUME NEW r \in Run, CloseRun(r) PROVE TypeOK'
  BY <1>9 DEF CloseRun, FinaliseRun
<1>10. ASSUME NEW r \in Run, OrchSeesCancel(r) PROVE TypeOK'
  BY <1>10 DEF OrchSeesCancel, MoveRows
<1>11. ASSUME NEW r \in Run, OrchTimeout(r) PROVE TypeOK'
  BY <1>11 DEF OrchTimeout, MoveRows
<1>12. ASSUME NEW r \in Run, OrchError(r) PROVE TypeOK'
  BY <1>12 DEF OrchError
<1>13. ASSUME NEW r \in Run, RequestCancel(r) PROVE TypeOK'
  BY <1>13 DEF RequestCancel
<1>14. ASSUME NEW r \in Run, CommitCancel(r) PROVE TypeOK'
  BY <1>14 DEF CommitCancel, MoveRows
<1>15. ASSUME NEW w \in Row, StartRow(w) PROVE TypeOK'
  <2>1. rowMsg' \in [Row -> Nat]
    BY <1>15 DEF StartRow
  <2>2. rowSt' \in [Row -> RowStatus]
    BY <1>15 DEF StartRow
  <2>3. rowTask' \in [Row -> TaskState]
    BY <1>15 DEF StartRow
  <2>4. runSt' \in [Run -> RunStatus]
    BY <1>15 DEF StartRow, DeferParent, ResumeParent
  <2>5. UNCHANGED <<rowSent, runMsg, sweepOwes, cancel, syncVars, groupVars,
                    backVars>>
    BY <1>15 DEF StartRow
  <2>6. QED
    BY <2>1, <2>2, <2>3, <2>4, <2>5
<1>16. ASSUME NEW w \in Row, FinishRow(w) PROVE TypeOK'
  BY <1>16 DEF FinishRow
<1>17. ASSUME NEW w \in Row, NEW s \in Sync, QueuePostRunSync(w, s)
      PROVE  TypeOK'
  BY <1>17 DEF QueuePostRunSync
<1>18. ASSUME NEW w \in Row, CloseParent(w) PROVE TypeOK'
  BY <1>18 DEF CloseParent, FinaliseRun
<1>19. ASSUME NEW w \in Row, ReleaseRow(w) PROVE TypeOK'
  BY <1>19, DispatchNextType DEF ReleaseRow
<1>20. ASSUME NEW w \in Row, SweepRow(w) PROVE TypeOK'
  BY <1>20 DEF SweepRow
<1>21. ASSUME NEW r \in Run, StartGroup(r) PROVE TypeOK'
  BY <1>21 DEF StartGroup
<1>22. ASSUME NEW r \in Run, ClaimGroup(r) PROVE TypeOK'
  <2>1. Members(r) \subseteq Host
    BY DEF Members, Rows
  <2>2. runSt' \in [Run -> RunStatus]
    BY <1>22 DEF ClaimGroup
  <2>3. groupTask' \in [Run -> GroupState]
    BY <1>22 DEF ClaimGroup
  <2>4. groupOwes' \in [Run -> SUBSET Host]
    BY <1>22, <2>1 DEF ClaimGroup
  <2>5. UNCHANGED <<syncVars, rowVars, backVars, runMsg, sweepOwes, cancel,
                    groupMsg>>
    BY <1>22 DEF ClaimGroup
  <2>6. QED
    BY <2>2, <2>3, <2>4, <2>5
<1>23. ASSUME NEW r \in Run, LoadGroup(r) PROVE TypeOK'
  BY <1>23 DEF LoadGroup
<1>24. ASSUME NEW r \in Run, FinishGroup(r) PROVE TypeOK'
  BY <1>24 DEF FinishGroup, MoveRows
<1>25. ASSUME NEW r \in Run, CloseGroup(r) PROVE TypeOK'
  BY <1>25 DEF CloseGroup
<1>26. ASSUME NEW r \in Run, NEW s \in Sync, QueueGroupSync(r, s) PROVE TypeOK'
  BY <1>26 DEF QueueGroupSync
<1>27. ASSUME NEW r \in Run, FailGroup(r) PROVE TypeOK'
  BY <1>27 DEF FailGroup, MoveRows
<1>28. ASSUME NEW r \in Run, NEW h \in Host, ReleaseGroup(r, h) PROVE TypeOK'
  BY <1>28, DispatchNextType DEF ReleaseGroup
<1>29. ASSUME NEW b \in Rollback, StartRollback(b) PROVE TypeOK'
  BY <1>29 DEF StartRollback
<1>30. ASSUME NEW b \in Rollback, FinishRollback(b) PROVE TypeOK'
  BY <1>30 DEF FinishRollback
<1>31. ASSUME NEW b \in Rollback, ReleaseRollback(b) PROVE TypeOK'
  BY <1>31, DispatchNextType DEF ReleaseRollback
<1>32. ASSUME NEW r \in Run, SweepRun(r) PROVE TypeOK'
  BY <1>32 DEF SweepRun, MoveRows, Members, Rows
<1>33. ASSUME NEW r \in Run, NEW h \in Host, SweepRelease(r, h) PROVE TypeOK'
  BY <1>33, DispatchNextType DEF SweepRelease
<1>34. ASSUME NEW r \in Run, SweepOrphan(r) PROVE TypeOK'
  BY <1>34 DEF SweepOrphan
<1>35. ASSUME WorkerDies PROVE TypeOK'
  <2>1. syncTask' \in [Sync -> TaskState]
    BY <1>35 DEF WorkerDies
  <2>2. rowTask' \in [Row -> TaskState]
    BY <1>35 DEF WorkerDies
  <2>3. groupTask' \in [Run -> GroupState]
    BY <1>35 DEF WorkerDies
  <2>4. UNCHANGED <<syncSt, syncMsg, rowSt, rowMsg, rowSent, groupMsg,
                    groupOwes, runVars, backVars>>
    BY <1>35 DEF WorkerDies
  <2>5. QED
    BY <2>1, <2>2, <2>3, <2>4
<1>36. ASSUME LateDeath PROVE TypeOK'
  <2>1. syncTask' \in [Sync -> TaskState]
    BY <1>36 DEF LateDeath
  <2>2. rowTask' \in [Row -> TaskState]
    BY <1>36 DEF LateDeath
  <2>3. groupTask' \in [Run -> GroupState]
    BY <1>36 DEF LateDeath
  <2>4. groupOwes' \in [Run -> SUBSET Host]
    BY <1>36 DEF LateDeath
  <2>5. UNCHANGED <<syncSt, syncMsg, rowSt, rowMsg, rowSent, groupMsg, runVars,
                    backVars>>
    BY <1>36 DEF LateDeath
  <2>6. QED
    BY <2>1, <2>2, <2>3, <2>4, <2>5
<1>37. ASSUME LoseMessage PROVE TypeOK'
  <2>1. syncMsg' \in [Sync -> Nat]
    BY <1>37 DEF LoseMessage
  <2>2. rowMsg' \in [Row -> Nat]
    BY <1>37 DEF LoseMessage
  <2>3. runMsg' \in [Run -> Nat]
    BY <1>37 DEF LoseMessage
  <2>4. groupMsg' \in [Run -> Nat]
    BY <1>37 DEF LoseMessage
  <2>5. UNCHANGED <<syncSt, syncTask, rowSt, rowSent, rowTask, runSt,
                    sweepOwes, cancel, groupTask, groupOwes, backVars>>
    BY <1>37 DEF LoseMessage
  <2>6. QED
    BY <2>1, <2>2, <2>3, <2>4, <2>5
<1>38. CASE UNCHANGED vars
  BY <1>38 DEF vars
<1>39. QED
  BY <1>1, <1>2, <1>3, <1>4, <1>5, <1>6, <1>7, <1>8, <1>9, <1>10, <1>11,
     <1>12, <1>13, <1>14, <1>15, <1>16, <1>17, <1>18, <1>19, <1>20, <1>21,
     <1>22, <1>23, <1>24, <1>25, <1>26, <1>27, <1>28, <1>29, <1>30, <1>31,
     <1>32, <1>33, <1>34, <1>35, <1>36, <1>37, <1>38, Zenon
     DEF Next, Submit, Cancel, Fault, SyncStep, RowStep, GroupStep, RunStep,
         RollbackStep

\* Every variable keeps its type (an ORM column never gets a status the
\* handlers do not know).
THEOREM TypeCorrect == Spec => []TypeOK
<1>1. Init => TypeOK
  BY BoundAssumption DEF Init, TypeOK, SyncStatus, RowStatus, RunStatus,
                         TaskState, GroupState
<1>2. QED
  BY <1>1, TypeStep, PTL DEF Spec

(***************************************************************************)
(* The inductive invariant                                                 *)
(***************************************************************************)

\* Only a group dispatch has a group task; a run has rows only once it was
\* submitted; a row whose task works exists.
Existing ==
  /\ \A r \in Run \ Group : groupMsg[r] = 0 /\ groupTask[r] = "idle"
  /\ \A r \in Run : runSt[r] = "none" => NoRows(r)
  /\ \A w \in Row : rowTask[w] = "working" => rowSt[w] # "none"

IInv == TypeOK /\ Existing /\ GroupInOnePlace

LEMMA Structure ==
  /\ SyncHost \in [Sync -> Host]
  /\ RowRun \in [Row -> Run]
  /\ RowHost \in [Row -> Host]
  /\ \A r \in Run : \E w \in Row : RowRun[w] = r
  /\ MaxSends \in Nat
BY StructureAssumption, BoundAssumption DEF Rows

\* A release sends a run only if it has no rows, and starts no task.
LEMMA DispatchNextInv ==
  ASSUME IInv, NEW h, NEW ended, DispatchNext(h, ended),
         UNCHANGED groupMsg,
         \A w \in Row : rowTask'[w] = "working" => rowTask[w] = "working",
         \A r \in Run :
           \/ groupTask'[r] = groupTask[r]
           \/ /\ groupTask[r] \in {"closed", "releasing"}
              /\ groupTask'[r] \in {"idle", "releasing"}
  PROVE  Existing' /\ GroupInOnePlace'
<1> DEFINE next == Oldest({ o \in Waiting(h) : RunOf(o) # ended })
<1> USE Structure DEF IInv, TypeOK, Existing, GroupInOnePlace, InOnePlace,
                     NoRows, Rows, Group
<1>1. CASE next = {} /\ UNCHANGED <<syncMsg, rowSt, rowMsg, runSt, runMsg>>
  BY <1>1
<1>2. CASE \E s \in next \cap Sync :
             /\ syncMsg' = [syncMsg EXCEPT ![s] = @ + 1]
             /\ UNCHANGED <<rowSt, rowMsg, runSt, runMsg>>
  BY <1>2
<1>3. CASE \E w \in next \cap Row :
             /\ rowSt' = [rowSt EXCEPT ![w] = "queued"]
             /\ rowMsg' = [rowMsg EXCEPT ![w] = @ + 1]
             /\ UNCHANGED <<syncMsg, runSt, runMsg>>
  <2>1. \A w \in next \cap Row : rowSt[w] = "pending"
    BY StructureAssumption
       DEF Oldest, Waiting, WaitingSyncs, WaitingRuns, WaitingRows
  <2>2. \A w \in Row : rowSt'[w] = "none" <=> rowSt[w] = "none"
    BY <1>3, <2>1
  <2>3. \A r \in Run : NoRows(r)' <=> NoRows(r)
    BY <2>2
  <2>4. QED
    BY <1>3, <2>2, <2>3
<1>4. CASE \E r \in next \cap Run :
             /\ runSt' = [runSt EXCEPT ![r] = "queued"]
             /\ runMsg' = [runMsg EXCEPT ![r] = @ + 1]
             /\ UNCHANGED <<syncMsg, rowSt, rowMsg>>
  <2>1. PICK r \in next \cap Run :
             /\ runSt' = [runSt EXCEPT ![r] = "queued"]
             /\ runMsg' = [runMsg EXCEPT ![r] = @ + 1]
             /\ UNCHANGED <<syncMsg, rowSt, rowMsg>>
    BY <1>4
  <2>2. r \in Run /\ runSt[r] = "pending" /\ NoRows(r)
    BY StructureAssumption
       DEF Oldest, Waiting, WaitingSyncs, WaitingRuns, WaitingRows
  <2>3. QED
    BY <2>1, <2>2
<1>5. QED
  BY <1>1, <1>2, <1>3, <1>4, Zenon DEF DispatchNext

\* What most steps have in common: no group task moves, no row appears, and a
\* run changes its status only in ways that GroupInOnePlace allows.
Quiet ==
  /\ UNCHANGED <<groupMsg, groupTask, runMsg>>
  /\ \A w \in Row : rowSt'[w] = "none" <=> rowSt[w] = "none"
  /\ \A w \in Row : rowTask'[w] = "working" /\ rowTask[w] # "working"
                      => rowSt[w] # "none"
  /\ \A r \in Run :
       \/ runSt'[r] = runSt[r]
       \/ runSt'[r] \in {"ended", "cancelled"} /\ groupTask[r] # "claimed"
       \/ runSt'[r] = "cancelled"
       \/ r \notin Group /\ runSt'[r] # "none"

LEMMA QuietInv == ASSUME IInv, Quiet PROVE Existing' /\ GroupInOnePlace'
<1> USE DEF IInv, TypeOK, Existing, GroupInOnePlace, InOnePlace, Quiet
<1>1. \A r \in Run : NoRows(r)' <=> NoRows(r)
  BY DEF NoRows, Rows
<1>2. Existing'
  BY <1>1 DEF Group
<1>3. GroupInOnePlace'
  BY <1>1 DEF Group
<1>4. QED
  BY <1>2, <1>3

\* A step of one group task leaves the other runs alone.
LEMMA OneRunInv ==
  ASSUME IInv, NEW r \in Run,
         \A q \in Run \ {r} :
           /\ runSt'[q] = runSt[q] /\ runMsg'[q] = runMsg[q]
           /\ groupMsg'[q] = groupMsg[q] /\ groupTask'[q] = groupTask[q]
           /\ \A w \in Row : RowRun[w] = q => rowSt'[w] = rowSt[w],
         \A w \in Row : rowTask'[w] = "working" => rowSt'[w] # "none",
         r \notin Group => groupMsg'[r] = 0 /\ groupTask'[r] = "idle",
         runSt'[r] = "none" => NoRows(r)',
         r \in Group => InOnePlace(r)'
  PROVE  Existing' /\ GroupInOnePlace'
<1> USE DEF IInv, TypeOK, Existing
<1>1. \A q \in Run \ {r} : NoRows(q)' <=> NoRows(q)
  BY DEF NoRows, Rows
<1>2. Existing'
  BY <1>1 DEF Group
<1>3. ASSUME NEW q \in Group \ {r} PROVE InOnePlace(q)'
  <2>1. q \in Run /\ InOnePlace(q)
    BY DEF Group, GroupInOnePlace
  <2>2. QED
    BY <2>1, <1>1, <1>3 DEF InOnePlace, Group
<1>4. QED
  BY <1>2, <1>3 DEF GroupInOnePlace, Group

\* A run that is final in all of its rows has rows.
LEMMA DoneHasRows == \A r \in Run : RowsDone(r) => ~NoRows(r)
BY Structure DEF RowsDone, NoRows, Rows

\* Every step but those of the group tasks and the releases is quiet.
LEMMA InvStep == IInv /\ [Next]_vars => IInv'
<1> SUFFICES ASSUME IInv, [Next]_vars PROVE Existing' /\ GroupInOnePlace'
  BY TypeStep DEF IInv
<1> DEFINE Goal == Existing' /\ GroupInOnePlace'
<1> USE Structure
<1> USE DEF syncVars, rowVars, runVars, groupVars, backVars
<1>1. ASSUME NEW s \in Sync, SubmitSync(s) PROVE Goal
  <2>1. Quiet
    BY <1>1
       DEF Quiet, IInv, TypeOK, Existing, GroupInOnePlace, InOnePlace,
           SubmitSync
  <2>2. QED
    BY <2>1, QuietInv
<1>2. ASSUME NEW s \in Sync, StartSync(s) PROVE Goal
  <2>1. Quiet
    BY <1>2
       DEF Quiet, IInv, TypeOK, Existing, GroupInOnePlace, InOnePlace,
           StartSync
  <2>2. QED
    BY <2>1, QuietInv
<1>3. ASSUME NEW s \in Sync, FinishSync(s) PROVE Goal
  <2>1. Quiet
    BY <1>3
       DEF Quiet, IInv, TypeOK, Existing, GroupInOnePlace, InOnePlace,
           FinishSync
  <2>2. QED
    BY <2>1, QuietInv
<1>4. ASSUME NEW s \in Sync, SweepSync(s) PROVE Goal
  <2>1. Quiet
    BY <1>4
       DEF Quiet, IInv, TypeOK, Existing, GroupInOnePlace, InOnePlace,
           SweepSync
  <2>2. QED
    BY <2>1, QuietInv
<1>5. ASSUME NEW w \in Row, OrchSend(w) PROVE Goal
  <2>1. Quiet
    BY <1>5
       DEF Quiet, IInv, TypeOK, Existing, GroupInOnePlace, InOnePlace, OrchSend
  <2>2. QED
    BY <2>1, QuietInv
<1>6. ASSUME NEW r \in Run, CloseRun(r) PROVE Goal
  <2>1. Quiet
    BY <1>6, DoneHasRows
       DEF Quiet, IInv, TypeOK, Existing, GroupInOnePlace, InOnePlace,
           CloseRun, FinaliseRun
  <2>2. QED
    BY <2>1, QuietInv
<1>7. ASSUME NEW r \in Run, OrchSeesCancel(r) PROVE Goal
  <2>1. Quiet
    BY <1>7
       DEF Quiet, IInv, TypeOK, Existing, GroupInOnePlace, InOnePlace,
           OrchSeesCancel, MoveRows
  <2>2. QED
    BY <2>1, QuietInv
<1>8. ASSUME NEW r \in Run, OrchTimeout(r) PROVE Goal
  <2>1. Quiet
    BY <1>8
       DEF Quiet, IInv, TypeOK, Existing, GroupInOnePlace, InOnePlace,
           OrchTimeout, MoveRows
  <2>2. QED
    BY <2>1, QuietInv
<1>9. ASSUME NEW r \in Run, OrchError(r) PROVE Goal
  <2>1. Quiet
    BY <1>9
       DEF Quiet, IInv, TypeOK, Existing, GroupInOnePlace, InOnePlace,
           OrchError
  <2>2. QED
    BY <2>1, QuietInv
<1>10. ASSUME NEW r \in Run, RequestCancel(r) PROVE Goal
  <2>1. Quiet
    BY <1>10
       DEF Quiet, IInv, TypeOK, Existing, GroupInOnePlace, InOnePlace,
           RequestCancel
  <2>2. QED
    BY <2>1, QuietInv
<1>11. ASSUME NEW r \in Run, CommitCancel(r) PROVE Goal
  <2>1. Quiet
    BY <1>11
       DEF Quiet, IInv, TypeOK, Existing, GroupInOnePlace, InOnePlace,
           CommitCancel, MoveRows
  <2>2. QED
    BY <2>1, QuietInv
<1>12. ASSUME NEW w \in Row, StartRow(w) PROVE Goal
  <2>1. Quiet
    BY <1>12
       DEF Quiet, IInv, TypeOK, Existing, GroupInOnePlace, InOnePlace,
           StartRow, Claimable, DeferParent, ResumeParent, Group
  <2>2. QED
    BY <2>1, QuietInv
<1>13. ASSUME NEW w \in Row, FinishRow(w) PROVE Goal
  <2>1. Quiet
    BY <1>13
       DEF Quiet, IInv, TypeOK, Existing, GroupInOnePlace, InOnePlace,
           FinishRow
  <2>2. QED
    BY <2>1, QuietInv
<1>14. ASSUME NEW w \in Row, NEW s \in Sync, QueuePostRunSync(w, s) PROVE Goal
  <2>1. Quiet
    BY <1>14
       DEF Quiet, IInv, TypeOK, Existing, GroupInOnePlace, InOnePlace,
           QueuePostRunSync
  <2>2. QED
    BY <2>1, QuietInv
<1>15. ASSUME NEW w \in Row, CloseParent(w) PROVE Goal
  <2>1. Quiet
    BY <1>15, DoneHasRows
       DEF Quiet, IInv, TypeOK, Existing, GroupInOnePlace, InOnePlace,
           CloseParent, FinaliseRun
  <2>2. QED
    BY <2>1, QuietInv
<1>16. ASSUME NEW w \in Row, SweepRow(w) PROVE Goal
  <2>1. Quiet
    BY <1>16
       DEF Quiet, IInv, TypeOK, Existing, GroupInOnePlace, InOnePlace, SweepRow
  <2>2. QED
    BY <2>1, QuietInv
<1>17. ASSUME NEW r \in Run, NEW s \in Sync, QueueGroupSync(r, s) PROVE Goal
  <2>1. Quiet
    BY <1>17
       DEF Quiet, IInv, TypeOK, Existing, GroupInOnePlace, InOnePlace,
           QueueGroupSync
  <2>2. QED
    BY <2>1, QuietInv
<1>18. ASSUME NEW b \in Rollback, StartRollback(b) PROVE Goal
  <2>1. Quiet
    BY <1>18
       DEF Quiet, IInv, TypeOK, Existing, GroupInOnePlace, InOnePlace,
           StartRollback
  <2>2. QED
    BY <2>1, QuietInv
<1>19. ASSUME NEW b \in Rollback, FinishRollback(b) PROVE Goal
  <2>1. Quiet
    BY <1>19
       DEF Quiet, IInv, TypeOK, Existing, GroupInOnePlace, InOnePlace,
           FinishRollback
  <2>2. QED
    BY <2>1, QuietInv
<1>20. ASSUME NEW r \in Run, SweepRun(r) PROVE Goal
  <2>1. Quiet
    BY <1>20
       DEF Quiet, IInv, TypeOK, Existing, GroupInOnePlace, InOnePlace,
           SweepRun, MoveRows
  <2>2. QED
    BY <2>1, QuietInv
<1>21. ASSUME NEW r \in Run, SweepOrphan(r) PROVE Goal
  <2>1. Quiet
    BY <1>21
       DEF Quiet, IInv, TypeOK, Existing, GroupInOnePlace, InOnePlace,
           InOnePlace, SweepOrphan
  <2>2. QED
    BY <2>1, QuietInv
<1>22. ASSUME NEW s \in Sync, ReleaseSync(s) PROVE Goal
  BY <1>22, DispatchNextInv DEF ReleaseSync
<1>23. ASSUME NEW w \in Row, ReleaseRow(w) PROVE Goal
  BY <1>23, DispatchNextInv DEF ReleaseRow, IInv, TypeOK
<1>24. ASSUME NEW b \in Rollback, ReleaseRollback(b) PROVE Goal
  BY <1>24, DispatchNextInv DEF ReleaseRollback
<1>25. ASSUME NEW r \in Run, NEW h \in Host, SweepRelease(r, h) PROVE Goal
  BY <1>25, DispatchNextInv DEF SweepRelease
<1>26. ASSUME NEW r \in Run, SubmitRun(r) PROVE Goal
  BY <1>26
     DEF IInv, TypeOK, Existing, GroupInOnePlace, InOnePlace, NoRows, Rows,
         Group, SubmitRun
<1>27. ASSUME NEW r \in Run, RunAction(r) PROVE Goal
  <2> USE DEF IInv, TypeOK, Existing, RunAction, MoveRows
  <2>1. \A q \in Run \ {r} :
          /\ runSt'[q] = runSt[q] /\ runMsg'[q] = runMsg[q]
          /\ groupMsg'[q] = groupMsg[q] /\ groupTask'[q] = groupTask[q]
          /\ \A w \in Row : RowRun[w] = q => rowSt'[w] = rowSt[w]
    BY <1>27 DEF Rows
  <2>2. \A w \in Row : rowTask'[w] = "working" => rowSt'[w] # "none"
    BY <1>27
  <2>3. r \notin Group => groupMsg'[r] = 0 /\ groupTask'[r] = "idle"
    BY <1>27
  <2>4. runSt'[r] = "none" => NoRows(r)'
    BY <1>27 DEF GroupInOnePlace, InOnePlace, NoRows, Rows
  <2>5. r \in Group => InOnePlace(r)'
    BY <1>27 DEF GroupInOnePlace, InOnePlace, NoRows, Rows, Group
  <2>6. QED
    BY <2>1, <2>2, <2>3, <2>4, <2>5, OneRunInv
<1>28. ASSUME NEW r \in Run, StartGroup(r) PROVE Goal
  BY <1>28
     DEF IInv, TypeOK, Existing, GroupInOnePlace, InOnePlace, NoRows, Rows,
         Group, StartGroup
<1>29. ASSUME NEW r \in Run, ClaimGroup(r) PROVE Goal
  <2> USE DEF IInv, TypeOK, Existing, ClaimGroup
  <2>1. \A q \in Run \ {r} :
          /\ runSt'[q] = runSt[q] /\ runMsg'[q] = runMsg[q]
          /\ groupMsg'[q] = groupMsg[q] /\ groupTask'[q] = groupTask[q]
          /\ \A w \in Row : RowRun[w] = q => rowSt'[w] = rowSt[w]
    BY <1>29
  <2>2. \A w \in Row : rowTask'[w] = "working" => rowSt'[w] # "none"
    BY <1>29
  <2>3. r \in Group /\ NoRows(r)
    BY <1>29 DEF GroupInOnePlace, InOnePlace, Group
  <2>4. NoRows(r)'
    BY <1>29, <2>3 DEF NoRows
  <2>5. runMsg[r] + groupMsg[r] <= 0
    BY <1>29, <2>3 DEF GroupInOnePlace, InOnePlace
  <2>6. InOnePlace(r)'
    <3>1. runMsg'[r] = 0 /\ groupMsg'[r] = 0
      <4>1. runMsg[r] \in Nat /\ groupMsg[r] \in Nat
        BY <1>29
      <4>2. runMsg' = runMsg /\ groupMsg' = groupMsg
        BY <1>29 DEF groupVars
      <4> HIDE DEF IInv, TypeOK, Existing, ClaimGroup
      <4>3. QED
        BY <4>1, <4>2, <2>5
    <3>2. \/ runSt'[r] = "pending" /\ groupTask'[r] = "idle"
          \/ runSt'[r] = "running" /\ groupTask'[r] = "claimed"
      BY <1>29
    <3> HIDE DEF IInv, TypeOK, Existing, ClaimGroup
    <3>3. QED
      BY <2>4, <3>1, <3>2 DEF InOnePlace
  <2>7. QED
    BY <2>1, <2>2, <2>3, <2>4, <2>6, OneRunInv
<1>30. ASSUME NEW r \in Run, LoadGroup(r) PROVE Goal
  <2> USE DEF IInv, TypeOK, Existing, LoadGroup, Abandoned
  <2>1. \A q \in Run \ {r} :
          /\ runSt'[q] = runSt[q] /\ runMsg'[q] = runMsg[q]
          /\ groupMsg'[q] = groupMsg[q] /\ groupTask'[q] = groupTask[q]
          /\ \A w \in Row : RowRun[w] = q => rowSt'[w] = rowSt[w]
    BY <1>30 DEF Rows
  <2>2. \A w \in Row : rowTask'[w] = "working" => rowSt'[w] # "none"
    BY <1>30
  <2>3. r \notin Group => groupMsg'[r] = 0 /\ groupTask'[r] = "idle"
    BY <1>30
  <2>4. runSt'[r] = "none" => NoRows(r)'
    BY <1>30 DEF GroupInOnePlace, InOnePlace, NoRows, Rows
  <2>5. r \in Group /\ runSt'[r] \in {"running", "cancelled"}
    BY <1>30 DEF Group
  <2>6. runMsg[r] + groupMsg[r] <= 0
    BY <1>30, <2>5 DEF GroupInOnePlace, InOnePlace
  <2>7. InOnePlace(r)'
    <3>1. groupTask'[r] \in {"releasing", "working"}
      BY <1>30
    <3>2. runMsg'[r] = 0 /\ groupMsg'[r] = 0
      <4>1. runMsg[r] \in Nat /\ groupMsg[r] \in Nat
        BY <1>30
      <4>2. runMsg' = runMsg /\ groupMsg' = groupMsg
        BY <1>30 DEF groupVars
      <4> HIDE DEF IInv, TypeOK, Existing, LoadGroup, Abandoned
      <4>3. QED
        BY <4>1, <4>2, <2>6
    <3> HIDE DEF IInv, TypeOK, Existing, LoadGroup, Abandoned
    <3>3. QED
      BY <2>5, <3>1, <3>2 DEF InOnePlace
  <2>8. QED
    BY <2>1, <2>2, <2>3, <2>4, <2>7, OneRunInv
<1>31. ASSUME NEW r \in Run, FinishGroup(r) PROVE Goal
  <2> USE DEF IInv, TypeOK, Existing, FinishGroup, MoveRows
  <2>1. \A q \in Run \ {r} :
          /\ runSt'[q] = runSt[q] /\ runMsg'[q] = runMsg[q]
          /\ groupMsg'[q] = groupMsg[q] /\ groupTask'[q] = groupTask[q]
          /\ \A w \in Row : RowRun[w] = q => rowSt'[w] = rowSt[w]
    BY <1>31 DEF Rows
  <2>2. \A w \in Row : rowTask'[w] = "working" => rowSt'[w] # "none"
    BY <1>31
  <2>3. r \notin Group => groupMsg'[r] = 0 /\ groupTask'[r] = "idle"
    BY <1>31
  <2>4. runSt'[r] = "none" => NoRows(r)'
    BY <1>31 DEF GroupInOnePlace, InOnePlace, NoRows, Rows
  <2>5. r \in Group => InOnePlace(r)'
    <3>1. groupTask[r] = "working" /\ groupTask'[r] = "closing"
      BY <1>31
    <3>2. runSt'[r] = runSt[r] /\ runMsg'[r] = runMsg[r]
          /\ groupMsg'[r] = groupMsg[r]
      BY <1>31
    <3>3. r \in Group => /\ runSt[r] \notin {"none", "pending"}
                        /\ runMsg[r] + groupMsg[r] <= 0
      BY <1>31, <3>1 DEF GroupInOnePlace, InOnePlace
    <3>4. runMsg[r] \in Nat /\ groupMsg[r] \in Nat
      BY <1>31
    <3> HIDE DEF IInv, TypeOK, Existing, FinishGroup, MoveRows
    <3>5. QED
      BY <3>1, <3>2, <3>3, <3>4 DEF InOnePlace
  <2>6. QED
    BY <2>1, <2>2, <2>3, <2>4, <2>5, OneRunInv
<1>32. ASSUME NEW r \in Run, CloseGroup(r) PROVE Goal
  BY <1>32
     DEF IInv, TypeOK, Existing, GroupInOnePlace, InOnePlace, NoRows, Rows,
         Group, CloseGroup
<1>33. ASSUME NEW r \in Run, FailGroup(r) PROVE Goal
  <2> USE DEF IInv, TypeOK, Existing, FailGroup, MoveRows
  <2>1. \A q \in Run \ {r} :
          /\ runSt'[q] = runSt[q] /\ runMsg'[q] = runMsg[q]
          /\ groupMsg'[q] = groupMsg[q] /\ groupTask'[q] = groupTask[q]
          /\ \A w \in Row : RowRun[w] = q => rowSt'[w] = rowSt[w]
    BY <1>33 DEF Rows
  <2>2. \A w \in Row : rowTask'[w] = "working" => rowSt'[w] # "none"
    BY <1>33
  <2>3. r \notin Group => groupMsg'[r] = 0 /\ groupTask'[r] = "idle"
    BY <1>33
  <2>4. runSt'[r] = "none" => NoRows(r)'
    BY <1>33 DEF GroupInOnePlace, InOnePlace, NoRows, Rows
  <2>5. r \in Group => InOnePlace(r)'
    BY <1>33 DEF GroupInOnePlace, InOnePlace, NoRows, Rows, Group
  <2>6. QED
    BY <2>1, <2>2, <2>3, <2>4, <2>5, OneRunInv
<1>34. ASSUME NEW r \in Run, NEW h \in Host, ReleaseGroup(r, h) PROVE Goal
  BY <1>34, DispatchNextInv DEF ReleaseGroup, IInv, TypeOK
<1>35. ASSUME WorkerDies PROVE Goal
  BY <1>35
     DEF IInv, TypeOK, Existing, GroupInOnePlace, InOnePlace, NoRows, Rows,
         Group, WorkerDies
<1>36. ASSUME LateDeath PROVE Goal
  BY <1>36
     DEF IInv, TypeOK, Existing, GroupInOnePlace, InOnePlace, NoRows, Rows,
         Group, LateDeath
<1>37. ASSUME LoseMessage PROVE Goal
  <2> USE DEF IInv, TypeOK, Existing
  <2>1. \A r \in Run : runMsg'[r] \in 0..runMsg[r]
    BY <1>37 DEF LoseMessage
  <2>2. \A r \in Run : groupMsg'[r] \in 0..groupMsg[r]
    BY <1>37 DEF LoseMessage
  <2>3. UNCHANGED <<runSt, rowSt, rowTask, groupTask>>
    BY <1>37 DEF LoseMessage
  <2>4. Existing'
    BY <2>2, <2>3 DEF Group, NoRows
  <2>5. ASSUME NEW r \in Group PROVE InOnePlace(r)'
    <3>1. r \in Run /\ InOnePlace(r)
      BY DEF Group, GroupInOnePlace
    <3>2. QED
      BY <3>1, <2>1, <2>2, <2>3 DEF InOnePlace, NoRows
  <2>6. QED
    BY <2>4, <2>5 DEF GroupInOnePlace
<1>38. CASE UNCHANGED vars
  BY <1>38 DEF vars, IInv, Existing, GroupInOnePlace, InOnePlace, NoRows
<1>39. QED
  BY <1>1, <1>2, <1>3, <1>4, <1>5, <1>6, <1>7, <1>8, <1>9, <1>10, <1>11,
     <1>12, <1>13, <1>14, <1>15, <1>16, <1>17, <1>18, <1>19, <1>20, <1>21,
     <1>22, <1>23, <1>24, <1>25, <1>26, <1>27, <1>28, <1>29, <1>30, <1>31,
     <1>32, <1>33, <1>34, <1>35, <1>36, <1>37, <1>38, Zenon
     DEF Next, Submit, Cancel, Fault, SyncStep, RowStep, GroupStep, RunStep,
         RollbackStep

LEMMA InvInit == Init => IInv
<1> SUFFICES ASSUME Init PROVE IInv
  OBVIOUS
<1>1. TypeOK
  BY BoundAssumption DEF Init, TypeOK, SyncStatus, RowStatus, RunStatus,
                         TaskState, GroupState
<1>2. Existing
  BY Structure DEF Init, Existing, Group, NoRows, Rows
<1>3. GroupInOnePlace
  BY Structure DEF Init, GroupInOnePlace, InOnePlace, Group, NoRows, Rows
<1>4. QED
  BY <1>1, <1>2, <1>3 DEF IInv

LEMMA Invariance == Spec => []IInv
BY InvInit, InvStep, PTL DEF Spec

\* However often hosts are released to it, however late it is cancelled and
\* whatever the sweepers do, a group dispatch is claimed and loaded once.
THEOREM GroupDispatchedOnce == Spec => []GroupInOnePlace
<1>1. IInv => GroupInOnePlace
  BY DEF IInv
<1>2. QED
  BY <1>1, Invariance, PTL

(***************************************************************************)
(* Mutual exclusion                                                        *)
(***************************************************************************)

\* The five scans of check_host_busy see every holder.
LEMMA NotBusyFree ==
  ASSUME NEW h \in Host, ~Busy(h, {}) PROVE Holders(h) = {}
<1>1. \A b \in Rollback : ~(RollbackHost[b] = h /\ backSt[b] = "running")
  BY DEF Busy, RollbackHolds
<1>2. \A s \in Sync : ~(SyncHost[s] = h /\ syncSt[s] = "running")
  BY DEF Busy, SyncHolds
<1>3. \A w \in Row : ~(RowHost[w] = h /\ rowSt[w] = "running"
                         /\ runSt[RowRun[w]] = "running")
  BY DEF Busy, RowHolds
<1>4. \A r \in Run : ~(Kind[r] # "host" /\ h \in Members(r)
                         /\ runSt[r] = "running" /\ NoRows(r))
  BY DEF Busy, ClaimedGroupHolds
<1>5. QED
  BY <1>1, <1>2, <1>3, <1>4 DEF Holders

\* Excluding a run, they see every holder but those of that run.
LEMMA NotBusyOwn ==
  ASSUME NEW h \in Host, NEW r \in Run, ~Busy(h, {r})
  PROVE  \A o \in Holders(h) : o = r \/ (o \in Row /\ RowRun[o] = r)
<1>1. \A b \in Rollback : ~(RollbackHost[b] = h /\ backSt[b] = "running")
  BY DEF Busy, RollbackHolds
<1>2. \A s \in Sync : ~(SyncHost[s] = h /\ syncSt[s] = "running")
  BY DEF Busy, SyncHolds
<1>3. \A w \in Row : ~(RowHost[w] = h /\ rowSt[w] = "running" /\ RowRun[w] # r
                         /\ runSt[RowRun[w]] = "running")
  BY DEF Busy, RowHolds
<1>4. \A q \in Run \ {r} : ~(Kind[q] # "host" /\ h \in Members(q)
                               /\ runSt[q] = "running" /\ NoRows(q))
  BY DEF Busy, ClaimedGroupHolds
<1>5. QED
  BY <1>1, <1>2, <1>3, <1>4 DEF Holders

\* What a step does that makes no operation a holder.
NoNewHolder ==
  /\ \A b \in Rollback : backSt'[b] = "running" => backSt[b] = "running"
  /\ \A s \in Sync : syncSt'[s] = "running" => syncSt[s] = "running"
  /\ \A w \in Row : /\ rowSt'[w] = "running" => rowSt[w] = "running"
                    /\ rowSt'[w] = "none" => rowSt[w] = "none"
  /\ \A r \in Run : runSt'[r] = "running" => runSt[r] = "running"

\* What a step does that takes no holder a host did not have before.
Shrinks == \A h \in Host : Holders(h)' \subseteq Holders(h)

LEMMA NoNewHolderShrinks == NoNewHolder => Shrinks
<1> SUFFICES ASSUME NoNewHolder PROVE Shrinks
  OBVIOUS
<1>1. \A r \in Run : NoRows(r)' => NoRows(r)
  BY DEF NoNewHolder, NoRows, Rows
<1>2. QED
  BY <1>1, Structure DEF NoNewHolder, Holders, Members, Rows, Shrinks

\* A release sends an operation and makes none a holder.
LEMMA DispatchNextShrinks ==
  ASSUME TypeOK, NEW h, NEW ended, DispatchNext(h, ended),
         UNCHANGED <<syncSt, backSt>>
  PROVE  Shrinks
<1> DEFINE next == Oldest({ o \in Waiting(h) : RunOf(o) # ended })
<1>1. CASE UNCHANGED <<rowSt, runSt>>
  BY <1>1, NoNewHolderShrinks DEF NoNewHolder
<1>2. CASE \E w \in next \cap Row :
             rowSt' = [rowSt EXCEPT ![w] = "queued"] /\ UNCHANGED runSt
  BY <1>2, NoNewHolderShrinks DEF NoNewHolder, TypeOK
<1>3. CASE \E r \in next \cap Run :
             runSt' = [runSt EXCEPT ![r] = "queued"] /\ UNCHANGED rowSt
  BY <1>3, NoNewHolderShrinks DEF NoNewHolder, TypeOK
<1>4. QED
  BY <1>1, <1>2, <1>3 DEF DispatchNext

\* Only the four claims, and the load that passes each member of a group
\* dispatch on to its row, make an operation a holder.
LEMMA OnlyClaimsGrow ==
  ASSUME TypeOK, [Next]_vars
  PROVE  \/ Shrinks
         \/ \E s \in Sync : StartSync(s)
         \/ \E w \in Row : StartRow(w)
         \/ \E r \in Run : ClaimGroup(r) \/ LoadGroup(r)
         \/ \E b \in Rollback : StartRollback(b)
<1> USE Structure
<1> USE DEF syncVars, rowVars, runVars, groupVars, backVars
<1>1. ASSUME NEW s \in Sync, SubmitSync(s) PROVE Shrinks
  BY <1>1, NoNewHolderShrinks DEF NoNewHolder, TypeOK, SubmitSync
<1>2. ASSUME NEW s \in Sync, FinishSync(s) PROVE Shrinks
  BY <1>2, NoNewHolderShrinks DEF NoNewHolder, TypeOK, FinishSync
<1>3. ASSUME NEW s \in Sync, SweepSync(s) PROVE Shrinks
  BY <1>3, NoNewHolderShrinks DEF NoNewHolder, TypeOK, SweepSync
<1>4. ASSUME NEW r \in Run, SubmitRun(r) PROVE Shrinks
  BY <1>4, NoNewHolderShrinks DEF NoNewHolder, TypeOK, SubmitRun
<1>5. ASSUME NEW w \in Row, OrchSend(w) PROVE Shrinks
  BY <1>5, NoNewHolderShrinks DEF NoNewHolder, TypeOK, OrchSend
<1>6. ASSUME NEW r \in Run, CloseRun(r) PROVE Shrinks
  BY <1>6, NoNewHolderShrinks DEF NoNewHolder, TypeOK, CloseRun,
     FinaliseRun
<1>7. ASSUME NEW r \in Run, OrchSeesCancel(r) PROVE Shrinks
  BY <1>7, NoNewHolderShrinks DEF NoNewHolder, TypeOK,
     OrchSeesCancel, MoveRows
<1>8. ASSUME NEW r \in Run, OrchTimeout(r) PROVE Shrinks
  BY <1>8, NoNewHolderShrinks DEF NoNewHolder, TypeOK, OrchTimeout,
     MoveRows
<1>9. ASSUME NEW r \in Run, OrchError(r) PROVE Shrinks
  BY <1>9, NoNewHolderShrinks DEF NoNewHolder, TypeOK, OrchError
<1>10. ASSUME NEW r \in Run, RequestCancel(r) PROVE Shrinks
  BY <1>10, NoNewHolderShrinks DEF NoNewHolder, TypeOK, RequestCancel
<1>11. ASSUME NEW r \in Run, CommitCancel(r) PROVE Shrinks
  BY <1>11, NoNewHolderShrinks DEF NoNewHolder, TypeOK, CommitCancel,
     MoveRows
<1>12. ASSUME NEW w \in Row, FinishRow(w) PROVE Shrinks
  BY <1>12, NoNewHolderShrinks DEF NoNewHolder, TypeOK, FinishRow
<1>13. ASSUME NEW w \in Row, NEW s \in Sync, QueuePostRunSync(w, s)
      PROVE  Shrinks
  BY <1>13, NoNewHolderShrinks DEF NoNewHolder, TypeOK,
     QueuePostRunSync
<1>14. ASSUME NEW w \in Row, CloseParent(w) PROVE Shrinks
  BY <1>14, NoNewHolderShrinks DEF NoNewHolder, TypeOK, CloseParent,
     FinaliseRun
<1>15. ASSUME NEW w \in Row, SweepRow(w) PROVE Shrinks
  BY <1>15, NoNewHolderShrinks DEF NoNewHolder, TypeOK, SweepRow
<1>16. ASSUME NEW r \in Run, StartGroup(r) PROVE Shrinks
  BY <1>16, NoNewHolderShrinks DEF NoNewHolder, TypeOK, StartGroup
<1>17. ASSUME NEW r \in Run, FinishGroup(r) PROVE Shrinks
  BY <1>17, NoNewHolderShrinks DEF NoNewHolder, TypeOK, FinishGroup,
     MoveRows
<1>18. ASSUME NEW r \in Run, CloseGroup(r) PROVE Shrinks
  BY <1>18, NoNewHolderShrinks DEF NoNewHolder, TypeOK, CloseGroup
<1>19. ASSUME NEW r \in Run, NEW s \in Sync, QueueGroupSync(r, s)
      PROVE  Shrinks
  BY <1>19, NoNewHolderShrinks DEF NoNewHolder, TypeOK,
     QueueGroupSync
<1>20. ASSUME NEW r \in Run, FailGroup(r) PROVE Shrinks
  BY <1>20, NoNewHolderShrinks DEF NoNewHolder, TypeOK, FailGroup,
     MoveRows
<1>21. ASSUME NEW b \in Rollback, FinishRollback(b) PROVE Shrinks
  BY <1>21, NoNewHolderShrinks DEF NoNewHolder, TypeOK,
     FinishRollback
<1>22. ASSUME NEW r \in Run, SweepRun(r) PROVE Shrinks
  BY <1>22, NoNewHolderShrinks DEF NoNewHolder, TypeOK, SweepRun,
     MoveRows
<1>23. ASSUME NEW r \in Run, SweepOrphan(r) PROVE Shrinks
  BY <1>23, NoNewHolderShrinks DEF NoNewHolder, TypeOK, SweepOrphan
<1>24. ASSUME WorkerDies PROVE Shrinks
  BY <1>24, NoNewHolderShrinks DEF NoNewHolder, TypeOK, WorkerDies
<1>25. ASSUME LateDeath PROVE Shrinks
  BY <1>25, NoNewHolderShrinks DEF NoNewHolder, TypeOK, LateDeath
<1>26. ASSUME LoseMessage PROVE Shrinks
  BY <1>26, NoNewHolderShrinks DEF NoNewHolder, TypeOK, LoseMessage
<1>27. ASSUME NEW s \in Sync, ReleaseSync(s) PROVE Shrinks
  BY <1>27, DispatchNextShrinks DEF ReleaseSync
<1>28. ASSUME NEW w \in Row, ReleaseRow(w) PROVE Shrinks
  BY <1>28, DispatchNextShrinks DEF ReleaseRow
<1>29. ASSUME NEW r \in Run, NEW h \in Host, ReleaseGroup(r, h)
      PROVE  Shrinks
  BY <1>29, DispatchNextShrinks DEF ReleaseGroup
<1>30. ASSUME NEW b \in Rollback, ReleaseRollback(b) PROVE Shrinks
  BY <1>30, DispatchNextShrinks DEF ReleaseRollback
<1>31. ASSUME NEW r \in Run, NEW h \in Host, SweepRelease(r, h)
      PROVE  Shrinks
  BY <1>31, DispatchNextShrinks DEF SweepRelease
<1>32. ASSUME NEW r \in Run, RunAction(r) PROVE Shrinks
  <2> USE DEF TypeOK
  <2>1. CASE UNCHANGED <<runSt, rowSt>>
    BY <1>32, <2>1, NoNewHolderShrinks DEF NoNewHolder, RunAction
  <2>2. CASE /\ runSt[r] = "queued"
             /\ runSt' = [runSt EXCEPT ![r] = "running"]
             /\ rowSt' = MoveRows(r, RowStatus, "queued")
    <3>1. \A w \in Row :
            rowSt'[w] = IF RowRun[w] = r THEN "queued" ELSE rowSt[w]
      BY <2>2 DEF MoveRows
    <3>2. ~NoRows(r)'
      BY <3>1 DEF NoRows, Rows
    <3>3. \A q \in Run : q # r => runSt'[q] = runSt[q]
      BY <2>2
    <3>4. UNCHANGED <<backSt, syncSt>>
      BY <1>32 DEF RunAction
    <3>5. \A w \in Row :
            rowSt'[w] = "running" /\ runSt'[RowRun[w]] = "running"
              => rowSt[w] = "running" /\ runSt[RowRun[w]] = "running"
      BY <3>1, <3>3
    <3>6. \A q \in Run : NoRows(q)' => q # r /\ NoRows(q)
      BY <3>1, <3>2 DEF NoRows, Rows
    <3>7. QED
      BY <3>3, <3>4, <3>5, <3>6 DEF Holders, Members, Rows, Shrinks
  <2>3. QED
    BY <1>32, <2>1, <2>2 DEF RunAction
<1>33. CASE UNCHANGED vars
  BY <1>33, NoNewHolderShrinks DEF vars, NoNewHolder
<1>34. QED
  BY <1>1, <1>2, <1>3, <1>4, <1>5, <1>6, <1>7, <1>8, <1>9, <1>10, <1>11,
     <1>12, <1>13, <1>14, <1>15, <1>16, <1>17, <1>18, <1>19, <1>20, <1>21,
     <1>22, <1>23, <1>24, <1>25, <1>26, <1>27, <1>28, <1>29, <1>30, <1>31,
     <1>32, <1>33, Zenon
     DEF Next, Submit, Cancel, Fault, SyncStep, RowStep, GroupStep, RunStep,
         RollbackStep

\* What a claim does: the hosts H, held by nobody, are held by o.
Gains(H, o) ==
  /\ \A h \in H : Holders(h) = {}
  /\ \A h \in Host : Holders(h)' = IF h \in H THEN {o} ELSE Holders(h)

LEMMA SyncClaims ==
  ASSUME TypeOK, NEW s \in Sync, StartSync(s)
  PROVE  Shrinks \/ Gains({SyncHost[s]}, s)
<1> USE Structure DEF syncVars, rowVars, runVars, groupVars, backVars
<1>1. CASE UNCHANGED syncSt
  BY <1>1, NoNewHolderShrinks DEF NoNewHolder, StartSync
<1>2. CASE /\ ~Busy(SyncHost[s], {})
           /\ syncSt' = [syncSt EXCEPT ![s] = "running"]
  <2>1. Holders(SyncHost[s]) = {}
    BY <1>2, NotBusyFree
  <2>2. \A h \in Host : Holders(h)' =
          IF h = SyncHost[s] THEN {s} ELSE Holders(h)
    BY <1>2, <2>1 DEF StartSync, Holders, NoRows, TypeOK
  <2>3. QED
    BY <2>1, <2>2 DEF Gains
<1>3. QED
  BY <1>1, <1>2 DEF StartSync

LEMMA RollbackClaims ==
  ASSUME TypeOK, NEW b \in Rollback, StartRollback(b)
  PROVE  Gains({RollbackHost[b]}, b)
<1> USE DEF syncVars, rowVars, runVars, groupVars, backVars
<1>1. RollbackHost[b] \in Host
  BY StructureAssumption
<1>2. Holders(RollbackHost[b]) = {}
  BY <1>1, NotBusyFree DEF StartRollback
<1>3. \A h \in Host : Holders(h)' =
        IF h = RollbackHost[b] THEN {b} ELSE Holders(h)
  BY <1>2 DEF StartRollback, Holders, NoRows, TypeOK
<1>4. QED
  BY <1>2, <1>3 DEF Gains

\* A row gains its host unless its run was closed meanwhile: then it works
\* without holding anything.
LEMMA RowClaims ==
  ASSUME TypeOK, NEW w \in Row, StartRow(w)
  PROVE  \/ Shrinks
         \/ rowSt[w] = "queued" /\ Gains({RowHost[w]}, w)
<1> USE Structure DEF syncVars, rowVars, runVars, groupVars, backVars
<1> DEFINE r == RowRun[w]
<1>1. CASE /\ rowSt'[w] # "running"
           /\ \A v \in Row \ {w} : rowSt'[v] = rowSt[v]
           /\ \A q \in Run : runSt'[q] = "running" => runSt[q] = "running"
           /\ rowSt'[w] = "none" => rowSt[w] = "none"
  BY <1>1, NoNewHolderShrinks DEF NoNewHolder, StartRow
<1>2. CASE /\ Claimable(w)
           /\ ~Busy(RowHost[w], {r})
           /\ rowSt' = [rowSt EXCEPT ![w] = "running"]
           /\ ResumeParent(r)
  <2>1. \A o \in Holders(RowHost[w]) : o = r \/ (o \in Row /\ RowRun[o] = r)
    BY <1>2, NotBusyOwn
  <2>2. \A v \in Row : RowRun[v] = r /\ RowHost[v] = RowHost[w] => v = w
    BY StructureAssumption
  <2>3. Holders(RowHost[w]) = {}
    BY <1>2, <2>1, <2>2, StructureAssumption
       DEF Holders, Claimable, NoRows, Rows
  <2>4. \A v \in Row : RowRun[v] = r /\ Kind[r] = "host" => v = w
    BY StructureAssumption DEF Rows
  <2>5. \A v \in Row \ {w} :
          rowSt'[v] = "running" /\ runSt'[RowRun[v]] = "running"
            <=> rowSt[v] = "running" /\ runSt[RowRun[v]] = "running"
    BY <1>2, <2>4 DEF ResumeParent, TypeOK
  <2>6. \A q \in Run : /\ Kind[q] # "host" => runSt'[q] = runSt[q]
                       /\ NoRows(q)' <=> NoRows(q)
    BY <1>2 DEF ResumeParent, Claimable, NoRows, Rows, TypeOK
  <2>7. UNCHANGED <<backSt, syncSt>>
    BY DEF StartRow
  <2>8. rowSt'[w] = "running" /\ rowSt[w] = "queued"
    BY <1>2 DEF Claimable, TypeOK
  <2>9. \A h \in Host : Holders(h)' =
          IF h = RowHost[w] /\ runSt'[r] = "running"
          THEN Holders(h) \cup {w} ELSE Holders(h)
    BY <2>5, <2>6, <2>7, <2>8 DEF Holders, Members, Rows
  <2>10. CASE runSt'[r] = "running"
    BY <2>3, <2>8, <2>9, <2>10 DEF Gains
  <2>11. CASE runSt'[r] # "running"
    BY <2>9, <2>11 DEF Shrinks
  <2>12. QED
    BY <2>10, <2>11
<1>3. CASE UNCHANGED <<rowSt, runSt>>
  BY <1>3, NoNewHolderShrinks DEF NoNewHolder, StartRow
<1>4. QED
  BY <1>1, <1>2, <1>3 DEF StartRow, DeferParent, TypeOK

LEMMA GroupClaims ==
  ASSUME IInv, NEW r \in Run, ClaimGroup(r)
  PROVE  Shrinks \/ Gains(Members(r), r)
<1> USE Structure DEF IInv, TypeOK, syncVars, rowVars, runVars, groupVars,
                      backVars
<1>1. UNCHANGED <<syncSt, backSt, rowSt>>
  BY DEF ClaimGroup
<1>2. CASE \E h \in Members(r) : Busy(h, {})
  <2>1. runSt' = [runSt EXCEPT ![r] = "pending"]
    BY <1>2 DEF ClaimGroup
  <2>2. QED
    BY <1>1, <2>1, NoNewHolderShrinks DEF NoNewHolder
<1>3. CASE ~\E h \in Members(r) : Busy(h, {})
  <2>1. \A h \in Members(r) : h \in Host /\ Holders(h) = {}
    BY <1>3, NotBusyFree DEF Members, Rows
  <2>2. \A q \in Run : NoRows(q)' <=> NoRows(q)
    BY <1>1 DEF NoRows
  <2>3. r \in Group /\ NoRows(r)
    BY DEF GroupInOnePlace, InOnePlace, Existing, ClaimGroup, Group
  <2>4. \A w \in Row : RowRun[w] = r => rowSt[w] = "none"
    BY <2>3 DEF NoRows, Rows
  <2>5. runSt'[r] = "running" /\ \A q \in Run \ {r} : runSt'[q] = runSt[q]
    BY <1>3 DEF ClaimGroup
  <2>6. \A w \in Row : rowSt'[w] = "running" /\ runSt'[RowRun[w]] = "running"
                       <=> rowSt[w] = "running" /\ runSt[RowRun[w]] = "running"
    BY <1>1, <2>4, <2>5
  <2>7. \A h \in Host : Holders(h)' =
          IF h \in Members(r) THEN Holders(h) \cup {r} ELSE Holders(h)
    BY <1>1, <2>2, <2>3, <2>5, <2>6 DEF Holders, Members, Rows, Group
  <2>8. QED
    BY <2>1, <2>7 DEF Gains
<1>4. QED
  BY <1>2, <1>3

\* The load: each member, held by the run, is held by its row from then on, or
\* by nobody when the row is skipped.
PassesOn(r) ==
  \A h \in Host :
    /\ h \in Members(r) => Holders(h) = {r}
    /\ Holders(h)' \subseteq IF h \in Members(r)
                             THEN { w \in Rows(r) : RowHost[w] = h }
                             ELSE Holders(h)

LEMMA LoadPassesOn ==
  ASSUME IInv, Exclusive, NEW r \in Run, LoadGroup(r)
  PROVE  Shrinks \/ PassesOn(r)
<1> USE Structure DEF IInv, TypeOK, syncVars, rowVars, runVars, groupVars,
                      backVars
<1>1. UNCHANGED <<syncSt, backSt>>
  BY DEF LoadGroup
<1>2. CASE Abandoned(r)
  BY <1>2, NoNewHolderShrinks DEF NoNewHolder, LoadGroup, Abandoned
<1>3. CASE ~Abandoned(r)
  <2>1. r \in Group /\ NoRows(r) /\ runSt[r] = "running"
    BY <1>3 DEF GroupInOnePlace, InOnePlace, Existing, LoadGroup, Abandoned,
                Group
  <2>2. \A h \in Host : h \in Members(r) => Holders(h) = {r}
    BY <2>1 DEF Exclusive, Holders, Group
  <2>3. runSt' = runSt
    BY <1>3, <2>1 DEF LoadGroup
  <2>4. \A w \in Row : RowRun[w] # r => rowSt'[w] = rowSt[w]
    BY <1>3 DEF LoadGroup, Rows
  <2>5. \A w \in Row : RowRun[w] = r => rowSt'[w] # "none"
    BY <1>3 DEF LoadGroup, Rows
  <2>6. \A q \in Run : NoRows(q)' => NoRows(q) /\ q # r
    BY <2>4, <2>5 DEF NoRows, Rows
  <2>7. \A h \in Host : Holders(h)' \subseteq
          (Holders(h) \ {r}) \cup { w \in Rows(r) : RowHost[w] = h }
    BY <1>1, <2>3, <2>4, <2>6, StructureAssumption
       DEF Holders, Members, Rows
  <2>8. \A h \in Host : \A w \in Rows(r) : RowHost[w] = h => h \in Members(r)
    BY DEF Rows, Members
  <2>9. QED
    BY <2>2, <2>7, <2>8 DEF PassesOn
<1>4. QED
  BY <1>2, <1>3

LEMMA ExclusiveStep == IInv /\ Exclusive /\ [Next]_vars => Exclusive'
<1> SUFFICES ASSUME IInv, Exclusive, [Next]_vars PROVE Exclusive'
  OBVIOUS
<1> USE DEF Exclusive
<1>1. TypeOK
  BY DEF IInv
<1>2. CASE Shrinks
  BY <1>2 DEF Shrinks
<1>3. ASSUME NEW H, NEW o, Gains(H, o) PROVE Exclusive'
  BY <1>3 DEF Gains
<1>4. ASSUME NEW r \in Run, PassesOn(r) PROVE Exclusive'
  <2>1. \A h \in Host : \A v, w \in Rows(r) :
          RowHost[v] = h /\ RowHost[w] = h => v = w
    BY StructureAssumption DEF Rows
  <2>2. QED
    BY <1>4, <2>1 DEF PassesOn
<1>5. QED
  BY <1>1, <1>2, <1>3, <1>4, OnlyClaimsGrow, SyncClaims, RowClaims,
     GroupClaims, LoadPassesOn, RollbackClaims

\* A host is never claimed by two operations: for any number of hosts, syncs,
\* runs and rollbacks, whatever is cancelled, swept, lost or killed.
THEOREM MutualExclusion == Spec => []Exclusive
<1>1. Init => Exclusive
  <2> SUFFICES ASSUME Init PROVE Exclusive
    OBVIOUS
  <2>1. \A h \in Host : Holders(h) = {}
    BY Structure DEF Init, Holders
  <2>2. QED
    BY <2>1 DEF Exclusive
<1>2. QED
  BY <1>1, Invariance, ExclusiveStep, PTL DEF Spec

(***************************************************************************)
(* Tasks and the status columns                                            *)
(***************************************************************************)

\* A working sync, rollback or row is recorded as running; a row that runs
\* belongs to a run that started; the rows of a group dispatch are its task's
\* alone and never wait; a run that has not started has no rows.
TaskFrame ==
  /\ \A s \in Sync : syncTask[s] = "working" => syncSt[s] = "running"
  /\ \A b \in Rollback : backTask[b] = "working" => backSt[b] = "running"
  /\ \A w \in Row :
       IF RowRun[w] \in Group
       THEN rowSt[w] \notin {"queued", "pending"} /\ rowTask[w] # "working"
       ELSE /\ rowTask[w] = "working" => rowSt[w] = "running"
            /\ rowSt[w] = "running" =>
                 runSt[RowRun[w]] \in {"running", "ended", "cancelled"}
            /\ rowSt[w] # "none" => runSt[RowRun[w]] \notin {"none", "queued"}
  /\ \A r \in Run : Kind[r] = "fanout" => runSt[r] # "pending"
  /\ \A w \in Row : groupTask[RowRun[w]] = "working" =>
       /\ runSt[RowRun[w]] \in {"running", "ended", "cancelled"}
       /\ rowSt[w] \in {"running", "ended", "skipped"}

\* A release moves nothing but what waits.
LEMMA DispatchNextFrame ==
  ASSUME IInv, TaskFrame, NEW h, NEW ended, DispatchNext(h, ended),
         UNCHANGED <<syncSt, backSt>>,
         \A s \in Sync : syncTask'[s] = "working" => syncTask[s] = "working",
         \A b \in Rollback :
           backTask'[b] = "working" => backTask[b] = "working",
         \A w \in Row : rowTask'[w] = "working" => rowTask[w] = "working",
         \A r \in Run : groupTask'[r] = "working" => groupTask[r] = "working"
  PROVE  TaskFrame'
<1> DEFINE next == Oldest({ o \in Waiting(h) : RunOf(o) # ended })
<1> USE Structure DEF IInv, TypeOK
<1>1. CASE UNCHANGED <<rowSt, runSt>>
  BY <1>1 DEF TaskFrame
<1>2. CASE \E w \in next \cap Row :
             rowSt' = [rowSt EXCEPT ![w] = "queued"] /\ UNCHANGED runSt
  <2>1. PICK w \in next \cap Row : rowSt' = [rowSt EXCEPT ![w] = "queued"]
    BY <1>2
  <2>2. w \in Row /\ rowSt[w] = "pending"
    BY StructureAssumption
       DEF Oldest, Waiting, WaitingSyncs, WaitingRuns, WaitingRows
  <2>3. \A v \in Row : v # w => rowSt'[v] = rowSt[v]
    BY <2>1
  <2>4. rowSt'[w] = "queued"
    BY <2>1, <2>2
  <2>5. groupTask[RowRun[w]] # "working"
    BY <2>2 DEF TaskFrame
  <2>6. RowRun[w] \notin Group /\ rowTask[w] # "working"
    BY <2>2 DEF TaskFrame
  <2>7. UNCHANGED runSt
    BY <1>2
  <2> HIDE DEF IInv, TypeOK
  <2>8. QED
    BY <2>2, <2>3, <2>4, <2>5, <2>6, <2>7 DEF TaskFrame
<1>3. CASE \E r \in next \cap Run :
             runSt' = [runSt EXCEPT ![r] = "queued"] /\ UNCHANGED rowSt
  <2>1. PICK r \in next \cap Run : runSt' = [runSt EXCEPT ![r] = "queued"]
    BY <1>3
  <2>2. r \in Run /\ runSt[r] = "pending" /\ NoRows(r)
    BY StructureAssumption
       DEF Oldest, Waiting, WaitingSyncs, WaitingRuns, WaitingRows
  <2>3. \A q \in Run : q # r => runSt'[q] = runSt[q]
    BY <2>1
  <2>4. runSt'[r] = "queued"
    BY <2>1, <2>2
  <2>5. groupTask[r] # "working"
    BY <2>2 DEF GroupInOnePlace, InOnePlace, Existing
  <2>6. \A w \in Row : RowRun[w] = r => rowSt[w] = "none"
    BY <2>2 DEF NoRows, Rows
  <2>7. UNCHANGED rowSt
    BY <1>3
  <2> HIDE DEF IInv, TypeOK
  <2>8. QED
    BY <2>2, <2>3, <2>4, <2>5, <2>6, <2>7 DEF TaskFrame
<1>4. QED
  BY <1>1, <1>2, <1>3 DEF DispatchNext

LEMMA TaskFrameStep == IInv /\ TaskFrame /\ [Next]_vars => TaskFrame'
<1> SUFFICES ASSUME IInv, TaskFrame, [Next]_vars PROVE TaskFrame'
  OBVIOUS
<1> USE Structure
<1> USE DEF syncVars, rowVars, runVars, groupVars, backVars
<1>1. ASSUME NEW s \in Sync, SubmitSync(s) PROVE TaskFrame'
  BY <1>1 DEF TaskFrame, IInv, TypeOK, SubmitSync
<1>2. ASSUME NEW s \in Sync, StartSync(s) PROVE TaskFrame'
  BY <1>2 DEF TaskFrame, IInv, TypeOK, StartSync
<1>3. ASSUME NEW s \in Sync, FinishSync(s) PROVE TaskFrame'
  BY <1>3 DEF TaskFrame, IInv, TypeOK, FinishSync
<1>4. ASSUME NEW s \in Sync, SweepSync(s) PROVE TaskFrame'
  BY <1>4 DEF TaskFrame, IInv, TypeOK, SweepSync
<1>5. ASSUME NEW r \in Run, SubmitRun(r) PROVE TaskFrame'
  BY <1>5 DEF TaskFrame, IInv, TypeOK, SubmitRun
<1>6. ASSUME NEW w \in Row, OrchSend(w) PROVE TaskFrame'
  BY <1>6 DEF TaskFrame, IInv, TypeOK, OrchSend
<1>7. ASSUME NEW r \in Run, CloseRun(r) PROVE TaskFrame'
  BY <1>7 DEF TaskFrame, IInv, TypeOK, CloseRun, FinaliseRun
<1>8. ASSUME NEW r \in Run, OrchSeesCancel(r) PROVE TaskFrame'
  BY <1>8 DEF TaskFrame, IInv, TypeOK, OrchSeesCancel, MoveRows
<1>9. ASSUME NEW r \in Run, OrchTimeout(r) PROVE TaskFrame'
  BY <1>9 DEF TaskFrame, IInv, TypeOK, OrchTimeout, MoveRows
<1>10. ASSUME NEW r \in Run, OrchError(r) PROVE TaskFrame'
  BY <1>10 DEF TaskFrame, IInv, TypeOK, OrchError
<1>11. ASSUME NEW r \in Run, RequestCancel(r) PROVE TaskFrame'
  BY <1>11 DEF TaskFrame, IInv, TypeOK, RequestCancel
<1>12. ASSUME NEW r \in Run, CommitCancel(r) PROVE TaskFrame'
  BY <1>12 DEF TaskFrame, IInv, TypeOK, CommitCancel, MoveRows
<1>13. ASSUME NEW w \in Row, FinishRow(w) PROVE TaskFrame'
  BY <1>13 DEF TaskFrame, IInv, TypeOK, FinishRow
<1>14. ASSUME NEW w \in Row, NEW s \in Sync, QueuePostRunSync(w, s)
      PROVE  TaskFrame'
  BY <1>14 DEF TaskFrame, IInv, TypeOK, QueuePostRunSync
<1>15. ASSUME NEW w \in Row, CloseParent(w) PROVE TaskFrame'
  BY <1>15 DEF TaskFrame, IInv, TypeOK, CloseParent, FinaliseRun
<1>16. ASSUME NEW w \in Row, SweepRow(w) PROVE TaskFrame'
  BY <1>16 DEF TaskFrame, IInv, TypeOK, SweepRow
<1>17. ASSUME NEW r \in Run, StartGroup(r) PROVE TaskFrame'
  <2>1. r \in Group /\ groupTask[r] = "idle"
    BY <1>17 DEF StartGroup, IInv, TypeOK, Existing
  <2>2. QED
    BY <1>17, <2>1 DEF TaskFrame, IInv, TypeOK, StartGroup, Group
<1>18. ASSUME NEW r \in Run, ClaimGroup(r) PROVE TaskFrame'
  <2>1. r \in Group /\ NoRows(r) /\ groupTask[r] = "preflight"
    BY <1>18 DEF ClaimGroup, IInv, Existing, GroupInOnePlace, InOnePlace
  <2>2. groupTask'[r] # "working" /\ UNCHANGED <<rowSt, rowTask>>
    BY <1>18 DEF ClaimGroup, IInv, TypeOK
  <2>3. \A q \in Run \ {r} :
          runSt'[q] = runSt[q] /\ groupTask'[q] = groupTask[q]
    BY <1>18 DEF ClaimGroup, IInv, TypeOK
  <2>4. UNCHANGED <<syncSt, syncTask, backSt, backTask>>
    BY <1>18 DEF ClaimGroup
  <2>5. QED
    BY <2>1, <2>2, <2>3, <2>4 DEF TaskFrame, Group
<1>19. ASSUME NEW r \in Run, FinishGroup(r) PROVE TaskFrame'
  <2>1. r \in Group /\ groupTask'[r] = "closing"
    BY <1>19 DEF FinishGroup, IInv, TypeOK, Existing
  <2>2. \A w \in Row : RowRun[w] = r => rowSt'[w] \in {"skipped", "ended"}
    BY <1>19 DEF FinishGroup, MoveRows, IInv, TypeOK
  <2>3. \A w \in Row : RowRun[w] # r => rowSt'[w] = rowSt[w]
    BY <1>19 DEF FinishGroup, MoveRows
  <2>4. \A q \in Run \ {r} : groupTask'[q] = groupTask[q]
    BY <1>19 DEF FinishGroup, IInv, TypeOK
  <2>5. UNCHANGED <<syncSt, syncTask, backSt, backTask, runSt, rowTask>>
    BY <1>19 DEF FinishGroup
  <2>6. QED
    BY <2>1, <2>2, <2>3, <2>4, <2>5 DEF TaskFrame, Group
<1>20. ASSUME NEW r \in Run, CloseGroup(r) PROVE TaskFrame'
  BY <1>20 DEF TaskFrame, IInv, TypeOK, CloseGroup
<1>21. ASSUME NEW r \in Run, NEW s \in Sync, QueueGroupSync(r, s)
      PROVE  TaskFrame'
  BY <1>21 DEF TaskFrame, IInv, TypeOK, QueueGroupSync
<1>22. ASSUME NEW r \in Run, FailGroup(r) PROVE TaskFrame'
  <2>1. r \in Group /\ groupTask'[r] = "releasing"
    BY <1>22 DEF FailGroup, IInv, TypeOK, Existing
  <2>2. \A w \in Row : RowRun[w] = r => rowSt'[w] \in {rowSt[w], "ended"}
    BY <1>22 DEF FailGroup, MoveRows
  <2>3. \A w \in Row : RowRun[w] # r => rowSt'[w] = rowSt[w]
    BY <1>22 DEF FailGroup, MoveRows
  <2>4. \A q \in Run \ {r} :
          runSt'[q] = runSt[q] /\ groupTask'[q] = groupTask[q]
    BY <1>22 DEF FailGroup, IInv, TypeOK
  <2>5. UNCHANGED <<syncSt, syncTask, backSt, backTask, rowTask>>
    BY <1>22 DEF FailGroup
  <2>6. Kind[r] # "fanout"
    BY <2>1 DEF Group
  <2>7. QED
    BY <2>1, <2>2, <2>3, <2>4, <2>5, <2>6 DEF TaskFrame, Group
<1>23. ASSUME NEW b \in Rollback, StartRollback(b) PROVE TaskFrame'
  BY <1>23 DEF TaskFrame, IInv, TypeOK, StartRollback
<1>24. ASSUME NEW b \in Rollback, FinishRollback(b) PROVE TaskFrame'
  BY <1>24 DEF TaskFrame, IInv, TypeOK, FinishRollback
<1>25. ASSUME NEW r \in Run, SweepRun(r) PROVE TaskFrame'
  BY <1>25 DEF TaskFrame, IInv, TypeOK, SweepRun, MoveRows
<1>26. ASSUME NEW r \in Run, SweepOrphan(r) PROVE TaskFrame'
  BY <1>26 DEF TaskFrame, IInv, TypeOK, SweepOrphan
<1>27. ASSUME WorkerDies PROVE TaskFrame'
  BY <1>27 DEF TaskFrame, IInv, TypeOK, WorkerDies
<1>28. ASSUME LateDeath PROVE TaskFrame'
  BY <1>28 DEF TaskFrame, IInv, TypeOK, LateDeath
<1>29. ASSUME LoseMessage PROVE TaskFrame'
  BY <1>29 DEF TaskFrame, IInv, TypeOK, LoseMessage
<1>30. ASSUME NEW s \in Sync, ReleaseSync(s) PROVE TaskFrame'
  BY <1>30, DispatchNextFrame DEF ReleaseSync, IInv, TypeOK
<1>31. ASSUME NEW w \in Row, ReleaseRow(w) PROVE TaskFrame'
  BY <1>31, DispatchNextFrame DEF ReleaseRow, IInv, TypeOK
<1>32. ASSUME NEW r \in Run, NEW h \in Host, ReleaseGroup(r, h) PROVE TaskFrame'
  BY <1>32, DispatchNextFrame DEF ReleaseGroup, IInv, TypeOK
<1>33. ASSUME NEW b \in Rollback, ReleaseRollback(b) PROVE TaskFrame'
  BY <1>33, DispatchNextFrame DEF ReleaseRollback, IInv, TypeOK
<1>34. ASSUME NEW r \in Run, NEW h \in Host, SweepRelease(r, h) PROVE TaskFrame'
  BY <1>34, DispatchNextFrame DEF SweepRelease, IInv, TypeOK
<1>35. ASSUME NEW r \in Run, RunAction(r) PROVE TaskFrame'
  BY <1>35 DEF TaskFrame, IInv, TypeOK, RunAction, MoveRows
<1>36. ASSUME NEW w \in Row, StartRow(w) PROVE TaskFrame'
  <2> USE DEF IInv, TypeOK
  <2> DEFINE r == RowRun[w]
  <2>1. \A v \in Row \ {w} : rowSt'[v] = rowSt[v] /\ rowTask'[v] = rowTask[v]
    BY <1>36 DEF StartRow
  <2>2. \A q \in Run \ {r} : runSt'[q] = runSt[q]
    BY <1>36 DEF StartRow, DeferParent, ResumeParent
  <2>3. UNCHANGED <<syncSt, syncTask, backSt, backTask, groupTask>>
    BY <1>36 DEF StartRow
  <2>4. CASE UNCHANGED <<rowSt, rowTask, runSt>>
    BY <2>3, <2>4 DEF TaskFrame
  <2>5. CASE rowSt[w] = "queued"
    <3>1. r \notin Group /\ rowTask[w] # "working" /\ groupTask[r] = "idle"
      BY <2>5 DEF TaskFrame, Existing
    <3>2. runSt[r] \notin {"none", "queued"}
      BY <2>5, <3>1 DEF TaskFrame
    <3>3. \/ UNCHANGED <<runSt, rowTask>> /\ rowSt'[w] = "cancelled"
          \/ UNCHANGED rowTask /\ rowSt'[w] = "pending" /\ DeferParent(r)
          \/ rowSt'[w] = "running" /\ ResumeParent(r)
      BY <1>36, <2>5 DEF StartRow, Claimable
    <3>4. Kind[r] = "fanout" => runSt'[r] = runSt[r] /\ runSt[r] # "pending"
      BY <3>3 DEF DeferParent, ResumeParent, TaskFrame
    <3>5. Kind[r] = "host" => \A v \in Row : RowRun[v] = r => v = w
      BY StructureAssumption DEF Rows
    <3>6. Kind[r] \in {"host", "fanout"}
      BY <3>1, StructureAssumption DEF Group
    <3>7. runSt'[r] \notin {"none", "queued"}
      BY <3>2, <3>3 DEF DeferParent, ResumeParent
    <3>8. rowSt'[w] = "running" =>
            runSt'[r] \in {"running", "ended", "cancelled"}
      BY <3>2, <3>3, <3>4, <3>6 DEF ResumeParent, RunStatus
    <3>9. \A v \in Row \ {w} : RowRun[v] = r => runSt'[r] = runSt[r]
      BY <3>4, <3>5, <3>6
    <3>10. rowTask'[w] = "working" => rowSt'[w] = "running"
      BY <3>1, <3>3, <1>36 DEF StartRow, Claimable
    <3> HIDE DEF IInv, TypeOK
    <3>11. QED
      BY <2>1, <2>2, <2>3, <2>5, <3>1, <3>4, <3>7, <3>8, <3>9, <3>10
         DEF TaskFrame
  <2>6. QED
    BY <1>36, <2>4, <2>5 DEF StartRow, Claimable
<1>37. ASSUME NEW r \in Run, LoadGroup(r) PROVE TaskFrame'
  <2> USE DEF IInv, TypeOK
  <2>1. r \in Group /\ runSt'[r] \in {"running", "cancelled"}
    BY <1>37 DEF LoadGroup, Abandoned, Existing
  <2>2. \/ UNCHANGED rowSt /\ groupTask'[r] = "releasing"
        \/ /\ groupTask'[r] = "working"
           /\ \A w \in Row :
                RowRun[w] = r => rowSt'[w] \in {"skipped", "running"}
    BY <1>37 DEF LoadGroup, Rows
  <2>3. \A w \in Row : RowRun[w] # r => rowSt'[w] = rowSt[w]
    BY <1>37 DEF LoadGroup, Rows
  <2>4. \A q \in Run \ {r} :
          runSt'[q] = runSt[q] /\ groupTask'[q] = groupTask[q]
    BY <1>37 DEF LoadGroup
  <2>5. UNCHANGED <<syncSt, syncTask, backSt, backTask, rowTask>>
    BY <1>37 DEF LoadGroup
  <2> HIDE DEF IInv, TypeOK
  <2>6. QED
    BY <2>1, <2>2, <2>3, <2>4, <2>5 DEF TaskFrame, Group
<1>38. CASE UNCHANGED vars
  BY <1>38 DEF vars, TaskFrame
<1>39. QED
  BY <1>1, <1>2, <1>3, <1>4, <1>5, <1>6, <1>7, <1>8, <1>9, <1>10, <1>11, <1>12,
     <1>13, <1>14, <1>15, <1>16, <1>17, <1>18, <1>19, <1>20, <1>21, <1>22,
     <1>23, <1>24, <1>25, <1>26, <1>27, <1>28, <1>29, <1>30, <1>31, <1>32,
     <1>33, <1>34, <1>35, <1>36, <1>37, <1>38, Zenon
     DEF Next, Submit, Cancel, Fault, SyncStep, RowStep, GroupStep, RunStep,
         RollbackStep

LEMMA TaskFrameInvariance == Spec => []TaskFrame
<1>1. Init => TaskFrame
  BY Structure DEF Init, TaskFrame
<1>2. QED
  BY <1>1, Invariance, TaskFrameStep, PTL DEF Spec

(***************************************************************************)
(* The queue implements HostMutex                                          *)
(***************************************************************************)

\* A run holds no hosts but its members, by itself or by its rows.
LEMMA HeldByRun ==
  ASSUME NEW r \in Run, NEW h \in Host, r \in holder[h] PROVE h \in Members(r)
<1>1. PICK o \in Holders(h) : RunOf(o) = r
  BY DEF holder
<1>2. CASE o \in Row
  BY <1>1, <1>2, StructureAssumption DEF Holders, RunOf, Members, Rows
<1>3. CASE o \notin Row
  BY <1>1, <1>3, StructureAssumption DEF Holders, RunOf
<1>4. QED
  BY <1>2, <1>3

\* Where every host has one holder at most, a step that only takes holders
\* away releases the hosts it takes them from.
LEMMA FewerHolders ==
  ASSUME Exclusive, \A h \in Host : holder'[h] \subseteq holder[h]
  PROVE  [Mutex!Next]_holder
<1> DEFINE H == { h \in Host : holder'[h] # holder[h] }
<1>1. ASSUME NEW h \in H PROVE holder[h] # {} /\ holder'[h] = {}
  <2>1. \A p, q \in holder[h] : p = q
    BY DEF holder, Exclusive
  <2>2. QED
    BY <2>1
<1>2. CASE H = {}
  BY <1>2 DEF holder
<1>3. CASE H # {}
  <2>1. holder' = [h \in Host |-> IF h \in H THEN {} ELSE holder[h]]
    BY <1>1 DEF holder
  <2>2. Mutex!Release(H)
    BY <1>1, <1>3, <2>1 DEF Mutex!Release
  <2>3. QED
    BY <2>2 DEF Mutex!Next
<1>4. QED
  BY <1>2, <1>3

\* A claim grants the hosts it gains, to a group dispatch all of its members.
LEMMA GainGrants ==
  ASSUME NEW H \in SUBSET Host, H # {}, NEW o, Gains(H, o),
         RunOf(o) \in Rollback \cup Sync \cup Run,
         RunOf(o) \in Group => H = Members(RunOf(o))
  PROVE  Mutex!Next
<1>1. \A h \in H : holder[h] = {}
  BY DEF Gains, holder
<1>2. holder' = [h \in Host |-> IF h \in H THEN {RunOf(o)} ELSE holder[h]]
  BY DEF Gains, holder
<1>3. ASSUME RunOf(o) \in Group PROVE Mutex!Held(RunOf(o)) = {}
  <2>1. RunOf(o) \in Run
    BY <1>3 DEF Group
  <2>2. \A h \in Host : RunOf(o) \notin holder[h]
    BY <1>1, <1>3, <2>1, HeldByRun
  <2>3. QED
    BY <2>2 DEF Mutex!Held
<1>4. Mutex!Grant(RunOf(o), H)
  BY <1>1, <1>2, <1>3 DEF Mutex!Grant
<1>5. QED
  BY <1>4 DEF Mutex!Next

LEMMA MutexStep ==
  IInv /\ Exclusive /\ TaskFrame /\ [Next]_vars => [Mutex!Next]_holder
<1> SUFFICES ASSUME IInv, Exclusive, TaskFrame, [Next]_vars
             PROVE  [Mutex!Next]_holder
  OBVIOUS
<1> USE Structure
<1>1. TypeOK
  BY DEF IInv
<1>2. CASE Shrinks
  BY <1>2, FewerHolders DEF Shrinks, holder
<1>3. ASSUME NEW s \in Sync, Gains({SyncHost[s]}, s) PROVE Mutex!Next
  <2>1. RunOf(s) = s /\ s \notin Group
    BY StructureAssumption DEF RunOf, Group
  <2>2. QED
    BY <1>3, <2>1, GainGrants
<1>4. ASSUME NEW b \in Rollback, Gains({RollbackHost[b]}, b) PROVE Mutex!Next
  <2>1. RunOf(b) = b /\ b \notin Group /\ RollbackHost[b] \in Host
    BY StructureAssumption DEF RunOf, Group
  <2>2. QED
    BY <1>4, <2>1, GainGrants
<1>5. ASSUME NEW w \in Row, rowSt[w] = "queued", Gains({RowHost[w]}, w)
      PROVE  Mutex!Next
  <2>1. RunOf(w) = RowRun[w] /\ RowRun[w] \notin Group
    BY <1>5 DEF RunOf, TaskFrame
  <2>2. {RowHost[w]} \in SUBSET Host /\ RowRun[w] \in Run
    OBVIOUS
  <2>3. QED
    BY <1>5, <2>1, <2>2, GainGrants
<1>6. ASSUME NEW r \in Run, Gains(Members(r), r) PROVE Mutex!Next
  <2>1. RunOf(r) = r
    BY StructureAssumption DEF RunOf
  <2>2. Members(r) # {} /\ Members(r) \subseteq Host
    BY DEF Members, Rows
  <2>3. QED
    BY <1>6, <2>1, <2>2, GainGrants
<1>7. ASSUME NEW r \in Run, PassesOn(r) PROVE [Mutex!Next]_holder
  <2>1. RunOf(r) = r /\ \A w \in Rows(r) : RunOf(w) = r
    BY StructureAssumption DEF RunOf, Rows
  <2>2. \A h \in Host : holder'[h] \subseteq holder[h]
    BY <1>7, <2>1 DEF PassesOn, holder
  <2>3. QED
    BY <2>2, FewerHolders
<1>8. QED
  BY <1>1, <1>2, <1>3, <1>4, <1>5, <1>6, <1>7, OnlyClaimsGrow, SyncClaims,
     RowClaims, GroupClaims, LoadPassesOn, RollbackClaims

\* Every step of the queue grants free hosts to one operation, to a group
\* dispatch all of its members at once, or gives hosts up, or does neither: the
\* status columns of four tables, written by a dozen handlers, sweepers and
\* endpoints, act as one lock per host.
THEOREM MutexImplemented == Spec => ImplementsMutex
<1>1. Init => Mutex!Init
  <2> SUFFICES ASSUME Init PROVE Mutex!Init
    OBVIOUS
  <2>1. \A h \in Host : Holders(h) = {}
    BY Structure DEF Init, Holders
  <2>2. QED
    BY <2>1 DEF Mutex!Init, holder
<1>2. QED
  BY <1>1, Invariance, MutualExclusion, TaskFrameInvariance, MutexStep, PTL
     DEF Spec, ImplementsMutex, Mutex!Spec

(***************************************************************************)
(* A working task and the busy check                                       *)
(***************************************************************************)

\* Whatever is cancelled, swept, lost or killed, a task at work on a host is
\* seen by check_host_busy, unless its run or its row was closed under it.
THEOREM WorkIsSeen == Spec => []ExecutingIsHeld
<1>1. IInv /\ TaskFrame => ExecutingIsHeld
  <2> SUFFICES ASSUME IInv, TaskFrame, NEW h \in Host, NEW o \in Executing(h)
               PROVE  \/ o \in Holders(h)
                      \/ /\ o \in Row
                         /\ ~RunOpen(RowRun[o]) \/ rowSt[o] = "ended"
    BY DEF ExecutingIsHeld
  <2>1. CASE o \in Rollback /\ RollbackHost[o] = h /\ backTask[o] = "working"
    BY <2>1 DEF TaskFrame, Holders
  <2>2. CASE o \in Sync /\ SyncHost[o] = h /\ syncTask[o] = "working"
    BY <2>2 DEF TaskFrame, Holders
  <2>3. CASE o \in Row /\ RowHost[o] = h /\ rowTask[o] = "working"
    BY <2>3 DEF TaskFrame, Holders, RunOpen
  <2>4. CASE /\ o \in Row /\ RowHost[o] = h /\ rowSt[o] # "skipped"
             /\ groupTask[RowRun[o]] = "working"
    BY <2>4 DEF TaskFrame, Holders, RunOpen
  <2>5. QED
    BY <2>1, <2>2, <2>3, <2>4 DEF Executing
<1>2. QED
  BY <1>1, Invariance, TaskFrameInvariance, PTL

\* What keeps a run and its rows open while a task works on them, when nobody
\* may close them under it.
RowOpen(w) ==
  IF RowRun[w] \in Group
  THEN /\ rowTask[w] # "dead"
       /\ groupTask[RowRun[w]] = "working" =>
            /\ rowSt[w] \in {"running", "skipped"}
            /\ rowSt[w] = "running" => runSt[RowRun[w]] = "running"
  ELSE rowSt[w] \in {"queued", "pending", "running"} => RunOpen(RowRun[w])
StaysOpen ==
  /\ \A r \in Run : cancel[r] = "no"
  /\ \A w \in Row : RowOpen(w)

\* A release opens what it sends.
LEMMA DispatchNextOpen ==
  ASSUME IInv, TaskFrame, StaysOpen, NEW h, NEW ended, DispatchNext(h, ended),
         UNCHANGED cancel,
         \A w \in Row : rowTask'[w] = "dead" => rowTask[w] = "dead",
         \A r \in Run : groupTask'[r] = "working" => groupTask[r] = "working"
  PROVE  StaysOpen'
<1> DEFINE next == Oldest({ o \in Waiting(h) : RunOf(o) # ended })
<1> USE Structure DEF IInv, TypeOK
<1>1. CASE UNCHANGED <<rowSt, runSt>>
  BY <1>1 DEF StaysOpen, RowOpen, RunOpen
<1>2. CASE \E w \in next \cap Row :
             rowSt' = [rowSt EXCEPT ![w] = "queued"] /\ UNCHANGED runSt
  <2>1. PICK w \in next \cap Row : rowSt' = [rowSt EXCEPT ![w] = "queued"]
    BY <1>2
  <2>2. w \in Row /\ rowSt[w] = "pending"
    BY StructureAssumption
       DEF Oldest, Waiting, WaitingSyncs, WaitingRuns, WaitingRows
  <2>3. RowRun[w] \notin Group /\ RunOpen(RowRun[w])
    BY <2>2 DEF TaskFrame, StaysOpen, RowOpen
  <2>4. QED
    BY <1>2, <2>1, <2>2, <2>3 DEF StaysOpen, RowOpen, RunOpen
<1>3. CASE \E r \in next \cap Run :
             runSt' = [runSt EXCEPT ![r] = "queued"] /\ UNCHANGED rowSt
  <2>1. PICK r \in next \cap Run : runSt' = [runSt EXCEPT ![r] = "queued"]
    BY <1>3
  <2>2. r \in Run /\ runSt[r] = "pending"
    BY StructureAssumption
       DEF Oldest, Waiting, WaitingSyncs, WaitingRuns, WaitingRows
  <2>3. QED
    BY <1>3, <2>1, <2>2 DEF StaysOpen, RowOpen, RunOpen
<1>4. QED
  BY <1>1, <1>2, <1>3 DEF DispatchNext

\* A step on one run leaves the rows of the others as they are.
LEMMA OneRunOpen ==
  ASSUME StaysOpen, NEW r \in Run, UNCHANGED <<cancel, rowTask>>,
         \A w \in Row : RowRun[w] # r => rowSt'[w] = rowSt[w],
         \A q \in Run \ {r} : /\ runSt'[q] = runSt[q]
                               /\ groupTask'[q] = groupTask[q],
         \A w \in Row : RowRun[w] = r => RowOpen(w)'
  PROVE  StaysOpen'
<1>1. ASSUME NEW w \in Row, RowRun[w] # r PROVE RowOpen(w)'
  BY <1>1, Structure DEF StaysOpen, RowOpen, RunOpen
<1>2. QED
  BY <1>1 DEF StaysOpen

\* The events that close a run or a row under its task.
Closing == {"cancel", "orchTimeout", "orchError", "runDeadline", "slowGroup"}

LEMMA StaysOpenStep ==
  ASSUME May \cap Closing = {}
  PROVE  IInv /\ TaskFrame /\ StaysOpen /\ [Next]_vars => StaysOpen'
<1> SUFFICES ASSUME IInv, TaskFrame, StaysOpen, [Next]_vars PROVE StaysOpen'
  OBVIOUS
<1> USE Structure
<1> USE DEF syncVars, rowVars, runVars, groupVars, backVars
<1>a. {"cancel", "orchTimeout", "orchError", "runDeadline", "slowGroup"}
        \cap May = {}
  BY DEF Closing
<1> USE <1>a
<1>1. ASSUME NEW s \in Sync, SubmitSync(s) PROVE StaysOpen'
  BY <1>1 DEF StaysOpen, RowOpen, RunOpen, IInv, TypeOK, SubmitSync
<1>2. ASSUME NEW s \in Sync, StartSync(s) PROVE StaysOpen'
  BY <1>2 DEF StaysOpen, RowOpen, RunOpen, IInv, TypeOK, StartSync
<1>3. ASSUME NEW s \in Sync, FinishSync(s) PROVE StaysOpen'
  BY <1>3 DEF StaysOpen, RowOpen, RunOpen, IInv, TypeOK, FinishSync
<1>4. ASSUME NEW s \in Sync, SweepSync(s) PROVE StaysOpen'
  BY <1>4 DEF StaysOpen, RowOpen, RunOpen, IInv, TypeOK, SweepSync
<1>5. ASSUME NEW r \in Run, SubmitRun(r) PROVE StaysOpen'
  BY <1>5 DEF StaysOpen, RowOpen, RunOpen, IInv, TypeOK, SubmitRun
<1>6. ASSUME NEW w \in Row, OrchSend(w) PROVE StaysOpen'
  BY <1>6 DEF StaysOpen, RowOpen, RunOpen, IInv, TypeOK, OrchSend
<1>7. ASSUME NEW r \in Run, CloseRun(r) PROVE StaysOpen'
  <2>1. \A w \in Row :
          RowRun[w] = r => rowSt[w] \in {"ended", "skipped", "cancelled"}
    BY <1>7 DEF CloseRun, RowsDone, Rows
  <2>2. UNCHANGED <<rowSt, rowTask, groupTask, cancel>>
    BY <1>7 DEF CloseRun
  <2>3. \A q \in Run \ {r} : runSt'[q] = runSt[q]
    BY <1>7 DEF CloseRun, FinaliseRun, IInv, TypeOK
  <2>4. \A w \in Row : RowRun[w] = r => RowOpen(w)'
    BY <2>1, <2>2 DEF StaysOpen, RowOpen
  <2>5. QED
    BY <2>2, <2>3, <2>4, OneRunOpen
<1>8. ASSUME NEW r \in Run, OrchSeesCancel(r) PROVE StaysOpen'
  BY <1>8 DEF StaysOpen, OrchSeesCancel, Token
<1>9. ASSUME NEW r \in Run, OrchTimeout(r) PROVE StaysOpen'
  BY <1>9 DEF StaysOpen, RowOpen, RunOpen, IInv, TypeOK, OrchTimeout, MoveRows
<1>10. ASSUME NEW r \in Run, OrchError(r) PROVE StaysOpen'
  BY <1>10 DEF StaysOpen, RowOpen, RunOpen, IInv, TypeOK, OrchError
<1>11. ASSUME NEW r \in Run, RequestCancel(r) PROVE StaysOpen'
  BY <1>11 DEF StaysOpen, RowOpen, RunOpen, IInv, TypeOK, RequestCancel
<1>12. ASSUME NEW r \in Run, CommitCancel(r) PROVE StaysOpen'
  BY <1>12 DEF StaysOpen, RowOpen, RunOpen, IInv, TypeOK, CommitCancel, MoveRows
<1>13. ASSUME NEW w \in Row, FinishRow(w) PROVE StaysOpen'
  <2>1. RowRun[w] \notin Group
    BY <1>13 DEF FinishRow, TaskFrame
  <2>2. QED
    BY <1>13, <2>1 DEF StaysOpen, RowOpen, RunOpen, IInv, TypeOK, FinishRow
<1>14. ASSUME NEW w \in Row, NEW s \in Sync, QueuePostRunSync(w, s)
      PROVE  StaysOpen'
  BY <1>14 DEF StaysOpen, RowOpen, RunOpen, IInv, TypeOK, QueuePostRunSync
<1>15. ASSUME NEW w \in Row, CloseParent(w) PROVE StaysOpen'
  <2> DEFINE r == RowRun[w]
  <2>1. CASE UNCHANGED runSt
    BY <1>15, <2>1 DEF StaysOpen, RowOpen, RunOpen, IInv, TypeOK, CloseParent
  <2>2. CASE RowsDone(r)
    <3>1. \A v \in Row :
            RowRun[v] = r => rowSt[v] \in {"ended", "skipped", "cancelled"}
      BY <2>2 DEF RowsDone, Rows
    <3>2. UNCHANGED <<rowSt, groupTask, cancel>>
      BY <1>15 DEF CloseParent
    <3>3. \A q \in Run \ {r} : runSt'[q] = runSt[q]
      BY <1>15 DEF CloseParent, FinaliseRun, IInv, TypeOK
    <3>4. \A v \in Row : rowTask'[v] = "dead" => rowTask[v] = "dead"
      BY <1>15 DEF CloseParent, IInv, TypeOK
    <3>5. ASSUME NEW v \in Row, RowRun[v] = r PROVE RowOpen(v)'
      BY <3>1, <3>2, <3>4, <3>5 DEF StaysOpen, RowOpen
    <3>6. ASSUME NEW v \in Row, RowRun[v] # r PROVE RowOpen(v)'
      BY <3>2, <3>3, <3>4, <3>6 DEF StaysOpen, RowOpen, RunOpen
    <3>7. QED
      BY <3>2, <3>5, <3>6 DEF StaysOpen
  <2>3. QED
    BY <1>15, <2>1, <2>2 DEF CloseParent, FinaliseRun, IInv, TypeOK
<1>16. ASSUME NEW w \in Row, SweepRow(w) PROVE StaysOpen'
  BY <1>16 DEF StaysOpen, RowOpen, RunOpen, IInv, TypeOK, SweepRow
<1>17. ASSUME NEW r \in Run, StartGroup(r) PROVE StaysOpen'
  <2>1. r \in Group
    BY <1>17 DEF StartGroup, IInv, TypeOK, Existing
  <2>2. UNCHANGED <<cancel, rowTask>>
    BY <1>17 DEF StartGroup
  <2>3. \A w \in Row : RowRun[w] # r => rowSt'[w] = rowSt[w]
    BY <1>17 DEF StartGroup
  <2>4. \A q \in Run \ {r} : /\ runSt'[q] = runSt[q]
                            /\ groupTask'[q] = groupTask[q]
    BY <1>17 DEF StartGroup, IInv, TypeOK
  <2>5. groupTask'[r] # "working"
    BY <1>17 DEF StartGroup, IInv, TypeOK
  <2>6. \A w \in Row : RowRun[w] = r => RowOpen(w)'
    BY <2>1, <2>2, <2>5 DEF StaysOpen, RowOpen
  <2>7. QED
    BY <2>2, <2>3, <2>4, <2>6, OneRunOpen
<1>18. ASSUME NEW r \in Run, ClaimGroup(r) PROVE StaysOpen'
  BY <1>18 DEF StaysOpen, RowOpen, RunOpen, IInv, TypeOK, ClaimGroup
<1>19. ASSUME NEW r \in Run, FinishGroup(r) PROVE StaysOpen'
  BY <1>19 DEF StaysOpen, RowOpen, RunOpen, IInv, TypeOK, FinishGroup, MoveRows
<1>20. ASSUME NEW r \in Run, CloseGroup(r) PROVE StaysOpen'
  <2>1. r \in Group
    BY <1>20 DEF CloseGroup, IInv, TypeOK, Existing
  <2>2. UNCHANGED <<cancel, rowTask>>
    BY <1>20 DEF CloseGroup
  <2>3. \A w \in Row : RowRun[w] # r => rowSt'[w] = rowSt[w]
    BY <1>20 DEF CloseGroup
  <2>4. \A q \in Run \ {r} : /\ runSt'[q] = runSt[q]
                            /\ groupTask'[q] = groupTask[q]
    BY <1>20 DEF CloseGroup, IInv, TypeOK
  <2>5. groupTask'[r] # "working"
    BY <1>20 DEF CloseGroup, IInv, TypeOK
  <2>6. \A w \in Row : RowRun[w] = r => RowOpen(w)'
    BY <2>1, <2>2, <2>5 DEF StaysOpen, RowOpen
  <2>7. QED
    BY <2>2, <2>3, <2>4, <2>6, OneRunOpen
<1>21. ASSUME NEW r \in Run, NEW s \in Sync, QueueGroupSync(r, s)
      PROVE  StaysOpen'
  BY <1>21 DEF StaysOpen, RowOpen, RunOpen, IInv, TypeOK, QueueGroupSync
<1>22. ASSUME NEW r \in Run, FailGroup(r) PROVE StaysOpen'
  <2>1. r \in Group
    BY <1>22 DEF FailGroup, IInv, TypeOK, Existing
  <2>2. UNCHANGED <<cancel, rowTask>>
    BY <1>22 DEF FailGroup
  <2>3. \A w \in Row : RowRun[w] # r => rowSt'[w] = rowSt[w]
    BY <1>22 DEF FailGroup, MoveRows
  <2>4. \A q \in Run \ {r} : /\ runSt'[q] = runSt[q]
                            /\ groupTask'[q] = groupTask[q]
    BY <1>22 DEF FailGroup, IInv, TypeOK
  <2>5. groupTask'[r] # "working"
    BY <1>22 DEF FailGroup, IInv, TypeOK
  <2>6. \A w \in Row : RowRun[w] = r => RowOpen(w)'
    BY <2>1, <2>2, <2>5 DEF StaysOpen, RowOpen
  <2>7. QED
    BY <2>2, <2>3, <2>4, <2>6, OneRunOpen
<1>23. ASSUME NEW b \in Rollback, StartRollback(b) PROVE StaysOpen'
  BY <1>23 DEF StaysOpen, RowOpen, RunOpen, IInv, TypeOK, StartRollback
<1>24. ASSUME NEW b \in Rollback, FinishRollback(b) PROVE StaysOpen'
  BY <1>24 DEF StaysOpen, RowOpen, RunOpen, IInv, TypeOK, FinishRollback
<1>25. ASSUME NEW r \in Run, SweepRun(r) PROVE StaysOpen'
  <2>1. r \in Group
    BY <1>25 DEF SweepRun, IInv, TypeOK, Existing
  <2>2. UNCHANGED <<cancel, rowTask>>
    BY <1>25 DEF SweepRun
  <2>3. \A w \in Row : RowRun[w] # r => rowSt'[w] = rowSt[w]
    BY <1>25 DEF SweepRun, MoveRows
  <2>4. \A q \in Run \ {r} : /\ runSt'[q] = runSt[q]
                            /\ groupTask'[q] = groupTask[q]
    BY <1>25 DEF SweepRun, IInv, TypeOK
  <2>5. groupTask'[r] # "working"
    BY <1>25 DEF SweepRun, IInv, TypeOK
  <2>6. \A w \in Row : RowRun[w] = r => RowOpen(w)'
    BY <2>1, <2>2, <2>5 DEF StaysOpen, RowOpen
  <2>7. QED
    BY <2>2, <2>3, <2>4, <2>6, OneRunOpen
<1>26. ASSUME NEW r \in Run, SweepOrphan(r) PROVE StaysOpen'
  <2>1. \A w \in Row : RowRun[w] = r => rowSt[w] = "none"
    BY <1>26 DEF SweepOrphan, NoRows, Rows
  <2>2. UNCHANGED <<rowSt, rowTask, groupTask, cancel>>
    BY <1>26 DEF SweepOrphan
  <2>3. \A q \in Run \ {r} : runSt'[q] = runSt[q]
    BY <1>26 DEF SweepOrphan, IInv, TypeOK
  <2>4. \A w \in Row : RowRun[w] = r => RowOpen(w)'
    BY <2>1, <2>2 DEF StaysOpen, RowOpen
  <2>5. QED
    BY <2>2, <2>3, <2>4, OneRunOpen
<1>27. ASSUME WorkerDies PROVE StaysOpen'
  <2>1. UNCHANGED <<rowSt, runSt, cancel>>
    BY <1>27 DEF WorkerDies
  <2>2. \A w \in Row : RowRun[w] \in Group => rowTask'[w] = rowTask[w]
    BY <1>27 DEF WorkerDies, TaskFrame, IInv, TypeOK
  <2>3. \A r \in Run : groupTask'[r] = "working" => groupTask[r] = "working"
    BY <1>27 DEF WorkerDies, IInv, TypeOK
  <2>4. QED
    BY <2>1, <2>2, <2>3 DEF StaysOpen, RowOpen, RunOpen
<1>28. ASSUME LateDeath PROVE StaysOpen'
  BY <1>28 DEF StaysOpen, RowOpen, RunOpen, IInv, TypeOK, LateDeath
<1>29. ASSUME LoseMessage PROVE StaysOpen'
  BY <1>29 DEF StaysOpen, RowOpen, RunOpen, IInv, TypeOK, LoseMessage
<1>30. ASSUME NEW s \in Sync, ReleaseSync(s) PROVE StaysOpen'
  BY <1>30, DispatchNextOpen DEF ReleaseSync, IInv, TypeOK
<1>31. ASSUME NEW w \in Row, ReleaseRow(w) PROVE StaysOpen'
  BY <1>31, DispatchNextOpen DEF ReleaseRow, IInv, TypeOK
<1>32. ASSUME NEW r \in Run, NEW h \in Host, ReleaseGroup(r, h) PROVE StaysOpen'
  BY <1>32, DispatchNextOpen DEF ReleaseGroup, IInv, TypeOK
<1>33. ASSUME NEW b \in Rollback, ReleaseRollback(b) PROVE StaysOpen'
  BY <1>33, DispatchNextOpen DEF ReleaseRollback, IInv, TypeOK
<1>34. ASSUME NEW r \in Run, NEW h \in Host, SweepRelease(r, h) PROVE StaysOpen'
  BY <1>34, DispatchNextOpen DEF SweepRelease, IInv, TypeOK
<1>35. ASSUME NEW r \in Run, RunAction(r) PROVE StaysOpen'
  BY <1>35 DEF StaysOpen, RowOpen, RunOpen, IInv, TypeOK, RunAction, MoveRows
<1>36. ASSUME NEW w \in Row, StartRow(w) PROVE StaysOpen'
  BY <1>36 DEF StaysOpen, RowOpen, RunOpen, IInv, TypeOK, StartRow, Claimable,
       DeferParent, ResumeParent
<1>37. ASSUME NEW r \in Run, LoadGroup(r) PROVE StaysOpen'
  <2>1. r \in Group
    BY <1>37 DEF LoadGroup, IInv, TypeOK, Existing
  <2>2. UNCHANGED <<cancel, rowTask>>
    BY <1>37 DEF LoadGroup
  <2>3. \A w \in Row : RowRun[w] # r => rowSt'[w] = rowSt[w]
    BY <1>37 DEF LoadGroup, Rows
  <2>4. \A q \in Run \ {r} : /\ runSt'[q] = runSt[q]
                            /\ groupTask'[q] = groupTask[q]
    BY <1>37 DEF LoadGroup, IInv, TypeOK
  <2>5. groupTask'[r] = "working" =>
          /\ runSt'[r] = "running"
          /\ \A w \in Row :
               RowRun[w] = r => rowSt'[w] \in {"running", "skipped"}
    BY <1>37 DEF LoadGroup, Rows, IInv, TypeOK
  <2>6. \A w \in Row : RowRun[w] = r => RowOpen(w)'
    BY <2>1, <2>2, <2>5 DEF StaysOpen, RowOpen
  <2>7. QED
    BY <2>2, <2>3, <2>4, <2>6, OneRunOpen
<1>38. CASE UNCHANGED vars
  BY <1>38 DEF vars, StaysOpen, RowOpen, RunOpen, IInv, TypeOK
<1>39. QED
  BY <1>1, <1>2, <1>3, <1>4, <1>5, <1>6, <1>7, <1>8, <1>9, <1>10, <1>11,
     <1>12, <1>13, <1>14, <1>15, <1>16, <1>17, <1>18, <1>19, <1>20, <1>21,
     <1>22, <1>23, <1>24, <1>25, <1>26, <1>27, <1>28, <1>29, <1>30, <1>31,
     <1>32, <1>33, <1>34, <1>35, <1>36, <1>37, <1>38, Zenon
     DEF Next, Submit, Cancel, Fault, SyncStep, RowStep, GroupStep, RunStep,
         RollbackStep

\* As long as nobody closes a run or a row under its task - no cancel, no
\* deadline of a live run, no driver that gives up, no group task slower than
\* its rows' deadline - no two tasks work on one host, whatever dies or is lost.
THEOREM TasksAlone ==
  ASSUME May \cap Closing = {} PROVE Spec => []OneTaskPerHost
<1>1. Init => StaysOpen
  BY Structure DEF Init, StaysOpen, RowOpen, Group
<1>2. IInv /\ TaskFrame /\ StaysOpen /\ Exclusive => OneTaskPerHost
  <2> SUFFICES ASSUME IInv, TaskFrame, StaysOpen, Exclusive PROVE OneTaskPerHost
    OBVIOUS
  <2>1. ASSUME NEW h \in Host, NEW o \in Executing(h) PROVE o \in Holders(h)
    <3>1. CASE o \in Rollback /\ RollbackHost[o] = h /\ backTask[o] = "working"
      BY <3>1 DEF TaskFrame, Holders
    <3>2. CASE o \in Sync /\ SyncHost[o] = h /\ syncTask[o] = "working"
      BY <3>2 DEF TaskFrame, Holders
    <3>3. CASE o \in Row /\ RowHost[o] = h /\ rowTask[o] = "working"
      BY <3>3 DEF TaskFrame, StaysOpen, RowOpen, Holders, RunOpen
    <3>4. CASE /\ o \in Row /\ RowHost[o] = h /\ rowSt[o] # "skipped"
               /\ groupTask[RowRun[o]] = "working"
      <4>1. RowRun[o] \in Group
        BY <3>4, Structure DEF IInv, Existing
      <4>2. QED
        BY <3>4, <4>1 DEF StaysOpen, RowOpen, Holders
    <3>5. QED
      BY <3>1, <3>2, <3>3, <3>4 DEF Executing
  <2>2. QED
    BY <2>1 DEF OneTaskPerHost, Exclusive
<1>3. QED
  BY <1>1, <1>2, Invariance, TaskFrameInvariance, MutualExclusion,
     StaysOpenStep, PTL DEF Spec

(***************************************************************************)
(* What a status may become                                                *)
(***************************************************************************)

\* The two action properties, for one step.
RowMoves ==
  \A w \in Row :
    /\ rowSt[w] = "running" => rowSt'[w] \in {"running", "ended"}
    /\ rowSt[w] = "skipped" => rowSt'[w] = "skipped"
    /\ rowSt[w] \in Final => rowSt'[w] \in Final
RunMoves ==
  \A r \in Run \ Group : runSt[r] \in Final => runSt'[r] \in Final

LEMMA DispatchNextMoves ==
  ASSUME TypeOK, NEW h, NEW ended, DispatchNext(h, ended)
  PROVE  RowMoves /\ RunMoves
<1> DEFINE next == Oldest({ o \in Waiting(h) : RunOf(o) # ended })
<1>1. \A o \in next :
        /\ o \in Row => rowSt[o] = "pending"
        /\ o \in Run => runSt[o] = "pending"
  BY StructureAssumption
     DEF Oldest, Waiting, WaitingSyncs, WaitingRuns, WaitingRows
<1>2. CASE UNCHANGED <<rowSt, runSt>>
  BY <1>2 DEF RowMoves, RunMoves
<1>3. CASE \E w \in next \cap Row :
             rowSt' = [rowSt EXCEPT ![w] = "queued"] /\ UNCHANGED runSt
  BY <1>1, <1>3 DEF RowMoves, RunMoves, Final, TypeOK
<1>4. CASE \E r \in next \cap Run :
             runSt' = [runSt EXCEPT ![r] = "queued"] /\ UNCHANGED rowSt
  BY <1>1, <1>4 DEF RowMoves, RunMoves, Final, TypeOK
<1>5. QED
  BY <1>2, <1>3, <1>4 DEF DispatchNext

LEMMA MovesStep == IInv /\ TaskFrame /\ [Next]_vars => RowMoves /\ RunMoves
<1> SUFFICES ASSUME IInv, TaskFrame, [Next]_vars PROVE RowMoves /\ RunMoves
  OBVIOUS
<1> USE Structure
<1> USE DEF syncVars, rowVars, runVars, groupVars, backVars
<1>1. ASSUME NEW s \in Sync, SubmitSync(s) PROVE RowMoves /\ RunMoves
  BY <1>1 DEF RowMoves, RunMoves, Final, IInv, TypeOK, SubmitSync
<1>2. ASSUME NEW s \in Sync, StartSync(s) PROVE RowMoves /\ RunMoves
  BY <1>2 DEF RowMoves, RunMoves, Final, IInv, TypeOK, StartSync
<1>3. ASSUME NEW s \in Sync, FinishSync(s) PROVE RowMoves /\ RunMoves
  BY <1>3 DEF RowMoves, RunMoves, Final, IInv, TypeOK, FinishSync
<1>4. ASSUME NEW s \in Sync, SweepSync(s) PROVE RowMoves /\ RunMoves
  BY <1>4 DEF RowMoves, RunMoves, Final, IInv, TypeOK, SweepSync
<1>5. ASSUME NEW r \in Run, SubmitRun(r) PROVE RowMoves /\ RunMoves
  BY <1>5 DEF RowMoves, RunMoves, Final, IInv, TypeOK, SubmitRun
<1>6. ASSUME NEW w \in Row, OrchSend(w) PROVE RowMoves /\ RunMoves
  BY <1>6 DEF RowMoves, RunMoves, Final, IInv, TypeOK, OrchSend
<1>7. ASSUME NEW r \in Run, CloseRun(r) PROVE RowMoves /\ RunMoves
  BY <1>7 DEF RowMoves, RunMoves, Final, IInv, TypeOK, CloseRun, FinaliseRun
<1>8. ASSUME NEW r \in Run, OrchSeesCancel(r) PROVE RowMoves /\ RunMoves
  BY <1>8 DEF RowMoves, RunMoves, Final, IInv, TypeOK, OrchSeesCancel, MoveRows
<1>9. ASSUME NEW r \in Run, OrchTimeout(r) PROVE RowMoves /\ RunMoves
  BY <1>9 DEF RowMoves, RunMoves, Final, IInv, TypeOK, OrchTimeout, MoveRows
<1>10. ASSUME NEW r \in Run, OrchError(r) PROVE RowMoves /\ RunMoves
  BY <1>10 DEF RowMoves, RunMoves, Final, IInv, TypeOK, OrchError
<1>11. ASSUME NEW r \in Run, RequestCancel(r) PROVE RowMoves /\ RunMoves
  BY <1>11 DEF RowMoves, RunMoves, Final, IInv, TypeOK, RequestCancel
<1>12. ASSUME NEW r \in Run, CommitCancel(r) PROVE RowMoves /\ RunMoves
  BY <1>12 DEF RowMoves, RunMoves, Final, IInv, TypeOK, CommitCancel, MoveRows
<1>13. ASSUME NEW w \in Row, FinishRow(w) PROVE RowMoves /\ RunMoves
  <2>1. rowSt[w] = "running"
    BY <1>13 DEF FinishRow, TaskFrame
  <2>2. QED
    BY <1>13, <2>1 DEF RowMoves, RunMoves, Final, IInv, TypeOK, FinishRow
<1>14. ASSUME NEW w \in Row, NEW s \in Sync, QueuePostRunSync(w, s)
      PROVE  RowMoves /\ RunMoves
  BY <1>14 DEF RowMoves, RunMoves, Final, IInv, TypeOK, QueuePostRunSync
<1>15. ASSUME NEW w \in Row, CloseParent(w) PROVE RowMoves /\ RunMoves
  BY <1>15 DEF RowMoves, RunMoves, Final, IInv, TypeOK, CloseParent, FinaliseRun
<1>16. ASSUME NEW w \in Row, SweepRow(w) PROVE RowMoves /\ RunMoves
  BY <1>16 DEF RowMoves, RunMoves, Final, IInv, TypeOK, SweepRow
<1>17. ASSUME NEW r \in Run, StartGroup(r) PROVE RowMoves /\ RunMoves
  <2>1. r \in Group
    BY <1>17 DEF StartGroup, IInv, TypeOK, Existing
  <2>2. QED
    BY <1>17, <2>1 DEF RowMoves, RunMoves, Final, IInv, TypeOK, StartGroup
<1>18. ASSUME NEW r \in Run, ClaimGroup(r) PROVE RowMoves /\ RunMoves
  <2>1. r \in Group
    BY <1>18 DEF ClaimGroup, IInv, TypeOK, Existing
  <2>2. QED
    BY <1>18, <2>1 DEF RowMoves, RunMoves, Final, IInv, TypeOK, ClaimGroup
<1>19. ASSUME NEW r \in Run, FinishGroup(r) PROVE RowMoves /\ RunMoves
  BY <1>19 DEF RowMoves, RunMoves, Final, IInv, TypeOK, FinishGroup, MoveRows
<1>20. ASSUME NEW r \in Run, CloseGroup(r) PROVE RowMoves /\ RunMoves
  <2>1. r \in Group
    BY <1>20 DEF CloseGroup, IInv, TypeOK, Existing
  <2>2. QED
    BY <1>20, <2>1 DEF RowMoves, RunMoves, Final, IInv, TypeOK, CloseGroup
<1>21. ASSUME NEW r \in Run, NEW s \in Sync, QueueGroupSync(r, s)
      PROVE  RowMoves /\ RunMoves
  BY <1>21 DEF RowMoves, RunMoves, Final, IInv, TypeOK, QueueGroupSync
<1>22. ASSUME NEW r \in Run, FailGroup(r) PROVE RowMoves /\ RunMoves
  <2>1. r \in Group
    BY <1>22 DEF FailGroup, IInv, TypeOK, Existing
  <2>2. QED
    BY <1>22, <2>1 DEF RowMoves, RunMoves, Final, IInv, TypeOK, FailGroup,
         MoveRows
<1>23. ASSUME NEW b \in Rollback, StartRollback(b) PROVE RowMoves /\ RunMoves
  BY <1>23 DEF RowMoves, RunMoves, Final, IInv, TypeOK, StartRollback
<1>24. ASSUME NEW b \in Rollback, FinishRollback(b) PROVE RowMoves /\ RunMoves
  BY <1>24 DEF RowMoves, RunMoves, Final, IInv, TypeOK, FinishRollback
<1>25. ASSUME NEW r \in Run, SweepRun(r) PROVE RowMoves /\ RunMoves
  BY <1>25 DEF RowMoves, RunMoves, Final, IInv, TypeOK, SweepRun, MoveRows
<1>26. ASSUME NEW r \in Run, SweepOrphan(r) PROVE RowMoves /\ RunMoves
  BY <1>26 DEF RowMoves, RunMoves, Final, IInv, TypeOK, SweepOrphan
<1>27. ASSUME WorkerDies PROVE RowMoves /\ RunMoves
  BY <1>27 DEF RowMoves, RunMoves, Final, IInv, TypeOK, WorkerDies
<1>28. ASSUME LateDeath PROVE RowMoves /\ RunMoves
  BY <1>28 DEF RowMoves, RunMoves, Final, IInv, TypeOK, LateDeath
<1>29. ASSUME LoseMessage PROVE RowMoves /\ RunMoves
  BY <1>29 DEF RowMoves, RunMoves, Final, IInv, TypeOK, LoseMessage
<1>30. ASSUME NEW s \in Sync, ReleaseSync(s) PROVE RowMoves /\ RunMoves
  BY <1>30, DispatchNextMoves DEF ReleaseSync, IInv, TypeOK
<1>31. ASSUME NEW w \in Row, ReleaseRow(w) PROVE RowMoves /\ RunMoves
  BY <1>31, DispatchNextMoves DEF ReleaseRow, IInv, TypeOK
<1>32. ASSUME NEW r \in Run, NEW h \in Host, ReleaseGroup(r, h)
      PROVE  RowMoves /\ RunMoves
  BY <1>32, DispatchNextMoves DEF ReleaseGroup, IInv, TypeOK
<1>33. ASSUME NEW b \in Rollback, ReleaseRollback(b) PROVE RowMoves /\ RunMoves
  BY <1>33, DispatchNextMoves DEF ReleaseRollback, IInv, TypeOK
<1>34. ASSUME NEW r \in Run, NEW h \in Host, SweepRelease(r, h)
      PROVE  RowMoves /\ RunMoves
  BY <1>34, DispatchNextMoves DEF SweepRelease, IInv, TypeOK
<1>35. ASSUME NEW r \in Run, RunAction(r) PROVE RowMoves /\ RunMoves
  <2>1. CASE UNCHANGED <<rowSt, runSt>>
    BY <2>1 DEF RowMoves, RunMoves
  <2>2. CASE runSt[r] = "queued" /\ r \notin Group
    <3>1. \A w \in Row : RowRun[w] = r => rowSt[w] = "none"
      BY <2>2 DEF TaskFrame
    <3>2. \A w \in Row : RowRun[w] # r => rowSt'[w] = rowSt[w]
      BY <1>35 DEF RunAction, MoveRows
    <3>3. \A q \in Run \ {r} : runSt'[q] = runSt[q]
      BY <1>35 DEF RunAction, IInv, TypeOK
    <3>4. QED
      BY <2>2, <3>1, <3>2, <3>3 DEF RowMoves, RunMoves, Final
  <2>3. QED
    BY <1>35, <2>1, <2>2 DEF RunAction
<1>36. ASSUME NEW w \in Row, StartRow(w) PROVE RowMoves /\ RunMoves
  BY <1>36 DEF RowMoves, RunMoves, Final, IInv, TypeOK, StartRow, Claimable,
       DeferParent, ResumeParent
<1>37. ASSUME NEW r \in Run, LoadGroup(r) PROVE RowMoves /\ RunMoves
  <2>1. r \in Group /\ NoRows(r)
    BY <1>37 DEF LoadGroup, IInv, Existing, GroupInOnePlace, InOnePlace
  <2>2. \A w \in Row : RowRun[w] # r => rowSt'[w] = rowSt[w]
    BY <1>37 DEF LoadGroup, Rows
  <2>3. \A w \in Row : RowRun[w] = r => rowSt[w] = "none"
    BY <2>1 DEF NoRows, Rows
  <2>4. \A q \in Run \ {r} : runSt'[q] = runSt[q]
    BY <1>37 DEF LoadGroup, IInv, TypeOK
  <2>5. QED
    BY <2>1, <2>2, <2>3, <2>4 DEF RowMoves, RunMoves, Final
<1>38. CASE UNCHANGED vars
  BY <1>38 DEF vars, RowMoves, RunMoves, Final, IInv, TypeOK
<1>39. QED
  BY <1>1, <1>2, <1>3, <1>4, <1>5, <1>6, <1>7, <1>8, <1>9, <1>10, <1>11,
     <1>12, <1>13, <1>14, <1>15, <1>16, <1>17, <1>18, <1>19, <1>20, <1>21,
     <1>22, <1>23, <1>24, <1>25, <1>26, <1>27, <1>28, <1>29, <1>30, <1>31,
     <1>32, <1>33, <1>34, <1>35, <1>36, <1>37, <1>38, Zenon
     DEF Next, Submit, Cancel, Fault, SyncStep, RowStep, GroupStep, RunStep,
         RollbackStep

\* A row that was started, skipped or given up never starts again, however often
\* its task was sent and whatever else happens.
THEOREM RowsStartOnce == Spec => RowStartsOnce
<1>1. IInv /\ TaskFrame /\ [Next]_vars =>
        [\A w \in Row :
           /\ rowSt[w] = "running" => rowSt'[w] \in {"running", "ended"}
           /\ rowSt[w] = "skipped" => rowSt'[w] = "skipped"
           /\ rowSt[w] \in Final => rowSt'[w] \in Final]_vars
  BY MovesStep DEF RowMoves
<1>2. QED
  BY <1>1, Invariance, TaskFrameInvariance, PTL DEF Spec, RowStartsOnce

\* A run dispatched per host that was cancelled or ended is not reopened, by no
\* deferral, resumption, release, sweep or message that comes late.
THEOREM RunsStayClosed == Spec => RunStaysClosed
<1>1. IInv /\ TaskFrame /\ [Next]_vars =>
        [\A r \in Run \ Group : runSt[r] \in Final => runSt'[r] \in Final]_vars
  BY MovesStep DEF RunMoves
<1>2. QED
  BY <1>1, Invariance, TaskFrameInvariance, PTL DEF Spec, RunStaysClosed

(***************************************************************************)
(* The queue implements RunLife                                            *)
(***************************************************************************)

\* What its steps rely on: an open run has rows, a run that is not open yet has
\* none, a row does not wait in a cancelled run, and only a run that exists is
\* asked to be cancelled.
LifeFrame ==
  /\ Life!RowsFollowRun
  /\ \A r \in HostRun : cancel[r] # "no" => runSt[r] # "none"

life == <<runLife, rowLife>>

Asked ==
  \A r \in HostRun : cancel'[r] # "no" => cancel[r] # "no" \/ runSt[r] # "none"

LifeMoves == [Life!Next]_life /\ Asked

\* Statuses of one life are one to it, and what becomes of the runs and rows of
\* group dispatches is nothing to it.
LEMMA LifeKept ==
  ASSUME \A r \in HostRun : RunLifeOf(runSt'[r]) = RunLifeOf(runSt[r]),
         \A w \in HostRow : RowLifeOf(rowSt'[w]) = RowLifeOf(rowSt[w])
  PROVE  UNCHANGED life
BY DEF life, runLife, rowLife

\* Read off the columns, lives have their types.
LEMMA LifeType == TypeOK => Life!TypeOK
BY Structure
   DEF TypeOK, Life!TypeOK, runLife, rowLife, RunLifeOf, RowLifeOf, HostRun,
       HostRow, RunStatus, RowStatus, Group

\* A run ends, and gives up the rows S that wait.
LEMMA LifeEnds ==
  ASSUME TypeOK, NEW r \in HostRun, NEW S \in SUBSET Row,
         runSt[r] # "none", runSt'[r] = "ended",
         \A q \in Run \ {r} : runSt'[q] = runSt[q],
         \A w \in S : /\ RowRun[w] = r
                      /\ rowSt[w] \in {"queued", "pending"}
                      /\ rowSt'[w] = "cancelled",
         \A w \in Row \ S : rowSt'[w] = rowSt[w]
  PROVE  Life!Next
<1>1. S \in SUBSET HostRow
  BY DEF HostRow
<1>2. Life!End(r)
  <2>1. runLife[r] # "none"
    BY DEF runLife, RunLifeOf, TypeOK, HostRun
  <2>2. S \in SUBSET Life!Waiting(r)
    BY <1>1 DEF Life!Waiting, Life!Rows, rowLife, RowLifeOf
  <2>3. runLife' = [runLife EXCEPT ![r] = "ended"]
    BY DEF runLife, RunLifeOf, HostRun
  <2>4. rowLife' = Life!Moved(S, "over")
    BY DEF Life!Moved, rowLife, RowLifeOf, HostRow
  <2>5. QED
    BY <2>1, <2>2, <2>3, <2>4 DEF Life!End
<1>3. QED
  BY <1>1, <1>2 DEF Life!Next

\* A run is cancelled, with all of its rows that wait.
LEMMA LifeCancels ==
  ASSUME TypeOK, NEW r \in HostRun,
         runSt[r] # "none", runSt'[r] = "cancelled",
         \A q \in Run \ {r} : runSt'[q] = runSt[q],
         rowSt' = MoveRows(r, {"queued", "pending"}, "cancelled")
  PROVE  Life!Next
<1>1. Life!Cancel(r)
  <2>1. runLife[r] # "none"
    BY DEF runLife, RunLifeOf, TypeOK, HostRun
  <2>2. runLife' = [runLife EXCEPT ![r] = "cancelled"]
    BY DEF runLife, RunLifeOf, HostRun
  <2>3. \A w \in HostRow :
          w \in Life!Waiting(r) <=>
            RowRun[w] = r /\ rowSt[w] \in {"queued", "pending"}
    BY DEF Life!Waiting, Life!Rows, rowLife, RowLifeOf
  <2>4. rowLife' = Life!Moved(Life!Waiting(r), "over")
    BY <2>3 DEF Life!Moved, rowLife, RowLifeOf, HostRow, MoveRows
  <2>5. QED
    BY <2>1, <2>2, <2>4 DEF Life!Cancel
<1>2. QED
  BY <1>1 DEF Life!Next

\* A row starts, is given up or is over, and its run keeps its life.
LEMMA LifeOfOneRow ==
  ASSUME TypeOK, NEW w \in HostRow,
         \A r \in HostRun : RunLifeOf(runSt'[r]) = RunLifeOf(runSt[r]),
         \A v \in Row \ {w} : rowSt'[v] = rowSt[v],
         \/ /\ rowSt[w] \in {"queued", "pending"}
            /\ rowSt'[w] = "running"
            /\ runLife[RowRun[w]] \in {"open", "ended"}
         \/ /\ rowSt[w] \in {"queued", "pending", "running"}
            /\ rowSt'[w] \in {"ended", "cancelled"}
  PROVE  Life!Next
<1>1. runLife' = runLife
  BY DEF runLife
<1>2. rowLife' = [rowLife EXCEPT ![w] = RowLifeOf(rowSt'[w])]
  BY DEF rowLife, HostRow
<1>3. rowLife[w] = RowLifeOf(rowSt[w])
  BY DEF rowLife
<1>4. Life!Start(w) \/ Life!GiveUp(w) \/ Life!Finish(w)
  BY <1>1, <1>2, <1>3 DEF RowLifeOf, Life!Start, Life!GiveUp, Life!Finish
<1>5. QED
  BY <1>4 DEF Life!Next

\* A release only sends what waits: it puts back a pending row, or a run that
\* has no rows yet, which is a group dispatch.
LEMMA DispatchNextLife ==
  ASSUME TypeOK, LifeFrame, NEW h, NEW ended, DispatchNext(h, ended)
  PROVE  UNCHANGED life
<1> DEFINE next == Oldest({ o \in Waiting(h) : RunOf(o) # ended })
<1>1. CASE UNCHANGED <<rowSt, runSt>>
  BY <1>1, LifeKept
<1>2. CASE \E w \in next \cap Row :
             rowSt' = [rowSt EXCEPT ![w] = "queued"] /\ UNCHANGED runSt
  <2>1. PICK w \in next \cap Row : rowSt' = [rowSt EXCEPT ![w] = "queued"]
    BY <1>2
  <2>2. rowSt[w] = "pending"
    BY StructureAssumption
       DEF Oldest, Waiting, WaitingSyncs, WaitingRuns, WaitingRows
  <2>3. \A v \in Row : RowLifeOf(rowSt'[v]) = RowLifeOf(rowSt[v])
    BY <2>1, <2>2 DEF TypeOK, RowLifeOf
  <2>4. QED
    BY <1>2, <2>3, LifeKept DEF HostRow
<1>3. CASE \E r \in next \cap Run :
             runSt' = [runSt EXCEPT ![r] = "queued"] /\ UNCHANGED rowSt
  <2>1. PICK r \in next \cap Run : runSt' = [runSt EXCEPT ![r] = "queued"]
    BY <1>3
  <2>2. runSt[r] = "pending" /\ NoRows(r)
    BY StructureAssumption
       DEF Oldest, Waiting, WaitingSyncs, WaitingRuns, WaitingRows
  <2>3. r \notin HostRun
    <3>1. SUFFICES ASSUME r \in HostRun PROVE FALSE
      OBVIOUS
    <3>2. PICK w \in Row : RowRun[w] = r
      BY Structure
    <3>3. w \in HostRow /\ rowSt[w] = "none"
      BY <2>2, <3>1, <3>2 DEF HostRow, NoRows, Rows
    <3>4. QED
      BY <2>2, <3>1, <3>2, <3>3
         DEF LifeFrame, Life!RowsFollowRun, runLife, rowLife, RunLifeOf,
             RowLifeOf
  <2>4. \A q \in HostRun : runSt'[q] = runSt[q]
    BY <2>1, <2>3 DEF HostRun
  <2>5. QED
    BY <1>3, <2>4, LifeKept
<1>4. QED
  BY <1>1, <1>2, <1>3 DEF DispatchNext

\* What the steps rely on follows from the steps of RunLife alone.
LEMMA LifeFrameStep ==
  TypeOK /\ TypeOK' /\ LifeFrame /\ LifeMoves => LifeFrame'
<1> SUFFICES ASSUME TypeOK, TypeOK', LifeFrame, LifeMoves PROVE LifeFrame'
  OBVIOUS
<1>1. Life!TypeOK /\ Life!TypeOK'
  BY LifeType, PTL
<1>2. \A w \in HostRow : RowRun[w] \in HostRun
  BY DEF HostRow
<1> DEFINE Goal == /\ Life!RowsFollowRun'
                   /\ \A r \in HostRun :
                        runLife[r] # "none" => runLife'[r] # "none"
<1>3. Goal
  <2> USE <1>1, <1>2 DEF LifeFrame, Life!TypeOK, Life!RowsFollowRun
  <2>1. CASE UNCHANGED life
    BY <2>1 DEF life
  <2>2. ASSUME NEW r \in HostRun, Life!Submit(r) PROVE Goal
    BY <2>2 DEF Life!Submit
  <2>3. ASSUME NEW r \in HostRun, Life!Open(r) PROVE Goal
    BY <2>3 DEF Life!Open, Life!Moved, Life!Rows
  <2>4. ASSUME NEW r \in HostRun, Life!Cancel(r) PROVE Goal
    BY <2>4 DEF Life!Cancel, Life!Moved, Life!Waiting, Life!Rows
  <2>5. ASSUME NEW r \in HostRun, Life!End(r) PROVE Goal
    BY <2>5 DEF Life!End, Life!Moved, Life!Waiting, Life!Rows
  <2>6. ASSUME NEW w \in HostRow,
               Life!Start(w) \/ Life!GiveUp(w) \/ Life!Finish(w)
        PROVE  Goal
    BY <2>6 DEF Life!Start, Life!GiveUp, Life!Finish
  <2>7. QED
    BY <2>1, <2>2, <2>3, <2>4, <2>5, <2>6 DEF LifeMoves, Life!Next
<1>4. QED
  BY <1>3 DEF LifeMoves, Asked, LifeFrame, runLife, RunLifeOf, TypeOK, HostRun

\* Every step of the queue is one of RunLife, or none.
LEMMA LifeStep ==
  IInv /\ TaskFrame /\ LifeFrame /\ [Next]_vars => LifeMoves
<1> SUFFICES ASSUME TypeOK, Existing, TaskFrame, LifeFrame, [Next]_vars
             PROVE  LifeMoves
  BY DEF IInv
<1> USE DEF syncVars, rowVars, runVars, groupVars, backVars
<1>1. ASSUME UNCHANGED <<runSt, rowSt, cancel>> PROVE LifeMoves
  BY <1>1, LifeKept DEF LifeMoves, Asked
<1>2. ASSUME UNCHANGED <<runSt, rowSt>>, Asked PROVE LifeMoves
  BY <1>2, LifeKept DEF LifeMoves
<1>3. ASSUME NEW s \in Sync, SubmitSync(s) PROVE LifeMoves
  BY <1>1, <1>3 DEF SubmitSync
<1>4. ASSUME NEW s \in Sync, StartSync(s) PROVE LifeMoves
  BY <1>1, <1>4 DEF StartSync
<1>5. ASSUME NEW s \in Sync, FinishSync(s) PROVE LifeMoves
  BY <1>1, <1>5 DEF FinishSync
<1>6. ASSUME NEW s \in Sync, SweepSync(s) PROVE LifeMoves
  BY <1>1, <1>6 DEF SweepSync
<1>7. ASSUME NEW w \in Row, OrchSend(w) PROVE LifeMoves
  BY <1>1, <1>7 DEF OrchSend
<1>8. ASSUME NEW w \in Row, NEW s \in Sync, QueuePostRunSync(w, s)
      PROVE  LifeMoves
  BY <1>1, <1>8 DEF QueuePostRunSync
<1>9. ASSUME NEW r \in Run, NEW s \in Sync, QueueGroupSync(r, s) PROVE LifeMoves
  BY <1>1, <1>9 DEF QueueGroupSync
<1>10. ASSUME NEW b \in Rollback, StartRollback(b) PROVE LifeMoves
  BY <1>1, <1>10 DEF StartRollback
<1>11. ASSUME NEW b \in Rollback, FinishRollback(b) PROVE LifeMoves
  BY <1>1, <1>11 DEF FinishRollback
<1>12. ASSUME NEW r \in Run, RequestCancel(r) PROVE LifeMoves
  BY <1>2, <1>12 DEF RequestCancel, Asked, TypeOK, HostRun
<1>13. CASE WorkerDies
  BY <1>1, <1>13 DEF WorkerDies
<1>14. CASE LateDeath
  BY <1>1, <1>14 DEF LateDeath
<1>15. CASE LoseMessage
  BY <1>1, <1>15 DEF LoseMessage
<1>16. CASE UNCHANGED vars
  BY <1>1, <1>16 DEF vars
<1>17. ASSUME NEW s \in Sync, ReleaseSync(s)
       PROVE  LifeMoves
  BY <1>17, DispatchNextLife DEF ReleaseSync, LifeMoves, Asked
<1>18. ASSUME NEW w \in Row, ReleaseRow(w)
       PROVE  LifeMoves
  BY <1>18, DispatchNextLife DEF ReleaseRow, LifeMoves, Asked
<1>19. ASSUME NEW r \in Run, NEW h \in Host, ReleaseGroup(r, h)
       PROVE  LifeMoves
  BY <1>19, DispatchNextLife DEF ReleaseGroup, LifeMoves, Asked
<1>20. ASSUME NEW b \in Rollback, ReleaseRollback(b)
       PROVE  LifeMoves
  BY <1>20, DispatchNextLife DEF ReleaseRollback, LifeMoves, Asked
<1>21. ASSUME NEW r \in Run, NEW h \in Host, SweepRelease(r, h)
       PROVE  LifeMoves
  BY <1>21, DispatchNextLife DEF SweepRelease, LifeMoves, Asked
<1>22. ASSUME NEW r \in Group, UNCHANGED cancel,
            \A q \in Run \ {r} : runSt'[q] = runSt[q],
            \A w \in Row : RowRun[w] # r => rowSt'[w] = rowSt[w]
      PROVE  LifeMoves
  BY <1>22, LifeKept DEF LifeMoves, Asked, HostRun, HostRow
<1>23. ASSUME NEW r \in Run, ClaimGroup(r) PROVE LifeMoves
  <2>1. r \in Group
    BY <1>23 DEF ClaimGroup, Existing
  <2>2. QED
    BY <1>23, <2>1, <1>22 DEF ClaimGroup, TypeOK
<1>24. ASSUME NEW r \in Run, LoadGroup(r) PROVE LifeMoves
  <2>1. r \in Group
    BY <1>24 DEF LoadGroup, Existing
  <2>2. QED
    BY <1>24, <2>1, <1>22 DEF LoadGroup, TypeOK, Rows
<1>25. ASSUME NEW r \in Run, FinishGroup(r) PROVE LifeMoves
  <2>1. r \in Group
    BY <1>25 DEF FinishGroup, Existing
  <2>2. QED
    BY <1>25, <2>1, <1>22 DEF FinishGroup, TypeOK, MoveRows
<1>26. ASSUME NEW r \in Run, CloseGroup(r) PROVE LifeMoves
  <2>1. r \in Group
    BY <1>26 DEF CloseGroup, Existing
  <2>2. QED
    BY <1>26, <2>1, <1>22 DEF CloseGroup, TypeOK
<1>27. ASSUME NEW r \in Run, FailGroup(r) PROVE LifeMoves
  <2>1. r \in Group
    BY <1>27 DEF FailGroup, Existing
  <2>2. QED
    BY <1>27, <2>1, <1>22 DEF FailGroup, TypeOK, MoveRows
<1>28. ASSUME NEW r \in Run, StartGroup(r) PROVE LifeMoves
  <2>1. r \in Group
    BY <1>28 DEF StartGroup, Existing
  <2>2. QED
    BY <1>28, <2>1, <1>22 DEF StartGroup, TypeOK
<1>29. ASSUME NEW r \in Run, SubmitRun(r) PROVE LifeMoves
  <2>1. CASE r \in HostRun
    <3>1. Life!Submit(r)
      BY <1>29, <2>1 DEF SubmitRun, TypeOK, runLife, rowLife, RunLifeOf,
           HostRun, Life!Submit
    <3>2. QED
      BY <1>29, <2>1, <3>1 DEF SubmitRun, LifeMoves, Asked, Life!Next
  <2>2. CASE r \in Group
    BY <1>29, <2>2, <1>22 DEF SubmitRun, TypeOK
  <2>3. QED
    BY <2>1, <2>2 DEF HostRun
<1>30. ASSUME NEW r \in Run, RunAction(r) PROVE LifeMoves
  <2>1. CASE UNCHANGED <<rowSt, runSt>>
    BY <1>30, <1>1, <2>1 DEF RunAction
  <2>2. CASE /\ runSt[r] = "queued"
             /\ r \notin Group
             /\ runSt' = [runSt EXCEPT ![r] = "running"]
             /\ rowSt' = MoveRows(r, RowStatus, "queued")
    <3>1. r \in HostRun
      BY <2>2 DEF HostRun
    <3>2. \A w \in Life!Rows(r) : rowLife[w] = "none"
      BY <2>2, <3>1 DEF LifeFrame, Life!RowsFollowRun, Life!Rows, runLife,
           RunLifeOf
    <3>3. runLife' = [runLife EXCEPT ![r] = "open"]
      BY <2>2, <3>1 DEF runLife, RunLifeOf, TypeOK, HostRun
    <3>4. rowLife' = Life!Moved(Life!Rows(r), "waiting")
      BY <2>2 DEF Life!Moved, Life!Rows, rowLife, RowLifeOf, HostRow, MoveRows,
           TypeOK
    <3>5. Life!Open(r)
      BY <2>2, <3>1, <3>2, <3>3, <3>4 DEF Life!Open, runLife, RunLifeOf
    <3>6. QED
      BY <1>30, <3>1, <3>5 DEF RunAction, LifeMoves, Asked, Life!Next
  <2>3. QED
    BY <1>30, <2>1, <2>2 DEF RunAction
<1>31. ASSUME NEW r \in HostRun, NEW S \in SUBSET Row, UNCHANGED cancel,
            runSt[r] # "none", runSt' = [runSt EXCEPT ![r] = "ended"],
            \A w \in S : /\ RowRun[w] = r
                         /\ rowSt[w] \in {"queued", "pending"}
                         /\ rowSt'[w] = "cancelled",
            \A w \in Row \ S : rowSt'[w] = rowSt[w]
      PROVE  LifeMoves
  <2>1. runSt'[r] = "ended" /\ \A q \in Run \ {r} : runSt'[q] = runSt[q]
    BY <1>31 DEF TypeOK, HostRun
  <2>2. QED
    BY <1>31, <2>1, LifeEnds DEF LifeMoves, Asked
<1>32. ASSUME NEW r \in HostRun, NEW F \in SUBSET {"queued", "pending"},
            UNCHANGED cancel, runSt[r] # "none",
            runSt' = [runSt EXCEPT ![r] = "ended"],
            rowSt' = MoveRows(r, F, "cancelled")
      PROVE  LifeMoves
  <2> DEFINE S == { w \in Row : RowRun[w] = r /\ rowSt[w] \in F }
  <2>1. /\ S \in SUBSET Row
        /\ \A w \in S : /\ RowRun[w] = r
                        /\ rowSt[w] \in {"queued", "pending"}
                        /\ rowSt'[w] = "cancelled"
        /\ \A w \in Row \ S : rowSt'[w] = rowSt[w]
    BY <1>32 DEF MoveRows, TypeOK
  <2> HIDE DEF S
  <2>2. QED
    BY <1>31, <1>32, <2>1
<1>33. ASSUME NEW r \in HostRun, UNCHANGED <<rowSt, cancel>>, runSt[r] # "none",
            runSt' = [runSt EXCEPT ![r] = "ended"]
      PROVE  LifeMoves
  <2>1. /\ {} \in SUBSET Row
        /\ \A w \in Row \ {} : rowSt'[w] = rowSt[w]
    BY <1>33
  <2>2. QED
    BY <1>31, <1>33, <2>1
<1>34. ASSUME NEW r \in Run, FinaliseRun(r), UNCHANGED <<rowSt, cancel>>
      PROVE  LifeMoves
  <2>1. CASE r \in Group
    BY <1>22, <1>34, <2>1 DEF FinaliseRun, TypeOK
  <2>2. CASE r \in HostRun /\ runSt' = runSt
    BY <1>1, <1>34, <2>2
  <2>3. CASE /\ r \in HostRun /\ RunOpen(r)
             /\ runSt' = [runSt EXCEPT ![r] = "ended"]
    BY <1>33, <1>34, <2>3 DEF RunOpen
  <2>4. QED
    BY <1>34, <2>1, <2>2, <2>3 DEF FinaliseRun, HostRun, TypeOK
<1>35. ASSUME NEW r \in Run, CloseRun(r) PROVE LifeMoves
  BY <1>34, <1>35 DEF CloseRun
<1>36. ASSUME NEW w \in Row, CloseParent(w) PROVE LifeMoves
  BY <1>34, <1>36, Structure DEF CloseParent
<1>37. ASSUME NEW r \in Run, OrchTimeout(r) PROVE LifeMoves
  BY <1>32, <1>37 DEF OrchTimeout, HostRun
<1>38. ASSUME NEW r \in Run, OrchError(r) PROVE LifeMoves
  BY <1>33, <1>38 DEF OrchError, HostRun
<1>39. ASSUME NEW r \in Run, SweepOrphan(r) PROVE LifeMoves
  <2>1. CASE r \in Group
    BY <1>22, <1>39, <2>1 DEF SweepOrphan, TypeOK
  <2>2. CASE r \in HostRun
    BY <1>33, <1>39, <2>2 DEF SweepOrphan
  <2>3. QED
    BY <2>1, <2>2 DEF HostRun
<1>40. ASSUME NEW r \in Run, SweepRun(r) PROVE LifeMoves
  <2>1. CASE r \in Group
    BY <1>22, <1>40, <2>1 DEF SweepRun, TypeOK, MoveRows
  <2>2. CASE r \in HostRun
    BY <1>32, <1>40, <2>2 DEF SweepRun
  <2>3. QED
    BY <2>1, <2>2 DEF HostRun
<1>41. ASSUME NEW r \in Run, OrchSeesCancel(r) PROVE LifeMoves
  <2>1. r \in HostRun /\ runSt[r] # "none" /\ runSt'[r] = "cancelled"
    BY <1>41 DEF OrchSeesCancel, HostRun, TypeOK
  <2>2. \A q \in Run \ {r} : runSt'[q] = runSt[q]
    BY <1>41 DEF OrchSeesCancel, TypeOK
  <2>3. QED
    BY <1>41, <2>1, <2>2, LifeCancels DEF OrchSeesCancel, LifeMoves, Asked
<1>42. ASSUME NEW r \in Run, CommitCancel(r) PROVE LifeMoves
  <2>1. \A q \in Run \ {r} : runSt'[q] = runSt[q] /\ cancel'[q] = cancel[q]
    BY <1>42 DEF CommitCancel, TypeOK
  <2>2. cancel[r] # "no"
    BY <1>42 DEF CommitCancel
  <2>3. Asked
    BY <2>1, <2>2 DEF Asked, HostRun
  <2>4. CASE r \in Group
    <3>1. \A w \in Row : RowRun[w] # r => rowSt'[w] = rowSt[w]
      BY <1>42 DEF CommitCancel, MoveRows
    <3>2. QED
      BY <2>1, <2>3, <2>4, <3>1, LifeKept DEF LifeMoves, HostRun, HostRow
  <2>5. CASE r \in HostRun
    <3>1. runSt[r] # "none" /\ runSt'[r] = "cancelled"
      BY <1>42, <2>2, <2>5 DEF CommitCancel, TypeOK, LifeFrame
    <3>2. QED
      BY <1>42, <2>1, <2>3, <2>5, <3>1, LifeCancels DEF CommitCancel, LifeMoves
  <2>6. QED
    BY <2>4, <2>5 DEF HostRun
<1>43. ASSUME NEW w \in Row, UNCHANGED cancel, RowRun[w] \in Run \ Group,
            \A r \in HostRun : RunLifeOf(runSt'[r]) = RunLifeOf(runSt[r]),
            \A v \in Row \ {w} : rowSt'[v] = rowSt[v],
            \/ /\ rowSt[w] \in {"queued", "pending"}
               /\ rowSt'[w] = "running"
            \/ /\ rowSt[w] \in {"queued", "pending", "running"}
               /\ rowSt'[w] \in {"ended", "cancelled"}
      PROVE  LifeMoves
  <2>1. w \in HostRow
    BY <1>43 DEF HostRow, HostRun
  <2>2. rowSt[w] \in {"queued", "pending"} =>
          runLife[RowRun[w]] \in {"open", "ended"}
    BY <2>1 DEF LifeFrame, Life!RowsFollowRun, rowLife, RowLifeOf
  <2>3. QED
    BY <1>43, <2>1, <2>2, LifeOfOneRow DEF LifeMoves, Asked
<1>44. ASSUME NEW w \in Row, FinishRow(w) PROVE LifeMoves
  <2>1. rowSt[w] = "running" /\ RowRun[w] \in Run \ Group
    BY <1>44, Structure DEF FinishRow, TaskFrame
  <2>2. UNCHANGED <<cancel, runSt>> /\ rowSt' = [rowSt EXCEPT ![w] = "ended"]
    BY <1>44 DEF FinishRow
  <2>3. QED
    BY <1>43, <2>1, <2>2 DEF TypeOK
<1>45. ASSUME NEW w \in Row, SweepRow(w) PROVE LifeMoves
  <2>1. /\ rowSt[w] = "running"
        /\ UNCHANGED <<cancel, runSt>>
        /\ rowSt' = [rowSt EXCEPT ![w] = "ended"]
    BY <1>45 DEF SweepRow
  <2>2. CASE RowRun[w] \in Group
    BY <1>22, <2>1, <2>2 DEF TypeOK
  <2>3. CASE RowRun[w] \notin Group
    BY <1>43, <2>1, <2>3, Structure DEF TypeOK
  <2>4. QED
    BY <2>2, <2>3
<1>46. ASSUME NEW w \in Row, StartRow(w) PROVE LifeMoves
  <2>1. UNCHANGED cancel
    BY <1>46 DEF StartRow
  <2>2. CASE UNCHANGED <<rowSt, runSt>>
    BY <1>1, <2>1, <2>2
  <2>3. CASE rowSt[w] = "queued" /\ UNCHANGED runSt
             /\ rowSt' = [rowSt EXCEPT ![w] = "cancelled"]
    <3>1. RowRun[w] \in Run \ Group
      BY <2>3, Structure DEF TaskFrame
    <3>2. QED
      BY <1>43, <2>1, <2>3, <3>1 DEF TypeOK
  <2>4. CASE rowSt[w] = "queued" /\ DeferParent(RowRun[w])
             /\ rowSt' = [rowSt EXCEPT ![w] = "pending"]
    <3>1. RowRun[w] \in Run \ Group /\ runSt[RowRun[w]] # "queued"
      BY <2>4, Structure DEF TaskFrame
    <3>2. \A r \in HostRun : RunLifeOf(runSt'[r]) = RunLifeOf(runSt[r])
      BY <2>4, <3>1 DEF DeferParent, RunLifeOf, TypeOK, HostRun
    <3>3. \A v \in HostRow : RowLifeOf(rowSt'[v]) = RowLifeOf(rowSt[v])
      BY <2>4 DEF RowLifeOf, TypeOK, HostRow
    <3>4. QED
      BY <2>1, <3>2, <3>3, LifeKept DEF LifeMoves, Asked
  <2>5. CASE rowSt[w] = "queued" /\ ResumeParent(RowRun[w])
             /\ rowSt' = [rowSt EXCEPT ![w] = "running"]
    <3>1. RowRun[w] \in Run \ Group
      BY <2>5, Structure DEF TaskFrame
    <3>2. \A r \in HostRun : RunLifeOf(runSt'[r]) = RunLifeOf(runSt[r])
      BY <2>5 DEF ResumeParent, RunLifeOf, TypeOK, HostRun
    <3>3. rowSt'[w] = "running" /\ \A v \in Row \ {w} : rowSt'[v] = rowSt[v]
      BY <2>5 DEF TypeOK
    <3>4. QED
      BY <1>43, <2>1, <2>5, <3>1, <3>2, <3>3
  <2>6. QED
    BY <1>46, <2>2, <2>3, <2>4, <2>5, Zenon DEF StartRow, Claimable
<1>47. QED
  BY <1>3, <1>4, <1>5, <1>6, <1>7, <1>8, <1>9, <1>10, <1>11, <1>12, <1>13,
     <1>14, <1>15, <1>16, <1>17, <1>18, <1>19, <1>20, <1>21, <1>23, <1>24,
     <1>25, <1>26, <1>27, <1>28, <1>29, <1>30, <1>35, <1>36, <1>37, <1>38,
     <1>39, <1>40, <1>41, <1>42, <1>44, <1>45, <1>46, Zenon
     DEF Next, Submit, Cancel, Fault, SyncStep, RowStep, GroupStep, RunStep,
         RollbackStep

\* THEOREM: the queue refines RunLife for any hosts, operations, bound on sends
\* and set of faults. Whatever is deferred, repeated, cancelled, swept or lost:
\* the rows of a run that is dispatched per host are created once and together,
\* each starts at most once and never in a cancelled run, and none opens twice.
THEOREM RunsLiveOnce == Spec => ImplementsRunLife
<1>1. Init => Life!Init /\ LifeFrame
  <2> SUFFICES ASSUME Init PROVE Life!Init /\ LifeFrame
    OBVIOUS
  <2>1. /\ runLife = [r \in HostRun |-> "none"]
        /\ rowLife = [w \in HostRow |-> "none"]
    BY DEF Init, runLife, rowLife, RunLifeOf, RowLifeOf, HostRun, HostRow
  <2>2. QED
    BY <2>1 DEF Init, Life!Init, LifeFrame, Life!RowsFollowRun, HostRow, HostRun
<1>2. Spec => []LifeFrame
  BY <1>1, TypeCorrect, Invariance, TaskFrameInvariance, LifeStep,
     LifeFrameStep, PTL DEF Spec
<1>3. LifeMoves => [Life!Next]_<<runLife, rowLife>>
  BY DEF LifeMoves, life
<1>4. QED
  BY <1>1, <1>2, <1>3, Invariance, TaskFrameInvariance, LifeStep, PTL
     DEF Spec, ImplementsRunLife, Life!Spec

(***************************************************************************)
(* No lost wakeup                                                          *)
(***************************************************************************)

\* Without cancels, crashes, losses, failing drivers and deadlines: what is at
\* work is on record, and what is on record is at work.
SyncBooks ==
  \A s \in Sync :
    /\ syncTask[s] \in {"idle", "working", "releasing"}
    /\ syncSt[s] = "running" => syncTask[s] = "working"
    /\ syncTask[s] = "releasing" => syncSt[s] = "ended"
BackBooks ==
  \A b \in Rollback : backSt[b] = "running" => backTask[b] = "working"
RowBooked(w) ==
  /\ rowTask[w] # "dead"
  /\ rowTask[w] \in {"closing", "releasing"} => rowSt[w] = "ended"
  /\ rowSt[w] = "none" => rowSent[w] = 0
  /\ rowSt[w] = "queued" => rowMsg[w] > 0 \/ rowSent[w] = 0
  /\ rowSt[w] = "running" => IF RowRun[w] \in Group
                            THEN groupTask[RowRun[w]] = "working"
                            ELSE rowTask[w] = "working"
  /\ Kind[RowRun[w]] = "host" /\ runSt[RowRun[w]] = "running" =>
       rowSt[w] \in {"queued", "running"} \/ rowTask[w] = "closing"
RunBooked(r) ==
  /\ cancel[r] = "no" /\ groupTask[r] # "dead"
  /\ groupOwes[r] \subseteq Members(r)
  /\ groupTask[r] \in {"claimed", "working", "closing", "closed"} =>
       groupOwes[r] = Members(r)
  /\ Kind[r] # "host" /\ runSt[r] = "running" /\ NoRows(r) =>
       groupTask[r] = "claimed"
  /\ runSt[r] = "pending" /\ NoRows(r) => r \in Group
  /\ sweepOwes[r] # {} => r \in Group /\ ~NoRows(r)
RowBooks == \A w \in Row : RowBooked(w)
RunBooks == \A r \in Run : RunBooked(r)
Books == SyncBooks /\ BackBooks /\ RowBooks /\ RunBooks

\* The steps that are left.
CalmStep ==
  \/ \E s \in Sync :
       SubmitSync(s) \/ StartSync(s) \/ FinishSync(s) \/ ReleaseSync(s)
  \/ \E w \in Row :
       \/ OrchSend(w) \/ StartRow(w) \/ FinishRow(w) \/ CloseParent(w)
       \/ ReleaseRow(w) \/ SweepRow(w)
       \/ \E s \in Sync : QueuePostRunSync(w, s)
  \/ \E r \in Run :
       \/ SubmitRun(r) \/ RunAction(r) \/ CloseRun(r)
       \/ StartGroup(r) \/ ClaimGroup(r) \/ LoadGroup(r) \/ FinishGroup(r)
       \/ CloseGroup(r) \/ FailGroup(r)
       \/ \E s \in Sync : QueueGroupSync(r, s)
       \/ \E h \in Host : ReleaseGroup(r, h) \/ SweepRelease(r, h)
  \/ \E b \in Rollback :
       StartRollback(b) \/ FinishRollback(b) \/ ReleaseRollback(b)
  \/ UNCHANGED vars

\* What the environment may still do: slow group tasks, members without a key.
LEMMA OnlyCalm ==
  ASSUME May \subseteq {"slowGroup", "noKey"}, Books, [Next]_vars
  PROVE  CalmStep
<1>1. {"cancel", "workerDies", "lateDeath", "lostMessage", "orchError",
       "orchTimeout", "runDeadline", "orphan"} \cap May = {}
  OBVIOUS
<1>2. \A s \in Sync : ~SweepSync(s)
  BY DEF Books, SyncBooks, SweepSync
<1>3. \A r \in Run : /\ ~OrchSeesCancel(r) /\ ~OrchTimeout(r) /\ ~OrchError(r)
                     /\ ~RequestCancel(r) /\ ~CommitCancel(r)
                     /\ ~SweepRun(r) /\ ~SweepOrphan(r)
  BY <1>1
     DEF Books, RunBooks, RunBooked, OrchSeesCancel, OrchTimeout, OrchError,
         Token,
       RequestCancel, CommitCancel, SweepRun, SweepOrphan
<1>4. ~WorkerDies /\ ~LateDeath /\ ~LoseMessage
  BY <1>1 DEF WorkerDies, LateDeath, LoseMessage
<1>5. CASE UNCHANGED vars
  BY <1>5 DEF CalmStep
<1>6. CASE Submit
  BY <1>6, Zenon DEF Submit, CalmStep
<1>7. CASE Cancel
  BY <1>7, <1>3 DEF Cancel
<1>8. CASE Fault
  BY <1>8, <1>3, <1>4, Zenon DEF Fault, CalmStep
<1>9. ASSUME NEW s \in Sync, SyncStep(s) PROVE CalmStep
  BY <1>9, <1>2 DEF SyncStep, CalmStep
<1>10. ASSUME NEW w \in Row, OrchSend(w) \/ RowStep(w) PROVE CalmStep
  BY <1>10, Zenon DEF RowStep, CalmStep
<1>11. ASSUME NEW r \in Run, GroupStep(r) \/ RunStep(r) PROVE CalmStep
  BY <1>11, <1>3, Zenon DEF GroupStep, RunStep, CalmStep
<1>12. ASSUME NEW b \in Rollback, RollbackStep(b) PROVE CalmStep
  BY <1>12, Zenon DEF RollbackStep, CalmStep
<1>13. QED
  BY <1>5, <1>6, <1>7, <1>8, <1>9, <1>10, <1>11, <1>12, Zenon DEF Next

\* A release moves what waits, and nothing of what it moves has started.
LEMMA Picked ==
  ASSUME IInv, TaskFrame, NEW h, NEW ended, DispatchNext(h, ended)
  PROVE  \/ UNCHANGED <<rowSt, rowMsg, runSt>>
         \/ \E w \in Row : /\ rowSt[w] = "pending" /\ RowRun[w] \notin Group
                           /\ rowSt' = [rowSt EXCEPT ![w] = "queued"]
                           /\ rowMsg' = [rowMsg EXCEPT ![w] = @ + 1]
                           /\ UNCHANGED runSt
         \/ \E r \in Run : /\ runSt[r] = "pending" /\ NoRows(r)
                           /\ runSt' = [runSt EXCEPT ![r] = "queued"]
                           /\ UNCHANGED <<rowSt, rowMsg>>
<1> DEFINE next == Oldest({ o \in Waiting(h) : RunOf(o) # ended })
<1>1. \A w \in next \cap Row : rowSt[w] = "pending"
  BY StructureAssumption
     DEF Oldest, Waiting, WaitingSyncs, WaitingRuns, WaitingRows
<1>2. \A w \in next \cap Row : RowRun[w] \notin Group
  BY <1>1 DEF TaskFrame
<1>3. \A r \in next \cap Run : runSt[r] = "pending" /\ NoRows(r)
  BY StructureAssumption
     DEF Oldest, Waiting, WaitingSyncs, WaitingRuns, WaitingRows
<1>4. QED
  BY <1>1, <1>2, <1>3, Zenon DEF DispatchNext

\* A release, by whoever owes it, keeps the books.
LEMMA DispatchNextBooks ==
  ASSUME IInv, TaskFrame, Books, NEW h, NEW ended, DispatchNext(h, ended),
         UNCHANGED <<syncSt, backSt, rowSent, cancel>>,
         \A s \in Sync : \/ syncTask'[s] = syncTask[s]
                         \/ syncTask[s] = "releasing" /\ syncTask'[s] = "idle",
         \A b \in Rollback :
            \/ backTask'[b] = backTask[b]
            \/ backTask[b] = "releasing" /\ backTask'[b] = "idle",
         \A w \in Row : \/ rowTask'[w] = rowTask[w]
                        \/ rowTask[w] = "releasing" /\ rowTask'[w] = "idle",
         \A r \in Run :
            \/ groupTask'[r] = groupTask[r] /\ groupOwes'[r] = groupOwes[r]
            \/ /\ groupTask[r] \in {"closed", "releasing"}
               /\ groupTask'[r] \in {"idle", "releasing"}
               /\ groupOwes'[r] \subseteq groupOwes[r],
         \A r \in Run : sweepOwes'[r] \subseteq sweepOwes[r]
  PROVE  Books'
<1> USE Structure DEF IInv, TypeOK
<1>1. SyncBooks'
  BY DEF Books, SyncBooks
<1>2. BackBooks'
  BY DEF Books, BackBooks
<1>3. RowBooks' /\ RunBooks'
  <2>1. CASE UNCHANGED <<rowSt, rowMsg, runSt>>
    <3>1. RowBooks'
      BY <2>1 DEF Books, RowBooks, RowBooked
    <3>2. RunBooks'
      BY <2>1 DEF Books, RunBooks, RunBooked, NoRows
    <3>3. QED
      BY <3>1, <3>2
  <2>2. ASSUME NEW w \in Row, rowSt[w] = "pending", RowRun[w] \notin Group,
               rowSt' = [rowSt EXCEPT ![w] = "queued"],
               rowMsg' = [rowMsg EXCEPT ![w] = @ + 1], UNCHANGED runSt
        PROVE  RowBooks' /\ RunBooks'
    <3>1. RowBooks'
      BY <2>2 DEF Books, RowBooks, RowBooked
    <3>2. \A r \in Run : NoRows(r)' <=> NoRows(r)
      BY <2>2 DEF NoRows, Rows
    <3>3. RunBooks'
      BY <2>2, <3>2 DEF Books, RunBooks, RunBooked
    <3>4. QED
      BY <3>1, <3>3
  <2>3. ASSUME NEW r \in Run, runSt[r] = "pending", NoRows(r),
               runSt' = [runSt EXCEPT ![r] = "queued"],
               UNCHANGED <<rowSt, rowMsg>>
        PROVE  RowBooks' /\ RunBooks'
    <3>1. RowBooks'
      BY <2>3 DEF Books, RowBooks, RowBooked
    <3>2. RunBooks'
      BY <2>3 DEF Books, RunBooks, RunBooked, NoRows
    <3>3. QED
      BY <3>1, <3>2
  <2>4. QED
    BY <2>1, <2>2, <2>3, Picked
<1>4. QED
  BY <1>1, <1>2, <1>3 DEF Books

\* And so does every other step that is left.
LEMMA BooksStep ==
  ASSUME IInv, TaskFrame, Books, CalmStep PROVE Books'
<1> USE Structure
<1> USE DEF syncVars, rowVars, runVars, groupVars, backVars
<1>1. ASSUME NEW s \in Sync, SubmitSync(s) PROVE Books'
  <2>1. SyncBooks' /\ BackBooks'
    BY <1>1 DEF Books, SyncBooks, BackBooks, TaskFrame, IInv, TypeOK, SubmitSync
  <2>2. RowBooks'
    BY <1>1
       DEF Books, RowBooks, RowBooked, RunBooks, RunBooked, TaskFrame, IInv,
           TypeOK, Existing, SubmitSync
  <2>3. RunBooks'
    BY <1>1
       DEF Books, RunBooks, RunBooked, NoRows, Rows, IInv, TypeOK, Existing,
           SubmitSync
  <2>4. QED
    BY <2>1, <2>2, <2>3 DEF Books
<1>2. ASSUME NEW s \in Sync, StartSync(s) PROVE Books'
  <2>1. SyncBooks' /\ BackBooks'
    BY <1>2 DEF Books, SyncBooks, BackBooks, TaskFrame, IInv, TypeOK, StartSync
  <2>2. RowBooks'
    BY <1>2
       DEF Books, RowBooks, RowBooked, RunBooks, RunBooked, TaskFrame, IInv,
           TypeOK, Existing, StartSync
  <2>3. RunBooks'
    BY <1>2
       DEF Books, RunBooks, RunBooked, NoRows, Rows, IInv, TypeOK, Existing,
           StartSync
  <2>4. QED
    BY <2>1, <2>2, <2>3 DEF Books
<1>3. ASSUME NEW s \in Sync, FinishSync(s) PROVE Books'
  <2>1. SyncBooks' /\ BackBooks'
    BY <1>3 DEF Books, SyncBooks, BackBooks, TaskFrame, IInv, TypeOK, FinishSync
  <2>2. RowBooks'
    BY <1>3
       DEF Books, RowBooks, RowBooked, RunBooks, RunBooked, TaskFrame, IInv,
           TypeOK, Existing, FinishSync
  <2>3. RunBooks'
    BY <1>3
       DEF Books, RunBooks, RunBooked, NoRows, Rows, IInv, TypeOK, Existing,
           FinishSync
  <2>4. QED
    BY <2>1, <2>2, <2>3 DEF Books
<1>4. ASSUME NEW w \in Row, OrchSend(w) PROVE Books'
  <2>1. SyncBooks' /\ BackBooks'
    BY <1>4 DEF Books, SyncBooks, BackBooks, TaskFrame, IInv, TypeOK, OrchSend
  <2>2. RowBooks'
    BY <1>4
       DEF Books, RowBooks, RowBooked, RunBooks, RunBooked, TaskFrame, IInv,
           TypeOK, Existing, OrchSend
  <2>3. RunBooks'
    BY <1>4
       DEF Books, RunBooks, RunBooked, NoRows, Rows, IInv, TypeOK, Existing,
           OrchSend
  <2>4. QED
    BY <2>1, <2>2, <2>3 DEF Books
<1>5. ASSUME NEW w \in Row, FinishRow(w) PROVE Books'
  <2>1. SyncBooks' /\ BackBooks'
    BY <1>5 DEF Books, SyncBooks, BackBooks, TaskFrame, IInv, TypeOK, FinishRow
  <2>2. RowBooks'
    BY <1>5
       DEF Books, RowBooks, RowBooked, RunBooks, RunBooked, TaskFrame, IInv,
           TypeOK, Existing, FinishRow
  <2>3. RunBooks'
    BY <1>5
       DEF Books, RunBooks, RunBooked, NoRows, Rows, IInv, TypeOK, Existing,
           FinishRow
  <2>4. QED
    BY <2>1, <2>2, <2>3 DEF Books
<1>6. ASSUME NEW w \in Row, NEW s \in Sync, QueuePostRunSync(w, s) PROVE Books'
  <2>1. SyncBooks' /\ BackBooks'
    BY <1>6
       DEF Books, SyncBooks, BackBooks, TaskFrame, IInv, TypeOK,
           QueuePostRunSync
  <2>2. RowBooks'
    BY <1>6
       DEF Books, RowBooks, RowBooked, RunBooks, RunBooked, TaskFrame, IInv,
           TypeOK, Existing, QueuePostRunSync
  <2>3. RunBooks'
    BY <1>6
       DEF Books, RunBooks, RunBooked, NoRows, Rows, IInv, TypeOK, Existing,
           QueuePostRunSync
  <2>4. QED
    BY <2>1, <2>2, <2>3 DEF Books
<1>7. ASSUME NEW w \in Row, SweepRow(w) PROVE Books'
  <2>1. SyncBooks' /\ BackBooks'
    BY <1>7 DEF Books, SyncBooks, BackBooks, SweepRow
  <2>2. RowRun[w] \in Group /\ rowSt[w] = "running"
    BY <1>7 DEF Books, RowBooks, RowBooked, RunBooks, RunBooked, SweepRow
  <2>3. /\ rowSt' = [rowSt EXCEPT ![w] = "ended"]
        /\ rowTask' = [rowTask EXCEPT ![w] = "idle"]
        /\ UNCHANGED <<rowMsg, rowSent, runSt, groupTask>>
    BY <1>7 DEF SweepRow
  <2>4. RowBooks'
    BY <2>2, <2>3 DEF Books, RowBooks, RowBooked, IInv, TypeOK, Group
  <2>5. \A r \in Run : NoRows(r)' <=> NoRows(r)
    BY <2>2, <2>3 DEF NoRows, Rows, IInv, TypeOK
  <2>6. ~NoRows(RowRun[w])
    BY <2>2 DEF NoRows, Rows
  <2>7. RunBooks'
    BY <1>7, <2>2, <2>5, <2>6
       DEF Books, RunBooks, RunBooked, SweepRow, IInv, TypeOK
  <2>8. QED
    BY <2>1, <2>4, <2>7 DEF Books
<1>8. ASSUME NEW r \in Run, SubmitRun(r) PROVE Books'
  <2>1. SyncBooks' /\ BackBooks'
    BY <1>8 DEF Books, SyncBooks, BackBooks, TaskFrame, IInv, TypeOK, SubmitRun
  <2>2. RowBooks'
    BY <1>8
       DEF Books, RowBooks, RowBooked, RunBooks, RunBooked, TaskFrame, IInv,
           TypeOK, Existing, SubmitRun
  <2>3. RunBooks'
    BY <1>8
       DEF Books, RunBooks, RunBooked, NoRows, Rows, IInv, TypeOK, Existing,
           SubmitRun
  <2>4. QED
    BY <2>1, <2>2, <2>3 DEF Books
<1>9. ASSUME NEW r \in Run, StartGroup(r) PROVE Books'
  <2>1. SyncBooks' /\ BackBooks'
    BY <1>9 DEF Books, SyncBooks, BackBooks, TaskFrame, IInv, TypeOK, StartGroup
  <2>2. RowBooks'
    BY <1>9
       DEF Books, RowBooks, RowBooked, RunBooks, RunBooked, TaskFrame, IInv,
           TypeOK, Existing, StartGroup
  <2>3. RunBooks'
    BY <1>9
       DEF Books, RunBooks, RunBooked, NoRows, Rows, IInv, TypeOK, Existing,
           StartGroup
  <2>4. QED
    BY <2>1, <2>2, <2>3 DEF Books
<1>10. ASSUME NEW r \in Run, ClaimGroup(r) PROVE Books'
  <2>1. SyncBooks' /\ BackBooks'
    BY <1>10 DEF Books, SyncBooks, BackBooks, ClaimGroup
  <2>2. r \in Group /\ Kind[r] # "host"
    BY <1>10 DEF ClaimGroup, IInv, Existing, Group
  <2>3. \A q \in Run \ {r} : /\ runSt'[q] = runSt[q]
                            /\ groupTask'[q] = groupTask[q]
    BY <1>10 DEF ClaimGroup, IInv, TypeOK
  <2>4. groupTask[r] = "preflight" /\ UNCHANGED rowVars
    BY <1>10 DEF ClaimGroup
  <2>5. RowBooks'
    BY <2>2, <2>3, <2>4 DEF Books, RowBooks, RowBooked
  <2>6. RunBooks'
    BY <1>10
       DEF Books, RunBooks, RunBooked, NoRows, Rows, IInv, TypeOK, Existing,
         ClaimGroup
  <2>7. QED
    BY <2>1, <2>5, <2>6 DEF Books
<1>11. ASSUME NEW r \in Run, CloseGroup(r) PROVE Books'
  <2>1. SyncBooks' /\ BackBooks'
    BY <1>11
       DEF Books, SyncBooks, BackBooks, TaskFrame, IInv, TypeOK, CloseGroup
  <2>2. RowBooks'
    BY <1>11
       DEF Books, RowBooks, RowBooked, RunBooks, RunBooked, TaskFrame, IInv,
           TypeOK, Existing, CloseGroup
  <2>3. RunBooks'
    BY <1>11
       DEF Books, RunBooks, RunBooked, NoRows, Rows, IInv, TypeOK, Existing,
           CloseGroup
  <2>4. QED
    BY <2>1, <2>2, <2>3 DEF Books
<1>12. ASSUME NEW r \in Run, NEW s \in Sync, QueueGroupSync(r, s) PROVE Books'
  <2>1. SyncBooks' /\ BackBooks'
    BY <1>12
       DEF Books, SyncBooks, BackBooks, TaskFrame, IInv, TypeOK, QueueGroupSync
  <2>2. RowBooks'
    BY <1>12
       DEF Books, RowBooks, RowBooked, RunBooks, RunBooked, TaskFrame, IInv,
           TypeOK, Existing, QueueGroupSync
  <2>3. RunBooks'
    BY <1>12
       DEF Books, RunBooks, RunBooked, NoRows, Rows, IInv, TypeOK, Existing,
           QueueGroupSync
  <2>4. QED
    BY <2>1, <2>2, <2>3 DEF Books
<1>13. ASSUME NEW b \in Rollback, StartRollback(b) PROVE Books'
  <2>1. SyncBooks' /\ BackBooks'
    BY <1>13
       DEF Books, SyncBooks, BackBooks, TaskFrame, IInv, TypeOK, StartRollback
  <2>2. RowBooks'
    BY <1>13
       DEF Books, RowBooks, RowBooked, RunBooks, RunBooked, TaskFrame, IInv,
           TypeOK, Existing, StartRollback
  <2>3. RunBooks'
    BY <1>13
       DEF Books, RunBooks, RunBooked, NoRows, Rows, IInv, TypeOK, Existing,
           StartRollback
  <2>4. QED
    BY <2>1, <2>2, <2>3 DEF Books
<1>14. ASSUME NEW b \in Rollback, FinishRollback(b) PROVE Books'
  <2>1. SyncBooks' /\ BackBooks'
    BY <1>14
       DEF Books, SyncBooks, BackBooks, TaskFrame, IInv, TypeOK, FinishRollback
  <2>2. RowBooks'
    BY <1>14
       DEF Books, RowBooks, RowBooked, RunBooks, RunBooked, TaskFrame, IInv,
           TypeOK, Existing, FinishRollback
  <2>3. RunBooks'
    BY <1>14
       DEF Books, RunBooks, RunBooked, NoRows, Rows, IInv, TypeOK, Existing,
           FinishRollback
  <2>4. QED
    BY <2>1, <2>2, <2>3 DEF Books
<1>15. ASSUME NEW s \in Sync, ReleaseSync(s) PROVE Books'
  BY <1>15, DispatchNextBooks DEF ReleaseSync, IInv, TypeOK
<1>16. ASSUME NEW w \in Row, ReleaseRow(w) PROVE Books'
  BY <1>16, DispatchNextBooks DEF ReleaseRow, IInv, TypeOK
<1>17. ASSUME NEW r \in Run, NEW h \in Host, ReleaseGroup(r, h) PROVE Books'
  BY <1>17, DispatchNextBooks DEF ReleaseGroup, IInv, TypeOK
<1>18. ASSUME NEW r \in Run, NEW h \in Host, SweepRelease(r, h) PROVE Books'
  BY <1>18, DispatchNextBooks DEF SweepRelease, IInv, TypeOK
<1>19. ASSUME NEW b \in Rollback, ReleaseRollback(b) PROVE Books'
  BY <1>19, DispatchNextBooks DEF ReleaseRollback, IInv, TypeOK
<1>20. ASSUME NEW r \in Run, RunAction(r) PROVE Books'
  <2>1. SyncBooks' /\ BackBooks'
    BY <1>20 DEF Books, SyncBooks, BackBooks, RunAction
  <2>2. RowBooks'
    BY <1>20
       DEF Books, RowBooks, RowBooked, RunBooks, RunBooked, TaskFrame, IInv,
           TypeOK, Existing,
         RunAction, MoveRows
  <2>3. RunBooks'
    BY <1>20
       DEF Books, RunBooks, RunBooked, NoRows, Rows, IInv, TypeOK, Existing,
         RunAction, MoveRows
  <2>4. QED
    BY <2>1, <2>2, <2>3 DEF Books
<1>21. ASSUME NEW r \in Run, CloseRun(r) PROVE Books'
  <2>1. SyncBooks' /\ BackBooks'
    BY <1>21 DEF Books, SyncBooks, BackBooks, CloseRun
  <2>2. RowBooks'
    BY <1>21
       DEF Books, RowBooks, RowBooked, RunBooks, RunBooked, TaskFrame, IInv,
           TypeOK, Existing,
         CloseRun, FinaliseRun, RowsDone
  <2>3. RunBooks'
    BY <1>21
       DEF Books, RunBooks, RunBooked, NoRows, Rows, IInv, TypeOK, Existing,
         CloseRun, FinaliseRun, RowsDone
  <2>4. QED
    BY <2>1, <2>2, <2>3 DEF Books
<1>22. ASSUME NEW w \in Row, StartRow(w) PROVE Books'
  <2>1. SyncBooks' /\ BackBooks'
    BY <1>22 DEF Books, SyncBooks, BackBooks, StartRow
  <2>2. rowMsg[w] > 0 /\ rowMsg' = [rowMsg EXCEPT ![w] = @ - 1]
    BY <1>22 DEF StartRow
  <2>3. UNCHANGED <<rowSent, groupTask>>
    BY <1>22 DEF StartRow
  <2>4. ASSUME ~Claimable(w), UNCHANGED <<rowSt, rowTask, runSt>>
        PROVE  RowBooks'
    BY <2>2, <2>3, <2>4 DEF Books, RowBooks, RowBooked, Claimable, IInv, TypeOK
  <2>5. ASSUME Claimable(w), rowSt' = [rowSt EXCEPT ![w] = "pending"],
               DeferParent(RowRun[w]), UNCHANGED rowTask
        PROVE  RowBooks'
    <3>1. \A r \in Run : \/ runSt'[r] = runSt[r]
                         \/ runSt'[r] = "pending"
      BY <2>5 DEF DeferParent, IInv, TypeOK
    <3>2. Kind[RowRun[w]] = "host" => runSt'[RowRun[w]] # "running"
      BY <2>5 DEF DeferParent, IInv, TypeOK
    <3>3. RowBooks'
      BY <2>2, <2>3, <2>5, <3>1, <3>2
         DEF Books, RowBooks, RowBooked, Claimable, IInv, TypeOK
    <3>4. QED
      BY <3>3
  <2>6. ASSUME Claimable(w), rowSt' = [rowSt EXCEPT ![w] = "running"],
               rowTask' = [rowTask EXCEPT ![w] = "working"],
               ResumeParent(RowRun[w])
        PROVE  RowBooks'
    <3>1. RowRun[w] \notin Group
      BY <2>6 DEF Claimable, TaskFrame
    <3>2. \A r \in Run \ {RowRun[w]} : runSt'[r] = runSt[r]
      BY <2>6 DEF ResumeParent, IInv, TypeOK
    <3>3. Kind[RowRun[w]] = "host" =>
            \A v \in Row \ {w} : RowRun[v] # RowRun[w]
      BY StructureAssumption DEF Rows
    <3>4. Kind[RowRun[w]] # "host" => UNCHANGED runSt
      BY <2>6 DEF ResumeParent, IInv, TypeOK
    <3>5. RowBooks'
      BY <2>2, <2>3, <2>6, <3>1, <3>2, <3>3, <3>4
         DEF Books, RowBooks, RowBooked, IInv, TypeOK
    <3>6. QED
      BY <3>5
  <2>7. RowBooks'
    BY <1>22, <2>4, <2>5, <2>6 DEF StartRow, Books, RunBooks, RunBooked, Token
  <2>8. RunBooks'
    BY <1>22
       DEF Books, RunBooks, RunBooked, NoRows, Rows, IInv, TypeOK, Existing,
         StartRow, Claimable, Token, DeferParent, ResumeParent, RunOpen
  <2>9. QED
    BY <2>1, <2>7, <2>8 DEF Books
<1>23. ASSUME NEW w \in Row, CloseParent(w) PROVE Books'
  <2>1. SyncBooks' /\ BackBooks'
    BY <1>23 DEF Books, SyncBooks, BackBooks, CloseParent
  <2>2. rowTask[w] = "closing" /\ rowSt[w] = "ended"
    BY <1>23 DEF CloseParent, Books, RowBooks, RowBooked
  <2>3. /\ rowTask' = [rowTask EXCEPT ![w] = "releasing"]
        /\ UNCHANGED <<rowSt, rowMsg, rowSent, groupTask>>
    BY <1>23 DEF CloseParent
  <2>4. \A r \in Run : runSt'[r] \in {runSt[r], "ended"}
    BY <1>23 DEF CloseParent, FinaliseRun, IInv, TypeOK
  <2>5. ASSUME Kind[RowRun[w]] = "host" PROVE runSt'[RowRun[w]] # "running"
    <3>1. RowsDone(RowRun[w])
      BY <2>2, <2>5, StructureAssumption DEF RowsDone, Rows
    <3>2. QED
      BY <1>23, <3>1 DEF CloseParent, FinaliseRun, RunOpen, IInv, TypeOK
  <2>6. RowBooks'
    BY <2>2, <2>3, <2>4, <2>5 DEF Books, RowBooks, RowBooked, IInv, TypeOK
  <2>7. RunBooks'
    BY <1>23
       DEF Books, RunBooks, RunBooked, NoRows, Rows, IInv, TypeOK, Existing,
         CloseParent, FinaliseRun, RowsDone, RunOpen
  <2>8. QED
    BY <2>1, <2>6, <2>7 DEF Books
<1>24. ASSUME NEW r \in Run, LoadGroup(r) PROVE Books'
  <2>1. SyncBooks' /\ BackBooks'
    BY <1>24 DEF Books, SyncBooks, BackBooks, LoadGroup
  <2>2. r \in Group /\ groupTask[r] = "claimed" /\ NoRows(r)
    BY <1>24
       DEF LoadGroup, IInv, Existing, GroupInOnePlace, InOnePlace
  <2>3. groupTask'[r] \in {"working", "releasing"} /\ runSt'[r] # "pending"
    BY <1>24, <2>2
       DEF LoadGroup, IInv, TypeOK, Abandoned, GroupInOnePlace, InOnePlace
  <2>4. \A q \in Run \ {r} : /\ runSt'[q] = runSt[q]
                            /\ groupTask'[q] = groupTask[q]
    BY <1>24 DEF LoadGroup, IInv, TypeOK
  <2>5. /\ \A w \in Row : RowRun[w] # r => rowSt'[w] = rowSt[w]
        /\ UNCHANGED <<rowMsg, rowSent, rowTask, cancel, groupOwes, sweepOwes>>
    BY <1>24 DEF LoadGroup, Rows
  <2>6. \A w \in Row : RowRun[w] = r => rowSt[w] = "none"
    BY <2>2 DEF NoRows, Rows
  <2>7. \/ groupTask'[r] = "releasing" /\ runSt'[r] = "cancelled"
           /\ UNCHANGED rowSt
        \/ /\ groupTask'[r] = "working"
           /\ \A w \in Row :
                RowRun[w] = r => rowSt'[w] \in {"running", "skipped"}
    BY <1>24 DEF LoadGroup, Rows, IInv, TypeOK, Abandoned
  <2>8. RowBooks'
    <3>1. ASSUME NEW w \in Row, RowRun[w] = r PROVE RowBooked(w)'
      BY <3>1, <2>2, <2>3, <2>5, <2>6, <2>7
         DEF Books, RowBooks, RowBooked, Group
    <3>2. ASSUME NEW w \in Row, RowRun[w] # r PROVE RowBooked(w)'
      BY <3>2, <2>4, <2>5 DEF Books, RowBooks, RowBooked
    <3>3. QED
      BY <3>1, <3>2 DEF RowBooks
  <2>9. RunBooks'
    <3>1. RunBooked(r)'
      <4>1. ~NoRows(r)' \/ runSt'[r] = "cancelled"
        BY <2>7, Structure DEF NoRows, Rows
      <4>2. QED
        BY <4>1, <2>2, <2>3, <2>5, <2>7 DEF Books, RunBooks, RunBooked
    <3>2. ASSUME NEW q \in Run, q # r PROVE RunBooked(q)'
      <4>1. NoRows(q)' <=> NoRows(q)
        BY <2>5, <3>2 DEF NoRows, Rows
      <4>2. QED
        BY <4>1, <2>4, <2>5, <3>2 DEF Books, RunBooks, RunBooked
    <3>3. QED
      BY <3>1, <3>2 DEF RunBooks
  <2>10. QED
    BY <2>1, <2>8, <2>9 DEF Books
<1>25. ASSUME NEW r \in Run, FinishGroup(r) PROVE Books'
  <2>1. SyncBooks' /\ BackBooks'
    BY <1>25 DEF Books, SyncBooks, BackBooks, FinishGroup
  <2>2. r \in Group
    BY <1>25 DEF FinishGroup, IInv, Existing
  <2>3. groupTask' = [groupTask EXCEPT ![r] = "closing"]
    BY <1>25 DEF FinishGroup
  <2>4. /\ \A w \in Row : RowRun[w] # r => rowSt'[w] = rowSt[w]
        /\ \A w \in Row : RowRun[w] = r =>
             \/ rowSt'[w] = "ended"
             \/ rowSt'[w] = "skipped" /\ rowSt[w] = "skipped"
        /\ UNCHANGED <<rowMsg, rowSent, rowTask, runSt>>
    BY <1>25 DEF FinishGroup, MoveRows, IInv, TypeOK
  <2>5. RowBooks'
    BY <2>2, <2>3, <2>4 DEF Books, RowBooks, RowBooked, IInv, TypeOK, Group
  <2>6. RunBooks'
    BY <1>25 DEF Books, RunBooks, RunBooked, NoRows, Rows, IInv, TypeOK,
         Existing, FinishGroup, MoveRows
  <2>7. QED
    BY <2>1, <2>5, <2>6 DEF Books
<1>26. ASSUME NEW r \in Run, FailGroup(r) PROVE Books'
  <2>1. SyncBooks' /\ BackBooks'
    BY <1>26 DEF Books, SyncBooks, BackBooks, FailGroup
  <2>2. RowBooks'
    BY <1>26
       DEF Books, RowBooks, RowBooked, RunBooks, RunBooked, TaskFrame, IInv,
           TypeOK, Existing,
         FailGroup, MoveRows
  <2>3. RunBooks'
    BY <1>26
       DEF Books, RunBooks, RunBooked, NoRows, Rows, IInv, TypeOK, Existing,
         FailGroup, MoveRows
  <2>4. QED
    BY <2>1, <2>2, <2>3 DEF Books
<1>27. CASE UNCHANGED vars
  BY <1>27
     DEF vars, Books, SyncBooks, BackBooks, RowBooks, RowBooked, RunBooks,
         RunBooked, NoRows
<1>28. QED
  BY <1>1, <1>2, <1>3, <1>4, <1>5, <1>6, <1>7, <1>8, <1>9, <1>10, <1>11, <1>12,
     <1>13, <1>14, <1>15, <1>16, <1>17, <1>18, <1>19, <1>20, <1>21, <1>22,
     <1>23, <1>24, <1>25, <1>26, <1>27, Zenon DEF CalmStep

\* Somebody works on h, or owes its release.
AtWork(h) ==
  \/ \E b \in Rollback : RollbackHost[b] = h /\ backTask[b] # "idle"
  \/ \E s \in Sync : SyncHost[s] = h /\ syncTask[s] # "idle"
  \/ \E w \in Row : RowHost[w] = h /\ rowTask[w] # "idle"
  \/ \E r \in Run : h \in groupOwes[r] \cup sweepOwes[r]

\* A sync, a row or a run that goes there sooner or later is on its way.
OnItsWay(h) ==
  \/ \E s \in Sync : SyncHost[s] = h /\ syncSt[s] = "pending" /\ syncMsg[s] > 0
  \/ \E w \in Row : /\ RowHost[w] = h /\ rowSt[w] = "queued"
                    /\ \/ rowMsg[w] > 0
                       \/ RunOpen(RowRun[w]) /\ rowSent[w] < MaxSends
  \/ \E r \in Run \ Group : /\ h \in Members(r) /\ runSt[r] = "queued"
                            /\ runMsg[r] > 0
Firm(h) == AtWork(h) \/ OnItsWay(h)

\* A group dispatch that was not claimed yet: it may be deferred by a member
\* that is busy elsewhere, so it promises less.
Coming(r) ==
  /\ NoRows(r)
  /\ \/ runSt[r] = "pending"
     \/ runSt[r] = "queued" /\ runMsg[r] + groupMsg[r] > 0
     \/ groupTask[r] = "preflight"

\* What wakes o on h: h is released, or an older group comes, and is released
\* or deferred in turn.
WillWake(o, h) ==
  \/ Firm(h)
  \/ \E r \in Group : /\ Coming(r) /\ h \in Members(r)
                      /\ Age[r] < Age[RunOf(o)]
\* A group dispatch is woken by any of its members.
Where(o, h) == IF o \in Run THEN Members(o) ELSE {h}
\* The invariant: it says more than NoLostWakeup of who wakes a waiter.
AllWoken ==
  \A h \in Host : \A o \in Waiting(h) : \E g \in Where(o, h) : WillWake(o, g)

\* Where a run or a row that waits may be woken.
LEMMA MembersAreHosts == \A r \in Run : Members(r) \subseteq Host
BY Structure DEF Members, Rows

LEMMA WhereIsHost ==
  ASSUME NEW h \in Host, NEW o, NEW g \in Where(o, h) PROVE g \in Host
BY MembersAreHosts DEF Where

\* Whoever makes check_host_busy say that a host is busy will release it.
BusyIsFirm == \A h \in Host : \A self \in SUBSET Run : Busy(h, self) => Firm(h)

\* A status that holds a host has a task behind it, or a message or a driver.
LEMMA BusyFirm ==
  ASSUME MaxSends > 0 PROVE IInv /\ TaskFrame /\ Books => BusyIsFirm
<1> SUFFICES ASSUME IInv, TaskFrame, Books, NEW h \in Host,
                    NEW self \in SUBSET Run, Busy(h, self)
             PROVE  Firm(h)
  BY DEF BusyIsFirm
<1> USE Structure DEF Books
<1>1. CASE RollbackHolds(h)
  BY <1>1 DEF RollbackHolds, BackBooks, Firm, AtWork
<1>2. CASE SyncHolds(h)
  BY <1>2 DEF SyncHolds, SyncBooks, Firm, AtWork
<1>3. ASSUME NEW w \in Row, RowHost[w] = h, rowSt[w] = "running" PROVE Firm(h)
  <2>1. CASE RowRun[w] \in Group
    <3>1. groupTask[RowRun[w]] = "working"
      BY <1>3, <2>1 DEF RowBooks, RowBooked
    <3>2. groupOwes[RowRun[w]] = Members(RowRun[w])
      BY <3>1 DEF RunBooks, RunBooked
    <3>3. h \in Members(RowRun[w])
      BY <1>3 DEF Members, Rows
    <3>4. QED
      BY <3>2, <3>3 DEF Firm, AtWork
  <2>2. CASE RowRun[w] \notin Group
    BY <1>3, <2>2 DEF RowBooks, RowBooked, Firm, AtWork
  <2>3. QED
    BY <2>1, <2>2
<1>4. CASE HostRunHolds(h, self)
  <2>1. PICK r \in Run : /\ Kind[r] = "host" /\ h \in Members(r)
                         /\ runSt[r] = "running"
    BY <1>4 DEF HostRunHolds
  <2>2. PICK w \in Row : RowRun[w] = r /\ RowHost[w] = h
    BY <2>1 DEF Members, Rows
  <2>3. CASE rowSt[w] = "running"
    BY <2>2, <2>3, <1>3
  <2>4. CASE rowTask[w] = "closing"
    BY <2>2, <2>4 DEF Firm, AtWork
  <2>5. CASE rowSt[w] = "queued"
    <3>1. rowMsg[w] > 0 \/ rowSent[w] < MaxSends
      BY <2>5 DEF RowBooks, RowBooked, IInv, TypeOK
    <3>2. QED
      BY <2>1, <2>2, <2>5, <3>1 DEF Firm, OnItsWay, RunOpen
  <2>6. QED
    BY <2>1, <2>2, <2>3, <2>4, <2>5 DEF RowBooks, RowBooked
<1>5. CASE RowHolds(h, self)
  BY <1>5, <1>3 DEF RowHolds
<1>6. CASE ClaimedGroupHolds(h, self)
  <2>1. PICK r \in Run : /\ h \in Members(r) /\ groupTask[r] = "claimed"
    BY <1>6 DEF ClaimedGroupHolds, RunBooks, RunBooked
  <2>2. groupOwes[r] = Members(r)
    BY <2>1 DEF RunBooks, RunBooked
  <2>3. QED
    BY <2>1, <2>2 DEF Firm, AtWork
<1>7. QED
  BY <1>1, <1>2, <1>4, <1>5, <1>6 DEF Busy

\* The invariant says what NoLostWakeup asks.
LEMMA WokenSuffices ==
  IInv /\ TaskFrame /\ Books /\ AllWoken => NoLostWakeup
<1> SUFFICES ASSUME IInv, TaskFrame, Books, AllWoken, NEW h \in Host,
                    NEW o \in Waiting(h)
             PROVE  \E g \in Where(o, h) : Woken(o, g)
  BY DEF NoLostWakeup, Where
<1>1. PICK g \in Where(o, h) : WillWake(o, g)
  BY DEF AllWoken
<1>2. g \in Host
  BY WhereIsHost
<1>3. CASE Firm(g)
  <2>1. \A r \in Run : groupTask[r] # "dead"
    BY DEF Books, RunBooks, RunBooked
  <2>2. \A r \in Run : runMsg[r] > 0 => runMsg[r] + groupMsg[r] > 0
    BY DEF IInv, TypeOK
  <2>3. Promised(g)
    BY <1>3, <2>1, <2>2 DEF Firm, AtWork, OnItsWay, Promised
  <2>4. QED
    BY <2>3 DEF Woken
<1>4. CASE ~Firm(g)
  <2>1. PICK r \in Group : /\ Coming(r) /\ g \in Members(r)
                           /\ Age[r] < Age[RunOf(o)]
    BY <1>1, <1>4 DEF WillWake
  <2>2. r \in Run
    BY DEF Group
  <2>3. CASE runSt[r] = "pending"
    BY <2>1, <2>2, <2>3 DEF Coming, Woken, Waiting, WaitingRuns
  <2>4. CASE runSt[r] # "pending"
    BY <2>1, <2>2, <2>4 DEF Coming, Woken, Promised
  <2>5. QED
    BY <2>3, <2>4
<1>5. QED
  BY <1>3, <1>4

\* A step that keeps its promises, where whoever begins to wait has one.
LEMMA KeepsWaking ==
  ASSUME AllWoken,
         \A h \in Host : Firm(h) => Firm(h)',
         \A r \in Group : Coming(r) =>
            Coming(r)' \/ \A h \in Members(r) : Firm(h)',
         \A h \in Host : \A o \in Waiting(h)' :
            o \in Waiting(h) \/ \E g \in Where(o, h) : Firm(g)'
  PROVE  AllWoken'
<1> SUFFICES ASSUME NEW h \in Host, NEW o \in Waiting(h)'
             PROVE  \E g \in Where(o, h) : WillWake(o, g)'
  BY DEF AllWoken, Where
<1>1. CASE o \in Waiting(h)
  <2>1. PICK g \in Where(o, h) : WillWake(o, g)
    BY <1>1 DEF AllWoken
  <2>2. g \in Host
    BY WhereIsHost
  <2>3. WillWake(o, g)'
    BY <2>1, <2>2 DEF WillWake
  <2>4. QED
    BY <2>3
<1>2. CASE \E g \in Where(o, h) : Firm(g)'
  BY <1>2 DEF WillWake
<1>3. QED
  BY <1>1, <1>2

\* What waits, and for which host.
LEMMA WhoWaits ==
  ASSUME TypeOK, NEW h \in Host, NEW o \in Waiting(h)
  PROVE  /\ o \in Sync \cup Run \cup Row
         /\ RunOf(o) \in Sync \cup Run
         /\ o \in Sync => SyncHost[o] = h /\ syncSt[o] = "pending"
         /\ o \in Run => /\ runSt[o] = "pending" /\ NoRows(o)
                         /\ h \in Members(o)
         /\ o \in Row => /\ RowHost[o] = h /\ rowSt[o] = "pending"
                         /\ RunOpen(RowRun[o])
BY StructureAssumption
   DEF Waiting, WaitingSyncs, WaitingRuns, WaitingRows, RunOf

\* A queue that is not empty has an oldest operation.
LEMMA OneIsOldest ==
  ASSUME TypeOK, NEW h \in Host, NEW S \in SUBSET Waiting(h), S # {}
  PROVE  Oldest(S) # {}
<1> DEFINE A == {Age[RunOf(o)] : o \in S}
<1>1. A \subseteq Nat /\ A # {}
  BY WhoWaits, AgeAssumption
<1>2. IsWellFoundedOn(OpToRel(<, Nat), Nat)
  BY NatLessThanWellFounded
<1>3. PICK x \in A : \A y \in A : ~(<<y, x>> \in OpToRel(<, Nat))
  BY <1>1, <1>2, WFMin
<1>4. \A y \in A : x <= y
  <2>1. \A y \in A : ~(y < x)
    BY <1>1, <1>3 DEF OpToRel
  <2> HIDE DEF A
  <2>2. QED
    BY <1>1, <2>1
<1>5. PICK o \in S : x = Age[RunOf(o)]
  BY <1>3
<1>6. o \in Oldest(S)
  BY <1>4, <1>5 DEF Oldest
<1>7. QED
  BY <1>6

\* What a release may give up: its own hold on its host.
LEMMA ReleaseWakes ==
  ASSUME IInv, TaskFrame, Books, AllWoken, NEW h \in Host, NEW ended,
         DispatchNext(h, ended),
         \A o \in Waiting(h) : RunOf(o) # ended,
         \A g \in Host \ {h} : AtWork(g) => AtWork(g)',
         \A r \in Run :
            groupTask[r] = "preflight" => groupTask'[r] = "preflight",
         UNCHANGED <<syncSt, rowSent, groupMsg>>
  PROVE  AllWoken'
<1> DEFINE queue == { o \in Waiting(h) : RunOf(o) # ended }
<1>t. TypeOK
  BY DEF IInv
<1>q. queue = Waiting(h)
  OBVIOUS
<1>p. DispatchNext(h, ended)
  OBVIOUS
<1> USE Structure
<1>1. CASE /\ Oldest(queue) = {}
           /\ UNCHANGED <<syncMsg, rowSt, rowMsg, runSt, runMsg>>
  <2>1. Waiting(h) = {}
    BY <1>1, <1>t, <1>q, OneIsOldest
  <2>2. \A g \in Host : Waiting(g)' = Waiting(g)
    BY <1>1 DEF Waiting, WaitingSyncs, WaitingRuns, WaitingRows, NoRows, RunOpen
  <2>3. \A g \in Host \ {h} : Firm(g) => Firm(g)'
    BY <1>1 DEF Firm, OnItsWay, RunOpen
  <2>4. \A r \in Group : Coming(r) => Coming(r)'
    BY <1>1 DEF Coming, NoRows, Group
  <2> SUFFICES ASSUME NEW x \in Host, NEW o \in Waiting(x)
               PROVE  \E g \in Where(o, x) : WillWake(o, g)'
    BY <2>2 DEF AllWoken, Where
  <2>5. PICK g \in Where(o, x) : WillWake(o, g)
    BY DEF AllWoken
  <2>6. g \in Host
    BY WhereIsHost
  <2>7. g # h
    BY <1>t, <2>1, <2>5, WhoWaits DEF Where, Waiting, WaitingRuns
  <2>8. WillWake(o, g)'
    BY <2>3, <2>4, <2>5, <2>6, <2>7 DEF WillWake
  <2>9. QED
    BY <2>8
<1>2. ASSUME NEW s \in Oldest(queue) \cap Sync,
             syncMsg' = [syncMsg EXCEPT ![s] = @ + 1],
             UNCHANGED <<rowSt, rowMsg, runSt, runMsg>>
      PROVE  AllWoken'
  <2>1. SyncHost[s] = h /\ syncSt[s] = "pending"
    BY <1>t, WhoWaits DEF Oldest
  <2>2. Firm(h)'
    BY <1>2, <1>t, <2>1 DEF Firm, OnItsWay, TypeOK
  <2>3. \A g \in Host \ {h} : Firm(g) => Firm(g)'
    BY <1>2, <1>t DEF Firm, OnItsWay, RunOpen, TypeOK
  <2>4. \A r \in Group : Coming(r) => Coming(r)'
    BY <1>2 DEF Coming, NoRows, Group
  <2>5. \A g \in Host : Waiting(g)' = Waiting(g)
    BY <1>2 DEF Waiting, WaitingSyncs, WaitingRuns, WaitingRows, NoRows, RunOpen
  <2>6. QED
    BY <2>2, <2>3, <2>4, <2>5, KeepsWaking
<1>3. ASSUME NEW w \in Oldest(queue) \cap Row,
             rowSt' = [rowSt EXCEPT ![w] = "queued"],
             rowMsg' = [rowMsg EXCEPT ![w] = @ + 1],
             UNCHANGED <<syncMsg, runSt, runMsg>>
      PROVE  AllWoken'
  <2>1. RowHost[w] = h /\ rowSt[w] = "pending"
    BY <1>t, WhoWaits DEF Oldest
  <2>2. Firm(h)'
    BY <1>3, <1>t, <2>1 DEF Firm, OnItsWay, TypeOK
  <2>3. \A g \in Host \ {h} : Firm(g) => Firm(g)'
    BY <1>3, <1>t DEF Firm, OnItsWay, RunOpen, TypeOK
  <2>4. \A r \in Run : NoRows(r)' <=> NoRows(r)
    BY <1>3, <1>t, <2>1 DEF NoRows, Rows, TypeOK
  <2>5. \A r \in Group : Coming(r) => Coming(r)'
    BY <1>3, <2>4 DEF Coming, Group
  <2>6. \A g \in Host : Waiting(g)' \subseteq Waiting(g)
    BY <1>3, <1>t, <2>4
       DEF Waiting, WaitingSyncs, WaitingRuns, WaitingRows, RunOpen, TypeOK
  <2>7. QED
    BY <2>2, <2>3, <2>5, <2>6, KeepsWaking
<1>4. ASSUME NEW r \in Oldest(queue) \cap Run,
             runSt' = [runSt EXCEPT ![r] = "queued"],
             runMsg' = [runMsg EXCEPT ![r] = @ + 1],
             UNCHANGED <<syncMsg, rowSt, rowMsg>>
      PROVE  AllWoken'
  <2>1. runSt[r] = "pending" /\ NoRows(r) /\ h \in Members(r)
    BY <1>t, WhoWaits DEF Oldest
  <2>2. r \in Group
    BY <2>1 DEF Books, RunBooks, RunBooked
  <2>3. \A g \in Host \ {h} : Firm(g) => Firm(g)'
    BY <1>4, <1>t, <2>2 DEF Firm, OnItsWay, RunOpen, TypeOK
  <2>4. \A q \in Group : Coming(q) => Coming(q)'
    BY <1>4, <1>t, <2>1 DEF Coming, NoRows, Group, TypeOK
  <2>5. Coming(r)'
    BY <1>4, <1>t, <2>1 DEF Coming, NoRows, TypeOK
  <2>6. \A g \in Host : Waiting(g)' \subseteq Waiting(g) \ {r}
    BY <1>4, <1>t, <2>1, StructureAssumption
       DEF Waiting, WaitingSyncs, WaitingRuns, WaitingRows, RunOpen, TypeOK,
           NoRows
  <2> SUFFICES ASSUME NEW x \in Host, NEW o \in Waiting(x) \ {r}
               PROVE  \E g \in Where(o, x) : WillWake(o, g)'
    BY <2>6 DEF AllWoken, Where
  <2>7. PICK g \in Where(o, x) : WillWake(o, g)
    BY DEF AllWoken
  <2>8. g \in Host
    BY WhereIsHost
  <2>9. CASE g # h
    <3>1. WillWake(o, g)'
      BY <2>3, <2>4, <2>7, <2>8, <2>9 DEF WillWake
    <3>2. QED
      BY <3>1
  <2>10. CASE g = h
    <3>1. o \in Waiting(h)
      BY <1>t, <2>10, WhoWaits DEF Where, Waiting, WaitingRuns
    <3>2. Age[r] <= Age[RunOf(o)]
      BY <3>1, <1>q, <1>4, StructureAssumption DEF Oldest, RunOf
    <3>3. RunOf(o) # r
      <4>1. o \in Row => o \notin Sync \cup Run /\ RunOf(o) = RowRun[o]
        BY StructureAssumption DEF RunOf
      <4>2. o \in Row => RowRun[o] # r
        BY <1>t, <2>1, WhoWaits DEF NoRows, Rows
      <4>3. QED
        BY <4>1, <4>2 DEF RunOf
    <3>4. Age[r] < Age[RunOf(o)]
      BY SMTT(20), <1>t, <3>2, <3>3, WhoWaits, AgeAssumption
    <3>5. WillWake(o, h)'
      BY <2>1, <2>2, <2>5, <3>4 DEF WillWake
    <3>6. QED
      BY <2>10, <3>5
  <2>11. QED
    BY <2>9, <2>10
<1>5. QED
  BY <1>p, <1>1, <1>2, <1>3, <1>4, Zenon DEF DispatchNext

\* A task in the broker, or a driver that will send one.
SyncComes(s) == syncSt[s] = "pending" /\ syncMsg[s] > 0
RowComes(w) == /\ rowSt[w] = "queued"
               /\ \/ rowMsg[w] > 0
                  \/ RunOpen(RowRun[w]) /\ rowSent[w] < MaxSends
RunComes(r) == runSt[r] = "queued" /\ runMsg[r] > 0

\* Who works goes on, and who comes still comes or is at work: kept, one by one.
LEMMA KeepsFirm ==
  ASSUME \A g \in Host : AtWork(g) => AtWork(g)',
         \A s \in Sync :
            SyncComes(s) => SyncComes(s)' \/ Firm(SyncHost[s])',
         \A w \in Row : RowComes(w) => RowComes(w)' \/ Firm(RowHost[w])',
         \A r \in Run \ Group : RunComes(r) =>
            RunComes(r)' \/ \A g \in Members(r) : Firm(g)'
  PROVE  \A g \in Host : Firm(g) => Firm(g)'
<1> SUFFICES ASSUME NEW g \in Host, Firm(g) PROVE Firm(g)'
  OBVIOUS
<1>1. CASE AtWork(g)
  BY <1>1 DEF Firm
<1>2. ASSUME NEW s \in Sync, SyncHost[s] = g, SyncComes(s) PROVE Firm(g)'
  BY <1>2 DEF SyncComes, Firm, OnItsWay
<1>3. ASSUME NEW w \in Row, RowHost[w] = g, RowComes(w) PROVE Firm(g)'
  BY <1>3 DEF RowComes, Firm, OnItsWay
<1>4. ASSUME NEW r \in Run \ Group, g \in Members(r), RunComes(r)
      PROVE  Firm(g)'
  BY <1>4 DEF RunComes, Firm, OnItsWay
<1>5. QED
  BY <1>1, <1>2, <1>3, <1>4 DEF Firm, OnItsWay, SyncComes, RowComes, RunComes

\* A group dispatch that moves on, and nothing else does.
LEMMA OneGroupMoves ==
  ASSUME IInv, TaskFrame, NEW r \in Group,
         \A q \in Run \ {r} :
            runSt'[q] = runSt[q] /\ groupTask'[q] = groupTask[q],
         \A w \in Row : RowRun[w] # r => rowSt'[w] = rowSt[w],
         \A q \in Run : groupOwes[q] \subseteq groupOwes'[q],
         UNCHANGED <<syncVars, rowMsg, rowSent, rowTask, backVars, runMsg,
                     sweepOwes>>,
         \A q \in Run \ {r} : groupMsg'[q] = groupMsg[q]
  PROVE  /\ \A g \in Host : Firm(g) => Firm(g)'
         /\ \A q \in Group \ {r} : Coming(q) => Coming(q)'
<1> USE Structure DEF syncVars, backVars
<1>1. \A g \in Host : AtWork(g) => AtWork(g)'
  BY DEF AtWork
<1>2. \A s \in Sync : SyncComes(s) => SyncComes(s)'
  BY DEF SyncComes
<1>3. \A w \in Row : RowComes(w) => RowComes(w)'
  <2>1. \A w \in Row : rowSt[w] = "queued" => RowRun[w] # r
    BY DEF TaskFrame
  <2>2. QED
    BY <2>1 DEF RowComes, RunOpen
<1>4. \A q \in Run \ Group : RunComes(q) => RunComes(q)'
  BY DEF RunComes
<1>5. \A q \in Group \ {r} : Coming(q) => Coming(q)'
  <2>1. \A q \in Run \ {r} : NoRows(q) => NoRows(q)'
    BY DEF NoRows, Rows
  <2>2. QED
    BY <2>1 DEF Coming, Group
<1>6. QED
  BY <1>1, <1>2, <1>3, <1>4, <1>5, KeepsFirm

\* A group dispatch whose task is past its claim is on its way no more.
LEMMA ClaimedIsHere ==
  ASSUME IInv, NEW r \in Group, groupTask[r] \notin {"idle", "preflight"}
  PROVE  ~Coming(r)
BY DEF IInv, TypeOK, GroupInOnePlace, InOnePlace, Coming, Group

\* A sync left pending behind a promise on its host.
LEMMA NewSyncWaits ==
  ASSUME TypeOK, NEW s \in Sync, Firm(SyncHost[s])',
         syncSt' = [syncSt EXCEPT ![s] = "pending"], UNCHANGED <<rowSt, runSt>>
  PROVE  \A g \in Host : \A o \in Waiting(g)' :
            o \in Waiting(g) \/ \E x \in Where(o, g) : Firm(x)'
<1> SUFFICES ASSUME NEW g \in Host, NEW o \in Waiting(g)'
             PROVE  o \in Waiting(g) \/ \E x \in Where(o, g) : Firm(x)'
  OBVIOUS
<1>1. CASE o = s
  <2>1. s \notin Run /\ s \notin Row
    BY StructureAssumption
  <2>2. SyncHost[s] = g
    BY <1>1, <2>1 DEF Waiting, WaitingSyncs, WaitingRuns, WaitingRows
  <2>3. g \in Where(o, g)
    BY <1>1, <2>1 DEF Where
  <2>4. QED
    BY <2>2, <2>3
<1>2. CASE o # s
  BY <1>2 DEF Waiting, WaitingSyncs, WaitingRuns, WaitingRows, NoRows, RunOpen,
     TypeOK
<1>3. QED
  BY <1>1, <1>2

\* A run that is over has given up everything but what its tasks release.
LEMMA ClosingKeeps ==
  ASSUME IInv, TaskFrame, NEW r \in Run, FinaliseRun(r),
         \A g \in Host : AtWork(g) => AtWork(g)',
         UNCHANGED <<syncVars, rowSt, rowMsg, rowSent, runMsg, groupVars>>
  PROVE  /\ \A g \in Host : Firm(g) => Firm(g)'
         /\ \A q \in Group : Coming(q) => Coming(q)'
<1> USE Structure DEF syncVars, groupVars
<1>1. CASE RowsDone(r)
  <2>1. ~NoRows(r)
    BY <1>1, DoneHasRows
  <2>2. /\ \A q \in Run \ {r} : runSt'[q] = runSt[q]
        /\ \A q \in Run : NoRows(q)' <=> NoRows(q)
    BY DEF FinaliseRun, NoRows, IInv, TypeOK
  <2>3. \A w \in Row : RowComes(w) => RowComes(w)'
    <3>1. \A w \in Row : rowSt[w] = "queued" => RowRun[w] # r
      BY <1>1 DEF RowsDone, Rows
    <3>2. QED
      BY <2>2, <3>1 DEF RowComes, RunOpen
  <2>4. \A q \in Run \ Group : RunComes(q) => RunComes(q)'
    <3>1. r \notin Group => runSt[r] # "queued"
      BY <2>1 DEF NoRows, Rows, TaskFrame
    <3>2. QED
      BY <2>2, <3>1 DEF RunComes
  <2>5. \A s \in Sync : SyncComes(s) => SyncComes(s)'
    BY DEF SyncComes
  <2>6. \A q \in Group : Coming(q) => Coming(q)'
    BY <2>1, <2>2 DEF Coming, Group
  <2>7. QED
    BY <2>3, <2>4, <2>5, <2>6, KeepsFirm
<1>2. CASE ~RowsDone(r)
  <2>1. runSt' = runSt
    BY <1>2 DEF FinaliseRun, IInv, TypeOK
  <2>2. \A g \in Host : Firm(g) => Firm(g)'
    BY <2>1 DEF Firm, OnItsWay, RunOpen
  <2>3. \A q \in Group : Coming(q) => Coming(q)'
    BY <2>1 DEF Coming, NoRows
  <2>4. QED
    BY <2>2, <2>3
<1>3. QED
  BY <1>1, <1>2

\* Every step wakes whom it lets wait, and lets nobody down who waits.
LEMMA WakeStep ==
  ASSUME IInv, TaskFrame, Books, AllWoken, CalmStep, Books', BusyIsFirm',
         BusyIsFirm, MaxSends > 0
  PROVE  AllWoken'
<1> USE Structure
<1> USE DEF syncVars, rowVars, runVars, groupVars, backVars
<1>1. ASSUME NEW s \in Sync, SubmitSync(s) PROVE AllWoken'
  <2>1. \A g \in Host : Firm(g) => Firm(g)'
    BY <1>1 DEF Firm, AtWork, OnItsWay, RunOpen, IInv, TypeOK, SubmitSync
  <2>2. \A q \in Group : Coming(q) =>
          Coming(q)' \/ \A g \in Members(q) : Firm(g)'
    BY <1>1 DEF Coming, NoRows, Rows, Group, IInv, TypeOK, SubmitSync
  <2>3. \A g \in Host : \A o \in Waiting(g)' :
          o \in Waiting(g) \/ \E x \in Where(o, g) : Firm(x)'
    <3>1. Firm(SyncHost[s])'
      BY <1>1 DEF Firm, OnItsWay, IInv, TypeOK, SubmitSync
    <3>2. QED
      BY <1>1, <3>1, NewSyncWaits DEF SubmitSync, IInv
  <2>4. QED
    BY <2>1, <2>2, <2>3, KeepsWaking
<1>2. ASSUME NEW s \in Sync, StartSync(s) PROVE AllWoken'
  <2>1. \A g \in Host : Firm(g) => Firm(g)'
    <3>1. \A g \in Host : AtWork(g) => AtWork(g)'
      BY <1>2 DEF AtWork, IInv, TypeOK, StartSync
    <3>2. \A w \in Row : RowComes(w) => RowComes(w)'
      BY <1>2 DEF RowComes, RunOpen, StartSync
    <3>3. \A r \in Run \ Group : RunComes(r) => RunComes(r)'
      BY <1>2 DEF RunComes, StartSync
    <3>4. \A q \in Sync \ {s} : SyncComes(q) => SyncComes(q)'
      BY <1>2 DEF SyncComes, IInv, TypeOK, StartSync
    <3>5. SyncComes(s) => Firm(SyncHost[s])'
      <4>1. CASE Busy(SyncHost[s], {}) /\ syncSt' = syncSt
        <5>1. Busy(SyncHost[s], {})'
          BY <1>2, <4>1
             DEF Busy, RollbackHolds, SyncHolds, HostRunHolds, RowHolds,
                 ClaimedGroupHolds, NoRows, StartSync
        <5>2. QED
          BY <5>1 DEF BusyIsFirm
      <4>2. CASE syncTask' = [syncTask EXCEPT ![s] = "working"]
        BY <4>2 DEF Firm, AtWork, IInv, TypeOK
      <4>3. QED
        BY <1>2, <4>1, <4>2 DEF StartSync, SyncComes
    <3>6. QED
      BY <3>1, <3>2, <3>3, <3>4, <3>5, KeepsFirm
  <2>2. \A q \in Group : Coming(q) =>
          Coming(q)' \/ \A g \in Members(q) : Firm(g)'
    BY <1>2 DEF Coming, NoRows, Rows, Group, IInv, TypeOK, StartSync
  <2>3. \A g \in Host : \A o \in Waiting(g)' :
          o \in Waiting(g) \/ \E x \in Where(o, g) : Firm(x)'
    BY <1>2 DEF Waiting, WaitingSyncs, WaitingRuns, WaitingRows, NoRows, Rows,
         RunOpen, IInv, TypeOK, StartSync
  <2>4. QED
    BY <2>1, <2>2, <2>3, KeepsWaking
<1>3. ASSUME NEW s \in Sync, FinishSync(s) PROVE AllWoken'
  <2>1. \A g \in Host : Firm(g) => Firm(g)'
    BY <1>3 DEF Firm, AtWork, OnItsWay, RunOpen, IInv, TypeOK, FinishSync
  <2>2. \A q \in Group : Coming(q) =>
          Coming(q)' \/ \A g \in Members(q) : Firm(g)'
    BY <1>3 DEF Coming, NoRows, Rows, Group, IInv, TypeOK, FinishSync
  <2>3. \A g \in Host : \A o \in Waiting(g)' :
          o \in Waiting(g) \/ \E x \in Where(o, g) : Firm(x)'
    BY <1>3 DEF Waiting, WaitingSyncs, WaitingRuns, WaitingRows, NoRows, Rows,
         RunOpen, IInv, TypeOK, FinishSync
  <2>4. QED
    BY <2>1, <2>2, <2>3, KeepsWaking
<1>4. ASSUME NEW w \in Row, OrchSend(w) PROVE AllWoken'
  <2>1. \A g \in Host : Firm(g) => Firm(g)'
    BY <1>4 DEF Firm, AtWork, OnItsWay, RunOpen, IInv, TypeOK, OrchSend
  <2>2. \A q \in Group : Coming(q) =>
          Coming(q)' \/ \A g \in Members(q) : Firm(g)'
    BY <1>4 DEF Coming, NoRows, Rows, Group, IInv, TypeOK, OrchSend
  <2>3. \A g \in Host : \A o \in Waiting(g)' :
          o \in Waiting(g) \/ \E x \in Where(o, g) : Firm(x)'
    BY <1>4 DEF Waiting, WaitingSyncs, WaitingRuns, WaitingRows, NoRows, Rows,
         RunOpen, IInv, TypeOK, OrchSend
  <2>4. QED
    BY <2>1, <2>2, <2>3, KeepsWaking
<1>5. ASSUME NEW w \in Row, FinishRow(w) PROVE AllWoken'
  <2>1. \A g \in Host : Firm(g) => Firm(g)'
    BY <1>5 DEF Firm, AtWork, OnItsWay, RunOpen, IInv, TypeOK, FinishRow
  <2>2. \A q \in Group : Coming(q) => Coming(q)'
    <3>1. RowRun[w] \notin Group /\ rowSt[w] = "running"
      BY <1>5 DEF FinishRow, TaskFrame
    <3>2. \A q \in Run : NoRows(q) => NoRows(q)'
      BY <1>5, <3>1 DEF FinishRow, NoRows, Rows, IInv, TypeOK
    <3>3. QED
      BY <1>5, <3>2 DEF FinishRow, Coming, Group
  <2>3. \A g \in Host : \A o \in Waiting(g)' :
          o \in Waiting(g) \/ \E x \in Where(o, g) : Firm(x)'
    BY <1>5 DEF Waiting, WaitingSyncs, WaitingRuns, WaitingRows, NoRows, Rows,
         RunOpen, IInv, TypeOK, FinishRow
  <2>4. QED
    BY <2>1, <2>2, <2>3, KeepsWaking
<1>6. ASSUME NEW w \in Row, SweepRow(w) PROVE AllWoken'
  <2>1. \A g \in Host : Firm(g) => Firm(g)'
    BY <1>6 DEF Firm, AtWork, OnItsWay, RunOpen, IInv, TypeOK, SweepRow
  <2>2. \A q \in Group : Coming(q) =>
          Coming(q)' \/ \A g \in Members(q) : Firm(g)'
    BY <1>6 DEF Coming, NoRows, Rows, Group, IInv, TypeOK, SweepRow
  <2>3. \A g \in Host : \A o \in Waiting(g)' :
          o \in Waiting(g) \/ \E x \in Where(o, g) : Firm(x)'
    BY <1>6 DEF Waiting, WaitingSyncs, WaitingRuns, WaitingRows, NoRows, Rows,
         RunOpen, IInv, TypeOK, SweepRow
  <2>4. QED
    BY <2>1, <2>2, <2>3, KeepsWaking
<1>7. ASSUME NEW r \in Run, SubmitRun(r) PROVE AllWoken'
  <2>1. \A g \in Host : Firm(g) => Firm(g)'
    BY <1>7 DEF Firm, AtWork, OnItsWay, RunOpen, IInv, TypeOK, SubmitRun
  <2>2. \A q \in Group : Coming(q) =>
          Coming(q)' \/ \A g \in Members(q) : Firm(g)'
    BY <1>7 DEF Coming, NoRows, Rows, Group, IInv, TypeOK, SubmitRun
  <2>3. \A g \in Host : Waiting(g)' \subseteq Waiting(g)
    <3>1. NoRows(r) /\ runSt' = [runSt EXCEPT ![r] = "queued"]
      BY <1>7 DEF SubmitRun, IInv, Existing
    <3>2. \A w \in Row : rowSt[w] = "pending" => RowRun[w] # r
      BY <3>1 DEF NoRows, Rows
    <3>3. QED
      BY <1>7, <3>1, <3>2
         DEF SubmitRun, Waiting, WaitingSyncs, WaitingRuns, WaitingRows,
             NoRows, RunOpen, IInv, TypeOK
  <2>4. QED
    BY <2>1, <2>2, <2>3, KeepsWaking
<1>8. ASSUME NEW r \in Run, StartGroup(r) PROVE AllWoken'
  <2>1. /\ \A g \in Host : Firm(g) => Firm(g)'
        /\ \A q \in Group \ {r} : Coming(q) => Coming(q)'
    <3>1. r \in Group /\ ~Token(r)
      BY <1>8
         DEF StartGroup, IInv, TypeOK, Existing, Group, Books, RunBooks,
             RunBooked, Token
    <3>2. QED
      BY <1>8, <3>1, OneGroupMoves DEF StartGroup, IInv, TypeOK
  <2>2. Coming(r) => Coming(r)'
    BY <1>8 DEF StartGroup, Books, RunBooks, RunBooked, Token, Coming, NoRows,
       IInv, TypeOK
  <2>3. \A g \in Host : \A o \in Waiting(g)' :
          o \in Waiting(g) \/ \E x \in Where(o, g) : Firm(x)'
    BY <1>8 DEF Waiting, WaitingSyncs, WaitingRuns, WaitingRows, NoRows, Rows,
         RunOpen, IInv, TypeOK, StartGroup
  <2>4. QED
    BY <2>1, <2>2, <2>3, KeepsWaking
<1>9. ASSUME NEW r \in Run, CloseGroup(r) PROVE AllWoken'
  <2>1. r \in Group /\ ~Coming(r)
    BY <1>9, ClaimedIsHere DEF CloseGroup, IInv, Existing, Group
  <2>2. /\ \A g \in Host : Firm(g) => Firm(g)'
        /\ \A q \in Group \ {r} : Coming(q) => Coming(q)'
    BY <1>9, <2>1, OneGroupMoves DEF CloseGroup, IInv, TypeOK
  <2>3. \A g \in Host : \A o \in Waiting(g)' :
          o \in Waiting(g) \/ \E x \in Where(o, g) : Firm(x)'
    BY <1>9 DEF Waiting, WaitingSyncs, WaitingRuns, WaitingRows, NoRows, Rows,
         RunOpen, IInv, TypeOK, CloseGroup
  <2>4. QED
    BY <2>1, <2>2, <2>3, KeepsWaking
<1>10. ASSUME NEW b \in Rollback, StartRollback(b) PROVE AllWoken'
  <2>1. \A g \in Host : Firm(g) => Firm(g)'
    BY <1>10 DEF Firm, AtWork, OnItsWay, RunOpen, IInv, TypeOK, StartRollback
  <2>2. \A q \in Group : Coming(q) =>
          Coming(q)' \/ \A g \in Members(q) : Firm(g)'
    BY <1>10 DEF Coming, NoRows, Rows, Group, IInv, TypeOK, StartRollback
  <2>3. \A g \in Host : \A o \in Waiting(g)' :
          o \in Waiting(g) \/ \E x \in Where(o, g) : Firm(x)'
    BY <1>10 DEF Waiting, WaitingSyncs, WaitingRuns, WaitingRows, NoRows, Rows,
         RunOpen, IInv, TypeOK, StartRollback
  <2>4. QED
    BY <2>1, <2>2, <2>3, KeepsWaking
<1>11. ASSUME NEW b \in Rollback, FinishRollback(b) PROVE AllWoken'
  <2>1. \A g \in Host : Firm(g) => Firm(g)'
    BY <1>11 DEF Firm, AtWork, OnItsWay, RunOpen, IInv, TypeOK, FinishRollback
  <2>2. \A q \in Group : Coming(q) =>
          Coming(q)' \/ \A g \in Members(q) : Firm(g)'
    BY <1>11 DEF Coming, NoRows, Rows, Group, IInv, TypeOK, FinishRollback
  <2>3. \A g \in Host : \A o \in Waiting(g)' :
          o \in Waiting(g) \/ \E x \in Where(o, g) : Firm(x)'
    BY <1>11 DEF Waiting, WaitingSyncs, WaitingRuns, WaitingRows, NoRows, Rows,
         RunOpen, IInv, TypeOK, FinishRollback
  <2>4. QED
    BY <2>1, <2>2, <2>3, KeepsWaking
<1>12. ASSUME NEW w \in Row, NEW s \in Sync, QueuePostRunSync(w,
   s) PROVE AllWoken'
  <2>1. \A g \in Host : Firm(g) => Firm(g)'
    BY <1>12 DEF Firm, AtWork, OnItsWay, RunOpen, IInv, TypeOK, QueuePostRunSync
  <2>2. \A q \in Group : Coming(q) =>
          Coming(q)' \/ \A g \in Members(q) : Firm(g)'
    BY <1>12 DEF Coming, NoRows, Rows, Group, IInv, TypeOK, QueuePostRunSync
  <2>3. \A g \in Host : \A o \in Waiting(g)' :
          o \in Waiting(g) \/ \E x \in Where(o, g) : Firm(x)'
    <3>1. Firm(SyncHost[s])'
      BY <1>12 DEF Firm, AtWork, QueuePostRunSync
    <3>2. QED
      BY <1>12, <3>1, NewSyncWaits DEF QueuePostRunSync, IInv
  <2>4. QED
    BY <2>1, <2>2, <2>3, KeepsWaking
<1>13. ASSUME NEW r \in Run, NEW s \in Sync, QueueGroupSync(r,
   s) PROVE AllWoken'
  <2>1. \A g \in Host : Firm(g) => Firm(g)'
    BY <1>13 DEF Firm, AtWork, OnItsWay, RunOpen, IInv, TypeOK, QueueGroupSync
  <2>2. \A q \in Group : Coming(q) =>
          Coming(q)' \/ \A g \in Members(q) : Firm(g)'
    BY <1>13 DEF Coming, NoRows, Rows, Group, IInv, TypeOK, QueueGroupSync
  <2>3. \A g \in Host : \A o \in Waiting(g)' :
          o \in Waiting(g) \/ \E x \in Where(o, g) : Firm(x)'
    <3>1. groupOwes[r] = Members(r)
      BY <1>13 DEF Books, RunBooks, RunBooked, QueueGroupSync
    <3>2. Firm(SyncHost[s])'
      BY <1>13, <3>1 DEF Firm, AtWork, QueueGroupSync
    <3>3. QED
      BY <1>13, <3>2, NewSyncWaits DEF QueueGroupSync, IInv
  <2>4. QED
    BY <2>1, <2>2, <2>3, KeepsWaking
<1>14. ASSUME NEW r \in Run, RunAction(r) PROVE AllWoken'
  <2>1. \A g \in Host : Firm(g) => Firm(g)'
    <3>1. \A g \in Host : AtWork(g) => AtWork(g)'
      BY <1>14 DEF AtWork, RunAction
    <3>2. \A s \in Sync : SyncComes(s) => SyncComes(s)'
      BY <1>14 DEF SyncComes, RunAction
    <3>3. \A w \in Row : RowComes(w) => RowComes(w)'
      <4>1. \A q \in Run : RunOpen(q) => RunOpen(q)'
        BY <1>14 DEF RunAction, RunOpen, IInv, TypeOK
      <4>2. \A w \in Row : rowSt[w] = "queued" => rowSt'[w] = "queued"
        BY <1>14 DEF RunAction, MoveRows, IInv, TypeOK
      <4>3. QED
        BY <1>14, <4>1, <4>2 DEF RowComes, RunAction
    <3>4. \A q \in Run \ {r} : RunComes(q) => RunComes(q)'
      BY <1>14 DEF RunComes, RunAction, IInv, TypeOK
    <3>5. ASSUME r \notin Group, RunComes(r), NEW g \in Members(r)
          PROVE  Firm(g)'
      <4>1. PICK w \in Row : RowRun[w] = r /\ RowHost[w] = g
        BY DEF Members, Rows
      <4>2. /\ runSt'[r] = "running" /\ rowSt'[w] = "queued"
            /\ rowSent' = rowSent
        BY <1>14, <3>5, <4>1 DEF RunAction, RunComes, MoveRows, IInv, TypeOK
      <4>3. rowSt[w] = "none"
        BY <3>5, <4>1 DEF TaskFrame, RunComes
      <4>4. rowSent[w] = 0
        BY <4>3 DEF Books, RowBooks, RowBooked
      <4>5. QED
        BY <4>1, <4>2, <4>4 DEF Firm, OnItsWay, RunOpen
    <3>6. QED
      BY <3>1, <3>2, <3>3, <3>4, <3>5, KeepsFirm
  <2>2. \A q \in Group : Coming(q) =>
          Coming(q)' \/ \A g \in Members(q) : Firm(g)'
    BY <1>14 DEF Coming, NoRows, Rows, Group, IInv, TypeOK, RunAction, MoveRows
  <2>3. \A g \in Host : \A o \in Waiting(g)' :
          o \in Waiting(g) \/ \E x \in Where(o, g) : Firm(x)'
    BY <1>14 DEF Waiting, WaitingSyncs, WaitingRuns, WaitingRows, NoRows, Rows,
         RunOpen, IInv, TypeOK, RunAction, MoveRows
  <2>4. QED
    BY <2>1, <2>2, <2>3, KeepsWaking
<1>15. ASSUME NEW r \in Run, CloseRun(r) PROVE AllWoken'
  <2>1. \A g \in Host : AtWork(g) => AtWork(g)'
    BY <1>15 DEF AtWork, CloseRun
  <2>2. /\ \A g \in Host : Firm(g) => Firm(g)'
        /\ \A q \in Group : Coming(q) => Coming(q)'
    BY <1>15, <2>1, ClosingKeeps DEF CloseRun
  <2>3. \A g \in Host : \A o \in Waiting(g)' :
          o \in Waiting(g) \/ \E x \in Where(o, g) : Firm(x)'
    BY <1>15 DEF Waiting, WaitingSyncs, WaitingRuns, WaitingRows, NoRows, Rows,
         RunOpen, IInv, TypeOK, CloseRun, FinaliseRun
  <2>4. QED
    BY <2>1, <2>2, <2>3, KeepsWaking
<1>16. ASSUME NEW w \in Row, StartRow(w) PROVE AllWoken'

  <2> DEFINE r == RowRun[w]
  <2>1. \A q \in Run \ {r} : runSt'[q] = runSt[q]
    BY <1>16 DEF StartRow, DeferParent, ResumeParent, IInv, TypeOK
  <2>2. \A v \in Row \ {w} : rowSt'[v] = rowSt[v] /\ rowMsg'[v] = rowMsg[v]
    BY <1>16 DEF StartRow, IInv, TypeOK
  <2>3. rowSt[w] = "queued" => r \notin Group /\ runSt[r] # "queued"
    BY DEF TaskFrame
  <2>4. \A q \in Run : RunOpen(q)' <=> RunOpen(q)
    BY <1>16, <2>1
       DEF StartRow, RunOpen, DeferParent, ResumeParent, IInv, TypeOK
  <2>5. rowSt[w] # "queued" => UNCHANGED <<rowSt, runSt>>
    BY <1>16 DEF StartRow, Claimable
  <2>6. \A q \in Run : NoRows(q)' <=> NoRows(q)
    <3>1. rowSt[w] = "queued" => rowSt'[w] # "none"
      BY <1>16 DEF StartRow, IInv, TypeOK
    <3>2. QED
      BY <2>2, <2>5, <3>1 DEF NoRows, Rows
  <2>7. rowSt[w] = "queued" => Firm(RowHost[w])'
    <3>1. CASE rowTask' = [rowTask EXCEPT ![w] = "working"]
      BY <3>1 DEF Firm, AtWork, IInv, TypeOK
    <3>2. CASE Busy(RowHost[w], {r})
      <4>1. Busy(RowHost[w], {r})'
        <5>1. RollbackHolds(RowHost[w])' = RollbackHolds(RowHost[w])
          BY <1>16 DEF StartRow, RollbackHolds
        <5>2. SyncHolds(RowHost[w])' = SyncHolds(RowHost[w])
          BY <1>16 DEF StartRow, SyncHolds
        <5>3. HostRunHolds(RowHost[w], {r}) => HostRunHolds(RowHost[w], {r})'
          BY <2>1 DEF HostRunHolds
        <5>4. RowHolds(RowHost[w], {r}) => RowHolds(RowHost[w], {r})'
          BY <2>1, <2>2 DEF RowHolds
        <5>5. ClaimedGroupHolds(RowHost[w], {r}) =>
                ClaimedGroupHolds(RowHost[w], {r})'
          BY <2>1, <2>6 DEF ClaimedGroupHolds
        <5>6. QED
          BY <3>2, <5>1, <5>2, <5>3, <5>4, <5>5 DEF Busy
      <4>2. QED
        BY <4>1 DEF BusyIsFirm
    <3>3. ~Token(r)
      BY DEF Books, RunBooks, RunBooked, Token
    <3>4. QED
      BY <1>16, <3>1, <3>2, <3>3 DEF StartRow, Claimable
  <2>8. \A g \in Host : Firm(g) => Firm(g)'
    <3>1. \A g \in Host : AtWork(g) => AtWork(g)'
      BY <1>16 DEF AtWork, StartRow, IInv, TypeOK
    <3>2. \A s \in Sync : SyncComes(s) => SyncComes(s)'
      BY <1>16 DEF SyncComes, StartRow
    <3>3. \A v \in Row \ {w} : RowComes(v) => RowComes(v)'
      BY <1>16, <2>2, <2>4 DEF RowComes, StartRow
    <3>4. RowComes(w) => Firm(RowHost[w])'
      BY <2>7 DEF RowComes
    <3>5. \A q \in Run \ Group : RunComes(q) => RunComes(q)'
      BY <1>16, <2>1, <2>3, <2>5 DEF RunComes, StartRow
    <3>6. QED
      BY <3>1, <3>2, <3>3, <3>4, <3>5, KeepsFirm
  <2>9. \A q \in Group : Coming(q) => Coming(q)'
    BY <1>16, <2>1, <2>3, <2>5, <2>6 DEF Coming, StartRow, Group
  <2>10. \A g \in Host : \A o \in Waiting(g)' :
           o \in Waiting(g) \/ \E x \in Where(o, g) : Firm(x)'
    <3> SUFFICES ASSUME NEW g \in Host, NEW o \in Waiting(g)'
                 PROVE  o \in Waiting(g) \/ \E x \in Where(o, g) : Firm(x)'
      OBVIOUS
    <3>1. CASE o = w /\ rowSt[w] = "queued"
      <4>1. w \notin Sync /\ w \notin Run
        BY StructureAssumption
      <4>2. RowHost[w] = g /\ g \in Where(o, g)
        BY <3>1, <4>1
           DEF Where, Waiting, WaitingSyncs, WaitingRuns, WaitingRows
      <4>3. QED
        BY <2>7, <3>1, <4>2
    <3>2. CASE o # w \/ rowSt[w] # "queued"
      <4>1. o \in WaitingSyncs(g)' => o \in WaitingSyncs(g)
        BY <1>16 DEF WaitingSyncs, StartRow
      <4>2. o \in WaitingRuns(g)' => o \in WaitingRuns(g)
        <5>1. NoRows(r) => rowSt[w] # "queued"
          BY DEF NoRows, Rows
        <5>2. QED
          BY <2>1, <2>5, <2>6, <5>1 DEF WaitingRuns
      <4>3. o \in WaitingRows(g)' => o \in WaitingRows(g)
        BY <2>2, <2>4, <2>5, <3>2 DEF WaitingRows
      <4>4. QED
        BY <4>1, <4>2, <4>3 DEF Waiting
    <3>3. QED
      BY <3>1, <3>2
  <2>11. QED
    BY <2>8, <2>9, <2>10, KeepsWaking
<1>17. ASSUME NEW w \in Row, CloseParent(w) PROVE AllWoken'
  <2>1. \A g \in Host : AtWork(g) => AtWork(g)'
    BY <1>17 DEF AtWork, CloseParent, IInv, TypeOK
  <2>2. /\ \A g \in Host : Firm(g) => Firm(g)'
        /\ \A q \in Group : Coming(q) => Coming(q)'
    BY <1>17, <2>1, ClosingKeeps DEF CloseParent
  <2>3. \A g \in Host : \A o \in Waiting(g)' :
          o \in Waiting(g) \/ \E x \in Where(o, g) : Firm(x)'
    BY <1>17 DEF Waiting, WaitingSyncs, WaitingRuns, WaitingRows, NoRows, Rows,
         RunOpen, IInv, TypeOK, CloseParent, FinaliseRun
  <2>4. QED
    BY <2>1, <2>2, <2>3, KeepsWaking
<1>18. ASSUME NEW r \in Run, LoadGroup(r) PROVE AllWoken'
  <2>1. r \in Group /\ ~Coming(r)
    BY <1>18, ClaimedIsHere DEF LoadGroup, IInv, Existing, Group
  <2>2. /\ \A g \in Host : Firm(g) => Firm(g)'
        /\ \A q \in Group \ {r} : Coming(q) => Coming(q)'
    BY <1>18, <2>1, OneGroupMoves DEF LoadGroup, IInv, TypeOK, Rows
  <2>3. \A g \in Host : \A o \in Waiting(g)' :
          o \in Waiting(g) \/ \E x \in Where(o, g) : Firm(x)'
    BY <1>18 DEF Waiting, WaitingSyncs, WaitingRuns, WaitingRows, NoRows, Rows,
         RunOpen, IInv, TypeOK, LoadGroup
  <2>4. QED
    BY <2>1, <2>2, <2>3, KeepsWaking
<1>19. ASSUME NEW r \in Run, ClaimGroup(r) PROVE AllWoken'

  <2>1. r \in Group
    BY <1>19 DEF ClaimGroup, IInv, Existing, Group
  <2>2. NoRows(r)
    BY <1>19, <2>1 DEF ClaimGroup, IInv, GroupInOnePlace, InOnePlace
  <2>3. /\ \A g \in Host : Firm(g) => Firm(g)'
        /\ \A q \in Group \ {r} : Coming(q) => Coming(q)'
    BY <1>19, <2>1, OneGroupMoves
       DEF ClaimGroup, IInv, TypeOK, Books, RunBooks, RunBooked
  <2>4. CASE \E h \in Members(r) : Busy(h, {})
    <3>1. PICK h \in Members(r) : Busy(h, {})
      BY <2>4
    <3>2. h \in Host
      BY <2>1, <3>1, MembersAreHosts DEF Group
    <3>3. Firm(h)'
      BY <2>3, <3>1, <3>2 DEF BusyIsFirm
    <3>4. Coming(r)'
      BY <1>19, <2>2, <2>4 DEF ClaimGroup, Coming, NoRows, IInv, TypeOK
    <3>5. r \notin Sync /\ r \notin Row /\ r \in Run
      BY StructureAssumption DEF Group
    <3>6. \A g \in Host : \A o \in Waiting(g)' :
            o \in Waiting(g) \/ \E x \in Where(o, g) : Firm(x)'
      <4> SUFFICES ASSUME NEW g \in Host, NEW o \in Waiting(g)'
                   PROVE  o \in Waiting(g) \/ \E x \in Where(o, g) : Firm(x)'
        OBVIOUS
      <4>1. CASE o = r
        BY <3>1, <3>3, <3>5, <4>1 DEF Where
      <4>2. CASE o # r
        <5>1. \A w \in Row : rowSt[w] = "pending" => RowRun[w] # r
          BY <2>2 DEF NoRows, Rows
        <5>2. QED
          BY <1>19, <2>4, <4>2, <5>1
             DEF ClaimGroup, Waiting, WaitingSyncs, WaitingRuns, WaitingRows,
                 NoRows, RunOpen, IInv, TypeOK
      <4>3. QED
        BY <4>1, <4>2
    <3>7. QED
      BY <2>3, <3>4, <3>6, KeepsWaking
  <2>5. CASE ~\E h \in Members(r) : Busy(h, {})
    <3>1. groupOwes'[r] = Members(r)
      BY <1>19, <2>5 DEF ClaimGroup, IInv, TypeOK
    <3>2. \A h \in Members(r) : Firm(h)'
      BY <1>19, <3>1 DEF Firm, AtWork
    <3>3. \A g \in Host : Waiting(g)' \subseteq Waiting(g)
      <4>1. \A w \in Row : rowSt[w] = "pending" => RowRun[w] # r
        BY <2>2 DEF NoRows, Rows
      <4>2. QED
        BY <1>19, <2>5, <4>1
           DEF ClaimGroup, Waiting, WaitingSyncs, WaitingRuns, WaitingRows,
               NoRows, RunOpen, IInv, TypeOK
    <3>4. QED
      BY <2>3, <3>2, <3>3, KeepsWaking
  <2>6. QED
    BY <2>4, <2>5
<1>20. ASSUME NEW r \in Run, FinishGroup(r) PROVE AllWoken'
  <2>1. r \in Group /\ ~Coming(r)
    BY <1>20, ClaimedIsHere DEF FinishGroup, IInv, Existing, Group
  <2>2. /\ \A g \in Host : Firm(g) => Firm(g)'
        /\ \A q \in Group \ {r} : Coming(q) => Coming(q)'
    BY <1>20, <2>1, OneGroupMoves DEF FinishGroup, IInv, TypeOK, MoveRows
  <2>3. \A g \in Host : \A o \in Waiting(g)' :
          o \in Waiting(g) \/ \E x \in Where(o, g) : Firm(x)'
    BY <1>20 DEF Waiting, WaitingSyncs, WaitingRuns, WaitingRows, NoRows, Rows,
         RunOpen, IInv, TypeOK, FinishGroup, MoveRows
  <2>4. QED
    BY <2>1, <2>2, <2>3, KeepsWaking
<1>21. ASSUME NEW r \in Run, FailGroup(r) PROVE AllWoken'
  <2>1. r \in Group /\ ~Coming(r)
    BY <1>21, ClaimedIsHere DEF FailGroup, IInv, Existing, Group
  <2>2. /\ \A g \in Host : Firm(g) => Firm(g)'
        /\ \A q \in Group \ {r} : Coming(q) => Coming(q)'
    BY <1>21, <2>1, OneGroupMoves DEF FailGroup, IInv, TypeOK, MoveRows
  <2>3. \A g \in Host : \A o \in Waiting(g)' :
          o \in Waiting(g) \/ \E x \in Where(o, g) : Firm(x)'
    BY <1>21 DEF Waiting, WaitingSyncs, WaitingRuns, WaitingRows, NoRows, Rows,
         RunOpen, IInv, TypeOK, FailGroup, MoveRows
  <2>4. QED
    BY <2>1, <2>2, <2>3, KeepsWaking
<1>22. ASSUME NEW s \in Sync, ReleaseSync(s) PROVE AllWoken'
  <2>1. syncTask[s] = "releasing" /\ syncSt[s] = "ended"
    BY <1>22 DEF ReleaseSync, Books, SyncBooks
  <2>2. DispatchNext(SyncHost[s], s)
    BY <1>22 DEF ReleaseSync
  <2>3. \A o \in Waiting(SyncHost[s]) : RunOf(o) # s
    BY <2>1, StructureAssumption
       DEF Waiting, WaitingSyncs, WaitingRuns, WaitingRows, RunOf
  <2>4. \A g \in Host \ {SyncHost[s]} : AtWork(g) => AtWork(g)'
    BY <1>22 DEF ReleaseSync, AtWork, IInv, TypeOK
  <2>5. UNCHANGED <<syncSt, rowSent, groupTask, groupMsg>>
    BY <1>22 DEF ReleaseSync
  <2>6. QED
    BY <2>2, <2>3, <2>4, <2>5, ReleaseWakes
<1>23. ASSUME NEW w \in Row, ReleaseRow(w) PROVE AllWoken'
  <2>1. rowSt[w] = "ended"
    BY <1>23 DEF ReleaseRow, Books, RowBooks, RowBooked
  <2>2. DispatchNext(RowHost[w], RowRun[w])
    BY <1>23 DEF ReleaseRow
  <2>3. ASSUME NEW o \in Waiting(RowHost[w]) PROVE RunOf(o) # RowRun[w]
    <3>1. CASE o \in Row
      <4>1. o # w /\ RowHost[o] = RowHost[w]
        BY <2>1, <3>1, WhoWaits DEF IInv
      <4>2. QED
        BY <3>1, <4>1, StructureAssumption DEF RunOf
    <3>2. CASE o \notin Row
      BY <2>1, <3>2, StructureAssumption
         DEF Waiting, WaitingSyncs, WaitingRuns, WaitingRows, RunOf, NoRows,
             Rows
    <3>3. QED
      BY <3>1, <3>2
  <2>4. \A g \in Host \ {RowHost[w]} : AtWork(g) => AtWork(g)'
    BY <1>23 DEF ReleaseRow, AtWork, IInv, TypeOK
  <2>5. UNCHANGED <<syncSt, rowSent, groupTask, groupMsg>>
    BY <1>23 DEF ReleaseRow
  <2>6. QED
    BY <2>2, <2>3, <2>4, <2>5, ReleaseWakes
<1>24. ASSUME NEW r \in Run, NEW h \in Host,
              ReleaseGroup(r, h) \/ SweepRelease(r, h)
      PROVE  AllWoken'
  <2>1. DispatchNext(h, r)
    BY <1>24 DEF ReleaseGroup, SweepRelease
  <2>2. r \in Group
    BY <1>24 DEF ReleaseGroup, SweepRelease, Books, RunBooks, RunBooked, IInv,
         Existing
  <2>3. ~(runSt[r] = "pending" /\ NoRows(r))
    BY <1>24, <2>2
       DEF ReleaseGroup, SweepRelease, Books, RunBooks, RunBooked, IInv,
           GroupInOnePlace, InOnePlace
  <2>4. ASSUME NEW o \in Waiting(h) PROVE RunOf(o) # r
    <3>1. CASE o \in Row
      <4>1. RowRun[o] # r
        BY <2>2, <3>1, WhoWaits DEF TaskFrame, IInv
      <4>2. QED
        BY <3>1, <4>1 DEF RunOf
    <3>2. CASE o \notin Row
      BY <2>3, <3>2, StructureAssumption
         DEF Waiting, WaitingSyncs, WaitingRuns, WaitingRows, RunOf
    <3>3. QED
      BY <3>1, <3>2
  <2>5. \A g \in Host \ {h} : AtWork(g) => AtWork(g)'
    BY <1>24 DEF ReleaseGroup, SweepRelease, AtWork, IInv, TypeOK
  <2>6. UNCHANGED <<syncSt, rowSent, groupMsg>>
    BY <1>24 DEF ReleaseGroup, SweepRelease
  <2>7. \A q \in Run :
          groupTask[q] = "preflight" => groupTask'[q] = "preflight"
    BY <1>24 DEF ReleaseGroup, SweepRelease, IInv, TypeOK
  <2>8. QED
    BY <2>1, <2>4, <2>5, <2>6, <2>7, ReleaseWakes
<1>25. ASSUME NEW b \in Rollback, ReleaseRollback(b) PROVE AllWoken'
  <2>1. DispatchNext(RollbackHost[b], b) /\ RollbackHost[b] \in Host
    BY <1>25, StructureAssumption DEF ReleaseRollback
  <2>2. \A o \in Waiting(RollbackHost[b]) : RunOf(o) # b
    BY <2>1, WhoWaits, StructureAssumption DEF IInv
  <2>3. \A g \in Host \ {RollbackHost[b]} : AtWork(g) => AtWork(g)'
    BY <1>25 DEF ReleaseRollback, AtWork, IInv, TypeOK
  <2>4. UNCHANGED <<syncSt, rowSent, groupTask, groupMsg>>
    BY <1>25 DEF ReleaseRollback
  <2>5. QED
    BY <2>1, <2>2, <2>3, <2>4, ReleaseWakes
<1>26. CASE UNCHANGED vars
  <2>1. \A g \in Host : Firm(g)' = Firm(g) /\ Waiting(g)' = Waiting(g)
    BY <1>26 DEF vars, Firm, AtWork, OnItsWay, RunOpen, Waiting, WaitingSyncs,
         WaitingRuns, WaitingRows, NoRows
  <2>2. \A q \in Group : Coming(q)' = Coming(q)
    BY <1>26 DEF vars, Coming, NoRows
  <2>3. QED
    BY <2>1, <2>2, KeepsWaking
<1>27. QED
  BY <1>1, <1>2, <1>3, <1>4, <1>5, <1>6, <1>7, <1>8, <1>9, <1>10, <1>11, <1>12,
     <1>13, <1>14, <1>15, <1>16, <1>17, <1>18, <1>19, <1>20, <1>21, <1>22,
     <1>23, <1>24, <1>25, <1>26, Zenon DEF CalmStep

\* No lost wakeup, for every number of hosts, syncs, runs and rollbacks:
\* whatever is deferred, a release on one of its hosts is still to come - as
\* long as nobody cancels, no task is killed or lost, no driver raises, and no
\* deadline passes but a group's rows'. Each of those events breaks it.
THEOREM NothingWaitsForNothing ==
  ASSUME May \subseteq {"slowGroup", "noKey"}, MaxSends > 0
  PROVE  Spec => []NoLostWakeup
<1> DEFINE Inv == Books /\ AllWoken
<1>1. Init => Inv
  <2> SUFFICES ASSUME Init PROVE Inv
    OBVIOUS
  <2>1. SyncBooks /\ BackBooks
    BY DEF Init, SyncBooks, BackBooks
  <2>2. \A w \in Row : RowBooked(w)
    BY Structure DEF Init, RowBooked
  <2>3. \A r \in Run : RunBooked(r)
    BY Structure DEF Init, RunBooked
  <2>4. \A h \in Host : Waiting(h) = {}
    BY DEF Init, Waiting, WaitingSyncs, WaitingRuns, WaitingRows
  <2>5. QED
    BY <2>1, <2>2, <2>3, <2>4 DEF Books, RowBooks, RunBooks, AllWoken
<1>2. /\ IInv /\ TaskFrame /\ Inv /\ [Next]_vars /\ IInv' /\ TaskFrame'
      => Inv'
  <2> SUFFICES ASSUME IInv, TaskFrame, Inv, [Next]_vars, IInv', TaskFrame'
               PROVE  Inv'
    OBVIOUS
  <2>1. CalmStep
    BY OnlyCalm
  <2>2. Books'
    BY <2>1, BooksStep
  <2>3. BusyIsFirm
    BY BusyFirm
  <2>4. (IInv /\ TaskFrame /\ Books => BusyIsFirm)'
    BY BusyFirm, PTL
  <2>5. BusyIsFirm'
    BY <2>2, <2>4
  <2>6. AllWoken'
    BY <2>1, <2>2, <2>3, <2>5, WakeStep
  <2>7. QED
    BY <2>2, <2>6
<1>3. IInv /\ TaskFrame /\ Inv => NoLostWakeup
  BY WokenSuffices
<1>4. QED
  BY <1>1, <1>2, <1>3, Invariance, TaskFrameInvariance, PTL DEF Spec
=============================================================================
