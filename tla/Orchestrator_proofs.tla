------------------------- MODULE Orchestrator_proofs -------------------------
(***************************************************************************)
(* Proofs about Orchestrator, for any number of hosts and orchestrators,   *)
(* any parallelism and any set of events.                                  *)
(***************************************************************************)
EXTENDS Orchestrator, FiniteSetTheorems, WellFoundedInduction, TLAPS

(***************************************************************************)
(* Type correctness                                                        *)
(***************************************************************************)

\* The next batch consists of rows, whatever the parallelism.
LEMMA NextBatchType ==
  ASSUME TypeOK, NEW o \in Orch
  PROVE  NextBatch(o) \subseteq Row
<1>1. batch[o] \subseteq Row /\ todo[o] \subseteq Row
  BY DEF TypeOK
<1>2. \A n : Take(todo[o], n) \subseteq todo[o]
  BY DEF Take
<1>3. QED
  BY <1>1, <1>2 DEF NextBatch

\* Every step keeps the types.
LEMMA TypeStep == TypeOK /\ [Next]_vars => TypeOK'
<1> SUFFICES ASSUME TypeOK, [Next]_vars PROVE TypeOK'
  OBVIOUS
<1> USE DEF TypeOK, RowStatus, Phase, Sent, Active,
            runVars, orchVars, rowVars
<1>1. ASSUME NEW o \in Orch, Start(o) PROVE TypeOK'
  BY <1>1 DEF Start, Goto
<1>2. ASSUME NEW o \in Orch, Resume(o) PROVE TypeOK'
  BY <1>2 DEF Resume, Goto
<1>3. ASSUME NEW o \in Orch, Stop(o) PROVE TypeOK'
  BY <1>3 DEF Stop, Goto, CheckIn, Forget
<1>4. ASSUME NEW o \in Orch, Ready(o) PROVE TypeOK'
  BY <1>4, NextBatchType DEF Ready, Goto, CheckIn
<1>5. ASSUME NEW o \in Orch, Send(o) PROVE TypeOK'
  <2>1. PICK w \in Row :
          /\ rowMsg' = [rowMsg EXCEPT ![w] = @ + 1]
          /\ toSend' = [toSend EXCEPT ![o] = @ \ {w}]
          /\ Goto(o, IF toSend[o] = {w} THEN "waiting" ELSE "sending")
    BY <1>5 DEF Send, Take
  <2>2. UNCHANGED <<runVars, todo, batch, rowSt, rowTask, deferred>>
    BY <1>5 DEF Send
  <2>3. QED
    BY <2>1, <2>2 DEF Goto
<1>6. ASSUME NEW o \in Orch, Wait(o) PROVE TypeOK'
  BY <1>6 DEF Wait, CheckIn, LeaveBatch, Goto
<1>7. ASSUME NEW o \in Orch, GiveUp(o) PROVE TypeOK'
  BY <1>7 DEF GiveUp, CheckIn, LeaveBatch, Goto
<1>8. ASSUME NEW o \in Orch, Close(o) PROVE TypeOK'
  BY <1>8 DEF Close, Goto, FinaliseRun
<1>9. ASSUME NEW o \in Orch, MarkCancelled(o) PROVE TypeOK'
  BY <1>9 DEF MarkCancelled, Goto, CancelRows
<1>10. ASSUME NEW o \in Orch, MarkFailed(o) PROVE TypeOK'
  BY <1>10 DEF MarkFailed, Goto, Forget
<1>11. ASSUME NEW o \in Orch, SoftLimit(o) PROVE TypeOK'
  BY <1>11 DEF SoftLimit, Goto, Forget, CancelRows
<1>12. ASSUME NEW o \in Orch, LetGo(o) PROVE TypeOK'
  BY <1>12 DEF LetGo, Goto
<1>13. ASSUME NEW o \in Orch, TakeOver(o) PROVE TypeOK'
  BY <1>13 DEF TakeOver, Goto, Spare
<1>14. ASSUME NEW o \in Orch, OrchDies(o) PROVE TypeOK'
  BY <1>14 DEF OrchDies, Goto, Forget
<1>15. ASSUME NEW w \in Row, StartRow(w) PROVE TypeOK'
  BY <1>15 DEF StartRow, Receive, Claimable
<1>16. ASSUME NEW w \in Row, Wake(w) PROVE TypeOK'
  BY <1>16 DEF Wake
<1>17. ASSUME NEW w \in Row, FinishRow(w) PROVE TypeOK'
  BY <1>17 DEF FinishRow
<1>18. ASSUME NEW w \in Row, CloseParent(w) PROVE TypeOK'
  BY <1>18 DEF CloseParent, FinaliseRun
<1>19. ASSUME NEW w \in Row, SweepRow(w) PROVE TypeOK'
  BY <1>19 DEF SweepRow
<1>20. ASSUME NEW w \in Row, WorkerDies(w) PROVE TypeOK'
  BY <1>20 DEF WorkerDies
<1>21. CASE SweepDone
  BY <1>21 DEF SweepDone, FinaliseRun
<1>22. CASE SweepDeadline
  BY <1>22 DEF SweepDeadline, CancelRows
<1>23. CASE GoesStale
  BY <1>23 DEF GoesStale
<1>24. CASE RequestCancel
  BY <1>24 DEF RequestCancel
<1>25. CASE CommitCancel
  BY <1>25 DEF CommitCancel, CancelRows
<1>26. CASE UNCHANGED vars
  BY <1>26 DEF vars
<1>27. QED
  BY <1>1, <1>2, <1>3, <1>4, <1>5, <1>6, <1>7, <1>8, <1>9, <1>10, <1>11,
     <1>12, <1>13, <1>14, <1>15, <1>16, <1>17, <1>18, <1>19, <1>20, <1>21,
     <1>22, <1>23, <1>24, <1>25, <1>26
  DEF Next, OrchStep, RowStep, Sweep

\* THEOREM: every reachable state has the declared types.
THEOREM TypeCorrect == Spec => []TypeOK
<1>1. Init => TypeOK
  BY OrchestratorAssumption
  DEF Init, TypeOK, RowStatus, Phase, Sent, Active
<1>2. QED
  BY <1>1, TypeStep, PTL DEF Spec

(***************************************************************************)
(* Rows                                                                    *)
(***************************************************************************)

\* A run that has not been started has no rows, and a task that works has a
\* row that runs.
RowsInOrder ==
  /\ runSt = "queued" => \A w \in Row : rowSt[w] = "none"
  /\ \A w \in Row : rowTask[w] \in {"working", "dead"} => rowSt[w] = "running"

LEMMA RowsInOrderStep == TypeOK /\ RowsInOrder /\ [Next]_vars => RowsInOrder'
<1> SUFFICES ASSUME TypeOK, RowsInOrder, [Next]_vars PROVE RowsInOrder'
  OBVIOUS
<1> USE DEF TypeOK, RowsInOrder, RowStatus, runVars, orchVars, rowVars
<1>1. ASSUME NEW o \in Orch, Start(o) PROVE RowsInOrder'
  BY <1>1 DEF Start, Goto
<1>2. ASSUME NEW o \in Orch, Resume(o) PROVE RowsInOrder'
  BY <1>2 DEF Resume, Goto
<1>3. ASSUME NEW o \in Orch, Stop(o) PROVE RowsInOrder'
  BY <1>3 DEF Stop, Goto, CheckIn, Forget
<1>4. ASSUME NEW o \in Orch, Ready(o) PROVE RowsInOrder'
  BY <1>4 DEF Ready, Goto, CheckIn
<1>5. ASSUME NEW o \in Orch, Send(o) PROVE RowsInOrder'
  BY <1>5 DEF Send, Goto
<1>6. ASSUME NEW o \in Orch, Wait(o) PROVE RowsInOrder'
  BY <1>6 DEF Wait, CheckIn, LeaveBatch, Goto
<1>7. ASSUME NEW o \in Orch, GiveUp(o) PROVE RowsInOrder'
  BY <1>7 DEF GiveUp, CheckIn, LeaveBatch, Goto
<1>8. ASSUME NEW o \in Orch, Close(o) PROVE RowsInOrder'
  BY <1>8 DEF Close, Goto, FinaliseRun
<1>9. ASSUME NEW o \in Orch, MarkCancelled(o) PROVE RowsInOrder'
  BY <1>9 DEF MarkCancelled, Goto, CancelRows
<1>10. ASSUME NEW o \in Orch, MarkFailed(o) PROVE RowsInOrder'
  BY <1>10 DEF MarkFailed, Goto, Forget
<1>11. ASSUME NEW o \in Orch, SoftLimit(o) PROVE RowsInOrder'
  BY <1>11 DEF SoftLimit, Goto, Forget, CancelRows
<1>12. ASSUME NEW o \in Orch, LetGo(o) PROVE RowsInOrder'
  BY <1>12 DEF LetGo, Goto
<1>13. ASSUME NEW o \in Orch, TakeOver(o) PROVE RowsInOrder'
  BY <1>13 DEF TakeOver, Goto, Spare
<1>14. ASSUME NEW o \in Orch, OrchDies(o) PROVE RowsInOrder'
  BY <1>14 DEF OrchDies, Goto, Forget
<1>15. ASSUME NEW w \in Row, StartRow(w) PROVE RowsInOrder'
  BY <1>15 DEF StartRow, Receive, Claimable
<1>16. ASSUME NEW w \in Row, Wake(w) PROVE RowsInOrder'
  BY <1>16 DEF Wake
<1>17. ASSUME NEW w \in Row, FinishRow(w) PROVE RowsInOrder'
  BY <1>17 DEF FinishRow
<1>18. ASSUME NEW w \in Row, CloseParent(w) PROVE RowsInOrder'
  BY <1>18 DEF CloseParent, FinaliseRun
<1>19. ASSUME NEW w \in Row, SweepRow(w) PROVE RowsInOrder'
  BY <1>19 DEF SweepRow
<1>20. ASSUME NEW w \in Row, WorkerDies(w) PROVE RowsInOrder'
  BY <1>20 DEF WorkerDies
<1>21. CASE SweepDone
  BY <1>21 DEF SweepDone, FinaliseRun
<1>22. CASE SweepDeadline
  BY <1>22 DEF SweepDeadline, CancelRows
<1>23. CASE GoesStale
  BY <1>23 DEF GoesStale
<1>24. CASE RequestCancel
  BY <1>24 DEF RequestCancel
<1>25. CASE CommitCancel
  BY <1>25 DEF CommitCancel, CancelRows
<1>26. CASE UNCHANGED vars
  BY <1>26 DEF vars
<1>27. QED
  BY <1>1, <1>2, <1>3, <1>4, <1>5, <1>6, <1>7, <1>8, <1>9, <1>10, <1>11,
     <1>12, <1>13, <1>14, <1>15, <1>16, <1>17, <1>18, <1>19, <1>20, <1>21,
     <1>22, <1>23, <1>24, <1>25, <1>26
  DEF Next, OrchStep, RowStep, Sweep

\* What RowStartsOnce says of one step.
RowsForward ==
  \A w \in Row :
    /\ rowSt[w] = "running" => rowSt'[w] \in {"running", "ended"}
    /\ rowSt[w] \in {"ended", "cancelled"} => rowSt'[w] = rowSt[w]

LEMMA RowsForwardStep ==
  TypeOK /\ RowsInOrder /\ [Next]_vars => RowsForward
<1> SUFFICES ASSUME TypeOK, RowsInOrder, [Next]_vars PROVE RowsForward
  OBVIOUS
<1> USE DEF TypeOK, RowsInOrder, RowsForward, RowStatus, runVars, orchVars,
            rowVars
<1>1. ASSUME NEW o \in Orch, Start(o) PROVE RowsForward
  BY <1>1 DEF Start, Goto
<1>2. ASSUME NEW o \in Orch, Resume(o) PROVE RowsForward
  BY <1>2 DEF Resume, Goto
<1>3. ASSUME NEW o \in Orch, Stop(o) PROVE RowsForward
  BY <1>3 DEF Stop, Goto, CheckIn, Forget
<1>4. ASSUME NEW o \in Orch, Ready(o) PROVE RowsForward
  BY <1>4 DEF Ready, Goto, CheckIn
<1>5. ASSUME NEW o \in Orch, Send(o) PROVE RowsForward
  BY <1>5 DEF Send, Goto
<1>6. ASSUME NEW o \in Orch, Wait(o) PROVE RowsForward
  BY <1>6 DEF Wait, CheckIn, LeaveBatch, Goto
<1>7. ASSUME NEW o \in Orch, GiveUp(o) PROVE RowsForward
  BY <1>7 DEF GiveUp, CheckIn, LeaveBatch, Goto
<1>8. ASSUME NEW o \in Orch, Close(o) PROVE RowsForward
  BY <1>8 DEF Close, Goto, FinaliseRun
<1>9. ASSUME NEW o \in Orch, MarkCancelled(o) PROVE RowsForward
  BY <1>9 DEF MarkCancelled, Goto, CancelRows
<1>10. ASSUME NEW o \in Orch, MarkFailed(o) PROVE RowsForward
  BY <1>10 DEF MarkFailed, Goto, Forget
<1>11. ASSUME NEW o \in Orch, SoftLimit(o) PROVE RowsForward
  BY <1>11 DEF SoftLimit, Goto, Forget, CancelRows
<1>12. ASSUME NEW o \in Orch, LetGo(o) PROVE RowsForward
  BY <1>12 DEF LetGo, Goto
<1>13. ASSUME NEW o \in Orch, TakeOver(o) PROVE RowsForward
  BY <1>13 DEF TakeOver, Goto, Spare
<1>14. ASSUME NEW o \in Orch, OrchDies(o) PROVE RowsForward
  BY <1>14 DEF OrchDies, Goto, Forget
<1>15. ASSUME NEW w \in Row, StartRow(w) PROVE RowsForward
  BY <1>15 DEF StartRow, Receive, Claimable
<1>16. ASSUME NEW w \in Row, Wake(w) PROVE RowsForward
  BY <1>16 DEF Wake
<1>17. ASSUME NEW w \in Row, FinishRow(w) PROVE RowsForward
  BY <1>17 DEF FinishRow
<1>18. ASSUME NEW w \in Row, CloseParent(w) PROVE RowsForward
  BY <1>18 DEF CloseParent, FinaliseRun
<1>19. ASSUME NEW w \in Row, SweepRow(w) PROVE RowsForward
  BY <1>19 DEF SweepRow
<1>20. ASSUME NEW w \in Row, WorkerDies(w) PROVE RowsForward
  BY <1>20 DEF WorkerDies
<1>21. CASE SweepDone
  BY <1>21 DEF SweepDone, FinaliseRun
<1>22. CASE SweepDeadline
  BY <1>22 DEF SweepDeadline, CancelRows
<1>23. CASE GoesStale
  BY <1>23 DEF GoesStale
<1>24. CASE RequestCancel
  BY <1>24 DEF RequestCancel
<1>25. CASE CommitCancel
  BY <1>25 DEF CommitCancel, CancelRows
<1>26. CASE UNCHANGED vars
  BY <1>26 DEF vars
<1>27. QED
  BY <1>1, <1>2, <1>3, <1>4, <1>5, <1>6, <1>7, <1>8, <1>9, <1>10, <1>11,
     <1>12, <1>13, <1>14, <1>15, <1>16, <1>17, <1>18, <1>19, <1>20, <1>21,
     <1>22, <1>23, <1>24, <1>25, <1>26
  DEF Next, OrchStep, RowStep, Sweep

\* THEOREM: a host that has started does not start again, and one that is done
\* with stays so, however many orchestrators and copies of its task there are.
THEOREM StartsOnce == Spec => RowStartsOnce
<1>1. Init => RowsInOrder
  BY DEF Init, RowsInOrder
<1>2. Spec => [](TypeOK /\ RowsInOrder)
  BY TypeCorrect, <1>1, RowsInOrderStep, PTL DEF Spec
<1>3. TypeOK /\ RowsInOrder /\ [Next]_vars => [RowsForward]_vars
  BY RowsForwardStep
<1>4. Spec => [][RowsForward]_vars
  BY <1>2, <1>3, PTL DEF Spec
<1>5. QED
  BY <1>4 DEF RowStartsOnce, RowsForward

\* A run that ended keeps its rows as they are.
LEMMA EndedStep ==
  TypeOK /\ RowsInOrder /\ EndedMeansDone /\ [Next]_vars => EndedMeansDone'
<1> SUFFICES ASSUME TypeOK, RowsInOrder, EndedMeansDone, [Next]_vars
             PROVE  EndedMeansDone'
  OBVIOUS
<1> USE DEF TypeOK, RowsInOrder, EndedMeansDone, RowsDone, RowStatus, runVars,
            orchVars, rowVars
<1>1. ASSUME NEW o \in Orch, Start(o) PROVE EndedMeansDone'
  BY <1>1 DEF Start, Goto
<1>2. ASSUME NEW o \in Orch, Resume(o) PROVE EndedMeansDone'
  BY <1>2 DEF Resume, Goto
<1>3. ASSUME NEW o \in Orch, Stop(o) PROVE EndedMeansDone'
  BY <1>3 DEF Stop, Goto, CheckIn, Forget
<1>4. ASSUME NEW o \in Orch, Ready(o) PROVE EndedMeansDone'
  BY <1>4 DEF Ready, Goto, CheckIn
<1>5. ASSUME NEW o \in Orch, Send(o) PROVE EndedMeansDone'
  BY <1>5 DEF Send, Goto
<1>6. ASSUME NEW o \in Orch, Wait(o) PROVE EndedMeansDone'
  BY <1>6 DEF Wait, CheckIn, LeaveBatch, Goto
<1>7. ASSUME NEW o \in Orch, GiveUp(o) PROVE EndedMeansDone'
  BY <1>7 DEF GiveUp, CheckIn, LeaveBatch, Goto
<1>8. ASSUME NEW o \in Orch, Close(o) PROVE EndedMeansDone'
  BY <1>8 DEF Close, Goto, FinaliseRun
<1>9. ASSUME NEW o \in Orch, MarkCancelled(o) PROVE EndedMeansDone'
  BY <1>9 DEF MarkCancelled, Goto, CancelRows
<1>10. ASSUME NEW o \in Orch, MarkFailed(o) PROVE EndedMeansDone'
  BY <1>10 DEF MarkFailed, Goto, Forget
<1>11. ASSUME NEW o \in Orch, SoftLimit(o) PROVE EndedMeansDone'
  BY <1>11 DEF SoftLimit, Goto, Forget, CancelRows
<1>12. ASSUME NEW o \in Orch, LetGo(o) PROVE EndedMeansDone'
  BY <1>12 DEF LetGo, Goto
<1>13. ASSUME NEW o \in Orch, TakeOver(o) PROVE EndedMeansDone'
  BY <1>13 DEF TakeOver, Goto, Spare
<1>14. ASSUME NEW o \in Orch, OrchDies(o) PROVE EndedMeansDone'
  BY <1>14 DEF OrchDies, Goto, Forget
<1>15. ASSUME NEW w \in Row, StartRow(w) PROVE EndedMeansDone'
  BY <1>15 DEF StartRow, Receive, Claimable
<1>16. ASSUME NEW w \in Row, Wake(w) PROVE EndedMeansDone'
  BY <1>16 DEF Wake
<1>17. ASSUME NEW w \in Row, FinishRow(w) PROVE EndedMeansDone'
  BY <1>17 DEF FinishRow
<1>18. ASSUME NEW w \in Row, CloseParent(w) PROVE EndedMeansDone'
  BY <1>18 DEF CloseParent, FinaliseRun
<1>19. ASSUME NEW w \in Row, SweepRow(w) PROVE EndedMeansDone'
  BY <1>19 DEF SweepRow
<1>20. ASSUME NEW w \in Row, WorkerDies(w) PROVE EndedMeansDone'
  BY <1>20 DEF WorkerDies
<1>21. CASE SweepDone
  BY <1>21 DEF SweepDone, FinaliseRun
<1>22. CASE SweepDeadline
  BY <1>22 DEF SweepDeadline, CancelRows
<1>23. CASE GoesStale
  BY <1>23 DEF GoesStale
<1>24. CASE RequestCancel
  BY <1>24 DEF RequestCancel
<1>25. CASE CommitCancel
  BY <1>25 DEF CommitCancel, CancelRows
<1>26. CASE UNCHANGED vars
  BY <1>26 DEF vars
<1>27. QED
  BY <1>1, <1>2, <1>3, <1>4, <1>5, <1>6, <1>7, <1>8, <1>9, <1>10, <1>11,
     <1>12, <1>13, <1>14, <1>15, <1>16, <1>17, <1>18, <1>19, <1>20, <1>21,
     <1>22, <1>23, <1>24, <1>25, <1>26
  DEF Next, OrchStep, RowStep, Sweep

(***************************************************************************)
(* A run that is open can be taken over                                    *)
(***************************************************************************)

\* What an orchestrator has in mind where.
Phases ==
  \A o \in Orch :
    /\ phase[o] \in {"none", "start", "resume"} => batch[o] = {}
    /\ phase[o] = "ready" => todo[o] \cap batch[o] = {}
    /\ phase[o] # "sending" => toSend[o] = {}
    /\ phase[o] \in {"closing", "cancelling", "leaving"} => todo[o] = {}

LEMMA PhasesStep == TypeOK /\ Phases /\ [Next]_vars => Phases'
<1> SUFFICES ASSUME TypeOK, Phases, [Next]_vars PROVE Phases'
  OBVIOUS
<1> USE DEF TypeOK, Phases, Phase, Sent, Active, runVars, orchVars, rowVars
<1>1. ASSUME NEW o \in Orch, Start(o) PROVE Phases'
  BY <1>1 DEF Start, Goto
<1>2. ASSUME NEW o \in Orch, Resume(o) PROVE Phases'
  BY <1>2 DEF Resume, Goto, InFlight
<1>3. ASSUME NEW o \in Orch, Stop(o) PROVE Phases'
  BY <1>3 DEF Stop, Goto, CheckIn, Forget
<1>4. ASSUME NEW o \in Orch, Ready(o) PROVE Phases'
  BY <1>4 DEF Ready, Goto, CheckIn
<1>5. ASSUME NEW o \in Orch, Send(o) PROVE Phases'
  BY <1>5 DEF Send, Goto
<1>6. ASSUME NEW o \in Orch, Wait(o) PROVE Phases'
  BY <1>6 DEF Wait, CheckIn, LeaveBatch, Goto
<1>7. ASSUME NEW o \in Orch, GiveUp(o) PROVE Phases'
  BY <1>7 DEF GiveUp, CheckIn, LeaveBatch, Goto
<1>8. ASSUME NEW o \in Orch, Close(o) PROVE Phases'
  BY <1>8 DEF Close, Goto, FinaliseRun
<1>9. ASSUME NEW o \in Orch, MarkCancelled(o) PROVE Phases'
  BY <1>9 DEF MarkCancelled, Goto, CancelRows
<1>10. ASSUME NEW o \in Orch, MarkFailed(o) PROVE Phases'
  BY <1>10 DEF MarkFailed, Goto, Forget
<1>11. ASSUME NEW o \in Orch, SoftLimit(o) PROVE Phases'
  BY <1>11 DEF SoftLimit, Goto, Forget, CancelRows
<1>12. ASSUME NEW o \in Orch, LetGo(o) PROVE Phases'
  BY <1>12 DEF LetGo, Goto
<1>13. ASSUME NEW o \in Orch, TakeOver(o) PROVE Phases'
  BY <1>13 DEF TakeOver, Goto, Spare
<1>14. ASSUME NEW o \in Orch, OrchDies(o) PROVE Phases'
  BY <1>14 DEF OrchDies, Goto, Forget
<1>15. ASSUME NEW w \in Row, StartRow(w) PROVE Phases'
  BY <1>15 DEF StartRow, Receive, Claimable
<1>16. ASSUME NEW w \in Row, Wake(w) PROVE Phases'
  BY <1>16 DEF Wake
<1>17. ASSUME NEW w \in Row, FinishRow(w) PROVE Phases'
  BY <1>17 DEF FinishRow
<1>18. ASSUME NEW w \in Row, CloseParent(w) PROVE Phases'
  BY <1>18 DEF CloseParent, FinaliseRun
<1>19. ASSUME NEW w \in Row, SweepRow(w) PROVE Phases'
  BY <1>19 DEF SweepRow
<1>20. ASSUME NEW w \in Row, WorkerDies(w) PROVE Phases'
  BY <1>20 DEF WorkerDies
<1>21. CASE SweepDone
  BY <1>21 DEF SweepDone, FinaliseRun
<1>22. CASE SweepDeadline
  BY <1>22 DEF SweepDeadline, CancelRows
<1>23. CASE GoesStale
  BY <1>23 DEF GoesStale
<1>24. CASE RequestCancel
  BY <1>24 DEF RequestCancel
<1>25. CASE CommitCancel
  BY <1>25 DEF CommitCancel, CancelRows
<1>26. CASE UNCHANGED vars
  BY <1>26 DEF vars
<1>27. QED
  BY <1>1, <1>2, <1>3, <1>4, <1>5, <1>6, <1>7, <1>8, <1>9, <1>10, <1>11,
     <1>12, <1>13, <1>14, <1>15, <1>16, <1>17, <1>18, <1>19, <1>20, <1>21,
     <1>22, <1>23, <1>24, <1>25, <1>26
  DEF Next, OrchStep, RowStep, Sweep

\* The orchestrator that owns an open run has in mind whatever is unsent, unless
\* it has yet to read the rows, will cancel them, or is dead: then it is still
\* the owner on record. A run that nobody owns has nothing unsent.
Remembered(o) ==
  \/ phase[o] \in {"resume", "cancelling", "dead"}
  \/ Unsent \subseteq todo[o] \cup toSend[o]

OwnerRemembers ==
  /\ owner = Nobody <=> heartbeat = "none"
  /\ runSt = "running" =>
       IF owner = Nobody THEN Unsent = {} ELSE Remembered(owner)

LEMMA OwnerRemembersStep ==
  TypeOK /\ RowsInOrder /\ Phases /\ OwnerRemembers /\ [Next]_vars
    => OwnerRemembers'
<1> SUFFICES ASSUME TypeOK, RowsInOrder, Phases, OwnerRemembers, [Next]_vars
             PROVE  OwnerRemembers'
  OBVIOUS
<1> USE OrchestratorAssumption
        DEF TypeOK, RowsInOrder, Phases, OwnerRemembers, Remembered, Unsent,
            RowStatus, Phase, Sent, Active, runVars, orchVars, rowVars
<1>1. ASSUME NEW o \in Orch, Start(o) PROVE OwnerRemembers'
  BY <1>1 DEF Start, Goto
<1>2. ASSUME NEW o \in Orch, Resume(o) PROVE OwnerRemembers'
  BY <1>2 DEF Resume, Goto
<1>3. ASSUME NEW o \in Orch, Stop(o) PROVE OwnerRemembers'
  BY <1>3 DEF Stop, Goto, CheckIn, Forget, Go, Cancelled
<1>4. ASSUME NEW o \in Orch, Ready(o) PROVE OwnerRemembers'
  BY <1>4 DEF Ready, Goto, CheckIn
<1>5. ASSUME NEW o \in Orch, Send(o) PROVE OwnerRemembers'
  BY <1>5 DEF Send, Goto
<1>6. ASSUME NEW o \in Orch, Wait(o) PROVE OwnerRemembers'
  BY <1>6 DEF Wait, CheckIn, LeaveBatch, Goto
<1>7. ASSUME NEW o \in Orch, GiveUp(o) PROVE OwnerRemembers'
  BY <1>7 DEF GiveUp, CheckIn, LeaveBatch, Goto
<1>8. ASSUME NEW o \in Orch, Close(o) PROVE OwnerRemembers'
  BY <1>8 DEF Close, Goto, FinaliseRun
<1>9. ASSUME NEW o \in Orch, MarkCancelled(o) PROVE OwnerRemembers'
  BY <1>9 DEF MarkCancelled, Goto, CancelRows
<1>10. ASSUME NEW o \in Orch, MarkFailed(o) PROVE OwnerRemembers'
  BY <1>10 DEF MarkFailed, Goto, Forget
<1>11. ASSUME NEW o \in Orch, SoftLimit(o) PROVE OwnerRemembers'
  BY <1>11 DEF SoftLimit, Goto, Forget, CancelRows
<1>12. ASSUME NEW o \in Orch, LetGo(o) PROVE OwnerRemembers'
  BY <1>12 DEF LetGo, Goto
<1>13. ASSUME NEW o \in Orch, TakeOver(o) PROVE OwnerRemembers'
  BY <1>13 DEF TakeOver, Goto, Spare
<1>14. ASSUME NEW o \in Orch, OrchDies(o) PROVE OwnerRemembers'
  BY <1>14 DEF OrchDies, Goto, Forget
<1>15. ASSUME NEW w \in Row, StartRow(w) PROVE OwnerRemembers'
  BY <1>15 DEF StartRow, Receive, Claimable
<1>16. ASSUME NEW w \in Row, Wake(w) PROVE OwnerRemembers'
  BY <1>16 DEF Wake
<1>17. ASSUME NEW w \in Row, FinishRow(w) PROVE OwnerRemembers'
  BY <1>17 DEF FinishRow
<1>18. ASSUME NEW w \in Row, CloseParent(w) PROVE OwnerRemembers'
  BY <1>18 DEF CloseParent, FinaliseRun
<1>19. ASSUME NEW w \in Row, SweepRow(w) PROVE OwnerRemembers'
  BY <1>19 DEF SweepRow
<1>20. ASSUME NEW w \in Row, WorkerDies(w) PROVE OwnerRemembers'
  BY <1>20 DEF WorkerDies
<1>21. CASE SweepDone
  BY <1>21 DEF SweepDone, FinaliseRun
<1>22. CASE SweepDeadline
  BY <1>22 DEF SweepDeadline, CancelRows
<1>23. CASE GoesStale
  BY <1>23 DEF GoesStale
<1>24. CASE RequestCancel
  BY <1>24 DEF RequestCancel
<1>25. CASE CommitCancel
  BY <1>25 DEF CommitCancel, CancelRows
<1>26. CASE UNCHANGED vars
  BY <1>26 DEF vars
<1>27. QED
  BY <1>1, <1>2, <1>3, <1>4, <1>5, <1>6, <1>7, <1>8, <1>9, <1>10, <1>11,
     <1>12, <1>13, <1>14, <1>15, <1>16, <1>17, <1>18, <1>19, <1>20, <1>21,
     <1>22, <1>23, <1>24, <1>25, <1>26
  DEF Next, OrchStep, RowStep, Sweep

IInv == TypeOK /\ RowsInOrder /\ Phases /\ OwnerRemembers

\* The invariant of Orchestrator is inductive.
THEOREM Inductive == Spec => []IInv
<1>1. Init => RowsInOrder /\ Phases /\ OwnerRemembers
  BY OrchestratorAssumption
  DEF Init, RowsInOrder, Phases, OwnerRemembers, Remembered, Unsent
<1>2. QED
  BY TypeCorrect, <1>1, RowsInOrderStep, PhasesStep, OwnerRemembersStep, PTL
  DEF Spec, IInv

\* THEOREM: an open run with rows that only an orchestrator will send has an
\* owner and a heartbeat, so that it can be taken over.
THEOREM CanBeTakenOver == Spec => []Findable
<1>1. IInv => Findable
  BY DEF IInv, OwnerRemembers, Findable
<1>2. QED
  BY Inductive, <1>1, PTL

\* THEOREM: a run that ended has no host that is still to run, waits or works.
THEOREM EndedIsDone == Spec => []EndedMeansDone
<1>1. Init => EndedMeansDone
  BY DEF Init, EndedMeansDone
<1>2. IInv /\ EndedMeansDone /\ [Next]_vars => EndedMeansDone'
  BY EndedStep DEF IInv
<1>3. QED
  BY Inductive, <1>1, <1>2, PTL DEF Spec
(***************************************************************************)
(* The run implements RunLife                                              *)
(***************************************************************************)

life == <<runLife, rowLife>>

\* Statuses of one life are one to it.
LEMMA LifeKept ==
  ASSUME RunLifeOf(runSt') = RunLifeOf(runSt),
         \A w \in Row : RowLifeOf(rowSt'[w]) = RowLifeOf(rowSt[w])
  PROVE  UNCHANGED life
BY DEF life, runLife, rowLife

\* Read off the columns, lives have their types.
LEMMA LifeType == TypeOK => Life!TypeOK
BY DEF TypeOK, Life!TypeOK, runLife, rowLife, RunLifeOf, RowLifeOf, RowStatus

\* The run ends, and gives up the rows S that wait.
LEMMA LifeEnds ==
  ASSUME TypeOK, NEW S \in SUBSET Row, runSt' \in {"ended", "failed"},
         \A w \in S : rowSt[w] \in {"queued", "pending"},
         \A w \in S : rowSt'[w] = "cancelled",
         \A w \in Row \ S : rowSt'[w] = rowSt[w]
  PROVE  Life!Next
<1>1. runLife[1] # "none"
  BY DEF runLife, RunLifeOf, TypeOK
<1>2. S \in SUBSET Life!Waiting(1)
  BY DEF Life!Waiting, Life!Rows, rowLife, RowLifeOf
<1>3. runLife' = [runLife EXCEPT ![1] = "ended"]
  BY DEF runLife, RunLifeOf
<1>4. rowLife' = Life!Moved(S, "over")
  BY DEF Life!Moved, rowLife, RowLifeOf
<1>5. Life!End(1)
  BY <1>1, <1>2, <1>3, <1>4 DEF Life!End
<1>6. QED
  BY <1>5 DEF Life!Next

\* ... and keeps its rows as they are.
LEMMA LifeJustEnds ==
  ASSUME TypeOK, runSt' \in {"ended", "failed"}, UNCHANGED rowSt
  PROVE  Life!Next
<1>1. {} \in SUBSET Row /\ \A w \in Row \ {} : rowSt'[w] = rowSt[w]
  OBVIOUS
<1>2. QED
  BY <1>1, LifeEnds

\* The run is cancelled, with all of its rows that wait.
LEMMA LifeCancels ==
  ASSUME TypeOK, runSt' = "cancelled", CancelRows({"queued", "pending"})
  PROVE  Life!Next
<1>1. runLife[1] # "none"
  BY DEF runLife, RunLifeOf, TypeOK
<1>2. runLife' = [runLife EXCEPT ![1] = "cancelled"]
  BY DEF runLife, RunLifeOf
<1>3. \A w \in Row :
        w \in Life!Waiting(1) <=> rowSt[w] \in {"queued", "pending"}
  BY DEF Life!Waiting, Life!Rows, rowLife, RowLifeOf
<1>4. rowLife' = Life!Moved(Life!Waiting(1), "over")
  BY <1>3 DEF Life!Moved, rowLife, RowLifeOf, CancelRows
<1>5. Life!Cancel(1)
  BY <1>1, <1>2, <1>4 DEF Life!Cancel
<1>6. QED
  BY <1>5 DEF Life!Next

\* A row starts, is given up or is over, and the run stays as it is.
LEMMA LifeOfOneRow ==
  ASSUME TypeOK, Life!RowsFollowRun, NEW w \in Row, UNCHANGED runSt,
         NEW to \in RowStatus, rowSt' = [rowSt EXCEPT ![w] = to],
         \/ rowSt[w] \in {"queued", "pending"} /\ to = "running"
         \/ /\ rowSt[w] \in {"queued", "pending", "running"}
            /\ to \in {"ended", "cancelled"}
  PROVE  Life!Next
<1>1. runLife' = runLife
  BY DEF runLife
<1>2. rowLife' = [rowLife EXCEPT ![w] = RowLifeOf(to)]
  BY DEF rowLife, TypeOK
<1>3. rowLife[w] = RowLifeOf(rowSt[w])
  BY DEF rowLife
<1>4. Life!Start(w) \/ Life!GiveUp(w) \/ Life!Finish(w)
  BY <1>1, <1>2, <1>3
     DEF RowLifeOf, Life!RowsFollowRun, Life!Start, Life!GiveUp, Life!Finish
<1>5. QED
  BY <1>4 DEF Life!Next

\* What follows from the steps of RunLife stays true.
LEMMA FollowStep ==
  TypeOK /\ TypeOK' /\ Life!RowsFollowRun /\ [Life!Next]_life
    => Life!RowsFollowRun'
<1> SUFFICES ASSUME TypeOK, TypeOK', Life!RowsFollowRun, [Life!Next]_life
             PROVE  Life!RowsFollowRun'
  OBVIOUS
<1>1. Life!TypeOK /\ Life!TypeOK'
  BY LifeType, PTL
<1> USE <1>1 DEF Life!TypeOK, Life!RowsFollowRun
<1>2. CASE UNCHANGED life
  BY <1>2 DEF life
<1>3. CASE Life!Submit(1)
  BY <1>3 DEF Life!Submit
<1>4. CASE Life!Open(1)
  BY <1>4 DEF Life!Open, Life!Moved, Life!Rows
<1>5. CASE Life!Cancel(1)
  BY <1>5 DEF Life!Cancel, Life!Moved, Life!Waiting, Life!Rows
<1>6. CASE Life!End(1)
  BY <1>6 DEF Life!End, Life!Moved, Life!Waiting, Life!Rows
<1>7. ASSUME NEW w \in Row, Life!Start(w) \/ Life!GiveUp(w) \/ Life!Finish(w)
      PROVE  Life!RowsFollowRun'
  BY <1>7 DEF Life!Start, Life!GiveUp, Life!Finish
<1>8. QED
  BY <1>2, <1>3, <1>4, <1>5, <1>6, <1>7 DEF Life!Next

\* Every step of an orchestrator, of a per-host task, of the sweeper and of a
\* cancel is one of RunLife, or none.
LEMMA LifeStep ==
  TypeOK /\ RowsInOrder /\ Life!RowsFollowRun /\ [Next]_vars
    => [Life!Next]_life
<1> SUFFICES ASSUME TypeOK, RowsInOrder, Life!RowsFollowRun, [Next]_vars
             PROVE  [Life!Next]_life
  OBVIOUS
<1> USE DEF runVars, orchVars, rowVars
<1>1. ASSUME UNCHANGED <<runSt, rowSt>> PROVE [Life!Next]_life
  BY <1>1, LifeKept
<1>2. ASSUME FinaliseRun, UNCHANGED rowSt PROVE [Life!Next]_life
  BY <1>1, <1>2, LifeJustEnds DEF FinaliseRun
<1>3. ASSUME NEW o \in Orch, Start(o) PROVE [Life!Next]_life
  <2>1. CASE runSt # "queued"
    BY <1>1, <1>3, <2>1 DEF Start
  <2>2. CASE runSt = "queued"
    <3>1. runSt' = "running" /\ rowSt' = [w \in Row |-> "queued"]
      BY <1>3, <2>2 DEF Start
    <3>2. runLife[1] = "queued" /\ runLife' = [runLife EXCEPT ![1] = "open"]
      BY <2>2, <3>1 DEF runLife, RunLifeOf
    <3>3. \A w \in Life!Rows(1) : rowLife[w] = "none"
      BY <2>2 DEF RowsInOrder, Life!Rows, rowLife, RowLifeOf
    <3>4. rowLife' = Life!Moved(Life!Rows(1), "waiting")
      BY <3>1 DEF Life!Moved, Life!Rows, rowLife, RowLifeOf
    <3>5. Life!Open(1)
      BY <3>2, <3>3, <3>4 DEF Life!Open
    <3>6. QED
      BY <3>5 DEF Life!Next
  <2>3. QED
    BY <2>1, <2>2
<1>4. ASSUME NEW o \in Orch,
             Resume(o) \/ Stop(o) \/ Ready(o) \/ Send(o) \/ Wait(o) \/ GiveUp(o)
      PROVE  [Life!Next]_life
  BY <1>1, <1>4 DEF Resume, Stop, Ready, Send, Wait, GiveUp
<1>5. ASSUME NEW o \in Orch, LetGo(o) \/ TakeOver(o) \/ OrchDies(o)
      PROVE  [Life!Next]_life
  BY <1>1, <1>5 DEF LetGo, TakeOver, OrchDies
<1>6. ASSUME NEW o \in Orch, Close(o) PROVE [Life!Next]_life
  BY <1>2, <1>6 DEF Close
<1>7. ASSUME NEW o \in Orch, MarkCancelled(o) PROVE [Life!Next]_life
  BY <1>1, <1>7, LifeCancels DEF MarkCancelled
<1>8. ASSUME NEW o \in Orch, MarkFailed(o) PROVE [Life!Next]_life
  BY <1>8, LifeJustEnds DEF MarkFailed
<1>9. ASSUME NEW o \in Orch, SoftLimit(o) PROVE [Life!Next]_life
  <2>1. CASE runSt = "cancelled"
    <3>1. \A w \in Row : rowSt[w] # "queued"
      BY <2>1 DEF Life!RowsFollowRun, runLife, rowLife, RunLifeOf, RowLifeOf
    <3>2. runSt' = runSt /\ \A w \in Row : rowSt'[w] = rowSt[w]
      BY <1>9, <2>1, <3>1 DEF SoftLimit, CancelRows
    <3>3. QED
      BY <3>2, LifeKept
  <2>2. CASE runSt # "cancelled"
    <3> DEFINE S == { w \in Row : rowSt[w] = "queued" }
    <3>1. /\ S \in SUBSET Row
          /\ runSt' = "failed"
          /\ \A w \in S : rowSt[w] \in {"queued", "pending"}
          /\ \A w \in S : rowSt'[w] = "cancelled"
          /\ \A w \in Row \ S : rowSt'[w] = rowSt[w]
      BY <1>9, <2>2 DEF SoftLimit, CancelRows
    <3> HIDE DEF S
    <3>2. QED
      BY <3>1, LifeEnds
  <2>3. QED
    BY <2>1, <2>2
<1>10. CASE SweepDone
  BY <1>2, <1>10 DEF SweepDone
<1>11. CASE SweepDeadline
  <2> DEFINE S == { w \in Row : rowSt[w] \in {"queued", "pending"} }
  <2>1. /\ S \in SUBSET Row
        /\ runSt' = "failed"
        /\ \A w \in S : rowSt[w] \in {"queued", "pending"}
        /\ \A w \in S : rowSt'[w] = "cancelled"
        /\ \A w \in Row \ S : rowSt'[w] = rowSt[w]
    BY <1>11 DEF SweepDeadline, CancelRows
  <2> HIDE DEF S
  <2>2. QED
    BY <2>1, LifeEnds
<1>12. CASE GoesStale \/ RequestCancel
  BY <1>1, <1>12 DEF GoesStale, RequestCancel
<1>13. CASE CommitCancel
  BY <1>13, LifeCancels DEF CommitCancel
<1>14. ASSUME NEW w \in Row, StartRow(w) PROVE [Life!Next]_life
  <2>1. CASE UNCHANGED rowSt
    BY <1>1, <1>14, <2>1 DEF StartRow
  <2>2. CASE rowSt[w] = "queued" /\ rowSt' = [rowSt EXCEPT ![w] = "pending"]
    <3>1. \A v \in Row : RowLifeOf(rowSt'[v]) = RowLifeOf(rowSt[v])
      BY <2>2 DEF RowLifeOf, TypeOK
    <3>2. QED
      BY <1>14, <3>1, LifeKept DEF StartRow
  <2>3. ASSUME NEW to \in {"running", "cancelled"}, rowSt[w] = "queued",
               rowSt' = [rowSt EXCEPT ![w] = to]
        PROVE  [Life!Next]_life
    BY <1>14, <2>3, LifeOfOneRow DEF StartRow, RowStatus
  <2>4. QED
    BY <1>14, <2>1, <2>2, <2>3 DEF StartRow, Claimable
<1>15. ASSUME NEW w \in Row, Wake(w) PROVE [Life!Next]_life
  <2>1. \A v \in Row : RowLifeOf(rowSt'[v]) = RowLifeOf(rowSt[v])
    BY <1>15 DEF Wake, RowLifeOf, TypeOK
  <2>2. QED
    BY <1>15, <2>1, LifeKept DEF Wake
<1>16. ASSUME NEW w \in Row, FinishRow(w) \/ SweepRow(w)
       PROVE  [Life!Next]_life
  BY <1>16, LifeOfOneRow DEF FinishRow, SweepRow, RowsInOrder, RowStatus
<1>17. ASSUME NEW w \in Row, CloseParent(w) PROVE [Life!Next]_life
  BY <1>2, <1>17 DEF CloseParent
<1>18. ASSUME NEW w \in Row, WorkerDies(w) PROVE [Life!Next]_life
  BY <1>1, <1>18 DEF WorkerDies
<1>19. CASE UNCHANGED vars
  BY <1>1, <1>19 DEF vars
<1>20. QED
  BY <1>3, <1>4, <1>5, <1>6, <1>7, <1>8, <1>9, <1>10, <1>11, <1>12, <1>13,
     <1>14, <1>15, <1>16, <1>17, <1>18, <1>19
  DEF Next, OrchStep, RowStep, Sweep

\* THEOREM: the run refines RunLife, for any number of hosts and orchestrators,
\* any parallelism and whatever happens: its rows are created once, by the first
\* orchestrator, each starts at most once and none in a cancelled run, and the
\* run does not open again for an orchestrator that takes it over or comes late.
THEOREM RunLivesOnce == Spec => ImplementsRunLife
<1>1. Init => Life!Init /\ RowsInOrder /\ Life!RowsFollowRun
  <2> SUFFICES ASSUME Init
               PROVE  Life!Init /\ RowsInOrder /\ Life!RowsFollowRun
    OBVIOUS
  <2>1. /\ runLife = [r \in {1} |-> "queued"]
        /\ rowLife = [w \in Row |-> "none"]
    BY DEF Init, runLife, rowLife, RunLifeOf, RowLifeOf
  <2>2. QED
    BY <2>1 DEF Init, Life!Init, RowsInOrder, Life!RowsFollowRun
<1>2. [Life!Next]_life => [Life!Next]_<<runLife, rowLife>>
  BY DEF life
<1>3. QED
  BY <1>1, <1>2, TypeCorrect, RowsInOrderStep, LifeStep, FollowStep, PTL
     DEF Spec, ImplementsRunLife, Life!Spec

(***************************************************************************)
(* Batches and parallelism                                                 *)
(***************************************************************************)

\* A set of natural numbers that is not empty has a least element.
LEMMA Least ==
  ASSUME NEW S \in SUBSET Nat, S # {}
  PROVE  \E x \in S : \A y \in S : x <= y
<1>1. IsWellFoundedOn(OpToRel(<, Nat), Nat)
  BY NatLessThanWellFounded
<1>2. PICK x \in S : \A y \in S : ~(<<y, x>> \in OpToRel(<, Nat))
  BY <1>1, WFMin
<1>3. \A y \in S : ~(y < x)
  BY <1>2 DEF OpToRel
<1>4. QED
  BY <1>3

LEMMA RowsAreFinite ==
  ASSUME NEW S \in SUBSET Row
  PROVE  IsFiniteSet(S) /\ Cardinality(S) \in Nat /\ S \subseteq Nat
<1>1. IsFiniteSet(Row)
  BY OrchestratorAssumption, FS_Interval DEF Row
<1>2. Row \subseteq Nat
  BY OrchestratorAssumption DEF Row
<1>3. QED
  BY <1>1, <1>2, FS_Subset, FS_CardinalityType

\* A set of rows that is not empty has a last one.
LEMMA LastRow ==
  ASSUME NEW S \in SUBSET Row, S # {}
  PROVE  \E x \in S : \A y \in S : y <= x
<1> DEFINE Above == { k \in Nat : \A y \in S : y <= k }
<1>1. N \in Above
  BY OrchestratorAssumption DEF Row
<1>2. PICK k \in Above : \A j \in Above : k <= j
  <2>1. Above \in SUBSET Nat /\ Above # {}
    BY <1>1
  <2>2. QED
    BY <2>1, Least
<1>3. CASE k \in S
  BY <1>3
<1>4. CASE k \notin S
  <2>1. \A y \in S : y \in Nat /\ 1 <= y /\ y <= k - 1
    BY <1>4, OrchestratorAssumption DEF Row
  <2>2. k - 1 \in Above
    BY <2>1
  <2>3. QED
    BY <1>2, <2>2
<1>5. QED
  BY <1>3, <1>4

\* Take(S, n) has at most n elements, none of them above one it leaves out.
LEMMA TakeBound ==
  ASSUME NEW S \in SUBSET Row, NEW n \in Nat
  PROVE  Cardinality(Take(S, n)) <= n
<1>1. CASE Take(S, n) = {}
  BY <1>1, FS_EmptySet
<1>2. CASE Take(S, n) # {}
  <2> DEFINE Below(w) == { v \in S : v < w }
  <2>1. PICK m \in Take(S, n) : \A y \in Take(S, n) : y <= m
    BY <1>2, LastRow DEF Take
  <2>2. m \in S /\ Cardinality(Below(m)) < n
    BY <2>1 DEF Take
  <2>3. IsFiniteSet(Below(m)) /\ Cardinality(Below(m)) \in Nat
    BY RowsAreFinite
  <2> HIDE DEF Below
  <2>4. Take(S, n) \subseteq Below(m) \cup {m}
    <3>1. S \subseteq Nat
      BY RowsAreFinite
    <3>2. \A y \in Take(S, n) : y \in S /\ (y < m \/ y = m)
      BY <2>1, <2>2, <3>1 DEF Take
    <3>3. QED
      BY <3>2 DEF Below
  <2>5. /\ IsFiniteSet(Below(m) \cup {m})
        /\ Cardinality(Below(m) \cup {m}) <= Cardinality(Below(m)) + 1
        /\ Cardinality(Below(m) \cup {m}) \in Nat
    BY <2>3, FS_AddElement
  <2>6. Cardinality(Take(S, n)) <= Cardinality(Below(m)) + 1
    <3>1. Cardinality(Take(S, n)) <= Cardinality(Below(m) \cup {m})
      BY <2>4, <2>5, FS_Subset
    <3>2. Cardinality(Take(S, n)) \in Nat
      BY RowsAreFinite DEF Take
    <3>3. QED
      BY <2>3, <2>5, <3>1, <3>2
  <2>7. Cardinality(Take(S, n)) \in Nat
    BY RowsAreFinite DEF Take
  <2>8. QED
    BY <2>2, <2>3, <2>6, <2>7
<1>3. QED
  BY <1>1, <1>2

LEMMA TakeFirst ==
  ASSUME NEW S \in SUBSET Row, NEW n \in Nat,
         NEW v \in Take(S, n), NEW w \in S, w < v
  PROVE  w \in Take(S, n)
<1> DEFINE Below(x) == { y \in S : y < x }
<1>1. v \in S /\ Cardinality(Below(v)) < n
  BY DEF Take
<1>2. Below(w) \subseteq Below(v)
  <2>1. S \subseteq Nat
    BY RowsAreFinite
  <2>2. \A y \in S : y < w => y < v
    BY <1>1, <2>1
  <2>3. QED
    BY <2>2
<1>3. IsFiniteSet(Below(v)) /\ Cardinality(Below(v)) \in Nat
  BY RowsAreFinite
<1>4. Cardinality(Below(w)) <= Cardinality(Below(v))
  BY <1>2, <1>3, FS_Subset
<1>5. Cardinality(Below(w)) \in Nat
  BY RowsAreFinite
<1>6. Cardinality(Below(w)) < n
  BY <1>1, <1>3, <1>4, <1>5
<1>7. QED
  BY <1>6 DEF Take

\* The first row that an orchestrator has to send is the one it sends.
LEMMA TakeOne ==
  ASSUME NEW S \in SUBSET Row, NEW w \in Take(S, 1)
  PROVE  w \in S /\ \A v \in S : w <= v
<1>1. w \in S /\ Cardinality({ v \in S : v < w }) < 1
  BY DEF Take
<1>2. IsFiniteSet({ v \in S : v < w })
      /\ Cardinality({ v \in S : v < w }) \in Nat
  BY RowsAreFinite
<1>3. { v \in S : v < w } = {}
  BY <1>1, <1>2, FS_EmptySet
<1>4. QED
  BY <1>1, <1>3, OrchestratorAssumption DEF Row

\* The rows that never found their host busy.
Fresh == Row \ deferred

\* A fresh row runs, or will without another batch: its task is in the broker,
\* or an orchestrator - a superseded one too - is about to send it.
Sendable(w) == rowMsg[w] > 0 \/ \E o \in Orch : w \in toSend[o]
Launched ==
  { w \in Fresh : \/ rowSt[w] = "running"
                  \/ rowSt[w] = "queued" /\ Sendable(w) }

\* Rows are sent in the order of their ids, by one orchestrator and by all of
\* them together.
SentInOrder ==
  \A v, w \in Fresh : v < w /\ rowSt[v] = "queued" =>
    /\ rowSt[w] = "running" \/ (rowSt[w] = "queued" /\ rowMsg[w] > 0) =>
         rowMsg[v] > 0
    /\ \A o \in Orch : w \in toSend[o] /\ rowSt[w] = "queued" =>
         v \in toSend[o] \/ rowMsg[v] > 0

\* The owner knows every fresh row that is queued or runs, as one of its batch
\* or of those to come.
OwnerSees ==
  runSt = "running" /\ owner \in Orch
                    /\ phase[owner] \in {"ready", "sending", "waiting"} =>
    /\ \A w \in Fresh : rowSt[w] \in {"queued", "running"} =>
         w \in batch[owner] \cup todo[owner]
    /\ phase[owner] = "ready" =>
         \A w \in batch[owner] \cap Fresh : rowSt[w] # "queued"

\* A row that waits has been deferred; nothing is sent before the run starts.
WaitsDeferred ==
  /\ \A w \in Row : rowSt[w] = "pending" => w \in deferred
  /\ runSt = "queued" => /\ \A w \in Row : rowMsg[w] = 0
                         /\ \A o \in Orch : toSend[o] = {}

\* What every step does to the fresh rows, but for the one that starts the run
\* and those that begin a batch.
FreshFrame ==
  /\ deferred \subseteq deferred'
  /\ \A w \in Row \ deferred' : rowSt'[w] = "queued" =>
       rowSt[w] = "queued" /\ (rowMsg[w] > 0 => rowMsg'[w] > 0)
  /\ \A w \in Row \ deferred' : rowSt'[w] = "running" =>
       rowSt[w] = "running" \/ (rowSt[w] = "queued" /\ rowMsg[w] > 0)
  /\ \A w \in Row \ deferred' : rowSt'[w] = "queued" /\ rowMsg'[w] > 0 =>
       \/ rowMsg[w] > 0
       \/ \E o \in Orch : w \in toSend[o] /\ \A v \in toSend[o] : w <= v
  /\ \A o \in Orch : /\ toSend'[o] \subseteq toSend[o]
                     /\ \/ toSend'[o] = {}
                        \/ \A v \in toSend[o] \ toSend'[o] : rowMsg'[v] > 0

LEMMA FreshFrameStep ==
  TypeOK /\ WaitsDeferred /\ [Next]_vars =>
    \/ FreshFrame
    \/ \E o \in Orch : Ready(o) \/ (Start(o) /\ runSt = "queued")
<1> SUFFICES ASSUME TypeOK, WaitsDeferred, [Next]_vars,
                    ~\E o \in Orch :
                       Ready(o) \/ (Start(o) /\ runSt = "queued")
             PROVE  FreshFrame
  OBVIOUS
<1> USE DEF TypeOK, FreshFrame, WaitsDeferred, RowStatus, runVars, orchVars,
            rowVars
<1>1. ASSUME NEW o \in Orch, Start(o) PROVE FreshFrame
  BY <1>1 DEF Start, Goto
<1>2. ASSUME NEW o \in Orch, Resume(o) PROVE FreshFrame
  BY <1>2 DEF Resume, Goto
<1>3. ASSUME NEW o \in Orch, Stop(o) PROVE FreshFrame
  BY <1>3 DEF Stop, Goto, CheckIn, Forget
<1>4. ASSUME NEW o \in Orch, Ready(o) PROVE FreshFrame
  BY <1>4
<1>5. ASSUME NEW o \in Orch, Send(o) PROVE FreshFrame
  <2>1. PICK w \in Take(toSend[o], 1) :
          /\ rowMsg' = [rowMsg EXCEPT ![w] = @ + 1]
          /\ toSend' = [toSend EXCEPT ![o] = @ \ {w}]
    BY <1>5 DEF Send
  <2>2. w \in Row /\ w \in toSend[o] /\ \A v \in toSend[o] : w <= v
    BY TakeOne
  <2>3. UNCHANGED <<rowSt, deferred>>
    BY <1>5 DEF Send
  <2>4. \A v \in Row \ {w} : rowMsg'[v] = rowMsg[v]
    BY <2>1
  <2>5. rowMsg'[w] > 0
    BY <2>1, <2>2
  <2>6. /\ toSend'[o] = toSend[o] \ {w}
        /\ \A q \in Orch \ {o} : toSend'[q] = toSend[q]
    BY <2>1
  <2>7. QED
    BY <2>2, <2>3, <2>4, <2>5, <2>6
<1>6. ASSUME NEW o \in Orch, Wait(o) PROVE FreshFrame
  BY <1>6 DEF Wait, CheckIn, LeaveBatch, Goto
<1>7. ASSUME NEW o \in Orch, GiveUp(o) PROVE FreshFrame
  BY <1>7 DEF GiveUp, CheckIn, LeaveBatch, Goto
<1>8. ASSUME NEW o \in Orch, Close(o) PROVE FreshFrame
  BY <1>8 DEF Close, Goto, FinaliseRun
<1>9. ASSUME NEW o \in Orch, MarkCancelled(o) PROVE FreshFrame
  BY <1>9 DEF MarkCancelled, Goto, CancelRows
<1>10. ASSUME NEW o \in Orch, MarkFailed(o) PROVE FreshFrame
  BY <1>10 DEF MarkFailed, Goto, Forget
<1>11. ASSUME NEW o \in Orch, SoftLimit(o) PROVE FreshFrame
  BY <1>11 DEF SoftLimit, Goto, Forget, CancelRows
<1>12. ASSUME NEW o \in Orch, LetGo(o) PROVE FreshFrame
  BY <1>12 DEF LetGo, Goto
<1>13. ASSUME NEW o \in Orch, TakeOver(o) PROVE FreshFrame
  BY <1>13 DEF TakeOver, Goto, Spare
<1>14. ASSUME NEW o \in Orch, OrchDies(o) PROVE FreshFrame
  BY <1>14 DEF OrchDies, Goto, Forget
<1>15. ASSUME NEW w \in Row, StartRow(w) PROVE FreshFrame
  BY <1>15 DEF StartRow, Receive, Claimable
<1>16. ASSUME NEW w \in Row, Wake(w) PROVE FreshFrame
  BY <1>16 DEF Wake
<1>17. ASSUME NEW w \in Row, FinishRow(w) PROVE FreshFrame
  BY <1>17 DEF FinishRow
<1>18. ASSUME NEW w \in Row, CloseParent(w) PROVE FreshFrame
  BY <1>18 DEF CloseParent, FinaliseRun
<1>19. ASSUME NEW w \in Row, SweepRow(w) PROVE FreshFrame
  BY <1>19 DEF SweepRow
<1>20. ASSUME NEW w \in Row, WorkerDies(w) PROVE FreshFrame
  BY <1>20 DEF WorkerDies
<1>21. CASE SweepDone
  BY <1>21 DEF SweepDone, FinaliseRun
<1>22. CASE SweepDeadline
  BY <1>22 DEF SweepDeadline, CancelRows
<1>23. CASE GoesStale
  BY <1>23 DEF GoesStale
<1>24. CASE RequestCancel
  BY <1>24 DEF RequestCancel
<1>25. CASE CommitCancel
  BY <1>25 DEF CommitCancel, CancelRows
<1>26. CASE UNCHANGED vars
  BY <1>26 DEF vars
<1>27. QED
  BY <1>1, <1>2, <1>3, <1>4, <1>5, <1>6, <1>7, <1>8, <1>9, <1>10, <1>11,
     <1>12, <1>13, <1>14, <1>15, <1>16, <1>17, <1>18, <1>19, <1>20, <1>21,
     <1>22, <1>23, <1>24, <1>25, <1>26
  DEF Next, OrchStep, RowStep, Sweep

\* A step that frames the fresh rows launches none, and keeps their order.
LEMMA FrameKeepsOrder ==
  ASSUME TypeOK, SentInOrder, FreshFrame
  PROVE  /\ Launched' \subseteq Launched
         /\ SentInOrder'
<1>1. ASSUME NEW w \in Launched' PROVE w \in Launched
  <2>1. w \in Row \ deferred' /\ w \in Fresh
    BY <1>1 DEF Launched, Fresh, FreshFrame
  <2>2. CASE rowSt'[w] = "running"
    BY <2>1, <2>2 DEF Launched, Sendable, FreshFrame
  <2>3. CASE rowSt'[w] = "queued" /\ rowMsg'[w] > 0
    BY <2>1, <2>3 DEF Launched, Sendable, FreshFrame
  <2>4. CASE rowSt'[w] = "queued" /\ \E o \in Orch : w \in toSend'[o]
    BY <2>1, <2>4 DEF Launched, Sendable, FreshFrame
  <2>5. QED
    BY <1>1, <2>2, <2>3, <2>4 DEF Launched, Sendable
<1>2. ASSUME NEW v \in Fresh', NEW w \in Fresh', v < w, rowSt'[v] = "queued"
      PROVE  /\ (\/ rowSt'[w] = "running"
                 \/ rowSt'[w] = "queued" /\ rowMsg'[w] > 0)
                  => rowMsg'[v] > 0
             /\ \A o \in Orch : w \in toSend'[o] /\ rowSt'[w] = "queued" =>
                  v \in toSend'[o] \/ rowMsg'[v] > 0
  <2>1. /\ v \in Row \ deferred' /\ v \in Fresh
        /\ w \in Row \ deferred' /\ w \in Fresh
    BY DEF Fresh, FreshFrame
  <2>2. rowSt[v] = "queued" /\ (rowMsg[v] > 0 => rowMsg'[v] > 0)
    BY <1>2, <2>1 DEF FreshFrame
  <2>3. CASE rowSt'[w] = "running"
    BY <1>2, <2>1, <2>2, <2>3 DEF FreshFrame, SentInOrder
  <2>4. CASE rowSt'[w] = "queued" /\ rowMsg'[w] > 0
    <3>1. CASE rowMsg[w] > 0
      BY <1>2, <2>1, <2>2, <2>4, <3>1 DEF FreshFrame, SentInOrder
    <3>2. CASE rowMsg[w] <= 0
      <4>1. PICK o \in Orch : w \in toSend[o] /\ \A u \in toSend[o] : w <= u
        BY <2>1, <2>4, <3>2, SMT DEF FreshFrame, TypeOK
      <4>2. v \notin toSend[o]
        BY <1>2, <2>1, <4>1, OrchestratorAssumption DEF Row
      <4>3. rowSt[w] = "queued"
        BY <2>1, <2>4 DEF FreshFrame
      <4>4. rowMsg[v] > 0
        BY <1>2, <2>1, <2>2, <4>1, <4>2, <4>3 DEF SentInOrder
      <4>5. QED
        BY <2>2, <2>4, <4>4
    <3>3. QED
      BY <3>1, <3>2, <2>1 DEF TypeOK
  <2>5. ASSUME NEW o \in Orch, w \in toSend'[o], rowSt'[w] = "queued"
        PROVE  v \in toSend'[o] \/ rowMsg'[v] > 0
    <3>1. w \in toSend[o] /\ rowSt[w] = "queued"
      BY <2>1, <2>5 DEF FreshFrame
    <3>2. v \in toSend[o] \/ rowMsg[v] > 0
      BY <1>2, <2>1, <2>2, <3>1 DEF SentInOrder
    <3>3. QED
      BY <2>2, <2>5, <3>2 DEF FreshFrame
  <2>6. QED
    BY <2>3, <2>4, <2>5
<1>3. QED
  BY <1>1, <1>2 DEF SentInOrder

\* The first thing a run does is to make its rows: none is launched.
LEMMA StartKeepsOrder ==
  ASSUME TypeOK, WaitsDeferred, runSt = "queued", NEW o \in Orch, Start(o)
  PROVE  Launched' = {} /\ SentInOrder'
<1>1. /\ UNCHANGED <<rowMsg, toSend>>
      /\ \A w \in Row : rowMsg[w] = 0
      /\ \A q \in Orch : toSend[q] = {}
      /\ rowSt' = [w \in Row |-> "queued"]
  BY DEF Start, WaitsDeferred
<1>2. QED
  BY <1>1 DEF Launched, SentInOrder, Sendable, Fresh

\* A new batch goes on where those before it ended: as long as a row of it is
\* new, it holds all that is launched.
LEMMA ReadyKeepsOrder ==
  ASSUME TypeOK, SentInOrder, OwnerSees, Phases, Parallelism > 0,
         NEW o \in Orch, Ready(o)
  PROVE  /\ SentInOrder'
         /\ \/ Launched' \subseteq Launched
            \/ /\ Launched' \subseteq NextBatch(o)
               /\ Cardinality(NextBatch(o)) <= Parallelism
<1> DEFINE b == batch[o]
           t == todo[o]
           room == IF Cardinality(b) < Parallelism
                   THEN Parallelism - Cardinality(b) ELSE 0
           T == Take(t, room)
<1>1. /\ b \in SUBSET Row /\ t \in SUBSET Row
      /\ IsFiniteSet(b) /\ Cardinality(b) \in Nat
      /\ Parallelism \in Nat /\ room \in Nat
  BY RowsAreFinite, OrchestratorAssumption DEF TypeOK
<1>2. NextBatch(o) = b \cup T
  BY OrchestratorAssumption DEF NextBatch
<1>3. /\ UNCHANGED <<rowSt, rowMsg, deferred>>
      /\ toSend' = [toSend EXCEPT ![o] = (b \cup T) \ b]
  BY <1>2 DEF Ready, rowVars
<1>4. runSt = "running" /\ owner = o /\ phase[o] = "ready" /\ toSend[o] = {}
  BY DEF Ready, Go, Phases
<1>5. /\ \A w \in Fresh : rowSt[w] \in {"queued", "running"} => w \in b \cup t
      /\ \A w \in b \cap Fresh : rowSt[w] # "queued"
  BY <1>4 DEF OwnerSees
<1>6. /\ T \in SUBSET t
      /\ \A v \in T, w \in t : w < v => w \in T
  BY <1>1, TakeFirst DEF Take
<1>7. /\ toSend'[o] = T \ b
      /\ \A q \in Orch \ {o} : toSend'[q] = toSend[q]
  BY <1>3 DEF TypeOK
<1> HIDE DEF b, t, room, T
<1>8. ASSUME NEW v \in Fresh', NEW w \in Fresh', v < w, rowSt'[v] = "queued"
      PROVE  /\ (\/ rowSt'[w] = "running"
                 \/ rowSt'[w] = "queued" /\ rowMsg'[w] > 0)
                  => rowMsg'[v] > 0
             /\ \A q \in Orch : w \in toSend'[q] /\ rowSt'[w] = "queued" =>
                  v \in toSend'[q] \/ rowMsg'[v] > 0
  <2>1. v \in Fresh /\ w \in Fresh /\ rowSt[v] = "queued"
    BY <1>3, <1>8 DEF Fresh
  <2>2. rowSt'[w] = "running" \/ (rowSt'[w] = "queued" /\ rowMsg'[w] > 0)
          => rowMsg'[v] > 0
    BY <1>3, <1>8, <2>1 DEF SentInOrder
  <2>3. ASSUME NEW q \in Orch \ {o}, w \in toSend'[q], rowSt'[w] = "queued"
        PROVE  v \in toSend'[q] \/ rowMsg'[v] > 0
    BY <1>3, <1>7, <1>8, <2>1, <2>3 DEF SentInOrder
  <2>4. w \in toSend'[o] => v \in toSend'[o]
    BY <1>5, <1>6, <1>7, <1>8, <2>1
  <2>5. QED
    BY <2>2, <2>3, <2>4
<1>9. SentInOrder'
  BY <1>8 DEF SentInOrder
<1>10. ASSUME NEW w \in Launched', w \notin Launched
       PROVE  w \in T /\ w \in Fresh /\ rowSt[w] = "queued" /\ ~Sendable(w)
  BY <1>3, <1>7, <1>10 DEF Launched, Sendable, Fresh
<1>11. ASSUME NEW v \in Launched', v \notin Launched, NEW a \in Launched
       PROVE  a \in b \cup T
  <2>1. v \in T /\ v \in Fresh /\ rowSt[v] = "queued" /\ ~Sendable(v)
    BY <1>10, <1>11
  <2>2. a \in Fresh /\ a \in b \cup t
    BY <1>5 DEF Launched
  <2>3. ~(v < a)
    BY <2>1, <2>2 DEF SentInOrder, Launched, Sendable
  <2>4. a < v \/ a = v
    BY <2>1, <2>2, <2>3, OrchestratorAssumption DEF Fresh, Row
  <2>5. QED
    BY <1>6, <2>1, <2>2, <2>4
<1>12. CASE Launched' \subseteq Launched
  BY <1>9, <1>12
<1>13. CASE \E v \in Launched' : v \notin Launched
  <2>1. PICK v \in Launched' : v \notin Launched
    BY <1>13
  <2>2. Launched' \subseteq b \cup T
    BY <1>10, <1>11, <2>1
  <2>3. v \in T
    BY <1>10, <2>1
  <2>4. Cardinality(T) <= room
    BY <1>1, TakeBound DEF T
  <2>5. IsFiniteSet(T) /\ Cardinality(T) \in Nat
    BY <1>1, <1>6, RowsAreFinite
  <2>6. Cardinality(T) # 0
    BY <2>3, <2>5, FS_EmptySet
  <2>7. room = Parallelism - Cardinality(b)
    BY <1>1, <2>4, <2>5, <2>6 DEF room
  <2>8. Cardinality(b \cup T) <= Cardinality(b) + Cardinality(T)
    <3>1. /\ Cardinality(b \cup T) = Cardinality(b) + Cardinality(T)
                                     - Cardinality(b \cap T)
          /\ Cardinality(b \cap T) \in Nat
      BY <1>1, <2>5, FS_Union, FS_CardinalityType, FS_Intersection
    <3>2. QED
      BY <1>1, <2>5, <3>1
  <2>9. Cardinality(b \cup T) \in Nat
    BY <1>1, <1>6, RowsAreFinite
  <2>10. Cardinality(b \cup T) <= Parallelism
    BY <1>1, <2>4, <2>5, <2>7, <2>8, <2>9
  <2>11. QED
    BY <1>2, <1>9, <2>2, <2>10 DEF b, T, t
<1>14. QED
  BY <1>12, <1>13

LEMMA WaitsDeferredStep ==
  TypeOK /\ WaitsDeferred /\ [Next]_vars => WaitsDeferred'
<1> SUFFICES ASSUME TypeOK, WaitsDeferred, [Next]_vars PROVE WaitsDeferred'
  OBVIOUS
<1> USE DEF TypeOK, WaitsDeferred, RowStatus, runVars, orchVars, rowVars
<1>1. ASSUME NEW o \in Orch, Start(o) PROVE WaitsDeferred'
  BY <1>1 DEF Start, Goto
<1>2. ASSUME NEW o \in Orch, Resume(o) PROVE WaitsDeferred'
  BY <1>2 DEF Resume, Goto
<1>3. ASSUME NEW o \in Orch, Stop(o) PROVE WaitsDeferred'
  BY <1>3 DEF Stop, Goto, CheckIn, Forget
<1>4. ASSUME NEW o \in Orch, Ready(o) PROVE WaitsDeferred'
  <2>1. runSt = "running"
    BY <1>4 DEF Ready, Go
  <2>2. QED
    BY <1>4, <2>1 DEF Ready
<1>5. ASSUME NEW o \in Orch, Send(o) PROVE WaitsDeferred'
  <2>1. PICK w \in Take(toSend[o], 1) : w \in toSend[o]
    BY <1>5 DEF Send, Take
  <2>2. runSt # "queued"
    BY <2>1
  <2>3. QED
    BY <1>5, <2>2 DEF Send
<1>6. ASSUME NEW o \in Orch, Wait(o) PROVE WaitsDeferred'
  BY <1>6 DEF Wait, CheckIn, LeaveBatch, Goto
<1>7. ASSUME NEW o \in Orch, GiveUp(o) PROVE WaitsDeferred'
  BY <1>7 DEF GiveUp, CheckIn, LeaveBatch, Goto
<1>8. ASSUME NEW o \in Orch, Close(o) PROVE WaitsDeferred'
  BY <1>8 DEF Close, Goto, FinaliseRun
<1>9. ASSUME NEW o \in Orch, MarkCancelled(o) PROVE WaitsDeferred'
  BY <1>9 DEF MarkCancelled, Goto, CancelRows
<1>10. ASSUME NEW o \in Orch, MarkFailed(o) PROVE WaitsDeferred'
  BY <1>10 DEF MarkFailed, Goto, Forget
<1>11. ASSUME NEW o \in Orch, SoftLimit(o) PROVE WaitsDeferred'
  BY <1>11 DEF SoftLimit, Goto, Forget, CancelRows
<1>12. ASSUME NEW o \in Orch, LetGo(o) PROVE WaitsDeferred'
  BY <1>12 DEF LetGo, Goto
<1>13. ASSUME NEW o \in Orch, TakeOver(o) PROVE WaitsDeferred'
  BY <1>13 DEF TakeOver, Goto, Spare
<1>14. ASSUME NEW o \in Orch, OrchDies(o) PROVE WaitsDeferred'
  BY <1>14 DEF OrchDies, Goto, Forget
<1>15. ASSUME NEW w \in Row, StartRow(w) PROVE WaitsDeferred'
  BY <1>15 DEF StartRow, Receive, Claimable
<1>16. ASSUME NEW w \in Row, Wake(w) PROVE WaitsDeferred'
  BY <1>16 DEF Wake
<1>17. ASSUME NEW w \in Row, FinishRow(w) PROVE WaitsDeferred'
  BY <1>17 DEF FinishRow
<1>18. ASSUME NEW w \in Row, CloseParent(w) PROVE WaitsDeferred'
  BY <1>18 DEF CloseParent, FinaliseRun
<1>19. ASSUME NEW w \in Row, SweepRow(w) PROVE WaitsDeferred'
  BY <1>19 DEF SweepRow
<1>20. ASSUME NEW w \in Row, WorkerDies(w) PROVE WaitsDeferred'
  BY <1>20 DEF WorkerDies
<1>21. CASE SweepDone
  BY <1>21 DEF SweepDone, FinaliseRun
<1>22. CASE SweepDeadline
  BY <1>22 DEF SweepDeadline, CancelRows
<1>23. CASE GoesStale
  BY <1>23 DEF GoesStale
<1>24. CASE RequestCancel
  BY <1>24 DEF RequestCancel
<1>25. CASE CommitCancel
  BY <1>25 DEF CommitCancel, CancelRows
<1>26. CASE UNCHANGED vars
  BY <1>26 DEF vars
<1>27. QED
  BY <1>1, <1>2, <1>3, <1>4, <1>5, <1>6, <1>7, <1>8, <1>9, <1>10, <1>11,
     <1>12, <1>13, <1>14, <1>15, <1>16, <1>17, <1>18, <1>19, <1>20, <1>21,
     <1>22, <1>23, <1>24, <1>25, <1>26
  DEF Next, OrchStep, RowStep, Sweep

LEMMA OwnerSeesStep ==
  TypeOK /\ RowsInOrder /\ Phases /\ WaitsDeferred /\ OwnerSees
         /\ "slowBatch" \notin May /\ [Next]_vars
    => OwnerSees'
<1> SUFFICES ASSUME TypeOK, RowsInOrder, Phases, WaitsDeferred, OwnerSees,
                    "slowBatch" \notin May, [Next]_vars
             PROVE  OwnerSees'
  OBVIOUS
<1> USE OrchestratorAssumption
    DEF TypeOK, OwnerSees, Fresh, RowStatus, runVars, orchVars, rowVars
<1>1. ASSUME NEW o \in Orch, Start(o) PROVE OwnerSees'
  <2>1. CASE runSt = "queued"
    <3>1. /\ owner' = o /\ phase'[o] = "ready" /\ batch'[o] = {}
          /\ todo'[o] = Row
      BY <1>1, <2>1 DEF Start, Goto, Phases
    <3>2. QED
      BY <3>1
  <2>2. CASE runSt # "queued"
    BY <1>1, <2>2 DEF Start, Goto
  <2>3. QED
    BY <2>1, <2>2
<1>2. ASSUME NEW o \in Orch, Resume(o) PROVE OwnerSees'
  BY <1>2 DEF Resume, Goto, InFlight, Phases
<1>3. ASSUME NEW o \in Orch, Stop(o) PROVE OwnerSees'
  BY <1>3 DEF Stop, Goto, CheckIn, Forget
<1>4. ASSUME NEW o \in Orch, Ready(o) PROVE OwnerSees'
  <2>1. /\ UNCHANGED <<runSt, owner, rowSt, deferred>>
        /\ batch' = [batch EXCEPT ![o] = NextBatch(o)]
        /\ todo' = [todo EXCEPT ![o] = @ \ NextBatch(o)]
        /\ owner = o /\ runSt = "running" /\ phase[o] = "ready"
    BY <1>4 DEF Ready, Go
  <2>2. phase'[o] # "ready"
    BY <1>4 DEF Ready, Goto
  <2>3. batch[o] \subseteq NextBatch(o)
    BY DEF NextBatch
  <2>4. batch'[o] \cup todo'[o] = batch[o] \cup todo[o] \cup NextBatch(o)
    BY <2>1, <2>3
  <2>5. QED
    BY <2>1, <2>2, <2>4
<1>5. ASSUME NEW o \in Orch, Send(o) PROVE OwnerSees'
  BY <1>5 DEF Send, Goto
<1>6. ASSUME NEW o \in Orch, Wait(o) PROVE OwnerSees'
  BY <1>6 DEF Wait, CheckIn, LeaveBatch, Goto, InFlight
<1>7. ASSUME NEW o \in Orch, GiveUp(o) PROVE OwnerSees'
  BY <1>7 DEF GiveUp, CheckIn, LeaveBatch, Goto
<1>8. ASSUME NEW o \in Orch, Close(o) PROVE OwnerSees'
  BY <1>8 DEF Close, Goto, FinaliseRun
<1>9. ASSUME NEW o \in Orch, MarkCancelled(o) PROVE OwnerSees'
  BY <1>9 DEF MarkCancelled, Goto, CancelRows
<1>10. ASSUME NEW o \in Orch, MarkFailed(o) PROVE OwnerSees'
  BY <1>10 DEF MarkFailed, Goto, Forget
<1>11. ASSUME NEW o \in Orch, SoftLimit(o) PROVE OwnerSees'
  BY <1>11 DEF SoftLimit, Goto, Forget, CancelRows
<1>12. ASSUME NEW o \in Orch, LetGo(o) PROVE OwnerSees'
  BY <1>12 DEF LetGo, Goto
<1>13. ASSUME NEW o \in Orch, TakeOver(o) PROVE OwnerSees'
  BY <1>13 DEF TakeOver, Goto, Spare
<1>14. ASSUME NEW o \in Orch, OrchDies(o) PROVE OwnerSees'
  BY <1>14 DEF OrchDies, Goto, Forget
<1>15. ASSUME NEW w \in Row, StartRow(w) PROVE OwnerSees'
  BY <1>15 DEF StartRow, Receive, Claimable
<1>16. ASSUME NEW w \in Row, Wake(w) PROVE OwnerSees'
  BY <1>16 DEF Wake, WaitsDeferred
<1>17. ASSUME NEW w \in Row, FinishRow(w) PROVE OwnerSees'
  BY <1>17 DEF FinishRow
<1>18. ASSUME NEW w \in Row, CloseParent(w) PROVE OwnerSees'
  BY <1>18 DEF CloseParent, FinaliseRun
<1>19. ASSUME NEW w \in Row, SweepRow(w) PROVE OwnerSees'
  BY <1>19 DEF SweepRow
<1>20. ASSUME NEW w \in Row, WorkerDies(w) PROVE OwnerSees'
  BY <1>20 DEF WorkerDies
<1>21. CASE SweepDone
  BY <1>21 DEF SweepDone, FinaliseRun
<1>22. CASE SweepDeadline
  BY <1>22 DEF SweepDeadline, CancelRows
<1>23. CASE GoesStale
  BY <1>23 DEF GoesStale
<1>24. CASE RequestCancel
  BY <1>24 DEF RequestCancel
<1>25. CASE CommitCancel
  BY <1>25 DEF CommitCancel, CancelRows
<1>26. CASE UNCHANGED vars
  BY <1>26 DEF vars
<1>27. QED
  BY <1>1, <1>2, <1>3, <1>4, <1>5, <1>6, <1>7, <1>8, <1>9, <1>10, <1>11,
     <1>12, <1>13, <1>14, <1>15, <1>16, <1>17, <1>18, <1>19, <1>20, <1>21,
     <1>22, <1>23, <1>24, <1>25, <1>26
  DEF Next, OrchStep, RowStep, Sweep

\* The invariant of the batches: what is launched fits the parallelism.
Batched ==
  /\ Cardinality(Launched) <= Parallelism
  /\ SentInOrder
  /\ OwnerSees
  /\ WaitsDeferred

LEMMA BatchedStep ==
  ASSUME "slowBatch" \notin May, Parallelism > 0
  PROVE  IInv /\ Batched /\ [Next]_vars => Batched'
<1> SUFFICES ASSUME IInv, Batched, [Next]_vars PROVE Batched'
  OBVIOUS
<1>1. OwnerSees' /\ WaitsDeferred'
  BY OwnerSeesStep, WaitsDeferredStep DEF IInv, Batched
<1>2. TypeOK'
  BY TypeStep DEF IInv
<1>3. /\ Launched \in SUBSET Row /\ Launched' \in SUBSET Row
      /\ Cardinality(Launched) \in Nat /\ Cardinality(Launched') \in Nat
  BY RowsAreFinite DEF Launched, Fresh
<1>4. CASE Launched' \subseteq Launched /\ SentInOrder'
  <2>1. IsFiniteSet(Launched)
    BY <1>3, RowsAreFinite
  <2>2. Cardinality(Launched') <= Cardinality(Launched)
    BY <1>4, <2>1, FS_Subset
  <2>3. QED
    BY <1>1, <1>3, <1>4, <2>2, OrchestratorAssumption DEF Batched
<1>5. CASE FreshFrame
  BY <1>4, <1>5, FrameKeepsOrder DEF IInv, Batched
<1>6. ASSUME NEW o \in Orch, Start(o), runSt = "queued" PROVE Batched'
  BY <1>4, <1>6, StartKeepsOrder DEF IInv, Batched
<1>7. ASSUME NEW o \in Orch, Ready(o) PROVE Batched'
  <2>1. /\ SentInOrder'
        /\ \/ Launched' \subseteq Launched
           \/ /\ Launched' \subseteq NextBatch(o)
              /\ Cardinality(NextBatch(o)) <= Parallelism
    BY <1>7, ReadyKeepsOrder DEF IInv, Batched
  <2>2. CASE /\ Launched' \subseteq NextBatch(o)
             /\ Cardinality(NextBatch(o)) <= Parallelism
    <3>1. NextBatch(o) \in SUBSET Row
      BY NextBatchType DEF IInv
    <3>2. IsFiniteSet(NextBatch(o)) /\ Cardinality(NextBatch(o)) \in Nat
      BY <3>1, RowsAreFinite
    <3>3. Cardinality(Launched') <= Cardinality(NextBatch(o))
      BY <2>2, <3>2, FS_Subset
    <3>4. QED
      BY <1>1, <1>3, <2>1, <2>2, <3>2, <3>3, OrchestratorAssumption DEF Batched
  <2>3. QED
    BY <1>4, <2>1, <2>2
<1>8. QED
  BY <1>5, <1>6, <1>7, FreshFrameStep DEF IInv, Batched

\* THEOREM: as long as no orchestrator gives up waiting for a batch, no more
\* hosts run at once than the parallelism allows, whichever orchestrators die,
\* stall, are superseded and still send; but for the hosts that were deferred.
THEOREM ParallelismKept ==
  ASSUME "slowBatch" \notin May
  PROVE  Spec => []BatchesKeepParallelism
<1>1. CASE Parallelism > 0
  <2>1. Init => Batched
    <3> SUFFICES ASSUME Init PROVE Batched
      OBVIOUS
    <3>1. Launched = {}
      BY DEF Init, Launched, Fresh
    <3>2. Cardinality(Launched) <= Parallelism
      BY <1>1, <3>1, FS_EmptySet, OrchestratorAssumption
    <3>3. SentInOrder /\ WaitsDeferred
      BY DEF Init, SentInOrder, WaitsDeferred, Fresh
    <3>4. OwnerSees
      BY OrchestratorAssumption DEF Init, OwnerSees
    <3>5. QED
      BY <3>2, <3>3, <3>4 DEF Batched
  <2>2. Batched => BatchesKeepParallelism
    <3> SUFFICES ASSUME Batched PROVE BatchesKeepParallelism
      OBVIOUS
    <3> DEFINE Running == { w \in Row \ deferred : rowSt[w] = "running" }
    <3>1. Running \subseteq Launched /\ Launched \in SUBSET Row
      BY DEF Launched, Fresh
    <3>2. /\ IsFiniteSet(Launched) /\ Cardinality(Launched) \in Nat
          /\ Cardinality(Running) \in Nat
      BY <3>1, RowsAreFinite
    <3>3. Cardinality(Running) <= Cardinality(Launched)
      BY <3>1, <3>2, FS_Subset
    <3>4. QED
      BY <3>2, <3>3, OrchestratorAssumption DEF Batched, BatchesKeepParallelism
  <2>3. IInv /\ Batched /\ [Next]_vars => Batched'
    BY <1>1, BatchedStep
  <2>4. QED
    BY <2>1, <2>2, <2>3, Inductive, PTL DEF Spec
<1>2. CASE ~(Parallelism > 0)
  <2>1. BatchesKeepParallelism
    BY <1>2 DEF BatchesKeepParallelism
  <2>2. QED
    BY <2>1, PTL
<1>3. QED
  BY <1>1, <1>2
=============================================================================
