--------------------------- MODULE Envelope_proofs ---------------------------
(***************************************************************************)
(* Proofs about Envelope, for any set of members.                          *)
(*                                                                         *)
(* RunFrame ties each member's row and snapshot to the phase its task is   *)
(* in, and the run's status to its rows and to what closed it: with it,    *)
(* InUseIsKept is inductive whatever goes wrong.  WorkFrame adds how far   *)
(* the play got on each host and carries WayBackIsKept and SuccessIsEarned *)
(* as long as no play is stopped at its time limit: with "timesOut" they   *)
(* fail (cutshort).                                                        *)
(***************************************************************************)
EXTENDS Envelope, TLAPS

\* The row of a task at work is running, unless the task took too long, and
\* closed once only the run is left.
RowFollowsTask ==
  \A m \in Member :
    /\ hostRow[m].status = "queued" => stage[m] = "queued"
    /\ stage[m] \in Working \ {"close"}
       => \/ hostRow[m].status = "running"
          \/ hostRow[m].status = "failed" /\ "overdue" \in fate
    /\ stage[m] = "close"
       => hostRow[m].status \in {"succeeded", "failed", "skipped"}
    /\ hostRow[m].status = "cancelled" => stage[m] \in {"queued", "over"}
    /\ hostRow[m].status = "skipped" => stage[m] \in {"close", "over", "dead"}

\* Nothing of a group is queued, and its members are at work together or not.
GroupTogether ==
  plan.grouped =>
    /\ ~driven
    /\ \A m \in Member :
         /\ hostRow[m].status
              \in {"running", "succeeded", "failed", "skipped"}
         /\ stage[m] # "queued"
         /\ stage[m] \notin Working => \A n \in Member : stage[n] = stage[m]

\* A host is as it was, and has no snapshot, before its task takes one; rows
\* that are cancelled or skipped never get to that.
NotYetTouched ==
  \A m \in Member :
    \/ stage[m] \in {"queued", "snap"}
    \/ hostRow[m].status \in {"cancelled", "skipped"}
    => vm[m] = "before" /\ saved[m] = "none"

\* A run is cancelled by a cancel, and before it is, only the token cancels a
\* row of it.
CancelIsAsked ==
  /\ token # "no" => "cancel" \in fate
  /\ parent = "cancelled" => token = "done"
  /\ \A m \in Member :
       hostRow[m].status = "cancelled" /\ parent \in {"running", "succeeded"}
       => token # "no"

\* A run that succeeded has no row that is open or failed, ...
SuccessIsClosed ==
  parent = "succeeded" => \A m \in Member :
    hostRow[m].status \in {"succeeded", "skipped", "cancelled"}

\* ... nobody is at work for one that failed, unless it was closed over them ...
ClosedUnder ==
  parent \in {"failed", "partial"} => \A m \in Member :
    hostRow[m].status = "queued" \/ stage[m] \in Working \ {"close"}
    => "driver" \in fate \/ "overdue" \in fate

\* ... and the clean-up deletes snapshots of closed runs only.
CleansClosed == cleaner.pc = "deleting" => parent # "running"

RunFrame == /\ EnvelopeTypeOK /\ RowFollowsTask /\ GroupTogether
            /\ NotYetTouched /\ CancelIsAsked /\ SuccessIsClosed
            /\ ClosedUnder /\ CleansClosed /\ InUseIsKept

\* How far the play got, as the phases after it see it.
PlayFollowsTask ==
  \A m \in Member :
    /\ stage[m] \in {"verify", "tidy"} => vm[m] = "after"
    /\ stage[m] = "drop" => vm[m] = "before"
    /\ stage[m] \in {"undo", "drop"} => ~good[m]
    /\ stage[m] = "save" /\ good[m] => vm[m] = "after"

\* A row succeeds after its play, and nothing happens to the host then.
RowIsEarned ==
  \A m \in Member : hostRow[m].status = "succeeded"
    => vm[m] = "after" /\ stage[m] \in {"close", "over", "dead"}

\* Nobody deletes a snapshot before the play.
UntouchedUntilPlayed ==
  \A m \in Member :
    stage[m] \in {"queued", "snap", "name", "play"} => saved[m] # "deleted"

WorkFrame == /\ PlayFollowsTask /\ RowIsEarned /\ UntouchedUntilPlayed
             /\ WayBackIsKept

-----------------------------------------------------------------------------
(* Phases *)

LEMMA WorkingIs ==
  Working = {"snap", "name", "unsaved", "play", "verify", "undo", "drop",
             "tidy", "save", "close"}
BY DEF Working, Position

\* Where a group's task is with m is where it is with its whole Team.
LEMMA PlaceIs ==
  /\ \A s \in Working : Position[s] \in 1..8
  /\ \A s \in Working : Position[s] = 8 <=> s = "close"
  /\ \A s \in Working : Position[s] = 7 <=> s = "save"
  /\ \A s \in Working : Position[s] = 3 <=> s = "play"
  /\ \A s \in Working : Position[s] = 2 <=> s \in {"name", "unsaved"}
BY WorkingIs DEF Position

LEMMA AfterVerdictIs ==
  ASSUME NEW m \in Member, NEW ok
  PROVE  /\ AfterVerdict(m, ok) \in {"save", "tidy", "undo"}
         /\ AfterVerdict(m, ok) = "tidy" => ok
         /\ AfterVerdict(m, ok) = "undo" => ~ok
BY DEF AfterVerdict

LEMMA AfterPlayIs ==
  ASSUME NEW m \in Member, NEW ok
  PROVE  /\ AfterPlay(m, ok) \in {"save", "tidy", "undo", "verify"}
         /\ AfterPlay(m, ok) \in {"tidy", "verify"} => ok
         /\ AfterPlay(m, ok) = "undo" => ~ok
BY AfterVerdictIs DEF AfterPlay

\* A run succeeds when none of its rows is bad.
LEMMA SumIs ==
  ASSUME NEW rows
  PROVE  /\ Sum(rows) \in {"succeeded", "failed", "partial"}
         /\ Sum(rows) = "succeeded"
            => \A m \in Member : rows[m].status # "failed"
         /\ GroupSum(rows) \in {"succeeded", "failed", "partial"}
         /\ GroupSum(rows) = "succeeded"
            => \A m \in Member : rows[m].status \notin {"failed", "skipped"}
BY DEF Sum, GroupSum, SumOver, Has

\* Closing a run cancels its queued rows, and leaves the other ones alone.
LEMMA QueuedIsCancelled ==
  ASSUME EnvelopeTypeOK, CancelQueued
  PROVE  \A m \in Member :
           hostRow'[m].status = IF hostRow[m].status = "queued"
                                  THEN "cancelled" ELSE hostRow[m].status
BY DEF EnvelopeTypeOK, CancelQueued

-----------------------------------------------------------------------------
(* Types *)

\* The state stays within its types.
LEMMA TypeStep == EnvelopeTypeOK /\ [EnvelopeNext]_envVars => EnvelopeTypeOK'
<1> SUFFICES ASSUME EnvelopeTypeOK, [EnvelopeNext]_envVars
             PROVE  EnvelopeTypeOK'
  OBVIOUS
<1> USE WorkingIs
    DEF EnvelopeTypeOK, Terminal, RowTerminal, parentVars, hostVars
<1>1. ASSUME NEW m \in Member, Begin(m) PROVE EnvelopeTypeOK'
  BY <1>1 DEF Begin, StageTo
<1>2. ASSUME NEW m \in Member, CancelledBeforeStart(m) PROVE EnvelopeTypeOK'
  BY <1>2 DEF CancelledBeforeStart, StageTo
<1>3. ASSUME NEW m \in Member, SkipHost(m) PROVE EnvelopeTypeOK'
  BY <1>3 DEF SkipHost, StageTo
<1>4. ASSUME NEW m \in Member, NotSnapshotted(m) PROVE EnvelopeTypeOK'
  <2>1. /\ saved' \in [Member -> {"none", "kept", "deleted", "reaped"}]
        /\ good' \in [Member -> BOOLEAN]
    BY <1>4 DEF NotSnapshotted
  <2>2. stage' \in [Member -> Working \cup {"queued", "dead", "over"}]
    <3>1. \/ stage' = [stage EXCEPT ![m] = "unsaved"]
          \/ stage' = [stage EXCEPT ![m] = "close"]
      BY <1>4, Zenon DEF NotSnapshotted, StageTo
    <3>2. stage \in [Member -> Working \cup {"queued", "dead", "over"}]
      OBVIOUS
    <3> HIDE DEF EnvelopeTypeOK
    <3> QED
      BY <3>1, <3>2
  <2>3. hostRow' \in [Member ->
          [status : {"queued", "running"} \cup RowTerminal, named : BOOLEAN]]
    BY <1>4 DEF NotSnapshotted
  <2> QED
    BY <1>4, <2>1, <2>2, <2>3 DEF NotSnapshotted
<1>5. ASSUME NEW m \in Member, TakeSnapshot(m) PROVE EnvelopeTypeOK'
  BY <1>5 DEF TakeSnapshot, At, StageTo
<1>6. ASSUME NEW m \in Member, NameSnapshot(m) PROVE EnvelopeTypeOK'
  <2>1. hostRow' \in [Member ->
          [status : {"queued", "running"} \cup RowTerminal, named : BOOLEAN]]
    <3>1. \A n \in Member :
            /\ hostRow[n] \in [status : {"queued", "running"} \cup RowTerminal,
                               named : BOOLEAN]
            /\ [hostRow[n] EXCEPT !.status = "failed"]
                 \in [status : {"queued", "running"} \cup RowTerminal,
                      named : BOOLEAN]
            /\ [hostRow[n] EXCEPT !.named = Snapshotted(n)]
                 \in [status : {"queued", "running"} \cup RowTerminal,
                      named : BOOLEAN]
      <4> TAKE n \in Member
      <4>1. Snapshotted(n) \in BOOLEAN
        BY DEF Snapshotted
      <4> QED
        BY <4>1
    <3> QED
      BY <1>6, <3>1, Zenon DEF NameSnapshot
  <2>2. stage' \in [Member -> Working \cup {"queued", "dead", "over"}]
    BY <1>6 DEF NameSnapshot
  <2> QED
    BY <1>6, <2>1, <2>2 DEF NameSnapshot
<1>7. ASSUME NEW m \in Member, RunPlay(m) PROVE EnvelopeTypeOK'
  <2>1. good' \in [Member -> BOOLEAN]
    <3>1. PICK end \in [Team(m) -> PlayEnds] :
            good' = [n \in Member |->
              IF n \in Team(m)
                THEN end[n] = "finished" \/ (plan.grouped /\ end[n] = "stopped")
                ELSE good[n]]
      BY <1>7, Zenon DEF RunPlay
    <3>2. \A n \in Member :
            (end[n] = "finished" \/ (plan.grouped /\ end[n] = "stopped"))
              \in BOOLEAN
      BY Zenon
    <3> QED
      BY <3>1, <3>2, Zenon
  <2>2. vm' \in [Member -> {"before", "part", "after"}]
    BY <1>7 DEF RunPlay
  <2>3. stage' \in [Member -> Working \cup {"queued", "dead", "over"}]
    BY <1>7, AfterPlayIs DEF RunPlay
  <2> QED
    BY <1>7, <2>1, <2>2, <2>3 DEF RunPlay
<1>8. ASSUME NEW m \in Member, Verify(m) PROVE EnvelopeTypeOK'
  BY <1>8, AfterVerdictIs DEF Verify, At, StageTo
<1>9. ASSUME NEW m \in Member, Undo(m) PROVE EnvelopeTypeOK'
  BY <1>9 DEF Undo, StageTo
<1>10. ASSUME NEW m \in Member, UndoFails(m) PROVE EnvelopeTypeOK'
  BY <1>10 DEF UndoFails, StageTo
<1>11. ASSUME NEW m \in Member, DeleteSnapshot(m) PROVE EnvelopeTypeOK'
  BY <1>11 DEF DeleteSnapshot, StageTo
<1>12. ASSUME NEW m \in Member, Persist(m) PROVE EnvelopeTypeOK'
  BY <1>12, SMTT(60) DEF Persist, Team, Forgets
<1>13. ASSUME NEW m \in Member, Finish(m) PROVE EnvelopeTypeOK'
  BY <1>13, SumIs DEF Finish, Team
<1>14. ASSUME NEW m \in Member, Raise(m) PROVE EnvelopeTypeOK'
  BY <1>14, SMTT(60) DEF Raise, BrokenOff, Forgets
<1>15. ASSUME NEW m \in Member, TaskDies(m) PROVE EnvelopeTypeOK'
  BY <1>15 DEF TaskDies, BrokenOff, Forgets
<1>16. ASSUME NEW m \in Member, SweepHostRow(m) PROVE EnvelopeTypeOK'
  BY <1>16 DEF SweepHostRow
<1>17. ASSUME NEW m \in Member, CleanDelete(m) PROVE EnvelopeTypeOK'
  BY <1>17 DEF CleanDelete
<1>18. ASSUME SumUpRun PROVE EnvelopeTypeOK'
  BY <1>18, SumIs DEF SumUpRun, RowsClosed
<1>19. ASSUME CancelAsked PROVE EnvelopeTypeOK'
  BY <1>19 DEF CancelAsked
<1>20. ASSUME CancelCommitted PROVE EnvelopeTypeOK'
  BY <1>20 DEF CancelCommitted, CancelQueued
<1>21. ASSUME DriverRaises PROVE EnvelopeTypeOK'
  BY <1>21 DEF DriverRaises
<1>22. ASSUME DriverTimesOut PROVE EnvelopeTypeOK'
  BY <1>22 DEF DriverTimesOut, CancelQueued
<1>23. ASSUME RunOverdue PROVE EnvelopeTypeOK'
  BY <1>23 DEF RunOverdue, CancelQueued
<1>24. ASSUME CleanRead PROVE EnvelopeTypeOK'
  BY <1>24 DEF CleanRead
<1>25. ASSUME CleanRuns PROVE EnvelopeTypeOK'
  BY <1>25 DEF CleanRuns
<1>26. ASSUME CleanEnd PROVE EnvelopeTypeOK'
  BY <1>26 DEF CleanEnd
<1>27. ASSUME UNCHANGED envVars PROVE EnvelopeTypeOK'
  BY <1>27 DEF envVars
<1> QED
BY <1>1, <1>2, <1>3, <1>4, <1>5, <1>6, <1>7, <1>8, <1>9, <1>10, <1>11, <1>12,
     <1>13, <1>14, <1>15, <1>16, <1>17, <1>18, <1>19, <1>20, <1>21, <1>22,
     <1>23, <1>24, <1>25, <1>26, <1>27
     DEF EnvelopeNext
-----------------------------------------------------------------------------
(* Rows, runs and the clean-up *)

\* A group's task gets to the end of a run with all members.
LEMMA GroupIsDone ==
  ASSUME EnvelopeTypeOK, GroupTogether, plan.grouped,
         NEW m \in Member, Finish(m)
  PROVE  \A n \in Member : stage[n] = "close"
<1> SUFFICES ASSUME NEW n \in Member PROVE stage[n] = "close"
  OBVIOUS
<1>1. stage[m] = "close" /\ Behind("close") = {}
  BY DEF Finish, At
<1>2. stage[n] \in Working
  BY <1>1, WorkingIs DEF GroupTogether
<1>3. ~(Position[stage[n]] < Position["close"])
  BY <1>1, <1>2 DEF Behind
<1> QED
  BY <1>2, <1>3, PlaceIs, WorkingIs

\* Every step keeps the frame, whatever goes wrong.
LEMMA RunStep == RunFrame /\ [EnvelopeNext]_envVars => RunFrame'
<1> SUFFICES ASSUME RunFrame, [EnvelopeNext]_envVars
             PROVE  RunFrame'
  OBVIOUS
<1> DEFINE Rest == /\ RowFollowsTask /\ GroupTogether /\ NotYetTouched
                   /\ CancelIsAsked /\ SuccessIsClosed /\ ClosedUnder
                   /\ CleansClosed /\ InUseIsKept
<1>t. EnvelopeTypeOK /\ EnvelopeTypeOK'
  BY TypeStep DEF RunFrame
<1>r. Rest
  BY DEF RunFrame
<1> USE WorkingIs, <1>t, <1>r
    DEF EnvelopeTypeOK, RowFollowsTask, GroupTogether, NotYetTouched,
        CancelIsAsked, SuccessIsClosed, ClosedUnder, CleansClosed, InUseIsKept,
        ClosedOver, RowsClosed, RowTerminal, Terminal, Needs, parentVars,
        hostVars
<1>1. ASSUME NEW m \in Member, Begin(m) PROVE Rest'
  BY <1>1 DEF Begin, StageTo
<1>2. ASSUME NEW m \in Member, CancelledBeforeStart(m) PROVE Rest'
  BY <1>2 DEF CancelledBeforeStart, StageTo
<1>3. ASSUME NEW m \in Member, SkipHost(m) PROVE Rest'
  BY <1>3 DEF SkipHost, StageTo
<1>4. ASSUME NEW m \in Member, NotSnapshotted(m) PROVE Rest'
  <2>1. ASSUME plan.grouped PROVE Rest'
    BY <1>4, <2>1, SMTT(60) DEF NotSnapshotted, At, StageTo, Snapshotted
  <2>2. ASSUME ~plan.grouped PROVE Rest'
    <3>1. /\ stage[m] = "snap" /\ stage' = [stage EXCEPT ![m] = "close"]
          /\ hostRow' = [hostRow EXCEPT ![m].status = "failed"]
          /\ UNCHANGED <<parentVars, vm, cleaner>>
      BY <1>4, <2>2 DEF NotSnapshotted, At, StageTo
    <3>2. \A n \in Member \ {m} : saved'[n] = saved[n]
      BY <1>4 DEF NotSnapshotted
    <3>3. /\ \A n \in Member \ {m} : /\ stage'[n] = stage[n]
                                    /\ hostRow'[n] = hostRow[n]
                                    /\ vm'[n] = vm[n]
          /\ stage'[m] = "close" /\ hostRow'[m].status = "failed"
      BY <3>1
    <3> QED
      BY <2>2, <3>1, <3>2, <3>3
  <2> HIDE DEF Rest
  <2> QED
    BY <2>1, <2>2
<1>5. ASSUME NEW m \in Member, TakeSnapshot(m) PROVE Rest'
  BY <1>5 DEF TakeSnapshot, At, StageTo, Snapshotted
<1>6. ASSUME NEW m \in Member, NameSnapshot(m) PROVE Rest'
  BY <1>6, PlaceIs DEF NameSnapshot, Team, Behind
<1>7. ASSUME NEW m \in Member, RunPlay(m) PROVE Rest'
  BY <1>7, AfterPlayIs, PlaceIs, SMTT(60) DEF RunPlay, At, Team, Behind
<1>8. ASSUME NEW m \in Member, Verify(m) PROVE Rest'
  BY <1>8, AfterVerdictIs DEF Verify, At, StageTo
<1>9. ASSUME NEW m \in Member, Undo(m) PROVE Rest'
  BY <1>9 DEF Undo, At, StageTo
<1>10. ASSUME NEW m \in Member, UndoFails(m) PROVE Rest'
  BY <1>10 DEF UndoFails, At, StageTo
<1>11. ASSUME NEW m \in Member, DeleteSnapshot(m) PROVE Rest'
  BY <1>11 DEF DeleteSnapshot, At, StageTo
<1>12. ASSUME NEW m \in Member, Persist(m) PROVE Rest'
  BY <1>12, PlaceIs DEF Persist, At, Team, Behind
<1>13. ASSUME NEW m \in Member, Finish(m) PROVE Rest'
  <2>1. CASE plan.grouped
    <3>1. \A n \in Member : stage[n] = "close"
      BY <1>13, <2>1, GroupIsDone DEF RunFrame
    <3>2. \A n \in Member : stage'[n] = "over"
      BY <1>13, <2>1, <3>1 DEF Finish, Team
    <3>3. parent' # "running"
      BY <1>13, <2>1, SumIs DEF Finish
    <3> QED
      BY <1>13, <2>1, <3>1, <3>2, <3>3, SumIs DEF Finish
  <2>2. CASE ~plan.grouped
    <3>1. stage' = [stage EXCEPT ![m] = "over"]
      BY <1>13, <2>2 DEF Finish, Team
    <3>2. /\ \A n \in Member \ {m} : stage'[n] = stage[n]
          /\ stage'[m] = "over" /\ stage[m] = "close"
          /\ UNCHANGED <<fate, plan, driven, token, hostRow, vm, saved,
                         cleaner>>
      BY <1>13, <3>1 DEF Finish, At
    <3>3. ASSUME parent' = parent PROVE Rest'
      BY <2>2, <3>2, <3>3
    <3>4. ASSUME parent = "running", RowsClosed, parent' = Sum(hostRow)
          PROVE  Rest'
      <4>1. /\ parent' \in {"succeeded", "failed", "partial"}
            /\ parent' = "succeeded"
               => \A n \in Member : hostRow[n].status # "failed"
        BY <3>4, SumIs
      <4>2. \A n \in Member :
              /\ hostRow[n].status # "queued"
              /\ stage[n] \in Working \ {"close"}
                 => hostRow[n].status = "failed" /\ "overdue" \in fate
              /\ hostRow[n].status \in {"succeeded", "failed", "skipped",
                                      "cancelled"}
        BY <3>4
      <4>3. SuccessIsClosed' /\ ClosedUnder'
        BY <3>2, <4>1, <4>2
      <4>4. InUseIsKept' /\ CancelIsAsked' /\ CleansClosed'
        BY <3>2, <3>4, <4>1
      <4>5. RowFollowsTask' /\ GroupTogether' /\ NotYetTouched'
        BY <2>2, <3>2
      <4> QED
        BY <4>3, <4>4, <4>5
    <3> HIDE DEF Rest
    <3> QED
      BY <1>13, <2>2, <3>3, <3>4 DEF Finish
  <2> QED
    BY <2>1, <2>2
<1>14. ASSUME NEW m \in Member, Raise(m) PROVE Rest'
  BY <1>14 DEF Raise, BrokenOff, Hands
<1>15. ASSUME NEW m \in Member, TaskDies(m) PROVE Rest'
  BY <1>15 DEF TaskDies, BrokenOff, Hands
<1>16. ASSUME NEW m \in Member, SweepHostRow(m) PROVE Rest'
  BY <1>16 DEF SweepHostRow
<1>17. ASSUME NEW m \in Member, CleanDelete(m) PROVE Rest'
  BY <1>17 DEF CleanDelete
<1>18. ASSUME SumUpRun PROVE Rest'
  BY <1>18, SumIs DEF SumUpRun, RowsClosed
<1>19. ASSUME CancelAsked PROVE Rest'
  BY <1>19 DEF CancelAsked
<1>20. ASSUME CancelCommitted PROVE Rest'
  BY <1>20, QueuedIsCancelled DEF CancelCommitted
<1>21. ASSUME DriverRaises PROVE Rest'
  BY <1>21 DEF DriverRaises
<1>22. ASSUME DriverTimesOut PROVE Rest'
  BY <1>22, QueuedIsCancelled DEF DriverTimesOut
<1>23. ASSUME RunOverdue PROVE Rest'
  BY <1>23, QueuedIsCancelled DEF RunOverdue
<1>24. ASSUME CleanRead PROVE Rest'
  BY <1>24 DEF CleanRead
<1>25. ASSUME CleanRuns PROVE Rest'
  BY <1>25 DEF CleanRuns
<1>26. ASSUME CleanEnd PROVE Rest'
  BY <1>26 DEF CleanEnd
<1>27. ASSUME UNCHANGED envVars PROVE Rest'
  BY <1>27 DEF envVars
<1> HIDE DEF Rest
<1>q. Rest'
BY <1>1, <1>2, <1>3, <1>4, <1>5, <1>6, <1>7, <1>8, <1>9, <1>10, <1>11, <1>12,
     <1>13, <1>14, <1>15, <1>16, <1>17, <1>18, <1>19, <1>20, <1>21, <1>22,
     <1>23, <1>24, <1>25, <1>26, <1>27
     DEF EnvelopeNext
<1> QED
  BY <1>q DEF RunFrame, Rest
-----------------------------------------------------------------------------
(* Hosts and what the run says of them *)

\* Every step keeps how far the play got in line with the task, and a way
\* back for a host left midway, unless ansible-runner stops a play.
LEMMA WorkStep ==
  ASSUME "timesOut" \notin UNION Fates
  PROVE  RunFrame /\ WorkFrame /\ [EnvelopeNext]_envVars => WorkFrame'
<1> SUFFICES ASSUME RunFrame, WorkFrame, [EnvelopeNext]_envVars
             PROVE  WorkFrame'
  OBVIOUS
<1>t. EnvelopeTypeOK /\ EnvelopeTypeOK'
  BY TypeStep DEF RunFrame
<1>r. RowFollowsTask /\ GroupTogether /\ NotYetTouched
  BY DEF RunFrame
<1>f. "timesOut" \notin fate
  BY DEF RunFrame, EnvelopeTypeOK
<1> USE WorkingIs, <1>t, <1>r, <1>f
    DEF EnvelopeTypeOK, RowFollowsTask, GroupTogether, NotYetTouched,
        PlayFollowsTask, RowIsEarned, UntouchedUntilPlayed, WayBackIsKept,
        WorkFrame, RowTerminal, Terminal, parentVars, hostVars
<1>1. ASSUME NEW m \in Member, Begin(m) PROVE WorkFrame'
  BY <1>1 DEF Begin, StageTo
<1>2. ASSUME NEW m \in Member, CancelledBeforeStart(m) PROVE WorkFrame'
  BY <1>2 DEF CancelledBeforeStart, StageTo
<1>3. ASSUME NEW m \in Member, SkipHost(m) PROVE WorkFrame'
  BY <1>3 DEF SkipHost, StageTo
<1>4. ASSUME NEW m \in Member, NotSnapshotted(m) PROVE WorkFrame'
  BY <1>4, SMTT(60) DEF NotSnapshotted, At, StageTo, Snapshotted
<1>5. ASSUME NEW m \in Member, TakeSnapshot(m) PROVE WorkFrame'
  BY <1>5 DEF TakeSnapshot, At, StageTo, Snapshotted
<1>6. ASSUME NEW m \in Member, NameSnapshot(m) PROVE WorkFrame'
  BY <1>6, PlaceIs DEF NameSnapshot, Team, Behind
<1>7. ASSUME NEW m \in Member, RunPlay(m) PROVE WorkFrame'
  BY <1>7, AfterPlayIs, PlaceIs, SMTT(30) DEF RunPlay, At, Team, Behind,
     PlayEnds
<1>8. ASSUME NEW m \in Member, Verify(m) PROVE WorkFrame'
  BY <1>8, AfterVerdictIs DEF Verify, At, StageTo
<1>9. ASSUME NEW m \in Member, Undo(m) PROVE WorkFrame'
  BY <1>9 DEF Undo, At, StageTo
<1>10. ASSUME NEW m \in Member, UndoFails(m) PROVE WorkFrame'
  BY <1>10 DEF UndoFails, At, StageTo
<1>11. ASSUME NEW m \in Member, DeleteSnapshot(m) PROVE WorkFrame'
  BY <1>11 DEF DeleteSnapshot, At, StageTo
<1>12. ASSUME NEW m \in Member, Persist(m) PROVE WorkFrame'
  BY <1>12, PlaceIs DEF Persist, At, Team, Behind, Forgets
<1>13. ASSUME NEW m \in Member, Finish(m) PROVE WorkFrame'
  <2>1. stage' = [n \in Member |-> IF n \in Team(m) THEN "over" ELSE stage[n]]
    BY <1>13 DEF Finish
  <2>2. \A n \in Team(m) : stage[n] = "close"
    BY <1>13, PlaceIs DEF Finish, At, Team
  <2> QED
    BY <1>13, <2>1, <2>2 DEF Finish
<1>14. ASSUME NEW m \in Member, Raise(m) PROVE WorkFrame'
  BY <1>14 DEF Raise, BrokenOff, Hands, Forgets
<1>15. ASSUME NEW m \in Member, TaskDies(m) PROVE WorkFrame'
  BY <1>15 DEF TaskDies, BrokenOff, Hands, Forgets
<1>16. ASSUME NEW m \in Member, SweepHostRow(m) PROVE WorkFrame'
  BY <1>16 DEF SweepHostRow
<1>17. ASSUME NEW m \in Member, CleanDelete(m) PROVE WorkFrame'
  BY <1>17 DEF CleanDelete
<1>18. ASSUME SumUpRun PROVE WorkFrame'
  BY <1>18, SumIs DEF SumUpRun, RowsClosed
<1>19. ASSUME CancelAsked PROVE WorkFrame'
  BY <1>19 DEF CancelAsked
<1>20. ASSUME CancelCommitted PROVE WorkFrame'
  BY <1>20 DEF CancelCommitted, CancelQueued
<1>21. ASSUME DriverRaises PROVE WorkFrame'
  BY <1>21 DEF DriverRaises
<1>22. ASSUME DriverTimesOut PROVE WorkFrame'
  BY <1>22 DEF DriverTimesOut, CancelQueued
<1>23. ASSUME RunOverdue PROVE WorkFrame'
  BY <1>23 DEF RunOverdue, CancelQueued
<1>24. ASSUME CleanRead PROVE WorkFrame'
  BY <1>24 DEF CleanRead
<1>25. ASSUME CleanRuns PROVE WorkFrame'
  BY <1>25 DEF CleanRuns
<1>26. ASSUME CleanEnd PROVE WorkFrame'
  BY <1>26 DEF CleanEnd
<1>27. ASSUME UNCHANGED envVars PROVE WorkFrame'
  BY <1>27 DEF envVars
<1> QED
BY <1>1, <1>2, <1>3, <1>4, <1>5, <1>6, <1>7, <1>8, <1>9, <1>10, <1>11, <1>12,
     <1>13, <1>14, <1>15, <1>16, <1>17, <1>18, <1>19, <1>20, <1>21, <1>22,
     <1>23, <1>24, <1>25, <1>26, <1>27
     DEF EnvelopeNext

-----------------------------------------------------------------------------
(* Theorems *)

LEMMA Starts == EnvelopeInit => RunFrame /\ WorkFrame
<1> SUFFICES ASSUME EnvelopeInit PROVE RunFrame /\ WorkFrame
  OBVIOUS
<1>1. EnvelopeTypeOK
  BY WorkingIs DEF EnvelopeInit, EnvelopeTypeOK, RowTerminal
<1>0. PICK keyless \in SUBSET Member :
        /\ hostRow = [m \in Member |->
             [status |-> IF ~plan.grouped THEN "queued"
                         ELSE IF m \in keyless THEN "skipped" ELSE "running",
              named |-> FALSE]]
        /\ stage = [m \in Member |->
             IF ~plan.grouped THEN "queued"
             ELSE IF m \in keyless THEN "close" ELSE "snap"]
  BY Zenon DEF EnvelopeInit
<1>2. \A m \in Member :
        /\ vm[m] = "before" /\ saved[m] = "none"
        /\ plan.grouped \/ (stage[m] = "queued" /\ hostRow[m].status = "queued")
        /\ plan.grouped
           => \/ stage[m] = "snap" /\ hostRow[m].status = "running"
              \/ stage[m] = "close" /\ hostRow[m].status = "skipped"
  BY <1>0 DEF EnvelopeInit
<1>3. /\ RowFollowsTask /\ GroupTogether /\ NotYetTouched /\ CancelIsAsked
      /\ SuccessIsClosed /\ ClosedUnder /\ CleansClosed /\ InUseIsKept
  BY <1>1, <1>2, WorkingIs
     DEF EnvelopeInit, RowFollowsTask, GroupTogether, NotYetTouched,
         CancelIsAsked, SuccessIsClosed, ClosedUnder, CleansClosed, InUseIsKept,
         Needs
<1>4. WorkFrame
  BY DEF EnvelopeInit, WorkFrame, PlayFollowsTask, RowIsEarned,
         UntouchedUntilPlayed, WayBackIsKept
<1> QED
  BY <1>1, <1>3, <1>4 DEF RunFrame

\* The run, its rows, its tasks and the hosts stay within their types.
THEOREM EnvelopeTypeCorrect == EnvelopeSpec => []EnvelopeTypeOK
<1>1. RunFrame => EnvelopeTypeOK
  BY DEF RunFrame
<1> QED
  BY <1>1, Starts, RunStep, PTL DEF EnvelopeSpec

\* The clean-up of orphaned snapshots (workflows/snapshot_cleanup.py) takes
\* none from a task that may still roll back to it, unless the run was closed
\* over that task: by a cancel, by an orchestrator that raised or reached its
\* time limit, or by the sweeper past the run's deadline.
THEOREM InUseKept == EnvelopeSpec => []InUseIsKept
<1>1. RunFrame => InUseIsKept
  BY DEF RunFrame
<1> QED
  BY <1>1, Starts, RunStep, PTL DEF EnvelopeSpec

\* No task deletes the snapshot of a host that its play left half changed,
\* as long as plays end by themselves or with their task.
THEOREM WayBackKept ==
  ASSUME "timesOut" \notin UNION Fates
  PROVE  EnvelopeSpec => []WayBackIsKept
<1>1. RunFrame /\ WorkFrame /\ [EnvelopeNext]_envVars
      => (RunFrame /\ WorkFrame)'
  BY RunStep, WorkStep
<1>2. WorkFrame => WayBackIsKept
  BY DEF WorkFrame
<1> QED
  BY <1>1, <1>2, Starts, PTL DEF EnvelopeSpec

\* A run that is recorded as succeeded ran its play to the end on every host,
\* and left it so, but for hosts it never touched at all: those without a key,
\* and those cancelled by a token that had not closed the run.
THEOREM SuccessEarned ==
  ASSUME "timesOut" \notin UNION Fates
  PROVE  EnvelopeSpec => []SuccessIsEarned
<1>1. RunFrame /\ WorkFrame /\ [EnvelopeNext]_envVars
      => (RunFrame /\ WorkFrame)'
  BY RunStep, WorkStep
<1>2. RunFrame /\ WorkFrame => SuccessIsEarned
  BY DEF RunFrame, WorkFrame, NotYetTouched, CancelIsAsked, SuccessIsClosed,
         RowIsEarned, SuccessIsEarned
<1> QED
  BY <1>1, <1>2, Starts, PTL DEF EnvelopeSpec

=============================================================================
