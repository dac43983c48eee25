-------------------------- MODULE Remediation_proofs --------------------------
(***************************************************************************)
(* Proofs about Remediation, for any number of sessions, changes and       *)
(* rollbacks, either kind of storage, and any set of events.               *)
(***************************************************************************)
EXTENDS Remediation, SequenceTheorems, FiniteSetTheorems,
        WellFoundedInduction, TLAPS

(***************************************************************************)
(* The tables                                                              *)
(***************************************************************************)

\* A nonempty set of numbers has a least one.
LEMMA MinIsIn ==
  ASSUME NEW S, S \subseteq Nat, S # {}
  PROVE  Min(S) \in S /\ \A y \in S : Min(S) <= y
<1>1. IsWellFoundedOn(OpToRel(<, Nat), Nat)
  BY NatLessThanWellFounded
<1>2. PICK x \in S : \A y \in S : ~(<<y, x>> \in OpToRel(<, Nat))
  BY <1>1, WFMin
<1>3. \A y \in S : ~(y < x)
  BY <1>2 DEF OpToRel
<1>4. \E z \in S : \A y \in S : z <= y
  BY <1>3
<1>5. QED
  BY <1>4 DEF Min

\* Changing one row of a table, ...
LEMMA ReplaceRow ==
  ASSUME NEW S, NEW s \in Seq(S), NEW i \in DOMAIN s, NEW e \in S
  PROVE  /\ [s EXCEPT ![i] = e] \in Seq(S)
         /\ Len([s EXCEPT ![i] = e]) = Len(s)
         /\ DOMAIN [s EXCEPT ![i] = e] = DOMAIN s
         /\ \A j \in DOMAIN s :
              [s EXCEPT ![i] = e][j] = IF j = i THEN e ELSE s[j]
  BY ExceptSeq

\* ... or all of them, ...
LEMMA ReplaceRows ==
  ASSUME NEW S, NEW s \in Seq(S), NEW f \in [DOMAIN s -> S]
  PROVE  f \in Seq(S) /\ Len(f) = Len(s)
<1>1. DOMAIN f = 1..Len(s) /\ Len(s) \in Nat
  BY LenProperties
<1>2. f \in Seq(S)
  BY <1>1, SeqDef
<1>3. QED
  BY <1>1, <1>2, LenProperties

\* ... or adding one.
LEMMA AddRow ==
  ASSUME NEW S, NEW s \in Seq(S), NEW e \in S
  PROVE  /\ Append(s, e) \in Seq(S)
         /\ Len(Append(s, e)) = Len(s) + 1 /\ Len(s) \in Nat
         /\ DOMAIN Append(s, e) = DOMAIN s \cup {Len(s) + 1}
         /\ Len(s) + 1 \notin DOMAIN s
         /\ \A j \in DOMAIN s : Append(s, e)[j] = s[j]
         /\ Append(s, e)[Len(s) + 1] = e
  OBVIOUS

\* There are fewer snapshots than calls if a call has none.
LEMMA TakenCount ==
  ASSUME RemTypeOK
  PROVE  /\ Cardinality(Taken) \in Nat
         /\ Cardinality(Taken) <= Len(toolCalls)
         /\ \A i \in DOMAIN toolCalls \ Taken :
              Cardinality(Taken) + 1 <= Len(toolCalls)
<1>1. toolCalls \in Seq(ToolCall) /\ Len(toolCalls) \in Nat
      /\ DOMAIN toolCalls = 1..Len(toolCalls)
  BY LenProperties DEF RemTypeOK
<1>2. IsFiniteSet(DOMAIN toolCalls)
      /\ Cardinality(DOMAIN toolCalls) = Len(toolCalls)
  BY <1>1, FS_Interval
<1>3. Taken \subseteq DOMAIN toolCalls
  BY DEF Taken
<1>4. IsFiniteSet(Taken) /\ Cardinality(Taken) <= Len(toolCalls)
  BY <1>2, <1>3, FS_Subset
<1>5. ASSUME NEW i \in DOMAIN toolCalls \ Taken
      PROVE  Cardinality(Taken) + 1 <= Len(toolCalls)
  <2>1. Cardinality(Taken \cup {i}) = Cardinality(Taken) + 1
    BY <1>4, FS_AddElement
  <2>2. Taken \cup {i} \subseteq DOMAIN toolCalls
    BY <1>3
  <2>3. QED
    BY <1>2, <2>1, <2>2, FS_Subset
<1>6. QED
  BY <1>4, <1>5, FS_CardinalityType

LEMMA SnapshotType ==
  ASSUME RemTypeOK, NEW e \in Ses,
         Cardinality(Taken) + 1 \in 0..MaxChanges
  PROVE  /\ Snapshot(e) \in ToolCall
         /\ [Snapshot(e) EXCEPT !.taken = 0, !.holds = {}] \in ToolCall
         /\ Snapshot(e).ses = e
         /\ [Snapshot(e) EXCEPT !.taken = 0, !.holds = {}].ses = e
         /\ [Snapshot(e) EXCEPT !.taken = 0, !.holds = {}].taken = 0
         /\ Snapshot(e).taken > 0
<1> DEFINE n == Cardinality(Taken) + 1
<1>1. n \in 0..MaxChanges /\ n > 0 /\ disk \in SUBSET Ses /\ 0 \in 0..MaxChanges
  BY RemAssumption, TakenCount DEF RemTypeOK
<1>2. Snapshot(e) = [ses |-> e, taken |-> n, holds |-> disk, gone |-> FALSE]
  BY DEF Snapshot
<1> HIDE DEF n
<1>3. Snapshot(e) \in ToolCall /\ Snapshot(e).ses = e /\ Snapshot(e).taken > 0
  BY <1>1, <1>2 DEF ToolCall
<1>4. ASSUME NEW c \in ToolCall
      PROVE  /\ [c EXCEPT !.taken = 0, !.holds = {}] \in ToolCall
             /\ [c EXCEPT !.taken = 0, !.holds = {}].ses = c.ses
             /\ [c EXCEPT !.taken = 0, !.holds = {}].taken = 0
  BY <1>1 DEF ToolCall
<1>5. QED
  BY <1>3, <1>4

LEMMA FirstChangeIsIn ==
  ASSUME RemTypeOK, NEW e \in Ses, Changed(e)
  PROVE  /\ FirstChange(e) \in Changes(e) /\ FirstChange(e) \in DOMAIN toolCalls
         /\ FirstChange(e) \in Nat
         /\ \A c \in Changes(e) : FirstChange(e) <= c
<1>1. DOMAIN toolCalls \subseteq Nat
  BY DEF RemTypeOK
<1>2. Changes(e) \subseteq Nat /\ Changes(e) # {}
  BY <1>1 DEF Changes, Taken, Changed
<1>3. QED
  BY <1>2, MinIsIn DEF FirstChange, Changes, Taken

(***************************************************************************)
(* What a step does to the tables                                          *)
(***************************************************************************)

\* Calls are added, keep their session and their snapshot, and what changes
\* the host of a session's is its own work.
CallsFrame ==
  /\ toolCalls' \in Seq(ToolCall) /\ Len(toolCalls') <= MaxChanges
  /\ DOMAIN toolCalls \subseteq DOMAIN toolCalls'
  /\ \A e \in Ses : Changed(e) => Changed(e)'
  /\ \A e \in Ses : Changed(e)' => Changed(e) \/ fix[e].works

LEMMA SameCalls ==
  ASSUME RemTypeOK, UNCHANGED toolCalls
  PROVE  CallsFrame
  BY DEF CallsFrame, RemTypeOK, Changed, Changes, Taken

LEMMA OneMoreCall ==
  ASSUME RemTypeOK, NEW e \in Ses, NEW c \in ToolCall,
         Len(toolCalls) < MaxChanges, fix[e].works, c.ses = e,
         toolCalls' = Append(toolCalls, c)
  PROVE  CallsFrame
<1>1. toolCalls \in Seq(ToolCall)
  BY DEF RemTypeOK
<1>2. /\ toolCalls' \in Seq(ToolCall) /\ Len(toolCalls') <= MaxChanges
      /\ DOMAIN toolCalls' = DOMAIN toolCalls \cup {Len(toolCalls) + 1}
      /\ \A j \in DOMAIN toolCalls : toolCalls'[j] = toolCalls[j]
      /\ toolCalls'[Len(toolCalls) + 1] = c
  BY <1>1, AddRow, RemAssumption
<1>3. QED
  BY <1>2 DEF CallsFrame, Changed, Changes, Taken

LEMMA CallRuns ==
  ASSUME RemTypeOK, NEW i \in DOMAIN toolCalls, NEW c \in ToolCall,
         i \notin Taken, fix[toolCalls[i].ses].works,
         c.ses = toolCalls[i].ses, toolCalls' = [toolCalls EXCEPT ![i] = c]
  PROVE  CallsFrame
<1>1. toolCalls \in Seq(ToolCall) /\ Len(toolCalls) <= MaxChanges
  BY DEF RemTypeOK
<1>2. /\ toolCalls' \in Seq(ToolCall) /\ Len(toolCalls') <= MaxChanges
      /\ DOMAIN toolCalls' = DOMAIN toolCalls
      /\ \A j \in DOMAIN toolCalls :
           toolCalls'[j] = IF j = i THEN c ELSE toolCalls[j]
  BY <1>1, ReplaceRow
<1>3. QED
  BY <1>2 DEF CallsFrame, Changed, Changes, Taken

LEMMA SnapshotsGo ==
  ASSUME RemTypeOK, NEW gone, Delete(gone)
  PROVE  CallsFrame
<1>1. toolCalls \in Seq(ToolCall) /\ Len(toolCalls) <= MaxChanges
      /\ \A j \in DOMAIN toolCalls : toolCalls[j] \in ToolCall
  BY DEF RemTypeOK
<1>2. /\ toolCalls' \in [DOMAIN toolCalls -> ToolCall]
      /\ DOMAIN toolCalls' = DOMAIN toolCalls
      /\ \A j \in DOMAIN toolCalls :
           /\ toolCalls'[j].ses = toolCalls[j].ses
           /\ toolCalls'[j].taken = toolCalls[j].taken
  BY <1>1 DEF Delete, ToolCall
<1>3. toolCalls' \in Seq(ToolCall) /\ Len(toolCalls') <= MaxChanges
  BY <1>1, <1>2, ReplaceRows
<1>4. QED
  BY <1>2, <1>3 DEF CallsFrame, Changed, Changes, Taken

\* A rollback whose task works on the host shows that it does.
Shows(k) ==
  back[k].task \in Working
    => back[k].status = "running" \/ "slowRollback" \in May

\* Rollbacks are added, one at a time and on an idle host, and keep what they
\* are; one that has ended is never running again.
BackFrame ==
  /\ back' \in Seq(Rollback) /\ Len(back') <= MaxRollbacks
  /\ \A k \in DOMAIN back :
       /\ k \in DOMAIN back' /\ back'[k].ses = back[k].ses
       /\ back'[k].trigger = back[k].trigger /\ back'[k].to = back[k].to
       /\ back'[k].status = "running" => back[k].status = "running"
       /\ Shows(k) => Shows(k)'
  /\ \A k \in DOMAIN back' \ DOMAIN back :
       /\ Shows(k)'
       /\ k = Len(back) + 1 /\ Running = {}
       /\ back'[k].to \in DOMAIN toolCalls
       /\ back'[k].trigger = "automatic" => check[back'[k].ses] = "planned"

LEMMA SameBack ==
  ASSUME RemTypeOK, UNCHANGED back
  PROVE  BackFrame
  BY DEF BackFrame, RemTypeOK, Shows

RowStatus == {"running", "succeeded", "failed", "refused"}
RowTask == {"sent", "lost", "restoring", "restored", "failing", "refusing",
            "done"}

LEMMA RowWritten ==
  ASSUME RemTypeOK, NEW k \in DOMAIN back, NEW status \in RowStatus,
         NEW task \in RowTask, Row(k, status, task),
         status = "running" => back[k].status = "running",
         task \in Working => \/ status = "running" \/ "slowRollback" \in May
                            \/ /\ back[k].task \in Working
                               /\ status = back[k].status
  PROVE  BackFrame
<1>1. back \in Seq(Rollback) /\ Len(back) <= MaxRollbacks
      /\ back[k] \in Rollback
  BY DEF RemTypeOK
<1> DEFINE row == [back[k] EXCEPT !.status = status, !.task = task]
<1>2. /\ row \in Rollback /\ row.ses = back[k].ses
      /\ row.trigger = back[k].trigger /\ row.to = back[k].to
      /\ row.status = status /\ row.task = task
  BY <1>1 DEF Rollback, RowStatus, RowTask
<1>3. back' = [back EXCEPT ![k] = row]
  BY DEF Row
<1> HIDE DEF row
<1>4. /\ back' \in Seq(Rollback) /\ Len(back') = Len(back)
      /\ DOMAIN back' = DOMAIN back
      /\ \A j \in DOMAIN back : back'[j] = IF j = k THEN row ELSE back[j]
  BY <1>1, <1>2, <1>3, ReplaceRow
<1>5. \A j \in DOMAIN back : Shows(j) => Shows(j)'
  BY <1>2, <1>4 DEF Shows
<1>6. QED
  BY <1>1, <1>2, <1>4, <1>5 DEF BackFrame

LEMMA RollbackStarts ==
  ASSUME RemTypeOK, NEW e \in Ses, NEW trigger \in {"automatic", "manual"},
         NEW task \in RowTask, Changed(e), ~HostBusy, Len(back) < MaxRollbacks,
         trigger = "automatic" => check[e] = "planned",
         back' = Append(back, NewRow(e, trigger, "running", task))
  PROVE  BackFrame
<1> DEFINE row == NewRow(e, trigger, "running", task)
<1>1. /\ back \in Seq(Rollback) /\ Len(toolCalls) \in 0..MaxChanges
      /\ DOMAIN toolCalls \subseteq 1..MaxChanges
  BY RemAssumption DEF RemTypeOK
<1>2. /\ row \in Rollback /\ row.to = FirstChange(e) /\ row.trigger = trigger
      /\ row.ses = e /\ row.status = "running"
  BY <1>1, FirstChangeIsIn DEF NewRow, Rollback, RowTask
<1> HIDE DEF row
<1>3. /\ back' \in Seq(Rollback) /\ Len(back') = Len(back) + 1
      /\ Len(back) \in Nat
      /\ DOMAIN back' = DOMAIN back \cup {Len(back) + 1}
      /\ \A j \in DOMAIN back : back'[j] = back[j]
      /\ back'[Len(back) + 1] = row
  BY <1>1, <1>2, AddRow DEF row
<1>4. \A k \in DOMAIN back' : (k \in DOMAIN back /\ Shows(k) => Shows(k)')
                             /\ (k \notin DOMAIN back => Shows(k)')
  BY <1>2, <1>3 DEF Shows
<1>5. QED
  BY <1>2, <1>3, <1>4, FirstChangeIsIn, RemAssumption DEF BackFrame, HostBusy

(***************************************************************************)
(* Type correctness                                                        *)
(***************************************************************************)

\* A rollback restores a call's snapshot, and a check that is about to roll
\* back does so to a session that changed something.
Restorable ==
  /\ \A k \in DOMAIN back : back[k].to \in DOMAIN toolCalls
  /\ \A e \in Ses : check[e] = "planned" => Changed(e)

\* What there is to a step, as far as the tables go.
Frames == CallsFrame /\ BackFrame

LEMMA FramesHold ==
  RemTypeOK /\ Restorable /\ [RemNext]_remVars => Frames
<1> SUFFICES ASSUME RemTypeOK, Restorable, [RemNext]_remVars PROVE Frames
  OBVIOUS
<1> USE DEF Frames
<1>a. /\ \A i \in DOMAIN toolCalls : toolCalls[i].ses \in Ses
      /\ \A k \in DOMAIN back :
           /\ back[k].ses \in Ses /\ back[k].status \in RowStatus
           /\ back[k].task \in RowTask
      /\ RowStatus = {"running", "succeeded", "failed", "refused"}
      /\ RowTask = {"sent", "lost", "restoring", "restored", "failing",
                    "refusing", "done"}
  <2>1. /\ \A i \in DOMAIN toolCalls : toolCalls[i] \in ToolCall
        /\ \A k \in DOMAIN back : back[k] \in Rollback
    BY DEF RemTypeOK
  <2>2. QED
    BY <2>1 DEF ToolCall, Rollback, RowStatus, RowTask
<1>b. Len(toolCalls) \in Nat
  BY DEF RemTypeOK
<1>1. ASSUME NEW e \in Ses,
             \/ Open(e) \/ EndSession(e) \/ SessionDies(e) \/ CancelSession(e)
             \/ Reopen(e) \/ LoseSight(e) \/ ClaimCheck(e) \/ TooLate(e)
             \/ AbandonCheck(e) \/ PickCheck(e) \/ Record(e) \/ CheckDies(e)
             \/ RefuseAuto(e) \/ PlanAuto(e)
      PROVE  Frames
  <2>1. UNCHANGED <<toolCalls, back>>
    BY <1>1
    DEF Open, EndSession, SessionDies, CancelSession, Reopen, LoseSight,
        ClaimCheck, TooLate, AbandonCheck, PickCheck, Record, CheckDies,
        RefuseAuto, PlanAuto
  <2>2. QED
    BY <2>1, SameCalls, SameBack
<1>2. ASSUME NEW e \in Ses, Change(e) PROVE Frames
  <2>1. Cardinality(Taken) + 1 \in 0..MaxChanges
    BY <1>2, <1>b, TakenCount, RemAssumption DEF Change
  <2>2. Snapshot(e) \in ToolCall /\ Snapshot(e).ses = e
    BY <2>1, SnapshotType
  <2>3. QED
    BY <1>2, <2>2, OneMoreCall, SameBack DEF Change, Works
<1>3. ASSUME NEW e \in Ses, Propose(e) PROVE Frames
  <2>1. Cardinality(Taken) + 1 \in 0..MaxChanges
    BY <1>3, <1>b, TakenCount, RemAssumption DEF Propose
  <2>2. /\ [Snapshot(e) EXCEPT !.taken = 0, !.holds = {}] \in ToolCall
        /\ [Snapshot(e) EXCEPT !.taken = 0, !.holds = {}].ses = e
    BY <2>1, SnapshotType
  <2>3. QED
    BY <1>3, <2>2, OneMoreCall, SameBack DEF Propose, Works
<1>4. ASSUME NEW i \in DOMAIN toolCalls, Approved(i) PROVE Frames
  <2>1. Cardinality(Taken) + 1 \in 0..MaxChanges
    BY <1>4, <1>b, TakenCount, RemAssumption DEF Approved, RemTypeOK
  <2> DEFINE e == toolCalls[i].ses
  <2>2. Snapshot(e) \in ToolCall /\ Snapshot(e).ses = e
    BY <1>a, <2>1, SnapshotType
  <2>3. QED
    BY <1>4, <2>2, CallRuns, SameBack DEF Approved, Works
<1>5. ASSUME NEW e \in Ses, ClaimAuto(e) PROVE Frames
  <2>1. Changed(e)
    BY <1>5 DEF ClaimAuto, Restorable
  <2>2. QED
    BY <1>5, <1>a, <2>1, RollbackStarts, SameCalls DEF ClaimAuto
<1>6. ASSUME NEW e \in Ses, RequestRollback(e) PROVE Frames
  <2>1. Changed(e)
    BY <1>6 DEF RequestRollback, RollbackAllowed
  <2>2. PICK task \in RowTask :
          back' = Append(back, NewRow(e, "manual", "running", task))
    BY <1>6, <1>a DEF RequestRollback
  <2>3. QED
    BY <1>6, <2>1, <2>2, RollbackStarts, SameCalls DEF RequestRollback
<1>7. ASSUME NEW k \in DOMAIN back,
             \/ PickRollback(k) \/ RefuseRestore(k) \/ EndRollback(k)
             \/ RollbackDies(k) \/ AbandonRollback(k)
      PROVE  Frames
  <2>1. CallsFrame
    BY <1>7, SameCalls
    DEF PickRollback, RefuseRestore, EndRollback, RollbackDies, AbandonRollback
  <2>2. CASE PickRollback(k)
    BY <1>a, <2>1, <2>2, RowWritten DEF PickRollback, Working, AtWork
  <2>3. CASE RefuseRestore(k)
    BY <1>a, <2>1, <2>3, RowWritten DEF RefuseRestore, Working, AtWork
  <2>4. CASE EndRollback(k)
    BY <1>a, <2>1, <2>4, RowWritten DEF EndRollback, Working, AtWork
  <2>5. CASE RollbackDies(k)
    BY <1>a, <2>1, <2>5, RowWritten DEF RollbackDies, Working, AtWork
  <2>6. CASE AbandonRollback(k)
    BY <1>a, <2>1, <2>6, RowWritten DEF AbandonRollback, Working, AtWork
  <2>7. QED
    BY <1>7, <2>2, <2>3, <2>4, <2>5, <2>6
<1>8. ASSUME NEW k \in DOMAIN back, FailRestore(k) PROVE Frames
  BY <1>8, <1>a, SnapshotsGo, RowWritten DEF FailRestore, Working, AtWork
<1>9. ASSUME NEW k \in DOMAIN back, Restore(k) PROVE Frames
  BY <1>9, <1>a, SnapshotsGo, RowWritten DEF Restore, Working, AtWork
<1>10. ASSUME NEW i \in DOMAIN toolCalls, Prune(i) PROVE Frames
  BY <1>10, SnapshotsGo, SameBack DEF Prune
<1>11. CASE UNCHANGED remVars
  BY <1>11, SameCalls, SameBack DEF remVars
<1>12. QED
  BY <1>1, <1>2, <1>3, <1>4, <1>5, <1>6, <1>7, <1>8, <1>9, <1>10, <1>11
  DEF RemNext, SweepStep, TaskStep

\* A session changes as its own operations say, ...
FixFrame ==
  \A e \in Ses :
    /\ fix'[e] \in Fix
    /\ \/ fix'[e] = fix[e] \/ Open(e) \/ EndSession(e) \/ SessionDies(e)
       \/ CancelSession(e) \/ Reopen(e) \/ LoseSight(e)

\* ... and its verdict and its check as the check's.
CheckFrame ==
  \A e \in Ses :
    \/ outcome'[e] = outcome[e] /\ check'[e] = check[e]
    \/ ClaimCheck(e) \/ TooLate(e) \/ AbandonCheck(e) \/ PickCheck(e)
    \/ Record(e) \/ CheckDies(e) \/ RefuseAuto(e) \/ PlanAuto(e) \/ ClaimAuto(e)

LEMMA FixHolds ==
  RemTypeOK /\ [RemNext]_remVars => FixFrame /\ fix' \in [Ses -> Fix]
<1> SUFFICES ASSUME RemTypeOK, [RemNext]_remVars
             PROVE  FixFrame /\ fix' \in [Ses -> Fix]
  OBVIOUS
<1>a. fix \in [Ses -> Fix] /\ \A e \in Ses : fix[e] \in Fix
  BY DEF RemTypeOK
<1>1. ASSUME NEW e \in Ses, Open(e) PROVE FixFrame /\ fix' \in [Ses -> Fix]
  <2>1. PICK level \in {"full_auto", "approval"} :
          fix' = [fix EXCEPT ![e] =
                    [status |-> "open", level |-> level, works |-> TRUE,
                     sight |-> "kept"]]
    BY <1>1 DEF Open
  <2>2. [status |-> "open", level |-> level, works |-> TRUE,
         sight |-> "kept"] \in Fix
    BY DEF Fix
  <2>3. QED
    BY <1>1, <1>a, <2>1, <2>2 DEF FixFrame
<1>2. ASSUME NEW e \in Ses, EndSession(e)
      PROVE  FixFrame /\ fix' \in [Ses -> Fix]
  <2> DEFINE f == [fix[e] EXCEPT !.works = FALSE,
                     !.status = IF fix[e].status = "open" THEN "ended"
                                ELSE fix[e].status,
                     !.sight = IF fix[e].sight = "lost" THEN "again"
                               ELSE fix[e].sight]
  <2>1. fix' = [fix EXCEPT ![e] = f]
    BY <1>2 DEF EndSession
  <2>2. f \in Fix
    BY <1>a DEF Fix
  <2> HIDE DEF f
  <2>3. QED
    BY <1>2, <1>a, <2>1, <2>2 DEF FixFrame
<1>3. ASSUME NEW e \in Ses, CancelSession(e)
      PROVE  FixFrame /\ fix' \in [Ses -> Fix]
  <2> DEFINE f == [fix[e] EXCEPT !.status = "cancelled"]
  <2>1. fix' = [fix EXCEPT ![e] = f]
    BY <1>3 DEF CancelSession
  <2>2. f \in Fix
    BY <1>a DEF Fix
  <2> HIDE DEF f
  <2>3. QED
    BY <1>3, <1>a, <2>1, <2>2 DEF FixFrame
<1>4. ASSUME NEW e \in Ses, SessionDies(e)
      PROVE  FixFrame /\ fix' \in [Ses -> Fix]
  <2> DEFINE f == [fix[e] EXCEPT !.works = FALSE]
  <2>1. fix' = [fix EXCEPT ![e] = f]
    BY <1>4 DEF SessionDies
  <2>2. f \in Fix
    BY <1>a DEF Fix
  <2> HIDE DEF f
  <2>3. QED
    BY <1>4, <1>a, <2>1, <2>2 DEF FixFrame
<1>5. ASSUME NEW e \in Ses, Reopen(e)
      PROVE  FixFrame /\ fix' \in [Ses -> Fix]
  <2>1. PICK sight \in {"again", "lost"} :
          fix' = [fix EXCEPT ![e] = [fix[e] EXCEPT !.status = "open",
                                       !.works = TRUE, !.sight = sight]]
    BY <1>5 DEF Reopen
  <2> DEFINE f == [fix[e] EXCEPT !.status = "open", !.works = TRUE,
                                 !.sight = sight]
  <2>2. f \in Fix
    BY <1>a DEF Fix
  <2>3. fix' = [fix EXCEPT ![e] = f]
    BY <2>1
  <2> HIDE DEF f
  <2>4. QED
    BY <1>5, <1>a, <2>2, <2>3 DEF FixFrame
<1>6. ASSUME NEW e \in Ses, LoseSight(e)
      PROVE  FixFrame /\ fix' \in [Ses -> Fix]
  <2> DEFINE f == [fix[e] EXCEPT !.sight = "lost"]
  <2>1. fix' = [fix EXCEPT ![e] = f]
    BY <1>6 DEF LoseSight
  <2>2. f \in Fix
    BY <1>a DEF Fix
  <2> HIDE DEF f
  <2>3. QED
    BY <1>6, <1>a, <2>1, <2>2 DEF FixFrame
<1>7. ASSUME UNCHANGED fix PROVE FixFrame /\ fix' \in [Ses -> Fix]
  BY <1>7, <1>a DEF FixFrame
<1>8. CASE SweepStep \/ TaskStep \/ UNCHANGED remVars
  BY <1>7, <1>8
  DEF SweepStep, TaskStep, ClaimCheck, TooLate, AbandonCheck, AbandonRollback,
      PickCheck, Record, RefuseAuto, PlanAuto, ClaimAuto, PickRollback,
      RefuseRestore, FailRestore, Restore, EndRollback, remVars
<1>9. ASSUME NEW e \in Ses,
             Change(e) \/ Propose(e) \/ CheckDies(e) \/ RequestRollback(e)
      PROVE  FixFrame /\ fix' \in [Ses -> Fix]
  BY <1>7, <1>9 DEF Change, Propose, CheckDies, RequestRollback
<1>10. ASSUME \/ \E k \in DOMAIN back : RollbackDies(k)
             \/ \E i \in DOMAIN toolCalls : Approved(i) \/ Prune(i)
      PROVE  FixFrame /\ fix' \in [Ses -> Fix]
  BY <1>7, <1>10 DEF RollbackDies, Approved, Prune
<1>11. QED
  BY <1>1, <1>2, <1>3, <1>4, <1>5, <1>6, <1>8, <1>9, <1>10 DEF RemNext

LEMMA CheckHolds ==
  RemTypeOK /\ [RemNext]_remVars
    => /\ CheckFrame
       /\ outcome' \in [Ses -> Verdict \cup {"none", "checking"}]
       /\ check' \in [Ses -> {"none", "sent", "judging", "worse", "planned"}]
<1> DEFINE Goal ==
      /\ CheckFrame
      /\ outcome' \in [Ses -> Verdict \cup {"none", "checking"}]
      /\ check' \in [Ses -> {"none", "sent", "judging", "worse", "planned"}]
<1> SUFFICES ASSUME RemTypeOK, [RemNext]_remVars PROVE Goal
  OBVIOUS
<1>a. /\ outcome \in [Ses -> Verdict \cup {"none", "checking"}]
      /\ check \in [Ses -> {"none", "sent", "judging", "worse", "planned"}]
  BY DEF RemTypeOK
<1> USE <1>a DEF CheckFrame, Verdict
<1>1. ASSUME NEW e \in Ses, ClaimCheck(e) PROVE Goal
  BY <1>1 DEF ClaimCheck, Resolve, CheckAt
<1>2. ASSUME NEW e \in Ses, TooLate(e) PROVE Goal
  BY <1>2 DEF TooLate, Resolve
<1>3. ASSUME NEW e \in Ses, AbandonCheck(e) PROVE Goal
  BY <1>3 DEF AbandonCheck, Resolve
<1>4. ASSUME NEW e \in Ses, PickCheck(e) PROVE Goal
  BY <1>4 DEF PickCheck, CheckAt
<1>5. ASSUME NEW e \in Ses, Record(e) PROVE Goal
  BY <1>5, ZenonT(30) DEF Record, Resolve, CheckAt
<1>6. ASSUME NEW e \in Ses, CheckDies(e) PROVE Goal
  BY <1>6 DEF CheckDies, CheckAt
<1>7. ASSUME NEW e \in Ses, RefuseAuto(e) PROVE Goal
  BY <1>7 DEF RefuseAuto, CheckAt
<1>8. ASSUME NEW e \in Ses, PlanAuto(e) PROVE Goal
  BY <1>8 DEF PlanAuto, CheckAt
<1>9. ASSUME NEW e \in Ses, ClaimAuto(e) PROVE Goal
  BY <1>9 DEF ClaimAuto, CheckAt
<1>10. ASSUME UNCHANGED <<outcome, check>> PROVE Goal
  BY <1>10
<1> HIDE DEF Goal
<1>11. ASSUME NEW e \in Ses,
              \/ Open(e) \/ Change(e) \/ Propose(e) \/ EndSession(e)
              \/ SessionDies(e) \/ CancelSession(e) \/ Reopen(e)
              \/ LoseSight(e) \/ RequestRollback(e)
       PROVE  Goal
  BY <1>10, <1>11
  DEF Open, Change, Propose, EndSession, SessionDies, CancelSession, Reopen,
      LoseSight, RequestRollback
<1>12. ASSUME NEW k \in DOMAIN back,
              \/ AbandonRollback(k) \/ PickRollback(k) \/ RefuseRestore(k)
              \/ FailRestore(k) \/ Restore(k) \/ EndRollback(k)
              \/ RollbackDies(k)
       PROVE  Goal
  BY <1>10, <1>12
  DEF AbandonRollback, PickRollback, RefuseRestore, FailRestore, Restore,
      EndRollback, RollbackDies
<1>13. ASSUME \/ UNCHANGED remVars
              \/ \E i \in DOMAIN toolCalls : Approved(i) \/ Prune(i)
       PROVE  Goal
  BY <1>10, <1>13 DEF Approved, Prune, remVars
<1>14. QED
  BY <1>1, <1>2, <1>3, <1>4, <1>5, <1>6, <1>7, <1>8, <1>9, <1>11, <1>12, <1>13
  DEF RemNext, SweepStep, TaskStep

LEMMA TypeStep ==
  RemTypeOK /\ Restorable /\ [RemNext]_remVars => RemTypeOK' /\ Restorable'
<1> SUFFICES ASSUME RemTypeOK, Restorable, [RemNext]_remVars
             PROVE  RemTypeOK' /\ Restorable'
  OBVIOUS
<1>1. CallsFrame /\ BackFrame
  BY FramesHold DEF Frames
<1>2. /\ fix' \in [Ses -> Fix]
      /\ outcome' \in [Ses -> Verdict \cup {"none", "checking"}]
      /\ check' \in [Ses -> {"none", "sent", "judging", "worse", "planned"}]
      /\ CheckFrame
  BY FixHolds, CheckHolds
<1>3. disk' \subseteq Ses /\ newestOnly' \in BOOLEAN
  <2>1. disk \subseteq Ses /\ newestOnly \in BOOLEAN
        /\ \A i \in DOMAIN toolCalls :
             toolCalls[i].ses \in Ses /\ toolCalls[i].holds \subseteq Ses
    <3>1. \A i \in DOMAIN toolCalls : toolCalls[i] \in ToolCall
      BY DEF RemTypeOK
    <3>2. QED
      BY <3>1 DEF RemTypeOK, ToolCall
  <2>2. ASSUME NEW e \in Ses, Change(e) PROVE disk' \subseteq Ses
    BY <2>1, <2>2 DEF Change
  <2>3. ASSUME NEW i \in DOMAIN toolCalls, Approved(i)
        PROVE  disk' \subseteq Ses
    BY <2>1, <2>3 DEF Approved
  <2>4. ASSUME NEW k \in DOMAIN back, Restore(k) PROVE disk' \subseteq Ses
    BY <2>1, <2>4 DEF Restore, Restorable
  <2>5. ASSUME NEW e \in Ses,
               \/ Open(e) \/ EndSession(e) \/ SessionDies(e)
               \/ CancelSession(e) \/ Reopen(e) \/ LoseSight(e) \/ Propose(e)
               \/ ClaimCheck(e) \/ TooLate(e) \/ AbandonCheck(e) \/ PickCheck(e)
               \/ Record(e) \/ CheckDies(e) \/ RefuseAuto(e) \/ PlanAuto(e)
               \/ ClaimAuto(e) \/ RequestRollback(e)
        PROVE  UNCHANGED disk
    BY <2>5
    DEF Open, EndSession, SessionDies, CancelSession, Reopen, LoseSight,
        Propose, ClaimCheck, TooLate, AbandonCheck, PickCheck, Record,
        CheckDies, RefuseAuto, PlanAuto, ClaimAuto, RequestRollback
  <2>6. ASSUME NEW k \in DOMAIN back,
               \/ AbandonRollback(k) \/ PickRollback(k) \/ RefuseRestore(k)
               \/ FailRestore(k) \/ EndRollback(k) \/ RollbackDies(k)
        PROVE  UNCHANGED disk
    BY <2>6
    DEF AbandonRollback, PickRollback, RefuseRestore, FailRestore, EndRollback,
        RollbackDies
  <2>7. ASSUME NEW i \in DOMAIN toolCalls, Prune(i) PROVE UNCHANGED disk
    BY <2>7 DEF Prune
  <2>8. CASE UNCHANGED remVars
    BY <2>1, <2>8 DEF remVars
  <2>9. disk' \subseteq Ses
    BY <2>1, <2>2, <2>3, <2>4, <2>5, <2>6, <2>7, <2>8
    DEF RemNext, SweepStep, TaskStep
  <2>10. UNCHANGED newestOnly
    BY DEF RemNext, SweepStep, TaskStep, remVars, Open, EndSession,
           SessionDies, CancelSession, Reopen, LoseSight, Change,
           Propose, Approved, ClaimCheck, TooLate,
           AbandonCheck, PickCheck, Record, CheckDies, RefuseAuto, PlanAuto,
           ClaimAuto, RequestRollback, AbandonRollback, PickRollback,
           RefuseRestore, FailRestore, Restore, EndRollback, RollbackDies, Prune
  <2>11. QED
    BY <2>1, <2>9, <2>10
<1>4. RemTypeOK'
  BY <1>1, <1>2, <1>3 DEF RemTypeOK, CallsFrame, BackFrame
<1>5. Restorable'
  <2>1. \A k \in DOMAIN back' : back'[k].to \in DOMAIN toolCalls'
    BY <1>1 DEF CallsFrame, BackFrame, Restorable
  <2>2. ASSUME NEW e \in Ses, check'[e] = "planned" PROVE Changed(e)
    BY <1>2, <2>2
    DEF CheckFrame, Restorable, ClaimCheck, TooLate, AbandonCheck, PickCheck,
        Record, CheckDies, RefuseAuto, PlanAuto, ClaimAuto, CheckAt,
        RollbackAllowed, RemTypeOK
  <2>3. QED
    BY <1>1, <2>1, <2>2 DEF CallsFrame, Restorable
<1>6. QED
  BY <1>4, <1>5

\* THEOREM: the variables of Remediation keep their types, and a rollback has a
\* snapshot to go back to.
THEOREM RemTypeCorrect == RemSpec => [](RemTypeOK /\ Restorable)
<1>1. RemInit => RemTypeOK /\ Restorable
  <2> SUFFICES ASSUME RemInit PROVE RemTypeOK /\ Restorable
    OBVIOUS
  <2>1. \A S : <<>> \in Seq(S)
    BY EmptySeq
  <2>2. QED
    BY <2>1, RemAssumption DEF RemInit, RemTypeOK, Restorable, Fix, Verdict
<1>2. QED
  BY <1>1, TypeStep, PTL DEF RemSpec

(***************************************************************************)
(* Verdicts                                                                *)
(***************************************************************************)

VerdictKept == \A e \in Ses : outcome[e] \in Verdict => outcome'[e] = outcome[e]

LEMMA VerdictStep == RemTypeOK /\ [RemNext]_remVars => VerdictKept
<1> SUFFICES ASSUME RemTypeOK, [RemNext]_remVars PROVE VerdictKept
  OBVIOUS
<1>1. CheckFrame /\ outcome \in [Ses -> Verdict \cup {"none", "checking"}]
  BY CheckHolds DEF RemTypeOK
<1>2. QED
  BY <1>1
  DEF VerdictKept, CheckFrame, ClaimCheck, TooLate, AbandonCheck, PickCheck,
      Record, CheckDies, RefuseAuto, PlanAuto, ClaimAuto, Resolve, AwaitsCheck,
      Unjudged, Verdict

\* THEOREM: once an operator has read what became of a fix, or that it was not
\* checked, no late check and no second one says anything else.
THEOREM VerdictStands == RemSpec => VerdictIsFinal
<1>1. RemTypeOK /\ [RemNext]_remVars => [VerdictKept]_remVars
  BY VerdictStep
<1>2. RemSpec => [][VerdictKept]_remVars
  BY RemTypeCorrect, <1>1, PTL DEF RemSpec
<1>3. QED
  BY <1>2 DEF VerdictIsFinal, VerdictKept

\* Who is checked worked unattended; who is to be rolled back made it worse.
ChecksInOrder ==
  \A e \in Ses :
    /\ outcome[e] # "none" => Unattended(e)
    /\ check[e] \in {"worse", "planned"} => outcome[e] = "made_worse"

LEMMA ChecksStep ==
  RemTypeOK /\ ChecksInOrder /\ [RemNext]_remVars => ChecksInOrder'
<1> SUFFICES ASSUME RemTypeOK, ChecksInOrder, [RemNext]_remVars,
                    NEW e \in Ses
             PROVE  /\ outcome'[e] # "none" => Unattended(e)'
                    /\ check'[e] \in {"worse", "planned"}
                         => outcome'[e] = "made_worse"
  BY DEF ChecksInOrder
<1>1. /\ FixFrame /\ CheckFrame /\ VerdictKept
      /\ outcome \in [Ses -> Verdict \cup {"none", "checking"}]
      /\ check \in [Ses -> {"none", "sent", "judging", "worse", "planned"}]
      /\ fix \in [Ses -> Fix] /\ fix[e] \in Fix /\ fix'[e] \in Fix
  BY FixHolds, CheckHolds, VerdictStep DEF RemTypeOK
<1>2. Unattended(e) => Unattended(e)'
  <2>1. CASE Open(e)
    BY <2>1 DEF Open, Unattended
  <2>2. CASE \/ EndSession(e) \/ SessionDies(e) \/ CancelSession(e)
             \/ Reopen(e) \/ LoseSight(e)
    BY <1>1, <2>2
    DEF EndSession, SessionDies, CancelSession, Reopen, LoseSight, Unattended,
        Fix
  <2>3. QED
    BY <1>1, <2>1, <2>2 DEF FixFrame, Unattended
<1>3. outcome'[e] # "none" => Unattended(e)
  BY <1>1
  DEF ChecksInOrder, CheckFrame, ClaimCheck, TooLate, AbandonCheck, PickCheck,
      Record, CheckDies, RefuseAuto, PlanAuto, ClaimAuto, Resolve, AwaitsCheck,
      Unjudged
<1>4. check'[e] \in {"worse", "planned"} => outcome'[e] = "made_worse"
  BY <1>1
  DEF ChecksInOrder, CheckFrame, ClaimCheck, TooLate, AbandonCheck, PickCheck,
      Record, CheckDies, RefuseAuto, PlanAuto, ClaimAuto, Resolve, CheckAt,
      VerdictKept, Verdict
<1>5. QED
  BY <1>2, <1>3, <1>4

JudgedInv == RemTypeOK /\ Restorable /\ ChecksInOrder /\ AutoRollbackIsJudged

LEMMA JudgedStep == JudgedInv /\ [RemNext]_remVars => AutoRollbackIsJudged'
<1> SUFFICES ASSUME JudgedInv, [RemNext]_remVars,
                    NEW k \in DOMAIN back', back'[k].trigger = "automatic"
             PROVE  /\ outcome'[back'[k].ses] = "made_worse"
                    /\ fix'[back'[k].ses].level = "full_auto"
  BY DEF AutoRollbackIsJudged
<1>1. /\ BackFrame /\ VerdictKept /\ ChecksInOrder' /\ RemTypeOK'
      /\ ChecksInOrder
  BY FramesHold, VerdictStep, ChecksStep, TypeStep DEF JudgedInv, Frames
<1>2. back'[k].ses \in Ses
  <2>1. back'[k] \in Rollback
    BY <1>1 DEF RemTypeOK
  <2>2. QED
    BY <2>1 DEF Rollback
<1>3. outcome[back'[k].ses] = "made_worse"
  BY <1>1, <1>2
  DEF BackFrame, JudgedInv, AutoRollbackIsJudged, ChecksInOrder
<1>4. outcome'[back'[k].ses] = "made_worse"
  BY <1>1, <1>2, <1>3 DEF VerdictKept, Verdict
<1>5. QED
  BY <1>1, <1>2, <1>4 DEF ChecksInOrder, Unattended

\* THEOREM: no host is rolled back on LabDog's own account unless its check
\* found that the fix made things worse, and that verdict still stands.
THEOREM RollbacksAreJudged == RemSpec => []AutoRollbackIsJudged
<1>1. RemInit => ChecksInOrder /\ AutoRollbackIsJudged
  BY DEF RemInit, ChecksInOrder, AutoRollbackIsJudged
<1>2. RemSpec => []JudgedInv
  BY RemTypeCorrect, <1>1, ChecksStep, JudgedStep, PTL DEF RemSpec, JudgedInv
<1>3. JudgedInv => AutoRollbackIsJudged
  BY DEF JudgedInv
<1>4. QED
  BY <1>2, <1>3, PTL

(***************************************************************************)
(* One at a time                                                           *)
(***************************************************************************)

\* A set whose elements are all the same has one at most.
LEMMA AtMostOne ==
  ASSUME NEW S, \A x, y \in S : x = y
  PROVE  Cardinality(S) <= 1
<1>1. CASE S = {}
  BY <1>1, FS_EmptySet
<1>2. CASE S # {}
  <2>1. PICK x \in S : S = {x}
    BY <1>2
  <2>2. QED
    BY <2>1, FS_Singleton
<1>3. QED
  BY <1>1, <1>2

OneRunning ==
  /\ \A j, k \in Running : j = k
  /\ \A k \in DOMAIN back : Shows(k)

LEMMA RunningStep ==
  RemTypeOK /\ Restorable /\ OneRunning /\ [RemNext]_remVars => OneRunning'
<1> SUFFICES ASSUME RemTypeOK, Restorable, OneRunning, [RemNext]_remVars
             PROVE  OneRunning'
  OBVIOUS
<1>1. BackFrame
  BY FramesHold DEF Frames
<1>2. QED
  BY <1>1 DEF BackFrame, OneRunning, Running

\* THEOREM: two rollbacks never restore the host at the same time, whoever
\* starts them and whatever dies, unless a restore outlasts ABANDONED_AFTER.
THEOREM RollbacksAlone == RemSpec => []OneRollbackAtATime
<1>1. RemInit => OneRunning
  BY DEF RemInit, OneRunning, Running
<1>2. OneRunning => OneRollbackAtATime
  <2> SUFFICES ASSUME OneRunning, "slowRollback" \notin May
               PROVE  Cardinality(Running \cup AtWork) <= 1
    BY DEF OneRollbackAtATime
  <2>1. Running \cup AtWork = Running
    BY DEF OneRunning, Shows, Running, AtWork
  <2>2. QED
    BY <2>1, AtMostOne DEF OneRunning
<1>3. QED
  BY RemTypeCorrect, <1>1, <1>2, RunningStep, PTL DEF RemSpec

\* A session whose task works is open, or is yet to hear that it is cancelled.
WorkIsOpen ==
  \A e \in Ses : fix[e].works => fix[e].status \in {"open", "cancelled"}

LEMMA WorkStep == RemTypeOK /\ WorkIsOpen /\ [RemNext]_remVars => WorkIsOpen'
<1> SUFFICES ASSUME RemTypeOK, WorkIsOpen, [RemNext]_remVars, NEW e \in Ses
             PROVE  fix'[e].works => fix'[e].status \in {"open", "cancelled"}
  BY DEF WorkIsOpen
<1>1. FixFrame /\ fix \in [Ses -> Fix] /\ fix[e] \in Fix
  BY FixHolds DEF RemTypeOK
<1>2. CASE Open(e)
  BY <1>1, <1>2 DEF Open
<1>3. CASE \/ EndSession(e) \/ SessionDies(e) \/ CancelSession(e)
           \/ Reopen(e) \/ LoseSight(e)
  BY <1>1, <1>3
  DEF EndSession, SessionDies, CancelSession, Reopen, LoseSight, Fix, WorkIsOpen
<1>4. QED
  BY <1>1, <1>2, <1>3 DEF FixFrame, WorkIsOpen

\* The unattended fixes that are at work or wait for their verdict, of those
\* that the code did not lose sight of.
Waits(e) == Unfinished(e) /\ fix[e].sight = "kept"
OneWaits == \A e, f \in Ses : Waits(e) /\ Waits(f) => e = f

\* Only Open makes a fix one of them, and it does so when there is none.
LEMMA WaitsStep ==
  ASSUME RemTypeOK, Restorable, WorkIsOpen, [RemNext]_remVars, NEW e \in Ses,
         Waits(e)'
  PROVE  Waits(e) \/ (Open(e) /\ \A f \in Ses : ~Waits(f))
<1>1. /\ CallsFrame /\ FixFrame /\ CheckFrame
      /\ outcome \in [Ses -> Verdict \cup {"none", "checking"}]
      /\ fix \in [Ses -> Fix] /\ fix[e] \in Fix
  BY FramesHold, FixHolds, CheckHolds DEF Frames, RemTypeOK
<1>2. outcome'[e] \in {"none", "checking"}
        => outcome[e] \in {"none", "checking"}
  BY VerdictStep, <1>1 DEF VerdictKept, Verdict
<1>3. Changed(e)' => Changed(e) \/ fix[e].works
  BY <1>1 DEF CallsFrame
<1>4. CASE fix'[e] = fix[e]
  BY <1>2, <1>3, <1>4 DEF Waits, Unfinished, Unjudged, Unattended, WorkIsOpen
<1>5. CASE Open(e)
  <2>1. fix'[e].level = "full_auto"
    BY <1>5 DEF Waits, Unfinished, Unjudged, Unattended
  <2>2. ~FullAutoRefused
    BY <1>1, <1>5, <2>1 DEF Open
  <2>3. QED
    BY <1>5, <2>2
    DEF FullAutoRefused, InFlight, AwaitsCheck, InSight, Waits, Unfinished
\* A session that ends was at work, ...
<1>6. CASE EndSession(e)
  <2>1. /\ fix[e].works /\ ~fix'[e].works /\ fix'[e].level = fix[e].level
        /\ fix[e].status = "open" \/ fix'[e].status = fix[e].status
        /\ fix'[e].sight = "kept" => fix[e].sight = "kept"
    BY <1>1, <1>6 DEF EndSession, Fix
  <2>2. QED
    BY <2>1 DEF Waits, Unfinished, Unjudged, Unattended, WorkIsOpen
\* ... and the others' are none any more.
<1>7. CASE SessionDies(e) \/ CancelSession(e)
  <2>1. \/ fix'[e].status = "cancelled"
        \/ /\ fix[e].works /\ ~fix'[e].works
           /\ fix'[e].status = fix[e].status
    BY <1>1, <1>7 DEF SessionDies, CancelSession, Fix
  <2>2. QED
    BY <2>1 DEF Waits, Unfinished, Unjudged, WorkIsOpen
<1>8. CASE Reopen(e) \/ LoseSight(e)
  <2>1. fix'[e].sight # "kept"
    BY <1>1, <1>8 DEF Reopen, LoseSight, Fix
  <2>2. QED
    BY <2>1 DEF Waits
<1>9. QED
  BY <1>1, <1>4, <1>5, <1>6, <1>7, <1>8 DEF FixFrame

LEMMA OneWaitsStep ==
  RemTypeOK /\ Restorable /\ WorkIsOpen /\ OneWaits /\ [RemNext]_remVars
    => OneWaits'
<1> SUFFICES ASSUME RemTypeOK, Restorable, WorkIsOpen, OneWaits,
                    [RemNext]_remVars,
                    NEW e \in Ses, NEW f \in Ses, Waits(e)', Waits(f)'
             PROVE  e = f
  BY DEF OneWaits
<1>1. Waits(e) \/ (Open(e) /\ \A g \in Ses : ~Waits(g))
  BY WaitsStep
<1>2. Waits(f) \/ (Open(f) /\ \A g \in Ses : ~Waits(g))
  BY WaitsStep
<1>3. CASE Open(e) /\ Open(f)
  <2>1. fix \in [Ses -> Fix] /\ fix[e].status = "none" /\ fix[f].status = "none"
    BY <1>3 DEF Open, RemTypeOK
  <2>2. fix'[f] = fix[f] \/ e = f
    BY <1>3, <2>1 DEF Open
  <2>3. e # f => ~Waits(f)'
    BY <2>1, <2>2 DEF Waits, Unfinished, Unjudged, Unattended
  <2>4. QED
    BY <2>3
<1>4. QED
  BY <1>1, <1>2, <1>3 DEF OneWaits

\* THEOREM: whatever alerts come in together, one unattended fix at a time is
\* at work on the host or waits for its verdict, but for those that the code
\* loses sight of: that queued past 7500 seconds, that an operator's message
\* reopened, or that went unchecked for 24 hours.
THEOREM FixesAlone == RemSpec => []OneUnattendedFix
<1>1. RemInit => WorkIsOpen /\ OneWaits
  BY DEF RemInit, WorkIsOpen, OneWaits, Waits, Unfinished, Unjudged, Unattended
<1>2. OneWaits => OneUnattendedFix
  <2> SUFFICES ASSUME OneWaits PROVE OneUnattendedFix
    OBVIOUS
  <2>1. \A x, y \in {e \in Ses : Unfinished(e) /\ fix[e].sight = "kept"} :
          x = y
    BY DEF OneWaits, Waits
  <2>2. QED
    BY <2>1, AtMostOne DEF OneUnattendedFix
<1>3. QED
  BY RemTypeCorrect, <1>1, <1>2, WorkStep, OneWaitsStep, PTL DEF RemSpec

(***************************************************************************)
(* What was undone                                                         *)
(***************************************************************************)

\* The calls of a step: those on the books keep their session and what they
\* hold, what is taken holds the disk, and a call comes after all the others.
Books ==
  /\ DOMAIN toolCalls \subseteq DOMAIN toolCalls'
  /\ \A i \in DOMAIN toolCalls : toolCalls'[i].ses = toolCalls[i].ses
  /\ \A i \in Taken :
       i \in Taken' /\ toolCalls'[i].holds = toolCalls[i].holds
  /\ \A i \in Taken' \ Taken :
       /\ Works(toolCalls'[i].ses)
       /\ toolCalls'[i].holds = disk
       /\ disk' = disk \cup {toolCalls'[i].ses}
  /\ \A i \in DOMAIN toolCalls' \ DOMAIN toolCalls :
       /\ Works(toolCalls'[i].ses)
       /\ \A c \in DOMAIN toolCalls : c < i
       /\ \A c \in DOMAIN toolCalls' \ DOMAIN toolCalls : c = i
       /\ i \in Taken' => Unattended(toolCalls'[i].ses) /\ ~HostBusy
       /\ i \notin Taken' =>
            /\ ~Unattended(toolCalls'[i].ses)
            /\ \A c \in DOMAIN toolCalls :
                 toolCalls[c].ses = toolCalls'[i].ses => c \in Taken

\* What becomes of the disk.
DiskFrame ==
  \/ disk' = disk
  \/ \E i \in Taken' \ Taken : disk' = disk \cup {toolCalls'[i].ses}
  \/ \E k \in DOMAIN back : Restore(k)

LEMMA BooksSame ==
  ASSUME UNCHANGED toolCalls
  PROVE  Books
  BY DEF Books, Taken

LEMMA BooksPruned ==
  ASSUME NEW gone, Delete(gone), RemTypeOK
  PROVE  Books /\ Taken' = Taken
<1>1. \A j \in DOMAIN toolCalls : toolCalls[j] \in ToolCall
  BY DEF RemTypeOK
<1>2. /\ DOMAIN toolCalls' = DOMAIN toolCalls
      /\ \A j \in DOMAIN toolCalls :
           /\ toolCalls'[j].ses = toolCalls[j].ses
           /\ toolCalls'[j].taken = toolCalls[j].taken
           /\ toolCalls'[j].holds = toolCalls[j].holds
  BY <1>1 DEF Delete, ToolCall
<1>3. QED
  BY <1>2 DEF Books, Taken

LEMMA BooksOneMore ==
  ASSUME RemTypeOK, NEW e \in Ses, NEW c \in ToolCall, Works(e),
         c.ses = e, toolCalls' = Append(toolCalls, c),
         c.taken > 0 => /\ c.holds = disk /\ disk' = disk \cup {e}
                        /\ Unattended(e) /\ ~HostBusy,
         ~(c.taken > 0) =>
           /\ ~Unattended(e)
           /\ \A i \in DOMAIN toolCalls : toolCalls[i].ses = e => i \in Taken
  PROVE  Books /\ (c.taken > 0 => Len(toolCalls) + 1 \in Taken' \ Taken
                                  /\ toolCalls'[Len(toolCalls) + 1].ses = e)
<1>1. toolCalls \in Seq(ToolCall) /\ DOMAIN toolCalls = 1..Len(toolCalls)
      /\ Len(toolCalls) \in Nat
  BY LenProperties DEF RemTypeOK
<1>2. /\ DOMAIN toolCalls' = DOMAIN toolCalls \cup {Len(toolCalls) + 1}
      /\ \A j \in DOMAIN toolCalls : toolCalls'[j] = toolCalls[j]
      /\ toolCalls'[Len(toolCalls) + 1] = c
      /\ Len(toolCalls) + 1 \notin DOMAIN toolCalls
  BY <1>1, AddRow
<1>3. \A j \in DOMAIN toolCalls : j < Len(toolCalls) + 1
  BY <1>1
<1>4. QED
  BY <1>2, <1>3 DEF Books, Taken

LEMMA BooksTaken ==
  ASSUME RemTypeOK, NEW i \in DOMAIN toolCalls, NEW c \in ToolCall,
         i \notin Taken, Works(toolCalls[i].ses), c.ses = toolCalls[i].ses,
         c.taken > 0, c.holds = disk, disk' = disk \cup {c.ses},
         toolCalls' = [toolCalls EXCEPT ![i] = c]
  PROVE  Books /\ i \in Taken' \ Taken /\ toolCalls'[i].ses = c.ses
<1>1. toolCalls \in Seq(ToolCall)
  BY DEF RemTypeOK
<1>2. /\ DOMAIN toolCalls' = DOMAIN toolCalls
      /\ \A j \in DOMAIN toolCalls :
           toolCalls'[j] = IF j = i THEN c ELSE toolCalls[j]
  BY <1>1, ReplaceRow
<1>3. QED
  BY <1>2 DEF Books, Taken

LEMMA BooksKept ==
  RemTypeOK /\ [RemNext]_remVars => Books /\ DiskFrame
<1> SUFFICES ASSUME RemTypeOK, [RemNext]_remVars PROVE Books /\ DiskFrame
  OBVIOUS
<1>a. /\ \A i \in DOMAIN toolCalls : toolCalls[i].ses \in Ses
      /\ Len(toolCalls) \in Nat /\ disk \subseteq Ses
  <2>1. \A i \in DOMAIN toolCalls : toolCalls[i] \in ToolCall
    BY DEF RemTypeOK
  <2>2. QED
    BY <2>1 DEF ToolCall, RemTypeOK
<1>1. ASSUME NEW e \in Ses,
             \/ Open(e) \/ EndSession(e) \/ SessionDies(e) \/ CancelSession(e)
             \/ Reopen(e) \/ LoseSight(e) \/ ClaimCheck(e) \/ TooLate(e)
             \/ AbandonCheck(e) \/ PickCheck(e) \/ Record(e) \/ CheckDies(e)
             \/ RefuseAuto(e) \/ PlanAuto(e) \/ ClaimAuto(e)
             \/ RequestRollback(e)
      PROVE  Books /\ DiskFrame
  <2>1. UNCHANGED <<toolCalls, disk>>
    BY <1>1
    DEF Open, EndSession, SessionDies, CancelSession, Reopen, LoseSight,
        ClaimCheck, TooLate, AbandonCheck, PickCheck, Record, CheckDies,
        RefuseAuto, PlanAuto, ClaimAuto, RequestRollback
  <2>2. QED
    BY <2>1, BooksSame DEF DiskFrame
<1>2. ASSUME NEW e \in Ses, Change(e) PROVE Books /\ DiskFrame
  <2>1. Cardinality(Taken) + 1 \in 0..MaxChanges
    BY <1>2, <1>a, TakenCount, RemAssumption DEF Change
  <2>2. /\ Snapshot(e) \in ToolCall /\ Snapshot(e).ses = e
        /\ Snapshot(e).taken > 0 /\ Snapshot(e).holds = disk
    BY <2>1, SnapshotType DEF Snapshot
  <2>3. /\ Works(e) /\ Unattended(e) /\ ~HostBusy /\ disk' = disk \cup {e}
        /\ toolCalls' = Append(toolCalls, Snapshot(e))
    BY <1>2 DEF Change
  <2>4. Books /\ Len(toolCalls) + 1 \in Taken' \ Taken
        /\ toolCalls'[Len(toolCalls) + 1].ses = e
    BY <2>2, <2>3, BooksOneMore
  <2>5. QED
    BY <2>3, <2>4 DEF DiskFrame
<1>3. ASSUME NEW e \in Ses, Propose(e) PROVE Books /\ DiskFrame
  <2> DEFINE c == [Snapshot(e) EXCEPT !.taken = 0, !.holds = {}]
  <2>1. Cardinality(Taken) + 1 \in 0..MaxChanges
    BY <1>3, <1>a, TakenCount, RemAssumption DEF Propose
  <2>2. c \in ToolCall /\ c.ses = e /\ c.taken = 0
    BY <2>1, SnapshotType
  <2>3. /\ Works(e) /\ ~Unattended(e) /\ UNCHANGED disk
        /\ toolCalls' = Append(toolCalls, c)
        /\ \A i \in DOMAIN toolCalls : toolCalls[i].ses = e => i \in Taken
    BY <1>3 DEF Propose
  <2> HIDE DEF c
  <2>4. QED
    BY <2>2, <2>3, BooksOneMore DEF DiskFrame
<1>4. ASSUME NEW i \in DOMAIN toolCalls, Approved(i) PROVE Books /\ DiskFrame
  <2> DEFINE e == toolCalls[i].ses
  <2>1. Cardinality(Taken) + 1 \in 0..MaxChanges
    BY <1>4, <1>a, TakenCount, RemAssumption DEF Approved, RemTypeOK
  <2>2. /\ Snapshot(e) \in ToolCall /\ Snapshot(e).ses = e
        /\ Snapshot(e).taken > 0 /\ Snapshot(e).holds = disk
    BY <1>a, <2>1, SnapshotType DEF Snapshot
  <2>3. /\ i \notin Taken /\ Works(e) /\ disk' = disk \cup {e}
        /\ toolCalls' = [toolCalls EXCEPT ![i] = Snapshot(e)]
    BY <1>4 DEF Approved
  <2>4. Books /\ i \in Taken' \ Taken /\ toolCalls'[i].ses = e
    BY <2>2, <2>3, BooksTaken
  <2>5. QED
    BY <2>3, <2>4 DEF DiskFrame
<1>5. ASSUME NEW k \in DOMAIN back,
             \/ AbandonRollback(k) \/ PickRollback(k) \/ RefuseRestore(k)
             \/ EndRollback(k) \/ RollbackDies(k)
      PROVE  Books /\ DiskFrame
  BY <1>5, BooksSame
  DEF AbandonRollback, PickRollback, RefuseRestore, EndRollback, RollbackDies,
      DiskFrame
<1>6. ASSUME NEW k \in DOMAIN back, FailRestore(k) PROVE Books /\ DiskFrame
  BY <1>6, BooksPruned DEF FailRestore, DiskFrame
<1>7. ASSUME NEW k \in DOMAIN back, Restore(k) PROVE Books /\ DiskFrame
  BY <1>7, BooksPruned DEF Restore, DiskFrame
<1>8. ASSUME NEW i \in DOMAIN toolCalls, Prune(i) PROVE Books /\ DiskFrame
  BY <1>8, BooksPruned DEF Prune, DiskFrame
<1>9. CASE UNCHANGED remVars
  BY <1>9, BooksSame DEF remVars, DiskFrame
<1>10. QED
  BY <1>1, <1>2, <1>3, <1>4, <1>5, <1>6, <1>7, <1>8, <1>9
  DEF RemNext, SweepStep, TaskStep

\* Has a session a call that waits for its answer?
Asks(e) == \E i \in DOMAIN toolCalls : toolCalls[i].ses = e /\ i \notin Taken

\* A session keeps its level; one that has ended is over if it asks, and only
\* an open one works unless cancelled ones do.
SessionsFrame ==
  \A e \in Ses :
    /\ fix[e].status # "none"
         => fix'[e].status # "none" /\ Unattended(e)' = Unattended(e)
    /\ fix[e].status \in {"ended", "cancelled"} /\ Asks(e)
         => fix'[e].status \in {"ended", "cancelled"}
    /\ Works(e) => fix[e].status \notin {"none", "ended", "cancelled"}

LEMMA SessionsKept ==
  ASSUME "cancelledWorks" \notin May, RemTypeOK, [RemNext]_remVars
  PROVE  SessionsFrame
<1>1. FixFrame
  BY FixHolds
<1>2. ASSUME NEW e \in Ses
      PROVE  /\ fix[e].status # "none"
                  => fix'[e].status # "none" /\ Unattended(e)' = Unattended(e)
             /\ fix[e].status \in {"ended", "cancelled"} /\ Asks(e)
                  => fix'[e].status \in {"ended", "cancelled"}
  <2>1. fix \in [Ses -> Fix] /\ fix[e] \in Fix
    BY DEF RemTypeOK
  <2>2. CASE fix'[e] = fix[e]
    BY <2>2 DEF Unattended
  <2>3. CASE Open(e)
    BY <2>3 DEF Open
  <2>4. CASE \/ EndSession(e) \/ SessionDies(e) \/ CancelSession(e)
             \/ LoseSight(e)
    <3>1. /\ fix'[e].level = fix[e].level
          /\ fix[e].status # "none" => fix'[e].status # "none"
          /\ fix[e].status \in {"ended", "cancelled"}
               => fix'[e].status \in {"ended", "cancelled"}
      BY <2>1, <2>4 DEF EndSession, SessionDies, CancelSession, LoseSight, Fix
    <3>2. QED
      BY <3>1 DEF Unattended
  <2>5. CASE Reopen(e)
    <3>1. fix'[e].level = fix[e].level /\ fix'[e].status = "open" /\ ~Asks(e)
      BY <2>1, <2>5 DEF Reopen, Fix, Asks
    <3>2. QED
      BY <3>1 DEF Unattended
  <2>6. QED
    BY <1>1, <2>2, <2>3, <2>4, <2>5 DEF FixFrame
<1>3. \A e \in Ses : Works(e) => fix[e].status = "open"
  BY DEF Works
<1>4. QED
  BY <1>2, <1>3 DEF SessionsFrame

\* How a row of a rollback moves: it succeeds after a restore, its task sets to
\* work when it may, ...
RowFrame(k) ==
  /\ k \in DOMAIN back' /\ back'[k].ses = back[k].ses
  /\ back'[k].to = back[k].to /\ back'[k].at = back[k].at
  /\ ActiveRollback(k)' =>
       \/ ActiveRollback(k) /\ back'[k].status = back[k].status
       \/ /\ back[k].task = "restored" /\ back[k].status = "running"
          /\ UNCHANGED <<disk, toolCalls>>
  /\ back'[k].task = "sent"
       => back[k].task = "sent" /\ back'[k].status = back[k].status
  /\ back'[k].task = "restoring"
       => \/ back[k].task = "restoring"
          \/ back[k].status = "running" /\ RollbackAllowed(back[k].ses, k)
  /\ back'[k].task = "restored" => back[k].task = "restored" \/ Restore(k)

\* ... and a new one starts from the first change of its session.
RowsFrame ==
  /\ \A k \in DOMAIN back : RowFrame(k)
  /\ \A k \in DOMAIN back' \ DOMAIN back :
       /\ ~HostBusy /\ RollbackAllowed(back'[k].ses, 0)
       /\ back'[k].to = FirstChange(back'[k].ses)
       /\ back'[k].at = Len(toolCalls) /\ back'[k].status = "running"
       /\ back'[k].task \in {"sent", "lost", "restoring"}
       /\ UNCHANGED <<disk, toolCalls>>
       /\ \A j \in DOMAIN back' \ DOMAIN back : j = k

LEMMA RowsSame ==
  ASSUME UNCHANGED back
  PROVE  RowsFrame
  BY DEF RowsFrame, RowFrame, ActiveRollback

LEMMA OneRowMoves ==
  ASSUME RemTypeOK, NEW k \in DOMAIN back, NEW status \in RowStatus,
         NEW task \in RowTask, Row(k, status, task),
         status = "running" => back[k].status = "running",
         status = "succeeded" =>
           \/ back[k].status = "succeeded"
           \/ /\ back[k].task = "restored" /\ back[k].status = "running"
              /\ UNCHANGED <<disk, toolCalls>>,
         task = "sent" => back[k].task = "sent" /\ status = back[k].status,
         task = "restoring" =>
           \/ back[k].task = "restoring"
           \/ back[k].status = "running" /\ RollbackAllowed(back[k].ses, k),
         task = "restored" => back[k].task = "restored" \/ Restore(k)
  PROVE  RowsFrame
<1>1. back \in Seq(Rollback) /\ back[k] \in Rollback
  BY DEF RemTypeOK
<1> DEFINE row == [back[k] EXCEPT !.status = status, !.task = task]
<1>2. /\ row \in Rollback /\ row.ses = back[k].ses
      /\ row.at = back[k].at /\ row.to = back[k].to
      /\ row.status = status /\ row.task = task
  BY <1>1 DEF Rollback, RowStatus, RowTask
<1>3. back' = [back EXCEPT ![k] = row]
  BY DEF Row
<1> HIDE DEF row
<1>4. /\ DOMAIN back' = DOMAIN back
      /\ \A j \in DOMAIN back : back'[j] = IF j = k THEN row ELSE back[j]
  BY <1>1, <1>2, <1>3, ReplaceRow
<1>5. ASSUME NEW j \in DOMAIN back, j # k PROVE RowFrame(j)
  BY <1>4, <1>5 DEF RowFrame, ActiveRollback
<1>6. RowFrame(k)
  BY <1>2, <1>4 DEF RowFrame, ActiveRollback
<1>7. QED
  BY <1>4, <1>5, <1>6 DEF RowsFrame

LEMMA RowStarts ==
  ASSUME RemTypeOK, NEW e \in Ses, NEW trigger,
         NEW task \in {"sent", "lost", "restoring"},
         RollbackAllowed(e, 0), ~HostBusy, UNCHANGED <<disk, toolCalls>>,
         back' = Append(back, NewRow(e, trigger, "running", task))
  PROVE  RowsFrame
<1> DEFINE row == NewRow(e, trigger, "running", task)
<1>1. /\ row.ses = e /\ row.to = FirstChange(e) /\ row.at = Len(toolCalls)
      /\ row.status = "running" /\ row.task = task
  BY DEF NewRow, RollbackAllowed
<1> HIDE DEF row
<1>2. back \in Seq(Rollback)
  BY DEF RemTypeOK
<1>3. /\ DOMAIN back' = DOMAIN back \cup {Len(back) + 1}
      /\ \A j \in DOMAIN back : back'[j] = back[j]
      /\ back'[Len(back) + 1] = row
  BY <1>2 DEF row
<1>4. \A j \in DOMAIN back : RowFrame(j)
  BY <1>3 DEF RowFrame, ActiveRollback
<1>5. QED
  BY <1>1, <1>3, <1>4 DEF RowsFrame

LEMMA RowsKept ==
  ASSUME "slowRollback" \notin May, "stalePlan" \notin May,
         RemTypeOK, OneRunning, [RemNext]_remVars
  PROVE  RowsFrame
<1>a. /\ \A i \in DOMAIN toolCalls : toolCalls[i].ses \in Ses
      /\ \A k \in DOMAIN back :
           /\ back[k].ses \in Ses /\ back[k].status \in RowStatus
           /\ back[k].task \in RowTask
           /\ back[k].task \in Working => back[k].status = "running"
      /\ RowStatus = {"running", "succeeded", "failed", "refused"}
      /\ RowTask = {"sent", "lost", "restoring", "restored", "failing",
                    "refusing", "done"}
      /\ Working = {"restoring", "restored", "failing", "refusing"}
  <2>1. /\ \A i \in DOMAIN toolCalls : toolCalls[i] \in ToolCall
        /\ \A k \in DOMAIN back : back[k] \in Rollback
    BY DEF RemTypeOK
  <2>2. QED
    BY <2>1
    DEF ToolCall, Rollback, RowStatus, RowTask, OneRunning, Shows, Working
<1>1. ASSUME NEW e \in Ses,
             \/ Open(e) \/ EndSession(e) \/ SessionDies(e) \/ CancelSession(e)
             \/ Reopen(e) \/ LoseSight(e) \/ ClaimCheck(e) \/ TooLate(e)
             \/ AbandonCheck(e) \/ PickCheck(e) \/ Record(e) \/ CheckDies(e)
             \/ RefuseAuto(e) \/ PlanAuto(e) \/ Change(e) \/ Propose(e)
      PROVE  RowsFrame
  BY <1>1, RowsSame
  DEF Open, EndSession, SessionDies, CancelSession, Reopen, LoseSight,
      ClaimCheck, TooLate, AbandonCheck, PickCheck, Record, CheckDies,
      RefuseAuto, PlanAuto, Change, Propose
<1>2. ASSUME NEW e \in Ses, ClaimAuto(e) PROVE RowsFrame
  BY <1>2, RowStarts DEF ClaimAuto
<1>3. ASSUME NEW e \in Ses, RequestRollback(e) PROVE RowsFrame
  <2>1. PICK task \in {"sent", "lost"} :
          back' = Append(back, NewRow(e, "manual", "running", task))
    BY <1>3 DEF RequestRollback
  <2>2. QED
    BY <1>3, <2>1, RowStarts DEF RequestRollback
<1>4. ASSUME NEW k \in DOMAIN back, PickRollback(k) PROVE RowsFrame
  BY <1>4, <1>a, OneRowMoves DEF PickRollback
<1>5. ASSUME NEW k \in DOMAIN back, RefuseRestore(k) PROVE RowsFrame
  BY <1>5, <1>a, OneRowMoves DEF RefuseRestore
<1>6. ASSUME NEW k \in DOMAIN back, EndRollback(k) PROVE RowsFrame
  BY <1>6, <1>a, OneRowMoves DEF EndRollback
<1>7. ASSUME NEW k \in DOMAIN back, RollbackDies(k) PROVE RowsFrame
  BY <1>7, <1>a, OneRowMoves DEF RollbackDies, AtWork
<1>8. ASSUME NEW k \in DOMAIN back, AbandonRollback(k) PROVE RowsFrame
  BY <1>8, <1>a, OneRowMoves DEF AbandonRollback
<1>9. ASSUME NEW k \in DOMAIN back, FailRestore(k) PROVE RowsFrame
  BY <1>9, <1>a, OneRowMoves DEF FailRestore
<1>10. ASSUME NEW k \in DOMAIN back, Restore(k) PROVE RowsFrame
  BY <1>10, <1>a, OneRowMoves DEF Restore
<1>11. ASSUME NEW i \in DOMAIN toolCalls, Approved(i) \/ Prune(i)
       PROVE  RowsFrame
  BY <1>11, RowsSame DEF Approved, Prune
<1>12. CASE UNCHANGED remVars
  BY <1>12, RowsSame DEF remVars
<1>13. QED
  BY <1>1, <1>2, <1>3, <1>4, <1>5, <1>6, <1>7, <1>8, <1>9, <1>10, <1>11, <1>12
  DEF RemNext, SweepStep, TaskStep

\* A call that waits for its answer is the last of its session, which has one
\* wait for an operator.
CallsInOrder ==
  /\ \A i \in DOMAIN toolCalls : fix[toolCalls[i].ses].status # "none"
  /\ \A i \in DOMAIN toolCalls \ Taken :
       /\ ~Unattended(toolCalls[i].ses)
       /\ \A c \in DOMAIN toolCalls \ {i} :
            toolCalls[c].ses = toolCalls[i].ses => c < i

\* Whose changes are on the host, or in a snapshot, is on the books: not from
\* the first change on, and before it if that was an unattended session's.
OnTheBooks ==
  /\ \A e \in disk : Changed(e)
  /\ \A i \in Taken : \A e \in toolCalls[i].holds :
       /\ Changed(e) /\ i # FirstChange(e)
       /\ Unattended(toolCalls[i].ses) => FirstChange(e) < i

\* A rollback is to the first change of a session which never gets an answer
\* to what it asked before, and no unattended session changes the host while it
\* runs.
RowsInOrder ==
  \A k \in DOMAIN back :
    /\ fix[back[k].ses].status # "none" /\ back[k].at <= Len(toolCalls)
    /\ \A i \in DOMAIN toolCalls \ Taken :
         toolCalls[i].ses = back[k].ses /\ i <= back[k].at
         => fix[back[k].ses].status \in {"ended", "cancelled"}
    /\ Changed(back[k].ses) /\ back[k].to = FirstChange(back[k].ses)
    /\ back[k].task = "sent" => back[k].status = "running"
    /\ back[k].status = "running" =>
         \A i \in Taken : Unattended(toolCalls[i].ses) => i <= back[k].at

\* Its session has changed nothing since, not even if it was written to.
Settled(k) == \A i \in Changes(back[k].ses) : i <= back[k].at

\* A rollback at work is one that check_rollback allows, and it undoes.
MayRestore ==
  \A k \in DOMAIN back :
    /\ back[k].task = "restoring" =>
         /\ \A j \in DOMAIN back \ {k} :
              back[j].ses = back[k].ses => ~ActiveRollback(j)
         /\ ~PassedOver(back[k].ses)
    /\ back[k].task = "restored" /\ Settled(k) => back[k].ses \notin disk

OthersUnattended(k) == \A j \in DOMAIN back \ {k} : Unattended(back[j].ses)

\* What is undone is in no snapshot an unattended session took since.
UndoneStays ==
  \A k \in DOMAIN back :
    back[k].status = "succeeded" /\ OthersUnattended(k) /\ Settled(k) =>
      /\ back[k].ses \notin disk
      /\ \A i \in Taken :
           Unattended(toolCalls[i].ses) /\ back[k].at < i
             => back[k].ses \notin toolCalls[i].holds

UndoneInv ==
  /\ RemTypeOK /\ Restorable /\ OneRunning
  /\ CallsInOrder /\ OnTheBooks /\ RowsInOrder /\ MayRestore /\ UndoneStays

\* Everything the frames say of a step.
UndoneFrame == Books /\ DiskFrame /\ SessionsFrame /\ RowsFrame

\* The sessions of calls and rows are sessions, and calls are numbered.
LEMMA TablesType ==
  ASSUME RemTypeOK
  PROVE  /\ \A i \in DOMAIN toolCalls :
              toolCalls[i].ses \in Ses /\ toolCalls[i].holds \subseteq Ses
         /\ \A k \in DOMAIN back :
              /\ back[k].ses \in Ses /\ back[k].at \in Nat
              /\ back[k].to \in Nat
         /\ disk \subseteq Ses /\ DOMAIN toolCalls \subseteq Nat
         /\ DOMAIN toolCalls = 1..Len(toolCalls) /\ Len(toolCalls) \in Nat
<1>1. /\ \A i \in DOMAIN toolCalls : toolCalls[i] \in ToolCall
      /\ \A k \in DOMAIN back : back[k] \in Rollback
  BY DEF RemTypeOK
<1>2. 0..MaxChanges \subseteq Nat /\ 1..MaxChanges \subseteq Nat
  BY RemAssumption
<1>3. QED
  BY <1>1, <1>2 DEF ToolCall, Rollback, RemTypeOK

\* The first change of a session stays its first.
LEMMA FirstStays ==
  ASSUME RemTypeOK, RemTypeOK', CallsInOrder, Books, NEW e \in Ses, Changed(e)
  PROVE  Changed(e)' /\ FirstChange(e)' = FirstChange(e)
<1>1. /\ FirstChange(e) \in Changes(e) /\ FirstChange(e) \in Nat
      /\ \A c \in Changes(e) : FirstChange(e) <= c
  BY FirstChangeIsIn
<1>2. FirstChange(e) \in Changes(e)'
  BY <1>1 DEF Books, Changes, Taken
<1>3. \A c \in Changes(e)' : FirstChange(e) <= c
  <2> SUFFICES ASSUME NEW c \in Changes(e)' PROVE FirstChange(e) <= c
    OBVIOUS
  <2>1. c \in Taken' /\ c \in DOMAIN toolCalls' /\ toolCalls'[c].ses = e
        /\ FirstChange(e) \in DOMAIN toolCalls
        /\ toolCalls[FirstChange(e)].ses = e
    BY <1>1 DEF Changes, Taken
  <2>2. CASE c \in Taken
    BY <1>1, <2>1, <2>2 DEF Books, Changes, Taken
  <2>3. CASE c \in DOMAIN toolCalls \ Taken
    <3>1. FirstChange(e) # c
      BY <1>1, <2>3 DEF Changes
    <3>2. toolCalls[c].ses = e
      BY <2>1, <2>3 DEF Books
    <3>3. FirstChange(e) < c
      BY <2>1, <2>3, <3>1, <3>2 DEF CallsInOrder
    <3>4. QED
      BY <1>1, <2>3, <3>3, TablesType
  <2>4. CASE c \notin DOMAIN toolCalls
    <3>1. FirstChange(e) < c
      BY <2>1, <2>4 DEF Books
    <3>2. c \in Nat
      BY <2>1 DEF RemTypeOK
    <3>3. QED
      BY <1>1, <3>1, <3>2
  <2>5. QED
    BY <2>2, <2>3, <2>4
<1>4. Changes(e)' \subseteq Nat
  BY DEF RemTypeOK, Changes, Taken
<1>5. Changed(e)'
  BY <1>2 DEF Changed
<1>6. /\ FirstChange(e)' \in Changes(e)'
      /\ \A c \in Changes(e)' : FirstChange(e)' <= c
  BY <1>4, <1>5, MinIsIn DEF FirstChange, Changed
<1>7. FirstChange(e)' <= FirstChange(e) /\ FirstChange(e) <= FirstChange(e)'
      /\ FirstChange(e)' \in Nat
  BY <1>2, <1>3, <1>4, <1>6
<1>8. QED
  BY <1>1, <1>5, <1>7

LEMMA CallsStep ==
  ASSUME RemTypeOK, RemTypeOK', CallsInOrder, UndoneFrame
  PROVE  CallsInOrder'
<1> USE DEF UndoneFrame
<1>a. /\ \A i \in DOMAIN toolCalls : toolCalls[i].ses \in Ses
      /\ Taken \subseteq DOMAIN toolCalls /\ Taken' \subseteq DOMAIN toolCalls'
      /\ \A i \in DOMAIN toolCalls' : toolCalls'[i].ses \in Ses
  <2>1. \A i \in DOMAIN toolCalls : toolCalls[i].ses \in Ses
    BY TablesType
  <2>2. \A i \in DOMAIN toolCalls' : toolCalls'[i] \in ToolCall
    BY DEF RemTypeOK
  <2>3. QED
    BY <2>1, <2>2 DEF Taken, ToolCall
<1>1. ASSUME NEW i \in DOMAIN toolCalls'
      PROVE  fix'[toolCalls'[i].ses].status # "none"
  BY <1>a DEF CallsInOrder, Books, SessionsFrame
<1>2. ASSUME NEW i \in DOMAIN toolCalls' \ Taken'
      PROVE  ~Unattended(toolCalls[i].ses)'
  <2>1. PICK e \in Ses : e = toolCalls'[i].ses
    BY <1>a
  <2>2. fix[e].status # "none" /\ ~Unattended(e)
    BY <1>a, <2>1 DEF CallsInOrder, Books, SessionsFrame
  <2>3. ~Unattended(e)'
    BY <2>2 DEF SessionsFrame
  <2>4. QED
    BY <2>1, <2>3 DEF Unattended
<1>3. ASSUME NEW i \in DOMAIN toolCalls' \ Taken',
             NEW c \in DOMAIN toolCalls' \ {i},
             toolCalls'[c].ses = toolCalls'[i].ses
      PROVE  c < i
  BY <1>a, <1>3 DEF CallsInOrder, Books, SessionsFrame
<1>4. QED
  BY <1>1, <1>2, <1>3 DEF CallsInOrder

LEMMA BooksStep ==
  ASSUME RemTypeOK, RemTypeOK', CallsInOrder, OnTheBooks, RowsInOrder,
         UndoneFrame
  PROVE  OnTheBooks'
<1> USE DEF UndoneFrame
<1>a. /\ \A i \in DOMAIN toolCalls :
           toolCalls[i].ses \in Ses /\ toolCalls[i].holds \subseteq Ses
      /\ Taken \subseteq DOMAIN toolCalls /\ disk \subseteq Ses
      /\ \A k \in DOMAIN back : back[k].ses \in Ses
      /\ \A e \in Ses : Changed(e) =>
           Changed(e)' /\ FirstChange(e)' = FirstChange(e)
           /\ FirstChange(e) \in Taken
  BY TablesType, FirstStays, FirstChangeIsIn DEF Taken, Changes
<1>b. \A i \in DOMAIN toolCalls' :
        toolCalls'[i].ses \in Ses /\ i \in Nat
  <2>1. \A i \in DOMAIN toolCalls' : toolCalls'[i] \in ToolCall /\ i \in Nat
    BY DEF RemTypeOK
  <2>2. QED
    BY <2>1 DEF ToolCall
<1>1. ASSUME NEW e \in disk' PROVE Changed(e)'
  <2>1. CASE e \in disk
    BY <1>a, <2>1 DEF OnTheBooks
  <2>2. CASE \E i \in Taken' \ Taken : e = toolCalls'[i].ses
    BY <2>2 DEF Changed, Changes
  <2>3. ASSUME NEW k \in DOMAIN back, Restore(k) PROVE Changed(e)'
    <3>1. e \in toolCalls[FirstChange(back[k].ses)].holds
      BY <2>3 DEF Restore, RowsInOrder
    <3>2. FirstChange(back[k].ses) \in Taken
      BY <1>a DEF RowsInOrder
    <3>3. QED
      BY <1>a, <3>1, <3>2 DEF OnTheBooks
  <2>4. QED
    BY <2>1, <2>2, <2>3 DEF DiskFrame
<1>2. ASSUME NEW i \in Taken', NEW e \in toolCalls'[i].holds
      PROVE  /\ Changed(e)' /\ i # FirstChange(e)'
             /\ Unattended(toolCalls[i].ses)' => FirstChange(e)' < i
  <2> PICK s \in Ses : s = toolCalls'[i].ses
    BY <1>b DEF Taken
  <2>a. Unattended(toolCalls[i].ses)' = Unattended(s)'
    BY DEF Unattended
  <2>1. CASE i \in Taken
    <3>1. /\ e \in toolCalls[i].holds /\ toolCalls'[i].ses = toolCalls[i].ses
          /\ i \in DOMAIN toolCalls /\ e \in Ses
      BY <1>a, <2>1 DEF Books
    <3>2. Unattended(s)' = Unattended(toolCalls[i].ses)
      BY <1>a, <3>1 DEF SessionsFrame, CallsInOrder
    <3>3. /\ Changed(e) /\ i # FirstChange(e)
          /\ Unattended(toolCalls[i].ses) => FirstChange(e) < i
      BY <2>1, <3>1 DEF OnTheBooks
    <3>4. QED
      BY <1>a, <2>a, <3>1, <3>2, <3>3
  <2>2. CASE i \notin Taken
    <3>1. /\ e \in disk /\ e \in Ses /\ Works(toolCalls'[i].ses)
          /\ i \in DOMAIN toolCalls' /\ toolCalls'[i].ses \in Ses
      BY <1>a, <1>b, <2>2 DEF Books, Taken
    <3>2. /\ Changed(e) /\ Changed(e)' /\ FirstChange(e)' = FirstChange(e)
          /\ FirstChange(e) \in Taken
      BY <1>a, <3>1 DEF OnTheBooks
    <3>3. Unattended(s)' = Unattended(s)
      BY <3>1 DEF SessionsFrame
    <3>4. Unattended(s) => i \notin DOMAIN toolCalls
      BY <2>2 DEF CallsInOrder, Books
    <3>5. i \notin DOMAIN toolCalls => FirstChange(e) < i
      BY <1>a, <3>1, <3>2 DEF Books
    <3>6. QED
      BY <2>2, <2>a, <3>2, <3>3, <3>4, <3>5
  <2>3. QED
    BY <2>1, <2>2
<1>3. QED
  BY <1>1, <1>2 DEF OnTheBooks

\* What a session with a rollback changes from now on comes after the rollback
\* on the books.
LEMMA NewChange ==
  ASSUME RemTypeOK, RemTypeOK', RowsInOrder, UndoneFrame,
         NEW k \in DOMAIN back, NEW i \in Taken' \ Taken,
         toolCalls'[i].ses = back[k].ses
  PROVE  back[k].at < i
<1> USE DEF UndoneFrame
<1>1. /\ DOMAIN toolCalls = 1..Len(toolCalls) /\ Len(toolCalls) \in Nat
      /\ back[k].at \in Nat /\ back[k].ses \in Ses
      /\ i \in DOMAIN toolCalls' /\ i \in Nat /\ i > 0
  <2>1. DOMAIN toolCalls' \subseteq Nat \ {0}
    BY DEF RemTypeOK
  <2>2. QED
    BY <2>1, TablesType DEF Taken
<1>2. back[k].at <= Len(toolCalls)
  BY DEF RowsInOrder
<1>3. CASE i \notin DOMAIN toolCalls
  BY <1>1, <1>2, <1>3
<1>4. CASE i \in DOMAIN toolCalls
  <2>1. Works(back[k].ses) /\ toolCalls[i].ses = back[k].ses
    BY <1>4 DEF Books
  <2>2. fix[back[k].ses].status \notin {"ended", "cancelled"}
    BY <1>1, <2>1 DEF SessionsFrame
  <2>3. ~(i <= back[k].at)
    BY <1>4, <2>1, <2>2 DEF RowsInOrder
  <2>4. QED
    BY <1>1, <2>3
<1>5. QED
  BY <1>3, <1>4

\* A session that has changed nothing since had not before.
LEMMA SettledBefore ==
  ASSUME RemTypeOK, RemTypeOK', RowsInOrder, UndoneFrame,
         NEW k \in DOMAIN back, Settled(k)'
  PROVE  /\ Settled(k)
         /\ \A i \in Taken' \ Taken : toolCalls'[i].ses # back[k].ses
<1> USE DEF UndoneFrame
<1>1. back'[k].ses = back[k].ses /\ back'[k].at = back[k].at
      /\ back[k].at \in Nat
  BY TablesType DEF RowsFrame, RowFrame
<1>2. \A i \in Taken' : toolCalls'[i].ses = back[k].ses => i <= back[k].at
  BY <1>1 DEF Settled, Changes
<1>3. Settled(k)
  BY <1>2 DEF Settled, Changes, Books, Taken
<1>4. ASSUME NEW i \in Taken' \ Taken, toolCalls'[i].ses = back[k].ses
      PROVE  FALSE
  <2>1. back[k].at < i /\ i <= back[k].at /\ i \in Nat
    BY <1>2, <1>4, NewChange DEF Taken, RemTypeOK
  <2>2. QED
    BY <1>1, <2>1
<1>5. QED
  BY <1>3, <1>4

\* The first change of a session is the one its row goes back to, whatever it
\* changes later.
LEMMA RowsStep ==
  ASSUME RemTypeOK, RemTypeOK', CallsInOrder, RowsInOrder, UndoneFrame
  PROVE  RowsInOrder'
<1> USE DEF UndoneFrame
<1>a. /\ \A i \in DOMAIN toolCalls : toolCalls[i].ses \in Ses
      /\ Taken \subseteq DOMAIN toolCalls
      /\ \A k \in DOMAIN back : back[k].ses \in Ses
      /\ \A e \in Ses : Changed(e) =>
           Changed(e)' /\ FirstChange(e)' = FirstChange(e)
      /\ DOMAIN toolCalls = 1..Len(toolCalls) /\ Len(toolCalls) \in Nat
  BY TablesType, FirstStays DEF Taken
<1>b. /\ \A i \in DOMAIN toolCalls' : toolCalls'[i].ses \in Ses
      /\ \A k \in DOMAIN back' : back'[k].ses \in Ses
  <2>1. /\ \A i \in DOMAIN toolCalls' : toolCalls'[i] \in ToolCall
        /\ \A k \in DOMAIN back' : back'[k] \in Rollback
    BY DEF RemTypeOK
  <2>2. QED
    BY <2>1 DEF ToolCall, Rollback
<1>1. ASSUME NEW k \in DOMAIN back'
      PROVE  /\ fix'[back'[k].ses].status # "none"
             /\ Changed(back[k].ses)'
             /\ back'[k].to = FirstChange(back[k].ses)'
             /\ back'[k].task = "sent" => back'[k].status = "running"
  <2> PICK e \in Ses : e = back'[k].ses
    BY <1>b
  <2>1. /\ fix[e].status # "none" /\ Changed(e)
        /\ back'[k].to = FirstChange(e)
        /\ back'[k].task = "sent" => back'[k].status = "running"
    <3>1. CASE k \in DOMAIN back
      BY <3>1 DEF RowsInOrder, RowsFrame, RowFrame
    <3>2. CASE k \notin DOMAIN back
      BY <3>2 DEF RowsFrame, RollbackAllowed
    <3>3. QED
      BY <3>1, <3>2
  <2>2. /\ fix'[e].status # "none" /\ Changed(e)'
        /\ FirstChange(e)' = FirstChange(e)
    BY <1>a, <2>1 DEF SessionsFrame
  <2>3. Changed(back[k].ses)' = Changed(e)'
        /\ FirstChange(back[k].ses)' = FirstChange(e)'
    BY DEF Changed, FirstChange, Changes
  <2>4. QED
    BY <2>1, <2>2, <2>3
<1>2. ASSUME NEW k \in DOMAIN back', back'[k].status = "running",
             NEW i \in Taken', Unattended(toolCalls[i].ses)'
      PROVE  i <= back'[k].at
  <2> PICK s \in Ses : s = toolCalls'[i].ses
    BY <1>b DEF Taken
  <2>a. Unattended(s)'
    BY <1>2 DEF Unattended
  <2>1. CASE k \in DOMAIN back
    <3>1. back[k].status = "running" /\ back'[k].at = back[k].at
      BY <1>2, <2>1 DEF RowsFrame, RowFrame, ActiveRollback
    <3>2. CASE i \in Taken
      <4>1. Unattended(toolCalls[i].ses)
        BY <2>a, <1>a, <3>2 DEF Books, SessionsFrame, CallsInOrder
      <4>2. QED
        BY <2>1, <3>1, <3>2, <4>1 DEF RowsInOrder
    <3>3. CASE i \notin Taken
      <4>1. Works(toolCalls'[i].ses) /\ i \in DOMAIN toolCalls'
        BY <3>3 DEF Books, Taken
      <4>2. Unattended(s)
        BY <2>a, <4>1 DEF SessionsFrame
      <4>3. i \notin DOMAIN toolCalls
        BY <3>3, <4>2 DEF CallsInOrder, Books
      <4>4. ~HostBusy
        BY <4>1, <4>3 DEF Books
      <4>5. QED
        BY <2>1, <3>1, <4>4 DEF HostBusy, Running
    <3>4. QED
      BY <3>2, <3>3
  <2>2. CASE k \notin DOMAIN back
    <3>1. back'[k].at = Len(toolCalls) /\ UNCHANGED toolCalls
      BY <2>2 DEF RowsFrame
    <3>2. QED
      BY <1>a, <3>1 DEF Taken
  <2>3. QED
    BY <2>1, <2>2
<1>3. ASSUME NEW k \in DOMAIN back'
      PROVE  back'[k].at <= Len(toolCalls')
  <2>1. Len(toolCalls) <= Len(toolCalls') /\ Len(toolCalls') \in Nat
    <3>1. /\ DOMAIN toolCalls' = 1..Len(toolCalls') /\ Len(toolCalls') \in Nat
      BY DEF RemTypeOK
    <3>2. QED
      BY <1>a, <3>1 DEF Books
  <2>2. back'[k].at \in Nat /\ back'[k].at <= Len(toolCalls)
    <3>1. CASE k \in DOMAIN back
      BY <3>1, TablesType DEF RowsInOrder, RowsFrame, RowFrame
    <3>2. CASE k \notin DOMAIN back
      BY <1>a, <3>2 DEF RowsFrame
    <3>3. QED
      BY <3>1, <3>2
  <2>3. QED
    BY <1>a, <2>1, <2>2
<1>4. ASSUME NEW k \in DOMAIN back', NEW i \in DOMAIN toolCalls' \ Taken',
             toolCalls'[i].ses = back'[k].ses, i <= back'[k].at
      PROVE  fix'[back'[k].ses].status \in {"ended", "cancelled"}
  <2> PICK e \in Ses : e = back'[k].ses
    BY <1>b
  <2>1. CASE k \in DOMAIN back
    <3>1. back'[k].at = back[k].at /\ back[k].ses = e /\ back[k].at \in Nat
      BY <2>1, TablesType DEF RowsFrame, RowFrame
    <3>2. i \in DOMAIN toolCalls
      <4>1. back[k].at <= Len(toolCalls)
        BY <2>1 DEF RowsInOrder
      <4>2. i \in Nat /\ i > 0
        BY DEF RemTypeOK
      <4>3. QED
        BY <1>a, <1>4, <3>1, <4>1, <4>2
    <3>3. i \notin Taken /\ toolCalls[i].ses = e
      BY <1>4, <3>2 DEF Books
    <3>4. fix[e].status \in {"ended", "cancelled"}
      BY <1>4, <2>1, <3>1, <3>2, <3>3 DEF RowsInOrder
    <3>5. QED
      BY <3>2, <3>3, <3>4 DEF SessionsFrame, Asks
  <2>2. CASE k \notin DOMAIN back
    <3>1. /\ fix[e].status \in {"ended", "cancelled"} /\ UNCHANGED toolCalls
      BY <2>2 DEF RowsFrame, RollbackAllowed
    <3>2. Asks(e)
      BY <1>4, <3>1 DEF Asks, Taken
    <3>3. QED
      BY <3>1, <3>2 DEF SessionsFrame
  <2>3. QED
    BY <2>1, <2>2
<1>5. QED
  BY <1>1, <1>2, <1>3, <1>4 DEF RowsInOrder

\* While a rollback works on the host nobody starts another; the session it
\* undoes may change the host at most anew.
LEMMA RestoreStep ==
  ASSUME RemTypeOK, RemTypeOK', OneRunning, "slowRollback" \notin May,
         CallsInOrder, OnTheBooks, RowsInOrder, MayRestore, UndoneFrame
  PROVE  MayRestore'
<1> USE DEF UndoneFrame
<1>a. /\ \A i \in DOMAIN toolCalls : toolCalls[i].ses \in Ses
      /\ Taken \subseteq DOMAIN toolCalls
      /\ \A k \in DOMAIN back : back[k].ses \in Ses
      /\ \A e \in Ses : Changed(e) =>
           /\ Changed(e)' /\ FirstChange(e)' = FirstChange(e)
           /\ FirstChange(e) \in Taken
  BY TablesType, FirstStays, FirstChangeIsIn DEF Taken, Changes
<1>b. \A k \in DOMAIN back' : back'[k].ses \in Ses
  <2>1. \A k \in DOMAIN back' : back'[k] \in Rollback
    BY DEF RemTypeOK
  <2>2. QED
    BY <2>1 DEF Rollback
<1>c. \A k \in DOMAIN back :
        back[k].task \in {"restoring", "restored"} => back[k].status = "running"
  BY DEF OneRunning, Shows, Working
\* Nobody else gets in while a rollback runs.
<1>d. ASSUME NEW k \in DOMAIN back, back[k].status = "running",
             NEW j \in DOMAIN back', ActiveRollback(j)', j # k
      PROVE  j \in DOMAIN back /\ ActiveRollback(j)
  <2>1. j \in DOMAIN back
    BY <1>d DEF RowsFrame, HostBusy, Running
  <2>2. ActiveRollback(j) \/ back[j].status = "running"
    BY <1>d, <2>1 DEF RowsFrame, RowFrame
  <2>3. QED
    BY <2>1, <2>2 DEF ActiveRollback
<1>1. ASSUME NEW k \in DOMAIN back', back'[k].task = "restoring"
      PROVE  /\ \A j \in DOMAIN back' \ {k} :
                  back'[j].ses = back'[k].ses => ~ActiveRollback(j)'
             /\ ~PassedOver(back[k].ses)'
  <2> PICK e \in Ses : e = back'[k].ses
    BY <1>b
  <2>1. CASE k \in DOMAIN back
    <3>1. /\ back[k].status = "running" /\ back[k].ses = e /\ Changed(e)
          /\ \A j \in DOMAIN back \ {k} :
               back[j].ses = e => ~ActiveRollback(j)
          /\ ~PassedOver(e)
      <4>1. \/ back[k].task = "restoring"
            \/ back[k].status = "running" /\ RollbackAllowed(back[k].ses, k)
        BY <1>1, <2>1 DEF RowsFrame, RowFrame
      <4>2. back[k].ses = e /\ Changed(e)
        BY <2>1 DEF RowsFrame, RowFrame, RowsInOrder
      <4>3. QED
        BY <1>c, <2>1, <4>1, <4>2 DEF MayRestore, RollbackAllowed
    <3>2. ASSUME NEW j \in DOMAIN back' \ {k}, back'[j].ses = e,
                 ActiveRollback(j)'
          PROVE  FALSE
      BY <1>d, <2>1, <3>1, <3>2 DEF RowsFrame, RowFrame
    <3>3. ASSUME NEW j \in DOMAIN back', back'[j].ses # e, ActiveRollback(j)'
          PROVE  ~(/\ back'[j].at >= FirstChange(e)'
                   /\ back'[j].to < FirstChange(e)')
      <4>1. j \in DOMAIN back /\ ActiveRollback(j)
        BY <1>d, <2>1, <3>1, <3>3
      <4>2. /\ back'[j].ses = back[j].ses /\ back'[j].at = back[j].at
            /\ back'[j].to = back[j].to
        BY <4>1 DEF RowsFrame, RowFrame
      <4>3. QED
        BY <1>a, <3>1, <3>3, <4>1, <4>2 DEF PassedOver
    <3>4. ~PassedOver(e)'
      BY <3>3 DEF PassedOver
    <3>5. QED
      BY <3>2, <3>4 DEF PassedOver, FirstChange, Changes
  <2>2. CASE k \notin DOMAIN back
    <3>1. RollbackAllowed(e, 0) /\ ~HostBusy /\ UNCHANGED toolCalls
          /\ back'[k].at = Len(toolCalls)
      BY <2>2 DEF RowsFrame
    <3>2. Changed(e) /\ ~PassedOver(e) /\ FirstChange(e)' = FirstChange(e)
      BY <1>a, <3>1 DEF RollbackAllowed
    <3>3. ASSUME NEW j \in DOMAIN back' \ {k}, ActiveRollback(j)'
          PROVE  /\ j \in DOMAIN back /\ ActiveRollback(j)
                 /\ back'[j].ses = back[j].ses /\ back'[j].at = back[j].at
                 /\ back'[j].to = back[j].to
      <4>1. j \in DOMAIN back
        BY <2>2, <3>3 DEF RowsFrame
      <4>2. back[j].status # "running"
        BY <3>1, <4>1 DEF HostBusy, Running
      <4>3. QED
        BY <3>3, <4>1, <4>2 DEF RowsFrame, RowFrame
    <3>4. 0 \notin DOMAIN back
      BY DEF RemTypeOK
    <3>5. \A j \in DOMAIN back' \ {k} :
            back'[j].ses = e => ~ActiveRollback(j)'
      BY <3>1, <3>3, <3>4 DEF RollbackAllowed
    <3>6. ~PassedOver(e)'
      BY <3>2, <3>3 DEF PassedOver
    <3>7. QED
      BY <3>5, <3>6 DEF PassedOver, FirstChange, Changes
  <2>3. QED
    BY <2>1, <2>2
<1>2. ASSUME NEW k \in DOMAIN back', back'[k].task = "restored", Settled(k)'
      PROVE  back'[k].ses \notin disk'
  <2>1. k \in DOMAIN back /\ back'[k].ses = back[k].ses
    BY <1>2 DEF RowsFrame, RowFrame
  <2>2. /\ back[k].to = FirstChange(back[k].ses) /\ Changed(back[k].ses)
        /\ Settled(k)
        /\ \A i \in Taken' \ Taken : toolCalls'[i].ses # back[k].ses
    BY <1>2, <2>1, SettledBefore DEF RowsInOrder
  <2>3. ASSUME Restore(k) PROVE back[k].ses \notin disk'
    <3>1. disk' = toolCalls[FirstChange(back[k].ses)].holds
      BY <2>2, <2>3 DEF Restore
    <3>2. FirstChange(back[k].ses) \in Taken
      BY <1>a, <2>1, <2>2
    <3>3. QED
      BY <3>1, <3>2 DEF OnTheBooks
  <2>4. CASE back[k].task = "restored"
    <3>1. back[k].ses \notin disk /\ back[k].status = "running"
      BY <1>c, <2>1, <2>2, <2>4 DEF MayRestore
    <3>2. ASSUME NEW j \in DOMAIN back, Restore(j) PROVE FALSE
      <4>1. back[j].task = "restoring" /\ back[j].status = "running"
        BY <1>c, <3>2 DEF Restore
      <4>2. j = k
        BY <2>1, <3>1, <4>1 DEF OneRunning, Running
      <4>3. QED
        BY <2>4, <4>1, <4>2
    <3>3. QED
      BY <2>1, <2>2, <3>1, <3>2 DEF DiskFrame
  <2>5. QED
    BY <1>2, <2>1, <2>3, <2>4 DEF RowsFrame, RowFrame
<1>3. QED
  BY <1>1, <1>2 DEF MayRestore

\* A restore that went behind the back of the rollback that undid a session
\* would be of a call between that session's first change and its rollback,
\* which check_rollback refuses, or of one before both, which is the older.
LEMMA UndoneStep ==
  ASSUME RemTypeOK, RemTypeOK', OneRunning, "slowRollback" \notin May,
         CallsInOrder, OnTheBooks, RowsInOrder, MayRestore, UndoneStays,
         UndoneFrame
  PROVE  UndoneStays'
<1> USE DEF UndoneFrame
<1>a. /\ \A i \in DOMAIN toolCalls : toolCalls[i].ses \in Ses
      /\ Taken \subseteq DOMAIN toolCalls
      /\ \A k \in DOMAIN back :
           back[k].ses \in Ses /\ back[k].at \in Nat /\ back[k].to \in Nat
      /\ \A e \in Ses : Changed(e) =>
           /\ FirstChange(e) \in Changes(e) /\ FirstChange(e) \in Taken
           /\ FirstChange(e) \in Nat
  BY TablesType, FirstChangeIsIn DEF Taken, Changes
<1>b. \A i \in DOMAIN toolCalls' : toolCalls'[i].ses \in Ses
  <2>1. \A i \in DOMAIN toolCalls' : toolCalls'[i] \in ToolCall
    BY DEF RemTypeOK
  <2>2. QED
    BY <2>1 DEF ToolCall
<1> SUFFICES ASSUME NEW k \in DOMAIN back', back'[k].status = "succeeded",
                    OthersUnattended(k)', Settled(k)'
             PROVE  /\ back'[k].ses \notin disk'
                    /\ \A i \in Taken' :
                         Unattended(toolCalls[i].ses)' /\ back'[k].at < i
                           => back'[k].ses \notin toolCalls'[i].holds
  BY DEF UndoneStays
<1>1. /\ k \in DOMAIN back /\ back'[k].ses = back[k].ses
      /\ back'[k].at = back[k].at /\ back[k].ses \in Ses
      /\ Settled(k)
      /\ \A i \in Taken' \ Taken : toolCalls'[i].ses # back[k].ses
  <2>1. k \in DOMAIN back
    BY DEF RowsFrame
  <2>2. QED
    BY <1>a, <2>1, SettledBefore DEF RowsFrame, RowFrame
<1>2. OthersUnattended(k)
  <2> SUFFICES ASSUME NEW j \in DOMAIN back \ {k}
               PROVE  Unattended(back[j].ses)
    BY DEF OthersUnattended
  <2>1. PICK f \in Ses : f = back[j].ses
    BY <1>a
  <2>2. j \in DOMAIN back' /\ back'[j].ses = f /\ fix[f].status # "none"
    BY <2>1 DEF RowsFrame, RowFrame, RowsInOrder
  <2>3. Unattended(f)'
    BY <2>2 DEF OthersUnattended, Unattended
  <2>4. QED
    BY <2>1, <2>2, <2>3 DEF SessionsFrame
<1>3. ASSUME NEW i \in Taken, Unattended(toolCalls[i].ses)'
      PROVE  Unattended(toolCalls[i].ses)
  <2>1. PICK s \in Ses : s = toolCalls[i].ses
    BY <1>a
  <2>2. toolCalls'[i].ses = s /\ fix[s].status # "none"
    BY <1>a, <2>1 DEF Books, CallsInOrder
  <2>3. Unattended(s)'
    BY <1>3, <2>2 DEF Unattended
  <2>4. QED
    BY <2>1, <2>2, <2>3 DEF SessionsFrame
<1>4. CASE back[k].status = "succeeded"
  <2>1. /\ back[k].ses \notin disk
        /\ \A i \in Taken :
             Unattended(toolCalls[i].ses) /\ back[k].at < i
               => back[k].ses \notin toolCalls[i].holds
    BY <1>1, <1>2, <1>4 DEF UndoneStays
  <2>2. ASSUME NEW i \in Taken' \ Taken
        PROVE  toolCalls'[i].ses # back[k].ses /\ toolCalls'[i].holds = disk
    BY <1>1 DEF Books
  <2>3. ASSUME NEW j \in DOMAIN back, Restore(j) PROVE back[k].ses \notin disk'
    <3> PICK f \in Ses : f = back[j].ses
      BY <1>a
    <3>1. /\ back[j].task = "restoring" /\ back[j].status = "running"
          /\ disk' = toolCalls[back[j].to].holds
      BY <2>3 DEF Restore, OneRunning, Shows, Working
    <3>2. Unattended(f) /\ j # k
      BY <1>2, <1>4, <3>1 DEF OthersUnattended
    <3>3. /\ back[j].to = FirstChange(f) /\ Changed(f)
          /\ back[k].to = FirstChange(back[k].ses) /\ Changed(back[k].ses)
      BY <1>1 DEF RowsInOrder
    <3>4. /\ FirstChange(f) \in Taken /\ toolCalls[FirstChange(f)].ses = f
          /\ FirstChange(f) \in Nat /\ FirstChange(back[k].ses) \in Nat
      BY <1>a, <1>1, <3>3 DEF Changes
    <3>5. f # back[k].ses /\ ~PassedOver(f)
      BY <1>1, <1>4, <3>1, <3>2 DEF MayRestore, ActiveRollback
    <3>6. CASE back[k].at < FirstChange(f)
      BY <2>1, <3>1, <3>2, <3>3, <3>4, <3>6
    <3>7. CASE ~(back[k].at < FirstChange(f))
      <4>1. back[k].at >= FirstChange(f)
        BY <1>a, <1>1, <3>4, <3>7
      <4>2. ~(back[k].to < FirstChange(f))
        BY <1>1, <1>4, <3>5, <4>1 DEF PassedOver, ActiveRollback
      <4>3. back[k].ses \in toolCalls[FirstChange(f)].holds
              => FirstChange(back[k].ses) < FirstChange(f)
        BY <3>2, <3>4 DEF OnTheBooks
      <4>4. QED
        BY <3>1, <3>3, <4>2, <4>3
    <3>8. QED
      BY <3>6, <3>7
  <2>4. back[k].ses \notin disk'
    BY <2>1, <2>2, <2>3 DEF DiskFrame
  <2>5. ASSUME NEW i \in Taken', Unattended(toolCalls[i].ses)',
               back[k].at < i
        PROVE  back[k].ses \notin toolCalls'[i].holds
    <3>1. CASE i \in Taken
      BY <1>3, <2>1, <2>5, <3>1 DEF Books
    <3>2. CASE i \notin Taken
      BY <2>1, <2>2, <3>2
    <3>3. QED
      BY <3>1, <3>2
  <2>6. QED
    BY <1>1, <2>4, <2>5
<1>5. CASE back[k].status # "succeeded"
  <2>1. /\ back[k].task = "restored" /\ back[k].status = "running"
        /\ UNCHANGED <<disk, toolCalls>>
    BY <1>1, <1>5 DEF RowsFrame, RowFrame, ActiveRollback
  <2>2. back[k].ses \notin disk
    BY <1>1, <2>1 DEF MayRestore
  <2>3. ASSUME NEW i \in Taken', Unattended(toolCalls[i].ses)',
               back[k].at < i
        PROVE  FALSE
    <3>1. i \in Taken /\ i \in Nat
      BY <2>1, TablesType DEF Taken
    <3>2. Unattended(toolCalls[i].ses)
      BY <1>3, <2>3, <3>1
    <3>3. i <= back[k].at
      BY <1>1, <2>1, <3>1, <3>2 DEF RowsInOrder
    <3>4. QED
      BY <1>a, <1>1, <2>3, <3>1, <3>3
  <2>4. QED
    BY <1>1, <2>1, <2>2, <2>3
<1>6. QED
  BY <1>4, <1>5

\* THEOREM: what a rollback undid comes back only by a rollback of a session
\* that asked somebody, as long as no rollback outlasts ABANDONED_AFTER, no
\* command of a cancelled session still runs, and between the plan of an
\* automatic rollback and its claim no host is rolled back and no session
\* reopened.  A session that is written to later may change the host anew.
THEOREM UndoneStaysOff ==
  ASSUME "slowRollback" \notin May, "cancelledWorks" \notin May,
         "stalePlan" \notin May
  PROVE  RemSpec => []UndoneStaysUnattended
<1>1. RemInit => /\ OneRunning /\ CallsInOrder /\ OnTheBooks
                 /\ RowsInOrder /\ MayRestore /\ UndoneStays
  BY DEF RemInit, OneRunning, Running, CallsInOrder, OnTheBooks, RowsInOrder,
         MayRestore, UndoneStays, Taken
<1>2. UndoneInv /\ [RemNext]_remVars => UndoneInv'
  <2> SUFFICES ASSUME UndoneInv, [RemNext]_remVars PROVE UndoneInv'
    OBVIOUS
  <2>1. RemTypeOK' /\ Restorable' /\ OneRunning'
    BY TypeStep, RunningStep DEF UndoneInv
  <2>2. UndoneFrame
    BY BooksKept, SessionsKept, RowsKept DEF UndoneInv, UndoneFrame
  <2>3. CallsInOrder' /\ OnTheBooks' /\ RowsInOrder'
    BY <2>1, <2>2, CallsStep, BooksStep, RowsStep DEF UndoneInv
  <2>4. MayRestore' /\ UndoneStays'
    BY <2>1, <2>2, RestoreStep, UndoneStep DEF UndoneInv
  <2>5. QED
    BY <2>1, <2>3, <2>4 DEF UndoneInv
<1>3. UndoneInv => UndoneStaysUnattended
  BY DEF UndoneInv, UndoneStays, UndoneStaysUnattended, OthersUnattended,
         Settled
<1>4. RemSpec => []UndoneInv
  BY RemTypeCorrect, <1>1, <1>2, PTL DEF RemSpec, UndoneInv
<1>5. QED
  BY <1>3, <1>4, PTL
=============================================================================
