--------------------------- MODULE SyncStatus_proofs ---------------------------
(***************************************************************************)
(* Proofs about SyncStatus, for any modules and any bounds.                *)
(***************************************************************************)
EXTENDS SyncStatus, TLAPS

(***************************************************************************)
(* What is written                                                         *)
(***************************************************************************)

LEMMA DirtyIs ==
  \A loaded, new : Dirty(loaded, new) = "none" \/ Dirty(loaded, new) = new
  BY DEF Dirty

LEMMA FlushIs ==
  \A old, loaded, new :
    Flush(old, loaded, new) = old \/ Flush(old, loaded, new) = new
  BY DEF Flush, Write, Dirty

LEMMA SummaryType == \A rows : Summary(rows) \in Badge
  BY DEF Summary, Badge, Verdicts

LEMMA CompareType ==
  \A has, wants : /\ Compare(has, wants) \in Verdicts
                  /\ Compare(has, wants) \in Badge
  BY DEF Compare, Verdicts, Badge

LEMMA NoneType == NoOp \in Op /\ NoProbe \in Probe
  BY StatusAssumption
  DEF NoOp, NoProbe, Op, Probe, Version, Badge, ModuleStatus

LEMMA FoundType ==
  ASSUME StatusTypeOK, NEW c \in Checker, NEW found \in Badge \cup {"none"},
         NEW summary \in Badge \cup {"none"}, Found(c, found, summary)
  PROVE  probe' \in [Checker -> Probe]
<1> DEFINE x == Dirty(probe[c].row, found)
           y == Dirty(probe[c].shown, summary)
<1>1. x \in Badge \cup {"none"} /\ y \in Badge \cup {"none"}
  BY DirtyIs
<1>2. probe[c] \in Probe
  BY DEF StatusTypeOK
<1>3. probe[c].stamp \in 0..(MaxEdits + MaxOps)
  BY <1>2 DEF Probe
<1>4. probe' = [probe EXCEPT ![c] =
        [NoProbe EXCEPT !.pc = "found", !.stamp = probe[c].stamp,
                        !.found = x, !.summary = y]]
  BY DEF Found
<1> HIDE DEF x, y
<1>5. [NoProbe EXCEPT !.pc = "found", !.stamp = probe[c].stamp,
                      !.found = x, !.summary = y] \in Probe
  BY <1>1, <1>3, NoneType DEF Probe
<1>6. QED
  BY <1>4, <1>5 DEF StatusTypeOK

LEMMA LoadType ==
  ASSUME StatusTypeOK, NEW m \in Module, NEW s \in {"sweep", "operator"},
         Load(<<m, s>>)
  PROVE  probe' \in [Checker -> Probe]
<1> DEFINE c == <<m, s>>
           n == IF c[2] = "sweep" THEN edits + asked ELSE 0
<1>1. c \in Checker /\ c[1] = m
  BY DEF Checker
<1>2. n \in 0..(MaxEdits + MaxOps)
  BY StatusAssumption DEF StatusTypeOK
<1>3. desired[m] \in Version /\ hms[m] \in ModuleStatus /\ badge \in Badge
  BY DEF StatusTypeOK
<1> HIDE DEF n
<1>4. [NoProbe EXCEPT !.pc = "connect", !.wants = desired[m], !.row = hms[m],
                      !.shown = badge, !.stamp = n] \in Probe
  BY <1>2, <1>3, NoneType DEF Probe
<1>5. probe' = [probe EXCEPT ![c] =
        [NoProbe EXCEPT !.pc = "connect", !.wants = desired[m], !.row = hms[m],
                        !.shown = badge, !.stamp = n]]
  BY <1>1 DEF Load, n
<1>6. QED
  BY <1>1, <1>4, <1>5 DEF StatusTypeOK

LEMMA CommitsType ==
  ASSUME StatusTypeOK, NEW c \in Checker, Commits(c)
  PROVE  /\ hms' \in [Module -> ModuleStatus] /\ badge' \in Badge
         /\ probe' \in [Checker -> Probe]
<1>1. probe[c] \in Probe
  BY DEF StatusTypeOK
<1>2. probe[c].found \in Badge \cup {"none"}
      /\ probe[c].summary \in Badge \cup {"none"}
  BY <1>1 DEF Probe
<1>3. \A old \in ModuleStatus : Write(old, probe[c].found) \in ModuleStatus
  BY <1>2 DEF Write, ModuleStatus
<1>4. hms' \in [Module -> ModuleStatus]
  BY <1>3 DEF Commits, StatusTypeOK
<1>5. badge' \in Badge
  BY <1>2 DEF Commits, StatusTypeOK, Write
<1>6. probe' \in [Checker -> Probe]
  BY NoneType DEF Commits, StatusTypeOK
<1>7. QED
  BY <1>4, <1>5, <1>6

LEMMA ClaimType ==
  ASSUME StatusTypeOK, NEW kind \in {"sync", "collect", "drift", "action"},
         NEW on \in SUBSET Module, Claim(kind, on)
  PROVE  op' \in Op /\ asked' \in 0..MaxOps
<1> DEFINE s == IF kind = "sync" THEN NoOp.shown ELSE badge
<1>1. s \in Badge
  BY DEF NoOp, Badge, StatusTypeOK
<1>2. op' = [NoOp EXCEPT !.kind = kind, !.on = on, !.alive = TRUE, !.shown = s]
  BY DEF Claim
<1> HIDE DEF s
<1>3. op' \in Op
  BY <1>1, <1>2, NoneType DEF Op
<1>4. QED
  BY <1>3, StatusAssumption DEF Claim, StatusTypeOK

LEMMA OutcomeType ==
  ASSUME StatusTypeOK, NEW failed, Outcome(failed)
  PROVE  hms' \in [Module -> ModuleStatus]
  BY DEF Outcome, StatusTypeOK, ModuleStatus, Badge, Verdicts

(***************************************************************************)
(* Type correctness                                                        *)
(***************************************************************************)

\* Every step keeps the types.
LEMMA TypeStep == StatusTypeOK /\ [StatusNext]_statusVars => StatusTypeOK'
<1> SUFFICES ASSUME StatusTypeOK, [StatusNext]_statusVars PROVE StatusTypeOK'
  OBVIOUS
<1> USE DEF StatusTypeOK
<1>a. op \in Op /\ op.on \in SUBSET Module /\ op.plan \in [Module -> Version]
      /\ op.shown \in Badge /\ op.failed \in SUBSET Module
  BY DEF Op
<1>b. /\ Badge = {"unknown", "error", "in_sync", "out_of_sync"}
      /\ ModuleStatus =
           {"running", "unknown", "error", "in_sync", "out_of_sync"}
      /\ \A v \in Verdicts : v \in Badge /\ v \in ModuleStatus
  BY DEF Badge, ModuleStatus, Verdicts
<1>c. \A m \in Module, s \in {"sweep", "operator"} : <<m, s>> \in Checker
  BY DEF Checker
<1>1. ASSUME NEW m \in Module, Edit(m) \/ EditReference(m) \/ ChangeByHand(m)
      PROVE  StatusTypeOK'
  <2>1. edits' \in 0..MaxEdits /\ edits' = edits + 1
    BY <1>1, StatusAssumption DEF Edit, EditReference, ChangeByHand
  <2>2. desired' \in [Module -> Version]
    BY <1>1, <2>1 DEF Edit, EditReference, ChangeByHand, Version
  <2>3. actual' \in [Module -> Version \cup {Other}]
    BY <1>1 DEF Edit, EditReference, ChangeByHand
  <2>4. hms' \in [Module -> ModuleStatus]
    BY <1>1, <1>b DEF Edit, EditReference, ChangeByHand
  <2>5. QED
    BY <1>1, <2>1, <2>2, <2>3, <2>4 DEF Edit, EditReference, ChangeByHand
<1>2. CASE Outage
  BY <1>2 DEF Outage
<1>3. ASSUME NEW m \in Module, Toggle(m) PROVE StatusTypeOK'
  BY <1>3, StatusAssumption DEF Toggle
<1>4. CASE ClaimSync
  <2>1. PICK on \in SUBSET Module : Claim("sync", on)
          /\ hms' = [m \in Module |-> IF m \in on THEN "running" ELSE hms[m]]
          /\ UNCHANGED <<desired, actual, badge, enabled, probe, outage, edits>>
    BY <1>4 DEF ClaimSync
  <2>2. QED
    BY <2>1, <1>b, ClaimType
<1>5. CASE ClaimCollect \/ ClaimDrift \/ ClaimAction
  <2>1. op' \in Op /\ asked' \in 0..MaxOps
    BY <1>5, ClaimType DEF ClaimCollect, ClaimDrift, ClaimAction
  <2>2. QED
    BY <1>5, <2>1 DEF ClaimCollect, ClaimDrift, ClaimAction
<1>6. CASE Play
  <2>1. op' \in Op
    BY <1>6, <1>a DEF Play, Op
  <2>2. actual' \in [Module -> Version \cup {Other}]
    BY <1>6 DEF Play
  <2>3. QED
    BY <1>6, <2>1, <2>2 DEF Play
<1>7. CASE EndPlay
  <2>1. PICK failed \in SUBSET op.on :
          /\ op' = [op EXCEPT !.kind = "played", !.failed = failed,
                              !.plan = NoOp.plan]
          /\ actual' = [m \in Module |-> IF m \in op.on \ failed THEN op.plan[m]
                                         ELSE actual[m]]
    BY <1>7 DEF EndPlay
  <2>2. NoOp.plan \in [Module -> Version] /\ failed \in SUBSET Module
    BY <1>a, NoneType DEF Op
  <2>3. op' \in Op
    BY <1>a, <2>1, <2>2 DEF Op
  <2>4. actual' \in [Module -> Version \cup {Other}]
    BY <1>a, <2>1
  <2>5. QED
    BY <1>7, <2>3, <2>4 DEF EndPlay
<1>8. CASE BreakPlay
  <2>1. NoOp.plan \in [Module -> Version]
    BY NoneType DEF Op
  <2>2. op' \in Op
    BY <1>8, <1>a, <2>1 DEF BreakPlay, Op
  <2>3. QED
    BY <1>8, <2>2 DEF BreakPlay
<1>9. CASE FinaliseSync
  BY <1>9, NoneType, OutcomeType DEF FinaliseSync
<1>10. CASE Collect
  <2>1. hms' \in [Module -> ModuleStatus]
    BY <1>10, <1>b, CompareType DEF Collect
  <2>2. badge' \in Badge
    BY <1>10, <1>b, SummaryType, FlushIs DEF Collect
  <2>3. QED
    BY <1>10, <2>1, <2>2, NoneType DEF Collect
<1>11. CASE CheckClaimed
  <2>1. hms' \in [Module -> ModuleStatus]
    BY <1>11, <1>b, CompareType DEF CheckClaimed
  <2>2. badge' \in Badge
    BY <1>11, <1>b, SummaryType, FlushIs DEF CheckClaimed
  <2>3. QED
    BY <1>11, <2>1, <2>2, NoneType DEF CheckClaimed
<1>12. CASE EndAction
  <2>1. actual' \in [Module -> Version \cup {Other}]
    BY <1>12 DEF EndAction
  <2>2. badge' \in Badge
    BY <1>12, <1>b, FlushIs DEF EndAction
  <2>3. QED
    BY <1>12, <2>1, <2>2, NoneType DEF EndAction
<1>13. CASE WorkerDied
  <2>1. op' \in Op
    BY <1>13, <1>a, NoneType DEF WorkerDied, Op
  <2>2. QED
    BY <1>13, <2>1 DEF WorkerDied
<1>14. CASE SweepOp
  BY <1>14, NoneType, OutcomeType DEF SweepOp
<1>15. ASSUME NEW m \in Module, StartSweep(m) PROVE StatusTypeOK'
  BY <1>15, LoadType DEF StartSweep
<1>16. ASSUME NEW m \in Module, AskCheck(m) PROVE StatusTypeOK'
  <2>1. probe' \in [Checker -> Probe]
    BY <1>16, LoadType DEF AskCheck
  <2>2. asked' \in 0..MaxOps
    BY <1>16, StatusAssumption DEF AskCheck
  <2>3. QED
    BY <1>16, <2>1, <2>2 DEF AskCheck
<1>17. ASSUME NEW m \in Module, NEW s \in {"sweep", "operator"}, Sees(<<m, s>>)
       PROVE  StatusTypeOK'
  <2> DEFINE c == <<m, s>>
  <2>1. PICK found \in Badge \cup {"none"}, summary \in Badge \cup {"none"} :
          Found(c, found, summary)
    BY <1>17, <1>b, CompareType, SummaryType DEF Sees, Refreshed
  <2>2. probe' \in [Checker -> Probe]
    BY <1>c, <2>1, FoundType
  <2>3. QED
    BY <1>17, <2>2 DEF Sees
<1>18. ASSUME NEW m \in Module, SweepFails(m) PROVE StatusTypeOK'
  <2>1. probe' \in [Checker -> Probe]
    BY <1>18, <1>b, <1>c, FoundType DEF SweepFails
  <2>2. QED
    BY <1>18, <2>1 DEF SweepFails
<1>19. ASSUME NEW m \in Module, CheckFails(m) PROVE StatusTypeOK'
  <2>1. probe' \in [Checker -> Probe]
    BY <1>19, <1>b, <1>c, FoundType, SummaryType DEF CheckFails, Refreshed
  <2>2. QED
    BY <1>19, <2>1 DEF CheckFails
<1>20. ASSUME NEW m \in Module, CommitSweep(m) \/ CommitAsked(m)
       PROVE  StatusTypeOK'
  BY <1>20, <1>c, CommitsType DEF CommitSweep, CommitAsked, Commits
<1>21. ASSUME NEW m \in Module, DiscardSweep(m) PROVE StatusTypeOK'
  BY <1>21, NoneType DEF DiscardSweep
<1>22. CASE UNCHANGED statusVars
  BY <1>22 DEF statusVars
<1>23. QED
  BY <1>1, <1>2, <1>3, <1>4, <1>5, <1>6, <1>7, <1>8, <1>9, <1>10, <1>11,
     <1>12, <1>13, <1>14, <1>15, <1>16, <1>17, <1>18, <1>19, <1>20, <1>21,
     <1>22
  DEF StatusNext, SweepOf, CheckOf, Operate

\* THEOREM: the variables of SyncStatus keep their types.
THEOREM StatusTypeCorrect == StatusSpec => []StatusTypeOK
<1>1. StatusInit => StatusTypeOK
  BY StatusAssumption, NoneType
  DEF StatusInit, StatusTypeOK, Version, Badge, ModuleStatus
<1>2. QED
  BY <1>1, TypeStep, PTL DEF StatusSpec

(***************************************************************************)
(* The status of a sync does not outlive it                                *)
(***************************************************************************)

LEMMA FoundNotRunning ==
  ASSUME StatusTypeOK, NEW c \in Checker, NEW old
  PROVE  Write(old, probe[c].found) \in {old} \cup Badge
<1>1. probe[c] \in Probe
  BY DEF StatusTypeOK
<1>2. QED
  BY <1>1 DEF Probe, Write

\* A step that shows a module as running claims the host for its sync, and
\* none ends that status but the ones that are meant to.
RunningFrame ==
  \A m \in Module :
    /\ hms[m] # "running" /\ hms'[m] = "running"
         => m \in op'.on /\ op'.kind = "sync"
    /\ hms[m] = "running" /\ hms'[m] = "running"
         => op'.on = op.on /\ op'.kind \in {op.kind, "playing", "played"}
    /\ hms[m] = "running" /\ hms'[m] # "running"
         => \/ op' # op \/ edits' # edits
            \/ probe[<<m, "operator">>].pc = "found"

LEMMA RunningStep ==
  StatusTypeOK /\ RunningIsSynced /\ [StatusNext]_statusVars => RunningFrame
<1> SUFFICES ASSUME StatusTypeOK, RunningIsSynced, [StatusNext]_statusVars
             PROVE  RunningFrame
  OBVIOUS
<1> USE DEF RunningFrame
<1>a. /\ hms \in [Module -> ModuleStatus] /\ op \in Op
      /\ \A m \in Module : hms[m] = "running" =>
           m \in op.on /\ op.kind \in {"sync", "playing", "played"}
      /\ NoOp.kind = "none"
  BY DEF StatusTypeOK, RunningIsSynced, NoOp
<1>b. /\ "running" \notin Badge /\ "running" \notin Verdicts
      /\ \A has, wants : Compare(has, wants) # "running"
  BY CompareType DEF Badge, Verdicts
<1>c. \A m \in Module, s \in {"sweep", "operator"} : <<m, s>> \in Checker
  BY DEF Checker
<1>1. ASSUME UNCHANGED <<hms, op>> PROVE RunningFrame
  BY <1>1
<1>2. ASSUME NEW m \in Module,
             \/ Edit(m) \/ ChangeByHand(m) \/ Toggle(m) \/ AskCheck(m)
             \/ StartSweep(m) \/ SweepFails(m) \/ DiscardSweep(m)
             \/ CheckFails(m) \/ Sees(<<m, "sweep">>) \/ Sees(<<m, "operator">>)
      PROVE  RunningFrame
  BY <1>1, <1>2
  DEF Edit, ChangeByHand, Toggle, AskCheck, StartSweep, SweepFails,
      DiscardSweep, CheckFails, Sees
<1>3. ASSUME NEW m \in Module, EditReference(m) PROVE RunningFrame
  <2>1. edits' # edits
    BY <1>3 DEF EditReference, StatusTypeOK
  <2>2. QED
    BY <1>3, <1>a, <2>1 DEF EditReference
<1>4. CASE Outage \/ UNCHANGED statusVars
  BY <1>1, <1>4 DEF Outage, statusVars
<1>5. ASSUME Free PROVE \A m \in Module : hms[m] # "running"
  BY <1>5, <1>a DEF Free
<1>6. CASE ClaimSync
  <2>1. PICK on \in SUBSET Module : Claim("sync", on)
          /\ hms' = [m \in Module |-> IF m \in on THEN "running" ELSE hms[m]]
    BY <1>6 DEF ClaimSync
  <2>2. op'.kind = "sync" /\ op'.on = on
    BY <2>1 DEF Claim, NoOp
  <2>3. QED
    BY <1>5, <2>1, <2>2 DEF Claim
<1>7. CASE ClaimCollect \/ ClaimDrift \/ ClaimAction
  <2>1. Free /\ UNCHANGED hms
    BY <1>7 DEF ClaimCollect, ClaimDrift, ClaimAction, Claim
  <2>2. QED
    BY <1>5, <2>1
<1>8. CASE Play \/ EndPlay \/ BreakPlay \/ WorkerDied
  <2>1. UNCHANGED hms /\ op'.on = op.on
        /\ op'.kind \in {op.kind, "playing", "played"}
    BY <1>8, <1>a DEF Play, EndPlay, BreakPlay, WorkerDied, NoOp, Op
  <2>2. QED
    BY <2>1
<1>9. CASE FinaliseSync
  <2>1. op' # op /\ op.kind = "played"
    BY <1>9, <1>a DEF FinaliseSync
  <2>2. \A m \in Module : hms'[m] # "running"
    BY <1>9, <1>a DEF FinaliseSync, Outcome
  <2>3. QED
    BY <2>1, <2>2
<1>10. CASE Collect \/ CheckClaimed \/ EndAction
  <2>1. \A m \in Module : hms[m] # "running"
    BY <1>10, <1>a DEF Collect, CheckClaimed, EndAction
  <2>2. \A m \in Module : hms'[m] # "running"
    BY <1>10, <1>a, <1>b, <2>1 DEF Collect, CheckClaimed, EndAction
  <2>3. QED
    BY <2>1, <2>2
<1>11. CASE SweepOp
  <2>1. op' # op
    BY <1>11, <1>a DEF SweepOp, Free
  <2>2. \A m \in Module : hms'[m] # "running"
    BY <1>11, <1>a DEF SweepOp, Outcome
  <2>3. QED
    BY <2>1, <2>2
<1>12. ASSUME NEW m \in Module, CommitSweep(m) PROVE RunningFrame
  <2>1. \A n \in Module : hms[n] # "running"
    BY <1>5, <1>12 DEF CommitSweep
  <2>2. \A n \in Module : hms'[n] # "running"
    BY <1>12, <1>a, <1>b, <1>c, <2>1, FoundNotRunning DEF CommitSweep, Commits
  <2>3. QED
    BY <2>1, <2>2
<1>13. ASSUME NEW m \in Module, CommitAsked(m) PROVE RunningFrame
  <2>1. \A n \in Module \ {m} : hms'[n] = hms[n]
    BY <1>13, <1>a DEF CommitAsked, Commits
  <2>2. hms[m] # "running" => hms'[m] # "running"
    BY <1>13, <1>a, <1>b, <1>c, FoundNotRunning DEF CommitAsked, Commits
  <2>3. UNCHANGED op /\ probe[<<m, "operator">>].pc = "found"
    BY <1>13 DEF CommitAsked, Commits
  <2>4. QED
    BY <2>1, <2>2, <2>3
<1>14. QED
  BY <1>2, <1>3, <1>4, <1>6, <1>7, <1>8, <1>9, <1>10, <1>11, <1>12, <1>13
  DEF StatusNext, SweepOf, CheckOf, Operate

\* THEOREM: a module that shows as running is being synced, whatever dies,
\* raises, or checks it meanwhile.
THEOREM RunningMeansSynced == StatusSpec => []RunningIsSynced
<1>1. StatusInit => RunningIsSynced
  BY DEF StatusInit, RunningIsSynced
<1>2. RunningIsSynced /\ RunningFrame => RunningIsSynced'
  BY DEF RunningIsSynced, RunningFrame
<1>3. QED
  BY StatusTypeCorrect, <1>1, <1>2, RunningStep, PTL DEF StatusSpec

\* What SweepYields says of one step.
Yields ==
  \A m \in Module :
    hms[m] = "running" /\ hms'[m] # "running"
    => op' # op \/ edits' # edits \/ probe[<<m, "operator">>].pc = "found"

\* THEOREM: no periodic check writes over the status that a sync maintains.
THEOREM SweepsYield == StatusSpec => SweepYields
<1>1. StatusTypeOK /\ RunningIsSynced /\ [StatusNext]_statusVars
        => [Yields]_statusVars
  BY RunningStep DEF RunningFrame, Yields
<1>2. StatusSpec => [][Yields]_statusVars
  BY StatusTypeCorrect, RunningMeansSynced, <1>1, PTL DEF StatusSpec
<1>3. QED
  BY <1>2 DEF SweepYields, Yields

(***************************************************************************)
(* A wrong verdict was overtaken                                           *)
(***************************************************************************)

\* As long as nothing was edited or asked for since a periodic check began,
\* nobody works on the host, it compares with what is wanted, and what it found
\* is so.
Fresh(m) ==
  LET p == probe[<<m, "sweep">>] IN
    p.pc # "idle" =>
      /\ p.stamp <= edits + asked
      /\ p.stamp = edits + asked =>
           /\ op.kind = "none"
           /\ p.pc = "connect" => p.wants = desired[m]
           /\ p.pc = "found" /\ p.found \in Verdicts
                => p.found = Compare(actual[m], desired[m])

AllFresh == \A m \in Module : Fresh(m)

LEMMA FreshStep ==
  StatusTypeOK /\ AllFresh /\ [StatusNext]_statusVars => AllFresh'
<1> SUFFICES ASSUME StatusTypeOK, AllFresh, [StatusNext]_statusVars,
                    NEW m \in Module
             PROVE  Fresh(m)'
  BY DEF AllFresh
<1> DEFINE c == <<m, "sweep">>
<1>a. /\ Fresh(m) /\ c \in Checker /\ probe \in [Checker -> Probe]
      /\ c[1] = m /\ c[2] = "sweep" /\ edits \in Nat /\ asked \in Nat
      /\ probe[c] \in Probe /\ probe[c].stamp \in Nat
  <2>1. probe[c] \in Probe
    BY DEF StatusTypeOK, Checker
  <2>2. probe[c].stamp \in Nat
    BY <2>1, StatusAssumption DEF Probe
  <2>3. QED
    BY <2>1, <2>2, StatusAssumption DEF AllFresh, StatusTypeOK, Checker
<1>b. \A n \in Module, s \in {"sweep", "operator"} :
        /\ <<n, s>> \in Checker
        /\ (n # m \/ s = "operator") => <<n, s>> # c
        /\ <<n, s>>[1] = n /\ <<n, s>>[2] = s
  BY DEF Checker
<1> HIDE DEF c
<1> USE <1>a
<1>1. ASSUME UNCHANGED <<desired, actual, op, edits, asked>>,
             probe'[c] = probe[c]
      PROVE  Fresh(m)'
  BY <1>1 DEF Fresh, c
<1>2. ASSUME probe'[c] = probe[c],
             \/ edits' = edits + 1 /\ asked' = asked
             \/ edits' = edits /\ asked' = asked + 1
      PROVE  Fresh(m)'
  <2>1. probe[c].pc # "idle" => probe[c].stamp <= edits + asked
    BY DEF Fresh, c
  <2>2. probe[c].pc # "idle" => /\ probe[c].stamp <= edits' + asked'
                               /\ probe[c].stamp # edits' + asked'
    BY <1>2, <2>1
  <2>3. probe'[c].pc # "idle" => /\ probe'[c].stamp <= edits' + asked'
                                /\ probe'[c].stamp # edits' + asked'
    BY <1>2, <2>2
  <2>4. QED
    BY <2>3 DEF Fresh, c
<1>3. ASSUME op.kind # "none", probe'[c] = probe[c],
             UNCHANGED <<edits, asked>>
      PROVE  Fresh(m)'
  BY <1>3 DEF Fresh, c
<1>4. ASSUME probe'[c] = NoProbe PROVE Fresh(m)'
  BY <1>4 DEF Fresh, NoProbe, c
<1>5. ASSUME NEW n \in Module, Edit(n) \/ EditReference(n) \/ ChangeByHand(n)
      PROVE  Fresh(m)'
  BY <1>2, <1>5 DEF Edit, EditReference, ChangeByHand
<1>6. ASSUME NEW n \in Module, Toggle(n) PROVE Fresh(m)'
  BY <1>2, <1>6 DEF Toggle
<1>7. ASSUME NEW n \in Module, AskCheck(n) PROVE Fresh(m)'
  BY <1>2, <1>7, <1>b DEF AskCheck, Load
<1>8. CASE ClaimSync \/ ClaimCollect \/ ClaimDrift \/ ClaimAction
  <2>1. /\ asked' = asked + 1 /\ UNCHANGED edits /\ probe'[c] = probe[c]
    BY <1>8 DEF ClaimSync, ClaimCollect, ClaimDrift, ClaimAction, Claim
  <2>2. QED
    BY <1>2, <2>1
<1>9. CASE \/ Play \/ EndPlay \/ BreakPlay \/ FinaliseSync \/ Collect
           \/ CheckClaimed \/ EndAction \/ SweepOp
  BY <1>3, <1>9
  DEF Play, EndPlay, BreakPlay, FinaliseSync, Collect, CheckClaimed, EndAction,
      SweepOp, Free
<1>10. CASE WorkerDied
  <2>1. /\ UNCHANGED <<desired, actual, edits, asked>> /\ op'.kind = op.kind
        /\ probe'[c] = probe[c]
    BY <1>10 DEF WorkerDied, NoOp
  <2>2. QED
    BY <2>1 DEF Fresh, c
<1>11. CASE Outage \/ UNCHANGED statusVars
  BY <1>1, <1>11 DEF Outage, statusVars
<1>12. ASSUME NEW n \in Module, StartSweep(n) PROVE Fresh(m)'
  <2>1. CASE n # m
    BY <1>1, <1>12, <1>b, <2>1 DEF StartSweep, Load
  <2>2. CASE n = m
    <3>1. probe'[c] = [NoProbe EXCEPT
             !.pc = "connect", !.wants = desired[m], !.row = hms[m],
             !.shown = badge, !.stamp = edits + asked]
      BY <1>12, <2>2 DEF StartSweep, Load, c
    <3>2. /\ probe'[c].pc = "connect" /\ probe'[c].wants = desired[m]
          /\ probe'[c].stamp = edits + asked
      BY <3>1 DEF NoProbe
    <3>3. UNCHANGED <<desired, op, edits, asked>> /\ op.kind = "none"
      BY <1>12 DEF StartSweep, Free
    <3>4. QED
      BY <3>2, <3>3 DEF Fresh, c
  <2>3. QED
    BY <2>1, <2>2
<1>13. ASSUME NEW found, NEW summary, Found(c, found, summary),
              probe[c].pc = "connect",
              found \in Verdicts => found = Compare(actual[m], probe[c].wants),
              UNCHANGED <<desired, actual, op, edits, asked>>
       PROVE  Fresh(m)'
  <2>1. /\ probe'[c].pc = "found" /\ probe'[c].stamp = probe[c].stamp
        /\ probe'[c].found = Dirty(probe[c].row, found)
    BY <1>13 DEF Found, NoProbe
  <2>2. probe'[c].found = "none" \/ probe'[c].found = found
    BY <2>1, DirtyIs
  <2>3. "none" \notin Verdicts
    BY DEF Verdicts
  <2>4. QED
    BY <1>13, <2>1, <2>2, <2>3 DEF Fresh, c
<1>14. ASSUME NEW n \in Module, NEW s \in {"sweep", "operator"}, Sees(<<n, s>>)
       PROVE  Fresh(m)'
  <2>1. CASE <<n, s>> # c
    BY <1>1, <1>14, <2>1 DEF Sees, Found
  <2>2. CASE <<n, s>> = c
    <3>1. "none" \notin Verdicts
      BY DEF Verdicts
    <3>2. QED
      BY <1>13, <1>14, <2>2, <3>1 DEF Sees
  <2>3. QED
    BY <2>1, <2>2
<1>15. ASSUME NEW n \in Module, SweepFails(n) PROVE Fresh(m)'
  <2>1. CASE n # m
    BY <1>1, <1>15, <1>b, <2>1 DEF SweepFails, Found
  <2>2. CASE n = m
    <3>1. \A s \in {"none", "unknown", "error"} : s \notin Verdicts
      BY DEF Verdicts
    <3>2. QED
      BY <1>13, <1>15, <2>2, <3>1 DEF SweepFails, c
  <2>3. QED
    BY <2>1, <2>2
<1>16. ASSUME NEW n \in Module, CheckFails(n) PROVE Fresh(m)'
  BY <1>1, <1>16, <1>b DEF CheckFails, Found
<1>17. ASSUME NEW n \in Module, CommitSweep(n) \/ DiscardSweep(n)
       PROVE  Fresh(m)'
  <2>1. CASE n # m
    BY <1>1, <1>17, <1>b, <2>1 DEF CommitSweep, DiscardSweep, Commits
  <2>2. CASE n = m
    BY <1>4, <1>17, <2>2 DEF CommitSweep, DiscardSweep, Commits, c
  <2>3. QED
    BY <2>1, <2>2
<1>18. ASSUME NEW n \in Module, CommitAsked(n) PROVE Fresh(m)'
  BY <1>1, <1>18, <1>b DEF CommitAsked, Commits
<1>19. QED
  BY <1>5, <1>6, <1>7, <1>8, <1>9, <1>10, <1>11, <1>12, <1>14, <1>15, <1>16,
     <1>17, <1>18
  DEF StatusNext, SweepOf, CheckOf, Operate

\* What WrongIsOvertaken says of one step.
Overtaken ==
  \A m \in Module :
    LET p == probe[<<m, "sweep">>] IN
      /\ p.pc = "found" /\ probe'[<<m, "sweep">>] = NoProbe /\ Free
      /\ p.found \in Verdicts
      /\ p.found # Compare(actual[m], desired[m])
      => edits + asked > p.stamp

\* THEOREM: a periodic check that writes what is not so was overtaken by an
\* edit, an operation or another check; it never judges the half-applied state
\* of an operation that was there before it.
THEOREM WrongWasOvertaken == StatusSpec => WrongIsOvertaken
<1>1. StatusInit => AllFresh
  BY DEF StatusInit, AllFresh, Fresh, NoProbe, Checker
<1>2. StatusTypeOK /\ AllFresh => Overtaken
  <2> SUFFICES ASSUME StatusTypeOK, AllFresh, NEW m \in Module,
                      probe[<<m, "sweep">>].pc = "found",
                      probe[<<m, "sweep">>].found \in Verdicts,
                      probe[<<m, "sweep">>].found
                        # Compare(actual[m], desired[m])
               PROVE  edits + asked > probe[<<m, "sweep">>].stamp
    BY DEF Overtaken
  <2>1. probe[<<m, "sweep">>] \in Probe
    BY DEF StatusTypeOK, Checker
  <2>2. probe[<<m, "sweep">>].stamp \in Nat /\ edits + asked \in Nat
    BY <2>1, StatusAssumption DEF Probe, StatusTypeOK
  <2>3. Fresh(m)
    BY DEF AllFresh
  <2>4. QED
    BY <2>2, <2>3 DEF Fresh
<1>3. StatusSpec => [](StatusTypeOK /\ AllFresh)
  BY StatusTypeCorrect, <1>1, FreshStep, PTL DEF StatusSpec
<1>4. StatusTypeOK /\ AllFresh /\ [StatusNext]_statusVars
        => [Overtaken]_statusVars
  BY <1>2
<1>5. StatusSpec => [][Overtaken]_statusVars
  BY <1>3, <1>4, PTL DEF StatusSpec
<1>6. QED
  BY <1>5 DEF WrongIsOvertaken, Overtaken
=============================================================================
