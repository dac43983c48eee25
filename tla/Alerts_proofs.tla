---------------------------- MODULE Alerts_proofs ----------------------------
(***************************************************************************)
(* Proofs about Alerts, for any number of alerts and notifications, with   *)
(* and without crashes.                                                    *)
(***************************************************************************)
EXTENDS Alerts, TLAPS

(***************************************************************************)
(* Type correctness                                                        *)
(***************************************************************************)

\* Every step keeps the types.
LEMMA TypeStep == AlertTypeOK /\ [AlertNext]_alertVars => AlertTypeOK'
<1> SUFFICES ASSUME AlertTypeOK, [AlertNext]_alertVars PROVE AlertTypeOK'
  OBVIOUS
<1> USE DEF AlertTypeOK
<1>a. ASSUME NEW a \in Alert, NEW pc \in {"idle", "inFlight", "act", "decide",
                                          "start", "skip"}, HandlerAt(a, pc)
      PROVE  handler' \in
               [Alert -> {"idle", "act", "inFlight", "decide", "start", "skip"}]
  BY <1>a DEF HandlerAt
<1>b. ASSUME NEW a \in Alert, NEW n \in {0, 1}, StartSession(a, n)
      PROVE  event' \in [Alert -> Event]
  <2>1. event[a] \in Event /\ event[a].automatic + n \in Nat
    BY DEF Event
  <2>2. [event[a] EXCEPT !.outcome = "started", !.session = TRUE,
                         !.automatic = event[a].automatic + n] \in Event
    BY <2>1 DEF Event
  <2>3. QED
    BY <1>b, <2>2 DEF StartSession
<1>c. ASSUME NEW a \in Alert, NEW x \in {"none", "waiting_on_action",
                      "handled_by_action", "started", "skipped"}
      PROVE  [event EXCEPT ![a].outcome = x] \in [Alert -> Event]
  BY <1>c DEF Event
<1>1. ASSUME NEW a \in Alert, NEW status \in {"firing", "resolved"},
             Notify(a, status)
      PROVE  AlertTypeOK'
  <2>1. event' \in [Alert -> Event]
    <3>1. [event[a] EXCEPT !.status = status] \in Event
      BY DEF Event
    <3>2. QED
      BY <1>1, <3>1 DEF Notify
  <2>2. notices' \in 0..MaxNotices
    BY <1>1, AlertAssumption DEF Notify
  <2>3. handle' \in [Alert -> Nat] /\ lost' \subseteq Alert
    BY <1>1 DEF Notify
  <2>4. QED
    BY <1>1, <2>1, <2>2, <2>3 DEF Notify
<1>2. ASSUME NEW a \in Alert, Handle(a) PROVE AlertTypeOK'
  <2>1. handle' \in [Alert -> Nat]
    BY <1>2 DEF Handle
  <2>2. QED
    BY <1>2, <1>a, <2>1 DEF Handle
<1>3. ASSUME NEW a \in Alert, Act(a) PROVE AlertTypeOK'
  <2>1. dispatch' \in [Alert -> Dispatch]
    <3>1. dispatch[a] \in Dispatch /\ dispatch[a].runs + 1 \in Nat
      BY DEF Dispatch
    <3>2. [dispatch[a] EXCEPT !.run = "in_flight",
                              !.runs = dispatch[a].runs + 1] \in Dispatch
      BY <3>1 DEF Dispatch, RunStatus
    <3>3. QED
      BY <1>3, <3>2 DEF Act
  <2>2. QED
    BY <1>3, <1>a, <1>c, <2>1 DEF Act
<1>4. ASSUME NEW a \in Alert, LeaveToOther(a) PROVE AlertTypeOK'
  BY <1>4, <1>a, <1>c DEF LeaveToOther
<1>5. ASSUME NEW a \in Alert, NotAllowed(a) PROVE AlertTypeOK'
  BY <1>5, <1>a DEF NotAllowed
<1>6. ASSUME NEW a \in Alert, DecideAlert(a) PROVE AlertTypeOK'
  BY <1>6, <1>a DEF DecideAlert
<1>7. ASSUME NEW a \in Alert, StartAlert(a) PROVE AlertTypeOK'
  BY <1>7, <1>a, <1>b DEF StartAlert
<1>8. ASSUME NEW a \in Alert, SkipAlert(a) PROVE AlertTypeOK'
  BY <1>8, <1>a, <1>c DEF SkipAlert
<1>9. ASSUME NEW a \in Alert, Press(a) PROVE AlertTypeOK'
  BY <1>9 DEF Press
<1>10. ASSUME NEW a \in Alert, Pressed(a) PROVE AlertTypeOK'
  BY <1>10, <1>b DEF Pressed
<1>11. ASSUME NEW a \in Alert, RunEnds(a) PROVE AlertTypeOK'
  BY <1>11 DEF RunEnds, Dispatch, RunStatus
<1>12. CASE Check
  BY <1>12 DEF Check
<1>13. CASE CommitCheck
  <2>1. dispatch' \in [Alert -> Dispatch]
    BY <1>13 DEF CommitCheck, Dispatch
  <2>2. event' \in [Alert -> Event]
    BY <1>13 DEF CommitCheck, Event
  <2>3. tick' \in [pc : {"idle", "commit", "handOver"},
                   found : [Alert -> CheckOutcome], over : SUBSET Alert]
    BY <1>13 DEF CommitCheck, NoTick, CheckOutcome
  <2>4. QED
    BY <1>13, <2>1, <2>2, <2>3 DEF CommitCheck
<1>14. ASSUME NEW a \in Alert, HandOver(a) PROVE AlertTypeOK'
  <2>1. tick' \in [pc : {"idle", "commit", "handOver"},
                   found : [Alert -> CheckOutcome], over : SUBSET Alert]
    BY <1>14 DEF HandOver
  <2>2. QED
    BY <1>14, <1>a, <2>1 DEF HandOver
<1>15. CASE EndCheck
  BY <1>15 DEF EndCheck, NoTick, CheckOutcome
<1>16. CASE UNCHANGED alertVars
  BY <1>16 DEF alertVars
<1>17. QED
  BY <1>1, <1>2, <1>3, <1>4, <1>5, <1>6, <1>7, <1>8, <1>9, <1>10, <1>11,
     <1>12, <1>13, <1>14, <1>15, <1>16
  DEF AlertNext, AlertTask, Tick

\* THEOREM: the variables of the alerts keep their types.
THEOREM AlertTypeCorrect == AlertSpec => []AlertTypeOK
<1>1. AlertInit => AlertTypeOK
  BY AlertAssumption
  DEF AlertInit, AlertTypeOK, Event, Dispatch, RunStatus, CheckOutcome, NoTick
<1>2. QED
  BY <1>1, TypeStep, PTL DEF AlertSpec

(***************************************************************************)
(* An alert is answered once                                               *)
(***************************************************************************)

Count(p) == IF p THEN 1 ELSE 0

\* The check and what it found: only runs that are not judged yet.
TickInOrder ==
  /\ tick.pc = "idle" => tick.over = {}
  /\ tick.pc = "commit" =>
       \A a \in Alert :
         /\ tick.found[a] # "none" =>
              dispatch[a].run # "none" /\ dispatch[a].check = "none"
         /\ a \in tick.over => tick.found[a] # "none"

\* An alert is a token that is in one place: its message, its handler, its run
\* that is not judged yet, the hand-over, or the session that was started. The
\* first notification makes it.
OnToken(a) ==
  /\ handle[a] + Count(handler[a] # "idle") + event[a].automatic
       + Count(dispatch[a].run # "none" /\ dispatch[a].check = "none")
       + Count(tick.pc = "handOver" /\ a \in tick.over)
     <= Count(event[a].status # "none")
  /\ handle[a] + Count(handler[a] = "act") + dispatch[a].runs
     <= Count(event[a].status # "none")
  /\ dispatch[a].run = "none" <=> dispatch[a].runs = 0
  /\ dispatch[a].run = "none" => dispatch[a].check = "none"

OneToken == \A a \in Alert : OnToken(a)

LEMMA TokenStep ==
  AlertTypeOK /\ TickInOrder /\ OneToken /\ [AlertNext]_alertVars => OneToken'
<1> SUFFICES ASSUME AlertTypeOK, TickInOrder, OneToken, [AlertNext]_alertVars,
                    NEW b \in Alert
             PROVE  OnToken(b)'
  BY DEF OneToken
<1>a. /\ OnToken(b) /\ handle[b] \in Nat /\ event[b].automatic \in Nat
      /\ dispatch[b].runs \in Nat
      /\ event \in [Alert -> Event] /\ dispatch \in [Alert -> Dispatch]
      /\ handle \in [Alert -> Nat]
      /\ \A a \in Alert : event[a] \in Event /\ dispatch[a] \in Dispatch
  BY DEF OneToken, AlertTypeOK, Event, Dispatch
<1>b. handler \in [Alert -> {"idle", "act", "inFlight", "decide", "start",
                             "skip"}]
  BY DEF AlertTypeOK
<1>c. tick \in [pc : {"idle", "commit", "handOver"},
                found : [Alert -> CheckOutcome], over : SUBSET Alert]
  BY DEF AlertTypeOK
<1> USE <1>a, <1>b DEF OnToken, Count
<1>1. ASSUME NEW a \in Alert, NEW status \in {"firing", "resolved"},
             Notify(a, status)
      PROVE  OnToken(b)'
  BY <1>1 DEF Notify, Event
<1>2. ASSUME NEW a \in Alert, Handle(a) PROVE OnToken(b)'
  BY <1>2 DEF Handle, HandlerAt
<1>3. ASSUME NEW a \in Alert, Act(a) PROVE OnToken(b)'
  BY <1>3 DEF Act, HandlerAt, Event, Dispatch
<1>4. ASSUME NEW a \in Alert, LeaveToOther(a) PROVE OnToken(b)'
  BY <1>4 DEF LeaveToOther, HandlerAt, Event, Dispatch
<1>5. ASSUME NEW a \in Alert, NotAllowed(a) PROVE OnToken(b)'
  BY <1>5 DEF NotAllowed, HandlerAt, Event, Dispatch
<1>6. ASSUME NEW a \in Alert, DecideAlert(a) PROVE OnToken(b)'
  BY <1>6 DEF DecideAlert, HandlerAt, Event, Dispatch
<1>7. ASSUME NEW a \in Alert, StartAlert(a) PROVE OnToken(b)'
  BY <1>7 DEF StartAlert, HandlerAt, StartSession, Event, Dispatch
<1>8. ASSUME NEW a \in Alert, SkipAlert(a) PROVE OnToken(b)'
  BY <1>8 DEF SkipAlert, HandlerAt, Event, Dispatch
<1>9. ASSUME NEW a \in Alert, Press(a) PROVE OnToken(b)'
  BY <1>9 DEF Press, HandlerAt, Event, Dispatch
<1>10. ASSUME NEW a \in Alert, Pressed(a) PROVE OnToken(b)'
  BY <1>10 DEF Pressed, HandlerAt, StartSession, Event, Dispatch
<1>11. ASSUME NEW a \in Alert, RunEnds(a) PROVE OnToken(b)'
  BY <1>11 DEF RunEnds, HandlerAt, Event, Dispatch
<1>12. CASE Check
  BY <1>12 DEF Check
<1>13. CASE CommitCheck
  BY <1>13, <1>c DEF CommitCheck, NoTick, TickInOrder, Event, Dispatch
<1>14. ASSUME NEW a \in Alert, HandOver(a) PROVE OnToken(b)'
  BY <1>14, <1>c DEF HandOver, HandlerAt
<1>15. CASE EndCheck
  BY <1>15, <1>c DEF EndCheck, NoTick
<1>16. CASE UNCHANGED alertVars
  BY <1>16 DEF alertVars
<1>17. QED
  BY <1>1, <1>2, <1>3, <1>4, <1>5, <1>6, <1>7, <1>8, <1>9, <1>10, <1>11,
     <1>12, <1>13, <1>14, <1>15, <1>16
  DEF AlertNext, AlertTask, Tick

LEMMA TickStep ==
  AlertTypeOK /\ TickInOrder /\ OneToken /\ [AlertNext]_alertVars
    => TickInOrder'
<1> SUFFICES ASSUME AlertTypeOK, TickInOrder, OneToken, [AlertNext]_alertVars
             PROVE  TickInOrder'
  OBVIOUS
<1>a. /\ dispatch \in [Alert -> Dispatch]
      /\ tick \in [pc : {"idle", "commit", "handOver"},
                   found : [Alert -> CheckOutcome], over : SUBSET Alert]
      /\ \A a \in Alert : OnToken(a) /\ dispatch[a] \in Dispatch
                          /\ handle[a] \in Nat
  BY DEF AlertTypeOK, OneToken
<1> USE <1>a DEF TickInOrder
<1>1. ASSUME UNCHANGED <<dispatch, tick>> PROVE TickInOrder'
  BY <1>1
<1>2. ASSUME NEW a \in Alert, Act(a) PROVE TickInOrder'
  <2>1. dispatch[a].run = "none"
    BY <1>2 DEF Act, OnToken, Count, Dispatch
  <2>2. QED
    BY <1>2, <2>1 DEF Act, Dispatch
<1>3. ASSUME NEW a \in Alert, RunEnds(a) PROVE TickInOrder'
  BY <1>3 DEF RunEnds, Dispatch
<1>4. CASE Check
  <2>1. \A a \in Alert : \A x \in Finds(a) :
          x # "none" => dispatch[a].run # "none" /\ dispatch[a].check = "none"
    BY DEF Finds
  <2>2. QED
    BY <1>4, <2>1 DEF Check
<1>5. CASE CommitCheck
  BY <1>5 DEF CommitCheck, NoTick
<1>6. ASSUME NEW a \in Alert, HandOver(a) PROVE TickInOrder'
  BY <1>6 DEF HandOver
<1>7. CASE EndCheck
  BY <1>7 DEF EndCheck, NoTick
<1>8. ASSUME NEW a \in Alert,
             \/ \E status \in {"firing", "resolved"} : Notify(a, status)
             \/ Handle(a) \/ LeaveToOther(a) \/ NotAllowed(a) \/ DecideAlert(a)
             \/ StartAlert(a) \/ SkipAlert(a) \/ Press(a) \/ Pressed(a)
      PROVE  TickInOrder'
  BY <1>1, <1>8
  DEF Notify, Handle, LeaveToOther, NotAllowed, DecideAlert, StartAlert,
      SkipAlert, Press, Pressed
<1>9. CASE UNCHANGED alertVars
  BY <1>1, <1>9 DEF alertVars
<1>10. QED
  BY <1>2, <1>3, <1>4, <1>5, <1>6, <1>7, <1>8, <1>9
  DEF AlertNext, AlertTask, Tick

AlertInv == AlertTypeOK /\ TickInOrder /\ OneToken

\* The invariant of Alerts is inductive.
THEOREM AlertInductive == AlertSpec => []AlertInv
<1>1. AlertInit => TickInOrder /\ OneToken
  BY DEF AlertInit, TickInOrder, OneToken, OnToken, Count, NoTick
<1>2. QED
  BY AlertTypeCorrect, <1>1, TokenStep, TickStep, PTL DEF AlertSpec, AlertInv

\* THEOREM: however many alerts there are and however often they are
\* repeated, the action runs once for each and one investigation at most follows
\* by itself.
THEOREM Once == AlertSpec => []AnsweredOnce
<1>1. AlertInv => AnsweredOnce
  <2> SUFFICES ASSUME AlertInv, NEW a \in Alert
               PROVE  dispatch[a].runs <= 1 /\ event[a].automatic <= 1
    BY DEF AnsweredOnce
  <2>1. /\ OnToken(a) /\ handle[a] \in Nat /\ event[a].automatic \in Nat
        /\ dispatch[a].runs \in Nat
    BY DEF AlertInv, OneToken, AlertTypeOK, Event, Dispatch
  <2>2. QED
    BY <2>1 DEF OnToken, Count
<1>2. QED
  BY AlertInductive, <1>1, PTL

(***************************************************************************)
(* An alert that waits is watched                                          *)
(***************************************************************************)

\* What a verdict about to be written leaves out is investigated or resolved.
RestIsSettled ==
  tick.pc = "commit" =>
    \A a \in Alert \ tick.over :
      tick.found[a] \in {"not_effective", "run_failed"}
        => event[a].session \/ event[a].status = "resolved"

LEMMA RestStep ==
  AlertInv /\ RestIsSettled /\ [AlertNext]_alertVars => RestIsSettled'
<1> SUFFICES ASSUME AlertInv, RestIsSettled, [AlertNext]_alertVars
             PROVE  RestIsSettled'
  OBVIOUS
<1>a. /\ event \in [Alert -> Event]
      /\ tick \in [pc : {"idle", "commit", "handOver"},
                   found : [Alert -> CheckOutcome], over : SUBSET Alert]
      /\ \A a \in Alert : OnToken(a) /\ event[a] \in Event
                          /\ handle[a] \in Nat
      /\ dispatch \in [Alert -> Dispatch]
  BY DEF AlertInv, AlertTypeOK, OneToken
<1> USE <1>a DEF RestIsSettled
<1>1. ASSUME NEW a \in Alert, NEW status \in {"firing", "resolved"},
             Notify(a, status)
      PROVE  RestIsSettled'
  BY <1>1 DEF Notify, Event
<1>2. ASSUME NEW a \in Alert, StartAlert(a) \/ Pressed(a)
      PROVE  RestIsSettled'
  BY <1>2, SMTT(30) DEF StartAlert, Pressed, StartSession, Event
<1>3. ASSUME NEW a \in Alert, Act(a) \/ LeaveToOther(a) \/ SkipAlert(a)
      PROVE  RestIsSettled'
  BY <1>3, SMTT(30) DEF Act, LeaveToOther, SkipAlert, Event
<1>4. CASE Check
  <2>1. \A a \in Alert : \A x \in Finds(a) :
          x \in {"not_effective", "run_failed"} => event[a].status # "none"
    <3> SUFFICES ASSUME NEW a \in Alert, dispatch[a].run # "none"
                 PROVE  event[a].status # "none"
      BY DEF Finds
    <3>1. handle[a] \in Nat /\ dispatch[a].runs \in Nat /\ OnToken(a)
      BY DEF AlertInv, AlertTypeOK, Dispatch
    <3>2. /\ dispatch[a].runs <= Count(event[a].status # "none")
          /\ dispatch[a].run = "none" <=> dispatch[a].runs = 0
          /\ dispatch[a].run = "none" => dispatch[a].check = "none"
      BY <3>1 DEF OnToken, Count
    <3>3. QED
      BY <3>1, <3>2 DEF Count
  <2>2. QED
    BY <1>4, <2>1 DEF Check, Event
<1>5. CASE CommitCheck \/ EndCheck
  <2>1. CASE CommitCheck
    BY <2>1 DEF CommitCheck, NoTick
  <2>2. CASE EndCheck
    BY <2>2 DEF EndCheck, NoTick
  <2>3. QED
    BY <1>5, <2>1, <2>2
<1>6. ASSUME NEW a \in Alert, HandOver(a) PROVE RestIsSettled'
  BY <1>6 DEF HandOver
<1>7. ASSUME NEW a \in Alert,
             \/ Handle(a) \/ NotAllowed(a) \/ DecideAlert(a) \/ Press(a)
             \/ RunEnds(a)
      PROVE  RestIsSettled'
  BY <1>7 DEF Handle, NotAllowed, DecideAlert, Press, RunEnds
<1>8. CASE UNCHANGED alertVars
  BY <1>8 DEF alertVars
<1>9. QED
  BY <1>1, <1>2, <1>3, <1>4, <1>5, <1>6, <1>7, <1>8
  DEF AlertNext, AlertTask, Tick

\* What WaitingIsWatched says of one alert.
Watched(a) ==
  event[a].outcome = "waiting_on_action" /\ event[a].status = "firing"
    => \/ dispatch[a].check = "none" \/ event[a].session
       \/ a \in tick.over \/ handler[a] # "idle"

LEMMA WatchedStep ==
  AlertInv /\ RestIsSettled /\ WaitingIsWatched /\ [AlertNext]_alertVars
    => WaitingIsWatched'
<1> SUFFICES ASSUME AlertInv, RestIsSettled, WaitingIsWatched,
                    [AlertNext]_alertVars, NEW b \in Alert, b \notin lost'
             PROVE  Watched(b)'
  BY DEF WaitingIsWatched, Watched
<1>a. /\ event \in [Alert -> Event] /\ dispatch \in [Alert -> Dispatch]
      /\ tick \in [pc : {"idle", "commit", "handOver"},
                   found : [Alert -> CheckOutcome], over : SUBSET Alert]
      /\ handler \in [Alert -> {"idle", "act", "inFlight", "decide", "start",
                                "skip"}]
      /\ \A a \in Alert : /\ OnToken(a) /\ event[a] \in Event
                          /\ dispatch[a] \in Dispatch /\ handle[a] \in Nat
      /\ TickInOrder
  BY DEF AlertInv, AlertTypeOK, OneToken
<1>b. b \notin lost => Watched(b)
  BY DEF WaitingIsWatched, Watched
<1> USE <1>a, <1>b DEF Watched
<1>1. ASSUME NEW a \in Alert, NEW status \in {"firing", "resolved"},
             Notify(a, status)
      PROVE  Watched(b)'
  <2>1. event[a].status = "none" => dispatch[a].check = "none"
    <3>1. handle[a] \in Nat /\ dispatch[a].runs \in Nat /\ OnToken(a)
      BY DEF Dispatch
    <3>2. /\ dispatch[a].runs <= Count(event[a].status # "none")
          /\ dispatch[a].run = "none" <=> dispatch[a].runs = 0
          /\ dispatch[a].run = "none" => dispatch[a].check = "none"
      BY <3>1 DEF OnToken, Count
    <3>3. QED
      BY <3>1, <3>2 DEF Count
  <2>2. QED
    BY <1>1, <2>1 DEF Notify, Event
<1>2. ASSUME NEW a \in Alert, Handle(a) PROVE Watched(b)'
  BY <1>2 DEF Handle, HandlerAt
<1>3. ASSUME NEW a \in Alert, Act(a) PROVE Watched(b)'
  <2>1. dispatch[a].check = "none"
    BY <1>3 DEF Act, OnToken, Count, Dispatch
  <2>2. QED
    BY <1>3, <2>1 DEF Act, HandlerAt, Event, Dispatch
<1>4. ASSUME NEW a \in Alert, LeaveToOther(a) \/ SkipAlert(a)
      PROVE  Watched(b)'
  BY <1>4 DEF LeaveToOther, SkipAlert, HandlerAt, Event
<1>5. ASSUME NEW a \in Alert, NotAllowed(a) \/ DecideAlert(a)
      PROVE  Watched(b)'
  BY <1>5 DEF NotAllowed, DecideAlert, HandlerAt
<1>6. ASSUME NEW a \in Alert, StartAlert(a) PROVE Watched(b)'
  BY <1>6 DEF StartAlert, StartSession, HandlerAt, Event
<1>7. ASSUME NEW a \in Alert, Pressed(a) PROVE Watched(b)'
  BY <1>7 DEF Pressed, StartSession, Event
<1>8. ASSUME NEW a \in Alert, Press(a) PROVE Watched(b)'
  BY <1>8 DEF Press
<1>9. ASSUME NEW a \in Alert, RunEnds(a) PROVE Watched(b)'
  BY <1>9 DEF RunEnds, Dispatch
<1>10. CASE Check
  BY <1>10 DEF Check, TickInOrder
<1>11. CASE CommitCheck
  <2>1. CASE tick.found[b] = "none"
    BY <1>11, <2>1 DEF CommitCheck, NoTick, TickInOrder, Event
  <2>2. CASE tick.found[b] = "fixed"
    BY <1>11, <2>2 DEF CommitCheck, NoTick, Event
  <2>3. CASE tick.found[b] \in {"not_effective", "run_failed"}
    BY <1>11, <2>3 DEF CommitCheck, NoTick, RestIsSettled, Event
  <2>4. QED
    BY <2>1, <2>2, <2>3 DEF CheckOutcome
<1>12. ASSUME NEW a \in Alert, HandOver(a) PROVE Watched(b)'
  BY <1>12 DEF HandOver, HandlerAt
<1>13. CASE EndCheck
  BY <1>13 DEF EndCheck, NoTick
<1>14. CASE UNCHANGED alertVars
  BY <1>14 DEF alertVars
<1>15. QED
  BY <1>1, <1>2, <1>3, <1>4, <1>5, <1>6, <1>7, <1>8, <1>9, <1>10, <1>11,
     <1>12, <1>13, <1>14
  DEF AlertNext, AlertTask, Tick

\* THEOREM: an alert that waits for its action is looked at again, unless a
\* crash lost it, however the check, the handlers and the operators interleave.
THEOREM NoneIsForgotten == AlertSpec => []WaitingIsWatched
<1>1. AlertInit => RestIsSettled /\ WaitingIsWatched
  BY DEF AlertInit, RestIsSettled, WaitingIsWatched, NoTick
<1>2. QED
  BY AlertInductive, <1>1, RestStep, WatchedStep, PTL DEF AlertSpec
=============================================================================
