------------------------------ MODULE MC_LabDog ------------------------------
(***************************************************************************)
(* A session of the assistant, what is done about a change it made, the    *)
(* alerts that send it, and the repository that groups may come from, for  *)
(* TLC: components that share no state, with the host queue or with each   *)
(* other.  A behaviour is one of one of them: Init chooses `part', and the *)
(* variables of the others stay as they began.  Changes on a host have two *)
(* parts: "remediation", where the code loses sight of no fix and nobody   *)
(* writes to a session that is over, and "autonomy", where nothing is      *)
(* rolled back.                                                            *)
(***************************************************************************)
EXTENDS AISession, Remediation, Alerts, MC_GitOps, TLC

CONSTANTS Parts,     \* the components a run is about
          w1, w2,    \* workers of a session
          c1, c2,    \* its operators
          e1, e2,    \* sessions that change a host
          a1, a2,    \* alerts
          d1, d2     \* deliveries of webhooks

VARIABLE part

vars == <<part, aiVars, remVars, alertVars, gitVars>>

\* A component that is not chosen begins in one state only.
Init ==
  /\ part \in Parts
  /\ SessionInit /\ (part # "session" => sdk)
  /\ RemInit /\ (newestOnly \/ part = "remediation")
  /\ AlertInit
  /\ GitInit

Session ==
  part = "session" /\ UNCHANGED <<part, remVars, alertVars, gitVars>>
Remedy ==
  /\ part \in {"remediation", "autonomy"}
  /\ UNCHANGED <<part, aiVars, alertVars, gitVars>>
Alerting ==
  part = "alerts" /\ UNCHANGED <<part, aiVars, remVars, gitVars>>
Gitting ==
  part = "gitops" /\ UNCHANGED <<part, aiVars, remVars, alertVars>>

Narrowed == IF part = "autonomy" THEN back' = <<>>
            ELSE \A e \in Ses : fix'[e].sight = "kept"

Next ==
  \/ Session /\ SessionNext
  \/ Remedy /\ RemNext /\ Narrowed
  \/ Alerting /\ AlertNext
  \/ Gitting /\ GitNext

Spec == Init /\ [][Next]_vars

\* The fairness of each component.  One component moves, so a conjunct may join
\* an action of each: at most one of them is ever enabled.  Runs that end are
\* finite in number, so that one conjunct does for all of them.
Fairness ==
  /\ WF_vars(\/ Session /\ Task(w1)
             \/ Remedy /\ TaskStep
             \/ Alerting /\ AlertTask(a1)
             \/ Gitting /\ DeliveryStep(d1))
  /\ WF_vars(\/ Session /\ Task(w2)
             \/ Remedy /\ SweepStep
             \/ Alerting /\ AlertTask(a2)
             \/ Gitting /\ DeliveryStep(d2))
  /\ WF_vars(\/ Session /\ Commit(c1)
             \/ Alerting /\ \E a \in Alert : RunEnds(a))
  /\ WF_vars(\/ Session /\ (FindStale \/ ExpireStale)
             \/ Alerting /\ Tick)
  /\ SF_vars(Session /\ CapHit(w1)) /\ SF_vars(Session /\ CapHit(w2))

FairSpec == Spec /\ Fairness

\* Workers, operators and sessions are alike.
Alike ==
  Permutations(Worker) \cup Permutations(Operator) \cup Permutations(Ses)

TypeOK ==
  CASE part = "session" -> SessionTypeOK
    [] part \in {"remediation", "autonomy"} -> RemTypeOK
    [] part = "alerts" -> AlertTypeOK
    [] part = "gitops" -> GitTypeOK
=============================================================================
