------------------------------- MODULE MC_Runs -------------------------------
(***************************************************************************)
(* One orchestrated run, what a run does to its hosts, what LabDog shows,  *)
(* wants and is told of a host, and the repository its groups may come     *)
(* from, for TLC: components that share no state.  A behaviour is one of   *)
(* one of them: RunsInit chooses `about', and the variables of the others  *)
(* stay as they began.  The names Init, Next and Spec are Orchestrator's;  *)
(* the joined state machine is Runs.  g1 and g2 are the groups of the host *)
(* whose firewall is wanted, too.                                          *)
(***************************************************************************)
EXTENDS Orchestrator, Envelope, SyncStatus, DesiredState, Alerts, MC_GitOps,
        TLC

CONSTANTS Abouts,    \* the components a run is about
          o1, o2,    \* orchestrators; o1 is run_action's
          m1, m2,    \* members of a run
          a1, a2,    \* alerts
          Settled    \* the host cannot be reached and is not as wanted, all of
                     \* it checked periodically

VARIABLE about

runsVars ==
  <<about, vars, envVars, statusVars, desiredVars, alertVars, gitVars>>

\* What LabDog's own rule matches, what another one does, and all of it.
Reach == [k \in Key |-> IF k \in Packet THEN {k} ELSE Packet]

\* A component that is not chosen begins in one state only.
RunsInit ==
  /\ about \in Abouts
  /\ Init
  /\ EnvelopeInit
  /\ StatusInit
  /\ DesiredInit
  /\ AlertInit
  /\ GitInit
  /\ (about = "envelope") <=> (fate # {})
  /\ about # "envelope"
       => plan = [grouped |-> FALSE, mapped |-> {}, verify |-> FALSE,
                  undo |-> FALSE]
  /\ about # "status" => /\ enabled = {} /\ outage = "ahead"
                         /\ \A m \in Module : actual[m] = 0
  /\ about = "status" /\ Settled
       => /\ enabled = Module /\ outage = "on"
          /\ \A m \in Module : actual[m] = Other
  /\ about # "desired" => rank = [g \in Group |-> IF g = g1 THEN 1 ELSE 2]

Running ==
  about = "run"
  /\ UNCHANGED <<about, envVars, statusVars, desiredVars, alertVars, gitVars>>
Enveloping ==
  about = "envelope"
  /\ UNCHANGED <<about, vars, statusVars, desiredVars, alertVars, gitVars>>
Showing ==
  about = "status"
  /\ UNCHANGED <<about, vars, envVars, desiredVars, alertVars, gitVars>>
Wanting ==
  about = "desired"
  /\ UNCHANGED <<about, vars, envVars, statusVars, alertVars, gitVars>>
Alerting ==
  about = "alerts"
  /\ UNCHANGED <<about, vars, envVars, statusVars, desiredVars, gitVars>>
Gitting ==
  about = "gitops"
  /\ UNCHANGED <<about, vars, envVars, statusVars, desiredVars, alertVars>>

RunsNext ==
  \/ Running /\ Next
  \/ Enveloping /\ EnvelopeNext
  \/ Showing /\ StatusNext
  \/ Wanting /\ DesiredNext
  \/ Alerting /\ AlertNext
  \/ Gitting /\ GitNext

RunsSpec == RunsInit /\ [][RunsNext]_runsVars

\* The fairness of an orchestrated run and of a host's badge; as one of them
\* moves, a conjunct may join an action of each.  Operations, checks and outages
\* are finite in number, so that one conjunct does for all of them.
RunsFairness ==
  /\ WF_runsVars((Running /\ OrchStep(o1)) \/ (Showing /\ SweepOf("firewall")))
  /\ WF_runsVars((Running /\ OrchStep(o2)) \/ (Showing /\ SweepOf("service")))
  /\ WF_runsVars(\/ Running /\ Sweep
                 \/ Showing /\ (Operate \/ (\E m \in Module : CheckOf(m))
                               \/ (outage = "on" /\ Outage)))
  /\ WF_runsVars(Running /\ GoesStale /\ owner \in Orch
                         /\ phase[owner] = "dead")
  /\ \A w \in Row : WF_runsVars(Running /\ RowStep(w))

RunsFairSpec == RunsSpec /\ RunsFairness

\* Members are alike.
Alike == Permutations(Member)

RunsTypeOK ==
  CASE about = "run" -> TypeOK
    [] about = "envelope" -> EnvelopeTypeOK
    [] about = "status" -> StatusTypeOK
    [] about = "desired" -> DesiredTypeOK
    [] about = "alerts" -> AlertTypeOK
    [] about = "gitops" -> GitTypeOK
=============================================================================
