------------------------------- MODULE GitOps -------------------------------
(***************************************************************************)
(* Groups whose configuration is a file of a git repository: a push arrives *)
(* by webhook (api/webhooks.py), and a task clones the repository, imports  *)
(* _global.yaml and the file of every bound group, module after module,     *)
(* and stages a sync of their hosts, in one transaction (tasks/gitops.py,   *)
(* gitops/importer.py, gitops/importers/).  Tasks run beside one another,   *)
(* in any order, beside operators who bind, release and edit groups and     *)
(* beside the syncs of the one host, which is in every group.               *)
(*                                                                         *)
(* The transaction of a task is tx: what it wrote, which others see when it *)
(* commits, and whom it locked, until it ends.  A section of a file is a    *)
(* set of entries.  Left out: signatures and branches, which decide that a  *)
(* push is ignored; the order of a list (the firewall's is compared as a    *)
(* set); chain policies; audit rows.  An edit through the API is one step.  *)
(***************************************************************************)
EXTENDS Naturals, Sequences, FiniteSets

CONSTANTS Delivery,      \* webhooks that arrive, redeliveries included
          Managed,       \* groups
          Install,       \* what _global.yaml is about
          CommitId,      \* commits
          Before,        \* no commit yet
          File,          \* what a commit has for a group, or for Install
          GroupModules,  \* the handlers of a group's file, in their order
          Trouble,       \* what may go wrong, a subset of Troubles
          MaxHands       \* what operators do, at most

\* "crowded": another host of a group is in several syncs at once.
Troubles == {"dies", "cloneFails", "crowded"}
MaxRetries == 3          \* of a clone, process_gitops_webhook

InstallModules == <<"drift", "discovery">>
Modules == {"firewall", "services", "packages", "hosts_entries", "cron_jobs",
            "resolver", "users", "scheduled_actions"}
Target == Managed \cup {Install}
ModulesOf(x) == IF x = Install THEN InstallModules ELSE GroupModules
NamesOf(x) == {ModulesOf(x)[i] : i \in DOMAIN ModulesOf(x)}

\* Entries: two that are fine, one of a protected name, one that does not pass
\* validation, and one of a name that the section has already.
Entry == {"plain", "other", "reserved", "faulty", "twin"}
ByHand == {"byHand"}     \* what an operator leaves

\* What a section may be besides a set of entries, and may come to.
Absent == {"absent"}
Refused == {"refused"}   \* the handler returns an error
Unfit == {"unfit"}       \* the database refuses the rows
Same == {"same"}         \* leave the rows alone

ASSUME GitAssumption ==
  /\ Install \notin Managed
  /\ NamesOf(Install) \cap Modules = {}
  /\ GroupModules \in Seq(Modules) /\ Len(GroupModules) \in 1..8
  /\ \A c \in CommitId : \A x \in Target :
       /\ File[c][x].kind \in {"missing", "malformed", "file"}
       /\ \A h \in NamesOf(x) :
            File[c][x].has[h] \in (SUBSET Entry) \cup {Absent}
  /\ Before \notin CommitId
  /\ Trouble \subseteq Troubles
  /\ MaxHands \in Nat

VARIABLES lastSha,   \* GitRepository.last_commit_sha
          bound,     \* HostGroup.gitops_enabled and gitops_status
          content,   \* the rows of each module
          task,      \* process_webhook, one per delivery
          tx,        \* its transaction
          job,       \* the host's SyncJobs: of the firewall, of another module
          posted,    \* is a message for the firewall's on its way?
          hands      \* what operators did so far

gitVars == <<lastSha, bound, content, task, tx, job, posted, hands>>

Importing == {"cloned", "waits", "handles", "concludes", "loads", "groups",
              "stages", "blocked", "breaks", "sends"}
Statuses == {"disconnected", "synced", "error"}

NoTask ==
  [pc |-> "none", sha |-> Before, tries |-> 0, todo |-> {}, at |-> Install,
   next |-> 1, failed |-> FALSE, changed |-> FALSE]
NoWrites ==
  [holds |-> {}, staged |-> "no", marks |-> [g \in Managed |-> "same"],
   wrote |-> [x \in Target |-> [h \in NamesOf(x) |-> Same]]]

GitTypeOK ==
  /\ lastSha \in CommitId \cup {Before}
  /\ bound \in [Managed -> [enabled : BOOLEAN, status : Statuses]]
  /\ \A x \in Target : \A h \in NamesOf(x) :
       /\ content[x][h] \subseteq Entry \cup ByHand
       /\ \A t \in Delivery :
            tx[t].wrote[x][h] \in (SUBSET Entry) \cup {Same}
  /\ task \in [Delivery ->
       [pc : Importing \cup
               {"none", "queued", "over", "undone", "dead", "unsent"},
        sha : CommitId \cup {Before}, tries : 0..MaxRetries,
        todo : SUBSET Managed, at : Target, next : 1..9,
        failed : BOOLEAN, changed : BOOLEAN]]
  /\ \A t \in Delivery : /\ tx[t].holds \subseteq Target
                         /\ tx[t].staged \in {"no", "listed", "unlisted"}
  /\ job \in [firewall : {"none", "pending", "running"},
              other : {"none", "running"}]
  /\ posted \in BOOLEAN
  /\ hands \in 0..MaxHands

\* Every group is bound; its rows are what it had before.
GitInit ==
  /\ lastSha = Before
  /\ bound = [g \in Managed |-> [enabled |-> TRUE, status |-> "disconnected"]]
  /\ content = [x \in Target |-> [h \in NamesOf(x) |-> {}]]
  /\ task = [t \in Delivery |-> NoTask]
  /\ tx = [t \in Delivery |-> NoWrites]
  /\ job = [firewall |-> "none", other |-> "none"]
  /\ posted = FALSE
  /\ hands = 0

-----------------------------------------------------------------------------
(* What a section comes to, handler by handler *)

\* Checked before anything is written.
Checked(s) == IF "faulty" \in s THEN Refused ELSE s
\* No section is an empty one: it wipes.
Listed(s) == IF s = Absent THEN {} ELSE s

\* A rule of the system's is left out of the file, not of the group.
Firewall(s) == Checked(Listed(s) \ {"reserved"})
Services(s) == Checked(Listed(s) \ {"reserved"})
\* A package has one row per group.
Packages(s) ==
  IF "faulty" \in s THEN Refused
  ELSE IF "twin" \in s THEN Unfit ELSE Listed(s) \ {"reserved"}
HostsEntries(s) == Checked(Listed(s))
CronJobs(s) == Checked(Listed(s))
\* One object: no section is no opinion.
Resolver(s) == IF s = Absent THEN Same ELSE Checked(s)
Users(s) == IF "reserved" \in s THEN Refused ELSE Checked(Listed(s))
ScheduledActions(s) ==
  IF s = Absent THEN Same
  ELSE IF "twin" \in s THEN Refused ELSE Checked(s)
Drift(s) == IF s = Absent THEN Same ELSE s
\* A scan's name is unique.
Discovery(s) ==
  IF "faulty" \in s THEN Refused ELSE IF "twin" \in s THEN Unfit ELSE Listed(s)

Asked(h, s) ==
  CASE h = "firewall" -> Firewall(s)
    [] h = "services" -> Services(s)
    [] h = "packages" -> Packages(s)
    [] h = "hosts_entries" -> HostsEntries(s)
    [] h = "cron_jobs" -> CronJobs(s)
    [] h = "resolver" -> Resolver(s)
    [] h = "users" -> Users(s)
    [] h = "scheduled_actions" -> ScheduledActions(s)
    [] h = "drift" -> Drift(s)
    [] h = "discovery" -> Discovery(s)

-----------------------------------------------------------------------------
(* Transactions *)

FileOf(t) == File[task[t].sha][task[t].at]
\* A statement of t sees what is committed, and what t wrote.
Seen(t, x, h) ==
  IF tx[t].wrote[x][h] = Same THEN content[x][h] ELSE tx[t].wrote[x][h]
\* The advisory lock of a group or of _global.yaml, and the group's row.
Unheld(x, t) == \A u \in Delivery \ {t} : x \notin tx[u].holds
\* The host's job is among t's writes, and with "listed" t means to send it.
Staged(t) == tx[t].staged # "no"
StagedElsewhere(t) == \E u \in Delivery \ {t} : Staged(u)
Mark(t, g, status) == tx' = [tx EXCEPT ![t].marks[g] = status]

\* Those who wait for a row that t has staged go on as its transaction ends; of
\* t itself only its commit is of interest any more.
Onward(t, pc, theirs) ==
  task' = [u \in Delivery |->
    IF u = t THEN [NoTask EXCEPT !.pc = pc, !.sha = task[t].sha]
    ELSE IF task[u].pc = "blocked" /\ Staged(t)
      THEN [task[u] EXCEPT !.pc = theirs]
    ELSE task[u]]
RollBack(t, pc) ==
  /\ Onward(t, pc, "stages")
  /\ tx' = [tx EXCEPT ![t] = NoWrites]
  /\ UNCHANGED <<lastSha, bound, content, job, posted, hands>>

Goes(t, pc) == task' = [task EXCEPT ![t].pc = pc]
NoCommit == UNCHANGED <<lastSha, bound, content, job, posted, hands>>

-----------------------------------------------------------------------------
(* A delivery *)

\* A push of the branch, for which some group is bound.
Deliver(t, c) ==
  /\ task[t].pc = "none"
  /\ \E g \in Managed : bound[g].enabled
  /\ task' = [task EXCEPT ![t].pc = "queued", ![t].sha = c]
  /\ NoCommit /\ UNCHANGED tx

\* A worker takes the message: the commit was imported, or it is cloned.
Skip(t) ==
  /\ task[t].pc = "queued" /\ lastSha = task[t].sha
  /\ Goes(t, "over")
  /\ NoCommit /\ UNCHANGED tx
Clone(t) ==
  /\ task[t].pc = "queued" /\ lastSha # task[t].sha
  /\ task' = [task EXCEPT ![t].pc = "cloned", ![t].tries = 0]
  /\ NoCommit /\ UNCHANGED tx
Retries(t) == task[t].tries < MaxRetries
CloneFails_StartsOver(t) ==    \* mutant: it never gives up
  /\ "cloneFails" \in Trouble
  /\ task[t].pc = "queued" /\ lastSha # task[t].sha
  /\ task' = [task EXCEPT ![t].tries = IF Retries(t) THEN @ + 1 ELSE 0]
  /\ NoCommit /\ UNCHANGED tx
CloneFails(t) ==
  /\ "cloneFails" \in Trouble
  /\ task[t].pc = "queued" /\ lastSha # task[t].sha
  /\ task' = IF Retries(t)
               THEN [task EXCEPT ![t].tries = @ + 1]
               ELSE [task EXCEPT ![t].pc = "over"]
  /\ NoCommit /\ UNCHANGED tx

\* _global.yaml first, if there is one.
SeekGlobal(t) ==
  /\ task[t].pc = "cloned"
  /\ task' = [task EXCEPT
       ![t].at = Install,
       ![t].pc = IF File[task[t].sha][Install].kind = "missing"
                   THEN "loads" ELSE "waits"]
  /\ NoCommit /\ UNCHANGED tx

\* The groups of the repository, as they are bound now.
LoadGroups(t) ==
  /\ task[t].pc = "loads"
  /\ task' = [task EXCEPT ![t].todo = {g \in Managed : bound[g].enabled},
                          ![t].pc = "groups"]
  /\ NoCommit /\ UNCHANGED tx

\* The next group, in no particular order.
NextGroup(t, g) ==
  /\ task[t].pc = "groups" /\ g \in task[t].todo
  /\ task' = [task EXCEPT ![t].todo = @ \ {g}, ![t].at = g, ![t].pc = "waits"]
  /\ NoCommit /\ UNCHANGED tx

Back(t) == IF task[t].at = Install THEN "loads" ELSE "groups"

\* It has the lock: a file that is not there, or is none, is the group's error.
Lock(t) ==
  LET x == task[t].at
  IN /\ task[t].pc = "waits" /\ Unheld(x, t)
     /\ IF FileOf(t).kind = "file"
          THEN /\ task' = [task EXCEPT ![t].pc = "handles", ![t].next = 1,
                             ![t].failed = FALSE, ![t].changed = FALSE]
               /\ tx' = [tx EXCEPT ![t].holds = @ \cup {x}]
          ELSE /\ Goes(t, Back(t))
               /\ tx' = [tx EXCEPT
                    ![t].holds = @ \cup {x},
                    ![t].marks = IF x = Install THEN @
                                 ELSE [@ EXCEPT ![x] = "error"]]
     /\ NoCommit

RunHandler_Forgets(t) ==    \* mutant: the last handler's error counts
  LET x == task[t].at
      h == ModulesOf(x)[task[t].next]
      asked == Asked(h, FileOf(t).has[h])
      differs == asked \notin {Refused, Same, Seen(t, x, h)}
  IN /\ task[t].pc = "handles" /\ asked # Unfit
     /\ task' = [task EXCEPT
          ![t].next = @ + 1,
          ![t].failed = asked = Refused,
          ![t].changed = @ \/ differs,
          ![t].pc = IF task[t].next = Len(ModulesOf(x))
                      THEN "concludes" ELSE @]
     /\ tx' = IF differs THEN [tx EXCEPT ![t].wrote[x][h] = asked] ELSE tx
     /\ NoCommit
\* One handler, whether those before it failed or not: it writes what differs.
RunHandler(t) ==
  LET x == task[t].at
      h == ModulesOf(x)[task[t].next]
      asked == Asked(h, FileOf(t).has[h])
      differs == asked \notin {Refused, Same, Seen(t, x, h)}
  IN /\ task[t].pc = "handles" /\ asked # Unfit
     /\ task' = [task EXCEPT
          ![t].next = @ + 1,
          ![t].failed = @ \/ asked = Refused,
          ![t].changed = @ \/ differs,
          ![t].pc = IF task[t].next = Len(ModulesOf(x))
                      THEN "concludes" ELSE @]
     /\ tx' = IF differs THEN [tx EXCEPT ![t].wrote[x][h] = asked] ELSE tx
     /\ NoCommit
\* The database refuses its rows: the session is of no use any more, and the
\* error handlers that would note it raise in turn.
HandlerBreaks(t) ==
  LET h == ModulesOf(task[t].at)[task[t].next]
  IN /\ task[t].pc = "handles" /\ Asked(h, FileOf(t).has[h]) = Unfit
     /\ RollBack(t, "undone")

\* All handlers ran.  What a failed import wrote stays in the transaction.
Conclude(t) ==
  LET g == task[t].at
  IN /\ task[t].pc = "concludes"
     /\ IF g = Install THEN UNCHANGED tx
        ELSE Mark(t, g, IF task[t].failed THEN "error" ELSE "synced")
     /\ Goes(t, IF g # Install /\ task[t].changed /\ ~task[t].failed
                  THEN "stages" ELSE Back(t))
     /\ NoCommit

\* _trigger_group_sync, host after host: one that is in a sync is left out.
JobsOf(t) ==
  Cardinality({k \in DOMAIN job : job[k] # "none"})
    + (IF Staged(t) THEN 1 ELSE 0)
Stage(t) ==
  /\ task[t].pc = "stages"
  /\ \/ /\ JobsOf(t) = 0 /\ ~StagedElsewhere(t)
        /\ tx' = [tx EXCEPT ![t].staged = "listed"]
        /\ Goes(t, "groups")
     \/ /\ JobsOf(t) = 0 /\ StagedElsewhere(t)
        /\ Goes(t, "blocked") /\ UNCHANGED tx
     \/ JobsOf(t) = 1 /\ Goes(t, "groups") /\ UNCHANGED tx
  /\ NoCommit
\* One in several, this host or another, makes the query raise.  The list goes
\* with the call: a job staged just before is committed, and nobody's to send.
StagingRaises(t) ==
  /\ task[t].pc = "stages"
  /\ JobsOf(t) > 1 \/ "crowded" \in Trouble
  /\ \E staged \in {tx[t].staged}
                   \cup (IF JobsOf(t) = 0 /\ ~StagedElsewhere(t)
                           THEN {"unlisted"} ELSE {}) :
       tx' = [tx EXCEPT ![t] = [@ EXCEPT !.staged = staged,
                                         !.marks[task[t].at] = "error"]]
  /\ Goes(t, "groups")
  /\ NoCommit

\* Every group was looked at: the commit is recorded with what was imported.
CommitImport_SentFirst(t) ==    \* mutant: the messages went out before it, to
                                \* a worker that found no row
  /\ task[t].pc = "groups" /\ task[t].todo = {}
  /\ lastSha' = task[t].sha
  /\ bound' = [g \in Managed |->
       IF tx[t].marks[g] = "same" THEN bound[g]
       ELSE [bound[g] EXCEPT !.status = tx[t].marks[g]]]
  /\ content' = [x \in Target |-> [h \in NamesOf(x) |-> Seen(t, x, h)]]
  /\ job' = IF Staged(t) THEN [job EXCEPT !.firewall = "pending"] ELSE job
  /\ Onward(t, "over", "breaks")
  /\ tx' = [tx EXCEPT ![t] = NoWrites]
  /\ UNCHANGED <<posted, hands>>
CommitImport(t) ==
  /\ task[t].pc = "groups" /\ task[t].todo = {}
  /\ lastSha' = task[t].sha
  /\ bound' = [g \in Managed |->
       IF tx[t].marks[g] = "same" THEN bound[g]
       ELSE [bound[g] EXCEPT !.status = tx[t].marks[g]]]
  /\ content' = [x \in Target |-> [h \in NamesOf(x) |-> Seen(t, x, h)]]
  /\ job' = IF Staged(t) THEN [job EXCEPT !.firewall = "pending"] ELSE job
  /\ Onward(t, CASE tx[t].staged = "listed" -> "sends"
                 [] tx[t].staged = "unlisted" -> "unsent"
                 [] tx[t].staged = "no" -> "over", "breaks")
  /\ tx' = [tx EXCEPT ![t] = NoWrites]
  /\ UNCHANGED <<posted, hands>>

\* The messages go out after the commit.
SendJobs(t) ==
  /\ task[t].pc = "sends"
  /\ posted' = TRUE /\ Goes(t, "over")
  /\ UNCHANGED <<lastSha, bound, content, tx, job, hands>>

\* The row t staged is there already.
StageBreaks(t) == task[t].pc = "breaks" /\ RollBack(t, "undone")

\* PostgreSQL ends one transaction of a ring.
WaitsFor(t, u) ==
  \/ task[t].pc = "waits" /\ task[t].at \in tx[u].holds /\ u # t
  \/ task[t].pc = "blocked" /\ Staged(u) /\ u # t
Deadlock(t) ==
  /\ \E ring \in SUBSET Delivery :
       /\ t \in ring
       /\ \A u \in ring : /\ \E v \in ring : WaitsFor(u, v)
                          /\ \E v \in ring : WaitsFor(v, u)
  /\ RollBack(t, "undone")

DeliveryDies(t) ==
  /\ "dies" \in Trouble /\ task[t].pc \in Importing
  /\ RollBack(t, IF task[t].pc = "sends" THEN "unsent" ELSE "dead")

-----------------------------------------------------------------------------
(* Operators, and the syncs of the host *)

Hand == hands < MaxHands /\ hands' = hands + 1

\* enable_gitops, or a scan of the repository that binds a group again.
Bind(g) ==
  /\ Hand /\ \A t \in Delivery : g \notin tx[t].holds
  /\ bound' = [bound EXCEPT ![g].enabled = TRUE,
                            ![g].status = "disconnected"]
  /\ UNCHANGED <<lastSha, content, task, tx, job, posted>>
Release(g) ==
  /\ Hand /\ \A t \in Delivery : g \notin tx[t].holds
  /\ bound' = [bound EXCEPT ![g].enabled = FALSE,
                            ![g].status = "disconnected"]
  /\ UNCHANGED <<lastSha, content, task, tx, job, posted>>

\* check_gitops_lock; the schedules of a group have no such check.
Unlocked(g, h) == h = "scheduled_actions" \/ ~bound[g].enabled
HandEdit(g, h) ==
  /\ Hand /\ Unlocked(g, h)
  /\ content' = [content EXCEPT ![g][h] = ByHand]
  /\ UNCHANGED <<lastSha, bound, task, tx, job, posted>>

\* A sync of another module: whoever ends wakes the one that waits.
OtherSync ==
  /\ job.other = "none" /\ job.firewall # "running"
  /\ Hand
  /\ job' = [job EXCEPT !.other = "running"]
  /\ UNCHANGED <<lastSha, bound, content, task, tx, posted>>
OtherEnds ==
  /\ job.other = "running"
  /\ job' = [job EXCEPT !.other = "none"]
  /\ posted' = (posted \/ job.firewall = "pending")
  /\ UNCHANGED <<lastSha, bound, content, task, tx, hands>>

\* run_sync_playbook: no row to start and nothing happens; a busy host, and it
\* waits to be woken.
TakeMessage ==
  /\ posted /\ posted' = FALSE
  /\ job' = IF job.firewall = "pending" /\ job.other = "none"
              THEN [job EXCEPT !.firewall = "running"] ELSE job
  /\ UNCHANGED <<lastSha, bound, content, task, tx, hands>>
JobEnds ==
  /\ job.firewall = "running"
  /\ job' = [job EXCEPT !.firewall = "none"]
  /\ UNCHANGED <<lastSha, bound, content, task, tx, posted, hands>>

-----------------------------------------------------------------------------
DeliveryStep(t) ==
  \/ Skip(t) \/ Clone(t) \/ CloneFails(t) \/ SeekGlobal(t) \/ LoadGroups(t)
  \/ (\E g \in Managed : NextGroup(t, g)) \/ Lock(t) \/ RunHandler(t)
  \/ HandlerBreaks(t) \/ Conclude(t) \/ Stage(t) \/ StagingRaises(t)
  \/ CommitImport(t) \/ SendJobs(t) \/ StageBreaks(t) \/ Deadlock(t)

Operates ==
  \/ \E g \in Managed : \/ Bind(g) \/ Release(g)
                        \/ \E h \in NamesOf(g) : HandEdit(g, h)
  \/ OtherSync

GitNext ==
  \/ \E t \in Delivery : \/ \E c \in CommitId : Deliver(t, c)
                         \/ DeliveryStep(t)
                         \/ DeliveryDies(t)
  \/ Operates
  \/ OtherEnds \/ TakeMessage \/ JobEnds

GitSpec == GitInit /\ [][GitNext]_gitVars

-----------------------------------------------------------------------------
(* What must hold *)

\* What the file of g in c asks of a module, which it may be silent about.
Agrees(g, h, c) ==
  LET asked == Asked(h, File[c][g].has[h])
  IN asked \in {Same, content[g][h]}

\* A bound group that shows `synced' holds the file of one commit: not some
\* modules of one push and some of another that ran beside it or before it, and
\* nothing an operator left.  The schedules have no lock and may be anybody's.
\* (gitops/importer.py: the advisory lock, the diffs; api/_gitops_lock.py)
SyncedIsOneCommit ==
  \A g \in Managed :
    bound[g] = [enabled |-> TRUE, status |-> "synced"]
      => \E c \in CommitId :
           /\ File[c][g].kind = "file"
           /\ \A h \in NamesOf(g) \ {"scheduled_actions"} : Agrees(g, h, c)

\* A sync that is staged gets its message: somebody is about to send it, it is
\* on its way, or the operation that holds the host will wake it.  There are two
\* exceptions: a worker died between its commit and its messages, or lost its
\* list when another host of the group made the staging raise.
\* (tasks/gitops.py: pending_dispatches, sent after the commit)
StagedIsSent ==
  job.firewall = "pending"
    => \/ posted \/ job.other = "running"
       \/ \E t \in Delivery : task[t].pc \in {"sends", "unsent"}

\* One bad file does not stop the others: a delivery that ends without having
\* imported anything had no sound file for a bound group.
\* (docs/ui/gitops-ui.md, Import Flow; tasks/gitops.py, _global.yaml)
Sound(g, c) ==
  /\ File[c][g].kind = "file"
  /\ \A h \in NamesOf(g) : Asked(h, File[c][g].has[h]) \notin {Refused, Unfit}
BadFileStopsNoOther ==
  \A t \in Delivery : task[t].pc = "undone"
    => \A g \in Managed : bound[g].enabled => ~Sound(g, task[t].sha)

\* A delivery that a worker was told of comes to an end: retries are finite in
\* number, and tasks that wait for each other's groups or rows do not do so for
\* ever.  (tasks/gitops.py: max_retries, the locks held to the commit)
DeliveryEnds ==
  \A t \in Delivery :
    task[t].pc = "queued"
      ~> task[t].pc \in {"over", "undone", "dead", "unsent"}
=============================================================================
