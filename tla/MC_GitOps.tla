------------------------------ MODULE MC_GitOps ------------------------------
(***************************************************************************)
(* The commits of a repository, for TLC: MC_Runs and MC_LabDog share them. *)
(***************************************************************************)
EXTENDS GitOps

CONSTANTS g1, g2     \* groups of the repository

\* What a commit has: sections that are fine, that a handler refuses or the
\* database does, a file that is none, a group that has none, no opinion, and a
\* protected rule.
NoSections == [h \in Modules \cup NamesOf(Install) |-> Absent]
NoFile(kind) == [kind |-> kind, has |-> NoSections]
FileWith(has) ==
  [kind |-> "file",
   has |-> [h \in DOMAIN NoSections |->
              IF h \in DOMAIN has THEN has[h] ELSE Absent]]
Files ==
  <<[x \in Target |->
       CASE x = Install -> FileWith([drift |-> {"plain"},
                                     discovery |-> {"plain"}])
         [] x = g1 -> FileWith([packages |-> {"plain", "reserved"},
                                resolver |-> {"plain"}])
         [] x = g2 -> NoFile("missing")],
    [x \in Target |->
       CASE x = Install -> NoFile("missing")
         [] x = g1 -> FileWith([packages |-> {"other"},
                                scheduled_actions |-> {"plain"}])
         [] x = g2 -> FileWith([packages |-> {"plain"},
                                resolver |-> {"faulty"}])],
    [x \in Target |->
       CASE x = Install -> NoFile("malformed")
         [] x = g1 -> FileWith([resolver |-> {"other"}])
         [] x = g2 -> FileWith([packages |-> {"plain", "twin"}])]>>
SomeModules == <<"packages", "resolver", "scheduled_actions">>
=============================================================================
