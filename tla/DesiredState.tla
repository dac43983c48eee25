----------------------------- MODULE DesiredState -----------------------------
(***************************************************************************)
(* The configuration one host inherits: the rows of one module that its    *)
(* groups and the host itself own, the precedence between them             *)
(* (merge_utils.py), and the ruleset the firewall makes of them             *)
(* (rules/merge.py, rules/desired_state.py), which is read first match      *)
(* first.  The rows change by api/rules.py and api/groups.py.               *)
(*                                                                         *)
(* A key is what makes two rows rules for the same match; what it covers   *)
(* is known only once host references are resolved, so that two keys may   *)
(* cover the same packets.  What a rule does to a packet is left out: the  *)
(* question is which rule decides.                                         *)
(***************************************************************************)
EXTENDS Naturals, Sequences

CONSTANTS Group,       \* the groups the host is a member of
          Key,         \* FirewallRuleSpec._conflict_key
          Packet,
          Covers,      \* the packets that a key matches
          SystemKey,   \* the key of the rule LabDog adds of its own accord
          MaxRank,     \* bound: group priorities
          MaxPriority, \* bound: row priorities
          MaxRows      \* bound: rows ever created

Host == "host"
ASSUME DesiredAssumption ==
  /\ Host \notin Group
  /\ Covers \in [Key -> SUBSET Packet] /\ SystemKey \in Key
  /\ MaxRank \in Nat /\ MaxPriority \in Nat /\ MaxRows \in Nat

VARIABLES rows,   \* the table, by id; a deleted row stays as a gap
          rank    \* HostGroup.priority, unique

desiredVars == <<rows, rank>>

RowOf == [owner : Group \cup {Host}, key : Key, priority : 0..MaxPriority,
          gone : BOOLEAN]

Gap == [owner |-> Host, key |-> SystemKey, priority |-> 0, gone |-> TRUE]

DesiredTypeOK ==
  /\ rows \in Seq(RowOf) /\ Len(rows) <= MaxRows
  /\ rank \in [Group -> 1..MaxRank]
  /\ \A g, h \in Group : rank[g] = rank[h] => g = h

DesiredInit ==
  /\ rows = <<>>
  /\ rank \in [Group -> 1..MaxRank]
  /\ \A g, h \in Group : rank[g] = rank[h] => g = h

-----------------------------------------------------------------------------
(* The edits *)

Live == {i \in DOMAIN rows : ~rows[i].gone}
OwnedBy(o) == {i \in Live : rows[i].owner = o}

\* create_rule, create_host_rule: nothing asks whether the match is ruled on.
CreateRow(o, k, p) ==
  /\ Len(rows) < MaxRows
  /\ rows' = Append(rows, [owner |-> o, key |-> k, priority |-> p,
                           gone |-> FALSE])
  /\ UNCHANGED rank

\* update_rule, update_host_rule; the owner of a row never changes.
UpdateRow(i, k, p) ==
  /\ i \in Live
  /\ rows' = [rows EXCEPT ![i].key = k, ![i].priority = p]
  /\ UNCHANGED rank

\* delete_rule, delete_host_rule
DeleteRow(i) ==
  /\ i \in Live
  /\ rows' = [rows EXCEPT ![i] = Gap]
  /\ UNCHANGED rank

\* reorder_rules: the first of those listed gets the highest priority; ids of
\* other owners are passed over but counted.
Reorder(g, listed) ==
  /\ Len(listed) <= MaxPriority + 1
  /\ rows' = [i \in DOMAIN rows |->
       IF i \in OwnedBy(g) /\ \E n \in DOMAIN listed : listed[n] = i
         THEN [rows[i] EXCEPT !.priority =
                 Len(listed) - CHOOSE n \in DOMAIN listed : listed[n] = i]
         ELSE rows[i]]
  /\ UNCHANGED rank

\* update_group refuses a priority that is taken.
SetRank(g, r) ==
  /\ \A h \in Group \ {g} : rank[h] # r
  /\ rank' = [rank EXCEPT ![g] = r]
  /\ UNCHANGED rows

DesiredNext ==
  \/ \E k \in Key, p \in 0..MaxPriority :
       \/ \E o \in Group \cup {Host} : CreateRow(o, k, p)
       \/ \E i \in DOMAIN rows : UpdateRow(i, k, p)
  \/ \E i \in DOMAIN rows : DeleteRow(i)
  \/ \E g \in Group, i, j \in DOMAIN rows :
       Reorder(g, <<i>>) \/ (i # j /\ Reorder(g, <<i, j>>))
  \/ \E g \in Group, r \in 1..MaxRank : SetRank(g, r)

DesiredSpec == DesiredInit /\ [][DesiredNext]_desiredVars

-----------------------------------------------------------------------------
(* Which of them count *)

OfHost == OwnedBy(Host)
OfGroups == Live \ OfHost

\* load_owned_rows: the host's rows lead, then the highest-priority group's.
Outranks(i, j) ==
  \/ i \in OfHost /\ j \notin OfHost
  \/ /\ i \notin OfHost /\ j \notin OfHost
     /\ rank[rows[i].owner] > rank[rows[j].owner]
\* _merge_order: the order of one owner's rows.
Leads(i, j) ==
  \/ rows[i].priority > rows[j].priority
  \/ rows[i].priority = rows[j].priority /\ i < j
Precedes(i, j) ==
  Outranks(i, j) \/ (rows[i].owner = rows[j].owner /\ Leads(i, j))

SameKey(i, j) == rows[i].key = rows[j].key
\* first_wins over rows in that order.
FirstWins(S) ==
  {i \in S : \A j \in S : SameKey(i, j) => ~Precedes(j, i)}

\* A host's override replaces what was merged before it, the host's own earlier
\* overrides included.
Overrides ==
  {i \in OfHost : \A j \in OfHost : SameKey(i, j) => ~Leads(i, j)}

\* merge_group_rules; LabDog's own rule stands for every rule with its key.
Merged ==
  {i \in FirstWins(OfGroups) : \A j \in OfHost : ~SameKey(i, j)}
    \cup Overrides
Kept == {i \in Merged : rows[i].key # SystemKey}

GroupPriority(i) == IF i \in OfHost THEN 0 ELSE rank[rows[i].owner]
EmittedBefore_Priority(i, j) ==    \* mutant: host rules sorted like the others
  \/ GroupPriority(i) > GroupPriority(j)
  \/ GroupPriority(i) = GroupPriority(j) /\ Leads(i, j)
\* Its sort.
EmittedBefore(i, j) ==
  \/ i \in OfHost /\ j \notin OfHost
  \/ /\ i \in OfHost <=> j \in OfHost
     /\ \/ GroupPriority(i) > GroupPriority(j)
        \/ GroupPriority(i) = GroupPriority(j) /\ Leads(i, j)

\* The rules that decide on a packet: the first emitted one, if any, when
\* LabDog's own, which is emitted before all of them, does not.
Deciders(p) ==
  {i \in Kept : /\ p \in Covers[rows[i].key] \ Covers[SystemKey]
                /\ \A j \in Kept : p \in Covers[rows[j].key]
                                     => ~EmittedBefore(j, i)}

-----------------------------------------------------------------------------
\* The row that ought to: of all that cover the packet, the first in precedence.
Best(p) ==
  {i \in Live : /\ p \in Covers[rows[i].key] \ Covers[SystemKey]
                /\ \A j \in Live : p \in Covers[rows[j].key]
                                     => ~Precedes(j, i)}

\* Dropping duplicates, replacing overridden rules and sorting what is left
\* never let a weaker row decide: whatever the edits, the ruleset decides on
\* every packet as the strongest row that covers it, as long as the host does
\* not override the same match twice.
FirstMatchIsBest ==
  (\A i, j \in OfHost : SameKey(i, j) => i = j)
    => \A p \in Packet : Deciders(p) = Best(p)
=============================================================================
