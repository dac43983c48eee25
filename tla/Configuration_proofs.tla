----------------------- MODULE Configuration_proofs -----------------------
(***************************************************************************)
(* Proofs about what a host is to look like: DesiredState, for any groups,  *)
(* keys, packets and bounds, and GitOps, for any deliveries, groups, files  *)
(* and troubles.                                                            *)
(***************************************************************************)
EXTENDS DesiredState, GitOps, SequenceTheorems, WellFoundedInduction, TLAPS

(***************************************************************************)
(* Type correctness                                                        *)
(***************************************************************************)

LEMMA RowsWritten ==
  ASSUME DesiredTypeOK, NEW f \in [DOMAIN rows -> RowOf]
  PROVE  f \in Seq(RowOf) /\ Len(f) = Len(rows)
<1>1. rows \in Seq(RowOf)
  BY DEF DesiredTypeOK
<1>2. DOMAIN f = 1..Len(rows) /\ Len(rows) \in Nat
  BY <1>1, LenProperties
<1>3. f \in Seq(RowOf)
  BY <1>2, SeqDef
<1>4. QED
  BY <1>2, <1>3, LenProperties

\* Every edit keeps the types, and the groups' priorities unique.
LEMMA TypeStep == DesiredTypeOK /\ [DesiredNext]_desiredVars => DesiredTypeOK'
<1> SUFFICES ASSUME DesiredTypeOK, [DesiredNext]_desiredVars
             PROVE  DesiredTypeOK'
  OBVIOUS
<1>a. /\ rows \in Seq(RowOf) /\ Len(rows) <= MaxRows /\ Len(rows) \in Nat
      /\ \A i \in DOMAIN rows : rows[i] \in RowOf
      /\ rank \in [Group -> 1..MaxRank]
      /\ \A g, h \in Group : rank[g] = rank[h] => g = h
  BY DEF DesiredTypeOK
<1>b. ASSUME rows' \in [DOMAIN rows -> RowOf], UNCHANGED rank
      PROVE  DesiredTypeOK'
  BY <1>b, RowsWritten DEF DesiredTypeOK
<1>1. ASSUME NEW o \in Group \cup {Host}, NEW k \in Key,
             NEW p \in 0..MaxPriority, CreateRow(o, k, p)
      PROVE  DesiredTypeOK'
  <2>1. [owner |-> o, key |-> k, priority |-> p, gone |-> FALSE] \in RowOf
    BY DEF RowOf
  <2>2. rows' \in Seq(RowOf) /\ Len(rows') <= MaxRows
    BY <1>1, <1>a, <2>1, DesiredAssumption DEF CreateRow
  <2>3. QED
    BY <1>1, <2>2 DEF CreateRow, DesiredTypeOK
<1>2. ASSUME NEW i \in DOMAIN rows, NEW k \in Key, NEW p \in 0..MaxPriority,
             UpdateRow(i, k, p)
      PROVE  DesiredTypeOK'
  <2>1. [rows[i] EXCEPT !.key = k, !.priority = p] \in RowOf
    BY <1>a DEF RowOf
  <2>2. rows' = [rows EXCEPT ![i] = [rows[i] EXCEPT !.key = k, !.priority = p]]
    BY <1>2 DEF UpdateRow
  <2>3. rows' \in [DOMAIN rows -> RowOf]
    BY <1>a, <2>1, <2>2
  <2>4. QED
    BY <1>2, <1>b, <2>3 DEF UpdateRow
<1>3. ASSUME NEW i \in DOMAIN rows, DeleteRow(i) PROVE DesiredTypeOK'
  <2>1. Gap \in RowOf
    BY DesiredAssumption DEF Gap, RowOf
  <2>2. rows' \in [DOMAIN rows -> RowOf]
    BY <1>3, <1>a, <2>1 DEF DeleteRow
  <2>3. QED
    BY <1>3, <1>b, <2>2 DEF DeleteRow
<1>4. ASSUME NEW g \in Group, NEW listed \in Seq(DOMAIN rows),
             Reorder(g, listed)
      PROVE  DesiredTypeOK'
  <2>1. ASSUME NEW i \in DOMAIN rows, \E n \in DOMAIN listed : listed[n] = i
        PROVE  Len(listed) - (CHOOSE n \in DOMAIN listed : listed[n] = i)
                 \in 0..MaxPriority
    <3>1. (CHOOSE n \in DOMAIN listed : listed[n] = i) \in 1..Len(listed)
      BY <2>1
    <3>2. QED
      BY <1>4, <3>1, DesiredAssumption DEF Reorder
  <2>2. ASSUME NEW i \in DOMAIN rows, NEW p \in 0..MaxPriority
        PROVE  [rows[i] EXCEPT !.priority = p] \in RowOf
    BY <1>a DEF RowOf
  <2>3. rows' \in [DOMAIN rows -> RowOf]
    BY <1>4, <1>a, <2>1, <2>2 DEF Reorder
  <2>4. QED
    BY <1>4, <1>b, <2>3 DEF Reorder
<1>5. ASSUME NEW g \in Group, NEW r \in 1..MaxRank, SetRank(g, r)
      PROVE  DesiredTypeOK'
  BY <1>5, <1>a DEF SetRank, DesiredTypeOK
<1>6. CASE UNCHANGED desiredVars
  BY <1>6 DEF desiredVars, DesiredTypeOK
<1>7. \A i, j \in DOMAIN rows :
        <<i>> \in Seq(DOMAIN rows) /\ <<i, j>> \in Seq(DOMAIN rows)
  OBVIOUS
<1>8. QED
  BY <1>1, <1>2, <1>3, <1>4, <1>5, <1>6, <1>7 DEF DesiredNext

\* THEOREM: rows and priorities keep their types, and no two groups of the host
\* ever have the same priority, which is what makes the merge unambiguous.
THEOREM DesiredTypeCorrect == DesiredSpec => []DesiredTypeOK
<1>1. DesiredInit => DesiredTypeOK
  <2>1. <<>> \in Seq(RowOf) /\ Len(<<>>) = 0
    BY EmptySeq
  <2>2. QED
    BY <2>1, DesiredAssumption DEF DesiredInit, DesiredTypeOK
<1>2. QED
  BY <1>1, TypeStep, PTL DEF DesiredSpec

(***************************************************************************)
(* The order of precedence                                                 *)
(***************************************************************************)

\* A nonempty set of numbers has a least one.
LEMMA LeastNumber ==
  ASSUME NEW S, S \subseteq Nat, S # {}
  PROVE  \E x \in S : \A y \in S : x <= y
<1>1. IsWellFoundedOn(OpToRel(<, Nat), Nat)
  BY NatLessThanWellFounded
<1>2. PICK x \in S : \A y \in S : ~(<<y, x>> \in OpToRel(<, Nat))
  BY <1>1, WFMin
<1>3. \A y \in S : ~(y < x)
  BY <1>2 DEF OpToRel
<1>4. QED
  BY <1>3

LEMMA LiveRows ==
  ASSUME DesiredTypeOK
  PROVE  /\ Live \subseteq Nat
         /\ \A i \in Live :
              /\ rows[i].owner \in Group \cup {Host}
              /\ rows[i].priority \in 0..MaxPriority /\ rows[i].key \in Key
              /\ i \in OfHost <=> rows[i].owner = Host
              /\ i \notin OfHost => /\ rows[i].owner \in Group
                                    /\ rank[rows[i].owner] \in 1..MaxRank
<1>1. \A i \in Live : rows[i] \in RowOf /\ i \in Nat
  BY DEF DesiredTypeOK, Live
<1>2. QED
  BY <1>1 DEF RowOf, DesiredTypeOK, OfHost, OwnedBy

\* The rows that count, their owners and their places, told apart.
LEMMA Places ==
  ASSUME DesiredTypeOK, NEW i \in Live, NEW j \in Live
  PROVE  /\ i \in Nat /\ j \in Nat
         /\ rows[i].priority \in Nat /\ rows[j].priority \in Nat
         /\ Outranks(i, j) => rows[i].owner # rows[j].owner
         /\ i \in OfHost <=> rows[i].owner = Host
         /\ i \in OfHost => ~Outranks(j, i)
         /\ Outranks(i, j) => ~Outranks(j, i)
         /\ Outranks(i, j) \/ Outranks(j, i) \/ rows[i].owner = rows[j].owner
<1>1. /\ i \in OfHost <=> rows[i].owner = Host
      /\ j \in OfHost <=> rows[j].owner = Host
      /\ i \in Nat /\ j \in Nat
      /\ rows[i].priority \in Nat /\ rows[j].priority \in Nat
  BY LiveRows
<1>2. i \notin OfHost => rows[i].owner \in Group /\ rank[rows[i].owner] \in Nat
  BY LiveRows
<1>3. j \notin OfHost => rows[j].owner \in Group /\ rank[rows[j].owner] \in Nat
  BY LiveRows
<1>4. \A g, h \in Group : rank[g] = rank[h] => g = h
  BY DEF DesiredTypeOK
<1>5. CASE i \in OfHost \/ j \in OfHost
  BY <1>1, <1>5 DEF Outranks
<1>6. CASE i \notin OfHost /\ j \notin OfHost
  BY <1>1, <1>2, <1>3, <1>4, <1>6 DEF Outranks
<1>7. QED
  BY <1>5, <1>6

\* Of two rows that count one precedes the other, and never both.
LEMMA PrecedesIsTotal ==
  ASSUME DesiredTypeOK, NEW i \in Live, NEW j \in Live
  PROVE  /\ ~Precedes(i, i)
         /\ i # j => Precedes(i, j) \/ Precedes(j, i)
         /\ ~(Precedes(i, j) /\ Precedes(j, i))
<1>1. /\ ~Leads(i, i) /\ ~(Leads(i, j) /\ Leads(j, i))
      /\ i # j => Leads(i, j) \/ Leads(j, i)
  BY Places DEF Leads
<1>2. /\ ~Outranks(i, i) /\ ~(Outranks(i, j) /\ Outranks(j, i))
      /\ Outranks(i, j) \/ Outranks(j, i) \/ rows[i].owner = rows[j].owner
      /\ Outranks(i, j) \/ Outranks(j, i) => rows[i].owner # rows[j].owner
  BY Places
<1>3. QED
  BY <1>1, <1>2 DEF Precedes

LEMMA PrecedesIsTransitive ==
  ASSUME DesiredTypeOK, NEW i \in Live, NEW j \in Live, NEW k \in Live,
         Precedes(i, j), Precedes(j, k)
  PROVE  Precedes(i, k)
<1>1. Outranks(i, j) /\ Outranks(j, k) => Outranks(i, k)
  <2>1. /\ i \notin OfHost => rank[rows[i].owner] \in Nat
        /\ j \notin OfHost => rank[rows[j].owner] \in Nat
        /\ k \notin OfHost => rank[rows[k].owner] \in Nat
    BY LiveRows
  <2>2. QED
    BY <2>1 DEF Outranks
<1>2. Leads(i, j) /\ Leads(j, k) => Leads(i, k)
  <2>1. /\ i \in Nat /\ j \in Nat /\ k \in Nat /\ rows[i].priority \in Nat
        /\ rows[j].priority \in Nat /\ rows[k].priority \in Nat
    BY Places
  <2>2. QED
    BY <2>1 DEF Leads
<1>3. /\ i \in OfHost <=> rows[i].owner = Host
      /\ j \in OfHost <=> rows[j].owner = Host
      /\ k \in OfHost <=> rows[k].owner = Host
  BY LiveRows
<1>4. rows[i].owner = rows[j].owner /\ Outranks(j, k) => Outranks(i, k)
  BY <1>3 DEF Outranks
<1>5. rows[j].owner = rows[k].owner /\ Outranks(i, j) => Outranks(i, k)
  BY <1>3 DEF Outranks
<1>6. QED
  BY <1>1, <1>2, <1>4, <1>5 DEF Precedes

\* The sort of the ruleset is by precedence.
LEMMA SortedByPrecedence ==
  ASSUME DesiredTypeOK, NEW i \in Live, NEW j \in Live
  PROVE  EmittedBefore(i, j) <=> Precedes(i, j)
  BY LiveRows, DesiredAssumption
  DEF EmittedBefore, GroupPriority, Precedes, Outranks, DesiredTypeOK

\* Any rows have a first one.
LEMMA FirstRow ==
  ASSUME DesiredTypeOK, NEW T, T \subseteq Live, T # {}
  PROVE  \E x \in T : \A y \in T : ~Precedes(y, x)
<1>a. /\ \A i \in T : /\ i \in Nat /\ rows[i].priority \in 0..MaxPriority
                      /\ i \in OfHost <=> rows[i].owner = Host
                      /\ i \notin OfHost =>
                           /\ rows[i].owner \in Group
                           /\ rank[rows[i].owner] \in 1..MaxRank
  BY LiveRows
<1>1. ASSUME NEW o \in Group \cup {Host}, NEW S, S \subseteq T, S # {},
             \A i \in S : rows[i].owner = o
      PROVE  \E x \in S : \A y \in S : ~Leads(y, x)
  <2> DEFINE P == {MaxPriority - rows[i].priority : i \in S}
  <2>1. P \subseteq Nat /\ P # {}
    BY <1>1, <1>a, DesiredAssumption
  <2>2. PICK z \in S : \A y \in S :
          MaxPriority - rows[z].priority <= MaxPriority - rows[y].priority
    <3>1. PICK m \in P : \A n \in P : m <= n
      <4> HIDE DEF P
      <4>1. QED
        BY <2>1, LeastNumber
    <3>2. QED
      BY <3>1
  <2>3. \A y \in S : rows[y].priority <= rows[z].priority
    BY <1>1, <1>a, <2>2, DesiredAssumption
  <2> DEFINE Q == {i \in S : rows[i].priority = rows[z].priority}
  <2>4. Q \subseteq Nat /\ Q # {}
    BY <1>1, <1>a
  <2>5. PICK x \in Q : \A y \in Q : x <= y
    BY <2>4, LeastNumber
  <2>6. \A y \in S : ~Leads(y, x)
    BY <1>1, <1>a, <2>3, <2>5, DesiredAssumption DEF Leads
  <2>7. QED
    BY <2>5, <2>6
<1>2. CASE \E i \in T : i \in OfHost
  <2> DEFINE S == {i \in T : i \in OfHost}
  <2>1. PICK x \in S : \A y \in S : ~Leads(y, x)
    BY <1>1, <1>2, <1>a
  <2>2. \A y \in T : ~Precedes(y, x)
    BY <1>a, <2>1 DEF Precedes, Outranks
  <2>3. QED
    BY <2>2
<1>3. CASE \A i \in T : i \notin OfHost
  <2> DEFINE P == {MaxRank - rank[rows[i].owner] : i \in T}
  <2>1. P \subseteq Nat /\ P # {}
    BY <1>3, <1>a, DesiredAssumption
  <2>2. PICK z \in T : \A y \in T :
          MaxRank - rank[rows[z].owner] <= MaxRank - rank[rows[y].owner]
    <3>1. PICK m \in P : \A n \in P : m <= n
      <4> HIDE DEF P
      <4>1. QED
        BY <2>1, LeastNumber
    <3>2. QED
      BY <3>1
  <2>3. \A y \in T : rank[rows[y].owner] <= rank[rows[z].owner]
    BY <1>3, <1>a, <2>2, DesiredAssumption
  <2> DEFINE S == {i \in T : rows[i].owner = rows[z].owner}
  <2>4. PICK x \in S : \A y \in S : ~Leads(y, x)
    <3>1. rows[z].owner \in Group \cup {Host} /\ S \subseteq T /\ z \in S
      BY <1>3, <1>a
    <3>2. QED
      BY <1>1, <3>1
  <2>5. ASSUME NEW y \in T PROVE ~Precedes(y, x)
    <3>1. rank[rows[y].owner] \in Nat /\ rank[rows[x].owner] \in Nat
          /\ rank[rows[y].owner] <= rank[rows[x].owner]
      BY <1>3, <1>a, <2>3
    <3>2. ~Outranks(y, x)
      BY <1>3, <3>1 DEF Outranks
    <3>3. rows[y].owner = rows[x].owner => ~Leads(y, x)
      BY <2>4
    <3>4. QED
      BY <3>2, <3>3 DEF Precedes
  <2>6. QED
    BY <2>5
<1>4. QED
  BY <1>2, <1>3

(***************************************************************************)
(* The strongest row decides                                               *)
(***************************************************************************)

NoTwin == \A i, j \in OfHost : SameKey(i, j) => i = j

\* Dropping duplicates in two rounds, the groups' and then the host's, leaves
\* the first row for every match.
LEMMA MergedIsFirst ==
  ASSUME DesiredTypeOK, NoTwin
  PROVE  Merged = FirstWins(Live)
<1>1. \A i \in OfHost, j \in OfGroups : Precedes(i, j) /\ ~Precedes(j, i)
  BY LiveRows, PrecedesIsTotal DEF OfGroups, OfHost, OwnedBy, Precedes, Outranks
<1>2. Overrides = OfHost
  <2>1. \A i \in OfHost : i \in Live /\ rows[i].priority \in Nat /\ i \in Nat
    BY LiveRows DEF OfHost, OwnedBy
  <2>2. \A i \in OfHost : ~Leads(i, i)
    BY <2>1 DEF Leads
  <2>3. QED
    BY <2>2 DEF Overrides, NoTwin
<1>3. Live = OfHost \cup OfGroups /\ OfHost \subseteq Live
  BY DEF OfGroups, OfHost, OwnedBy
<1>4. ASSUME NEW i \in OfHost PROVE i \in FirstWins(Live)
  BY <1>1, <1>3, PrecedesIsTotal DEF FirstWins, NoTwin
<1>5. ASSUME NEW i \in OfGroups
      PROVE  i \in FirstWins(Live) <=>
               i \in FirstWins(OfGroups) /\ \A j \in OfHost : ~SameKey(i, j)
  BY <1>1, <1>3 DEF FirstWins
<1>6. QED
  BY <1>2, <1>3, <1>4, <1>5 DEF Merged, FirstWins

\* THEOREM: on every packet that LabDog's own rule leaves alone, the ruleset
\* made of what the groups and the host say decides as the strongest row that
\* covers it, whatever the edits, the priorities and the overlaps of matches.
THEOREM StrongestDecides == DesiredSpec => []FirstMatchIsBest
<1>1. ASSUME DesiredTypeOK, NoTwin, NEW p \in Packet
      PROVE  Deciders(p) = Best(p)
  <2> DEFINE In(i) == p \in Covers[rows[i].key] \ Covers[SystemKey]
  <2>1. Kept \subseteq Live /\ Kept = {i \in FirstWins(Live) :
                                         rows[i].key # SystemKey}
    BY <1>1, MergedIsFirst DEF Kept, FirstWins
  <2>2. ASSUME NEW i \in Best(p) PROVE i \in Deciders(p)
    <3>1. i \in Live /\ rows[i].key # SystemKey
      BY DEF Best
    <3>2. i \in FirstWins(Live)
      BY <3>1 DEF Best, FirstWins, SameKey
    <3>3. QED
      BY <1>1, <2>1, <3>1, <3>2, SortedByPrecedence DEF Best, Deciders
  <2>3. ASSUME NEW i \in Deciders(p) PROVE i \in Best(p)
    <3>1. i \in Live /\ p \in Covers[rows[i].key] \ Covers[SystemKey]
      BY <2>1 DEF Deciders
    <3>2. ASSUME NEW j \in Live, p \in Covers[rows[j].key], Precedes(j, i)
          PROVE  FALSE
      <4> DEFINE T == {k \in Live : SameKey(k, j)}
      <4>1. T \subseteq Live /\ j \in T
        BY DEF SameKey
      <4>2. PICK x \in T : \A y \in T : ~Precedes(y, x)
        BY <1>1, <4>1, FirstRow
      <4>3. x \in Kept /\ p \in Covers[rows[x].key]
        BY <2>1, <3>1, <3>2, <4>2 DEF FirstWins, SameKey
      <4>4. Precedes(x, i)
        <5>1. x = j \/ Precedes(x, j)
          BY <1>1, <4>1, <4>2, PrecedesIsTotal
        <5>2. QED
          BY <1>1, <3>1, <3>2, <4>2, <5>1, PrecedesIsTransitive
      <4>5. QED
        BY <1>1, <2>1, <3>1, <4>3, <4>4, SortedByPrecedence DEF Deciders
    <3>3. QED
      BY <3>1, <3>2 DEF Best
  <2>4. QED
    BY <2>2, <2>3
<1>2. DesiredTypeOK => FirstMatchIsBest
  BY <1>1 DEF FirstMatchIsBest, NoTwin
<1>3. QED
  BY DesiredTypeCorrect, <1>2, PTL

-----------------------------------------------------------------------------
(***************************************************************************)
(* GitOps: types                                                           *)
(***************************************************************************)

\* What there is per target and module, for instance in the database.
Sections(S) ==
  { c \in [Target -> UNION { [NamesOf(x) -> S] : x \in Target }] :
      \A x \in Target : c[x] \in [NamesOf(x) -> S] }

Tasks ==
  [pc : Importing \cup
          {"none", "queued", "over", "undone", "dead", "unsent"},
   sha : CommitId \cup {Before}, tries : 0..MaxRetries,
   todo : SUBSET Managed, at : Target, next : 1..9,
   failed : BOOLEAN, changed : BOOLEAN]
Transactions ==
  [holds : SUBSET Target, staged : {"no", "listed", "unlisted"},
   marks : [Managed -> Statuses \cup {"same"}],
   wrote : Sections((SUBSET Entry) \cup {Same})]

GitTypes ==
  /\ lastSha \in CommitId \cup {Before}
  /\ bound \in [Managed -> [enabled : BOOLEAN, status : Statuses]]
  /\ content \in Sections(SUBSET (Entry \cup ByHand))
  /\ task \in [Delivery -> Tasks]
  /\ tx \in [Delivery -> Transactions]
  /\ job \in [firewall : {"none", "pending", "running"},
              other : {"none", "running"}]
  /\ posted \in BOOLEAN
  /\ hands \in 0..MaxHands

\* A module of a target is one of its handlers, by number.
LEMMA HandlersAreNamed ==
  ASSUME NEW x \in Target
  PROVE  /\ Len(ModulesOf(x)) \in 1..8
         /\ DOMAIN ModulesOf(x) = 1..Len(ModulesOf(x))
         /\ NamesOf(x) = { ModulesOf(x)[i] : i \in 1..Len(ModulesOf(x)) }
         /\ NamesOf(x) \subseteq Modules \cup {"drift", "discovery"}
<1>1. CASE x = Install
  <2>1. ModulesOf(x) = <<"drift", "discovery">>
    BY <1>1 DEF ModulesOf, InstallModules
  <2>2. Len(ModulesOf(x)) = 2 /\ DOMAIN ModulesOf(x) = 1..2
    BY <2>1
  <2>3. \A i \in 1..2 : ModulesOf(x)[i] \in {"drift", "discovery"}
    BY <2>1
  <2>4. QED
    BY <2>2, <2>3 DEF NamesOf
<1>2. CASE x # Install
  <2>1. ModulesOf(x) = GroupModules
    BY <1>2 DEF ModulesOf
  <2>2. GroupModules \in Seq(Modules) /\ Len(GroupModules) \in 1..8
    BY GitAssumption
  <2>3. /\ DOMAIN GroupModules = 1..Len(GroupModules)
        /\ \A i \in 1..Len(GroupModules) : GroupModules[i] \in Modules
    BY <2>2
  <2>4. QED
    BY <2>1, <2>2, <2>3 DEF NamesOf
<1>3. QED
  BY <1>1, <1>2

\* What a handler makes of a section is a set of entries, or one of three
\* outcomes that are none.
LEMMA AskedType ==
  ASSUME NEW h \in Modules \cup {"drift", "discovery"},
         NEW s \in (SUBSET Entry) \cup {Absent}
  PROVE  Asked(h, s) \in (SUBSET Entry) \cup {Refused, Unfit, Same}
<1>1. /\ Listed(s) \in SUBSET Entry
      /\ s # Absent => s \in SUBSET Entry
  BY DEF Listed
<1>2. \A e \in SUBSET Entry : /\ Checked(e) \in (SUBSET Entry) \cup {Refused}
                              /\ e \ {"reserved"} \in SUBSET Entry
  BY DEF Checked
<1>3. h \in {"firewall", "services", "packages", "hosts_entries", "cron_jobs",
             "resolver", "users", "scheduled_actions", "drift", "discovery"}
  BY DEF Modules
<1>4. QED
  BY <1>1, <1>2, <1>3 DEF Asked, Firewall, Services, Packages, HostsEntries,
     CronJobs, Resolver, Users, ScheduledActions, Drift, Discovery

LEMMA SectionRead ==
  ASSUME NEW S, NEW w \in Sections(S), NEW x \in Target, NEW h \in NamesOf(x)
  PROVE  w[x][h] \in S
BY DEF Sections

Written(w, x, h, v) == [w EXCEPT ![x][h] = v]
LEMMA SectionWritten ==
  ASSUME NEW S, NEW w \in Sections(S), NEW x \in Target, NEW h \in NamesOf(x),
         NEW v \in S
  PROVE  /\ Written(w, x, h, v) \in Sections(S)
         /\ Written(w, x, h, v)[x][h] = v
         /\ \A y \in Target : \A k \in NamesOf(y) :
              y # x \/ k # h => Written(w, x, h, v)[y][k] = w[y][k]
<1> DEFINE f == [w[x] EXCEPT ![h] = v]
           w2 == Written(w, x, h, v)
<1>1. w2 = [w EXCEPT ![x] = f]
  BY DEF Written
<1> HIDE DEF w2
<1>2. /\ w \in [Target -> UNION { [NamesOf(y) -> S] : y \in Target }]
      /\ \A y \in Target : w[y] \in [NamesOf(y) -> S]
  BY DEF Sections
<1>3. /\ f \in [NamesOf(x) -> S] /\ f[h] = v
      /\ \A k \in NamesOf(x) \ {h} : f[k] = w[x][k]
  BY <1>2
<1> HIDE DEF f
<1>4. f \in UNION { [NamesOf(y) -> S] : y \in Target }
  BY <1>3
<1>5. /\ w2 \in [Target -> UNION { [NamesOf(y) -> S] : y \in Target }]
      /\ w2[x] = f
      /\ \A y \in Target \ {x} : w2[y] = w[y]
  BY <1>1, <1>2, <1>4
<1>6. \A y \in Target : w2[y] \in [NamesOf(y) -> S]
  BY <1>2, <1>3, <1>5
<1>7. w2 \in Sections(S)
  BY <1>5, <1>6 DEF Sections
<1>8. QED
  BY <1>3, <1>5, <1>7 DEF w2

LEMMA NoWritesType ==
  /\ NoWrites \in Transactions
  /\ NoWrites.holds = {} /\ NoWrites.staged = "no"
  /\ \A g \in Managed : NoWrites.marks[g] = "same"
  /\ \A x \in Target : \A h \in NamesOf(x) : NoWrites.wrote[x][h] = Same
<1>1. [x \in Target |-> [h \in NamesOf(x) |-> Same]]
        \in Sections((SUBSET Entry) \cup {Same})
  <2> DEFINE S == (SUBSET Entry) \cup {Same}
  <2>1. \A x \in Target : [h \in NamesOf(x) |-> Same] \in [NamesOf(x) -> S]
    OBVIOUS
  <2>2. \A x \in Target : [h \in NamesOf(x) |-> Same]
                         \in UNION { [NamesOf(y) -> S] : y \in Target }
    BY <2>1
  <2>3. QED
    BY <2>1, <2>2 DEF Sections
<1>2. QED
  BY <1>1 DEF NoWrites, Transactions

\* A delivery is of a commit. A task that handles a file is at one of its
\* modules, or past the last; only groups are staged.
InTurn ==
  \A t \in Delivery :
    /\ task[t].pc # "none" => task[t].sha \in CommitId
    /\ task[t].pc = "handles" =>
         task[t].next \in 1..Len(ModulesOf(task[t].at))
    /\ task[t].pc = "concludes" =>
         task[t].next = Len(ModulesOf(task[t].at)) + 1
    /\ task[t].pc \in {"stages", "blocked"} => task[t].at \in Managed

\* What most steps do to a task and its transaction, as far as the files and
\* the locks are concerned: nothing, an end without a trace, or a step between
\* two files.
Quiet(u) ==
  \/ task'[u] = task[u] /\ tx'[u] = tx[u]
  \/ /\ task'[u].pc \notin {"none", "handles", "concludes", "stages", "blocked"}
     /\ task'[u].sha \in CommitId
     /\ tx'[u] = NoWrites
  \/ /\ task[u].pc \notin {"handles", "concludes"}
     /\ task'[u].pc \notin {"none", "handles", "concludes"}
     /\ task'[u].sha \in CommitId
     /\ task'[u].sha = task[u].sha \/ task[u].pc = "none"
     /\ task'[u].pc \in {"stages", "blocked"} =>
          /\ task[u].pc \in {"stages", "blocked"}
          /\ task'[u].at = task[u].at
     /\ tx'[u].holds = tx[u].holds
     /\ tx'[u].marks = tx[u].marks
     /\ tx'[u].wrote = tx[u].wrote
TasksTyped ==
  task' \in [Delivery -> Tasks] /\ tx' \in [Delivery -> Transactions]
AllQuiet ==
  TasksTyped /\ UNCHANGED <<bound, content>> /\ \A u \in Delivery : Quiet(u)

\* A task that goes on changes its own record only.
LEMMA GoesOn ==
  ASSUME GitTypes, NEW t \in Delivery, NEW r \in Tasks,
         task' = [task EXCEPT ![t] = r]
  PROVE  /\ task' \in [Delivery -> Tasks]
         /\ task'[t] = r
         /\ \A u \in Delivery \ {t} : task'[u] = task[u]
BY DEF GitTypes

LEMMA GoesTo ==
  ASSUME GitTypes, NEW t \in Delivery,
         NEW pc \in Importing \cup {"queued", "over"}, Goes(t, pc)
  PROVE  /\ task' \in [Delivery -> Tasks]
         /\ task'[t] = [task[t] EXCEPT !.pc = pc]
         /\ task'[t].pc = pc /\ task'[t].sha = task[t].sha
         /\ task'[t].at = task[t].at /\ task'[t].next = task[t].next
         /\ task'[t].failed = task[t].failed
         /\ \A u \in Delivery \ {t} : task'[u] = task[u]
<1>1. task[t] \in Tasks
  BY DEF GitTypes
<1>2. [task[t] EXCEPT !.pc = pc] \in Tasks
  BY <1>1 DEF Tasks
<1>3. task' = [task EXCEPT ![t] = [task[t] EXCEPT !.pc = pc]]
  BY DEF Goes
<1>4. task'[t] = [task[t] EXCEPT !.pc = pc]
  BY <1>2, <1>3, GoesOn
<1>5. QED
  BY <1>1, <1>2, <1>3, <1>4, GoesOn DEF Tasks

LEMMA RollBackQuiet ==
  ASSUME GitTypes, InTurn, NEW t \in Delivery, task[t].pc # "none",
         NEW pc \in {"undone", "dead", "unsent"}, RollBack(t, pc)
  PROVE  AllQuiet
<1>1. tx' \in [Delivery -> Transactions]
  BY NoWritesType DEF RollBack, GitTypes
<1>2. /\ tx'[t] = NoWrites
      /\ \A u \in Delivery \ {t} : tx'[u] = tx[u]
  BY DEF RollBack, GitTypes
<1>3. ASSUME NEW u \in Delivery
      PROVE  /\ task[u] \in Tasks
             /\ [NoTask EXCEPT !.pc = pc, !.sha = task[u].sha] \in Tasks
             /\ [task[u] EXCEPT !.pc = "stages"] \in Tasks
  <2>1. task[u] \in Tasks
    BY DEF GitTypes
  <2>2. [task[u] EXCEPT !.pc = "stages"] \in Tasks
    BY <2>1 DEF Tasks, Importing
  <2>3. task[u].sha \in CommitId \cup {Before}
    BY <2>1 DEF Tasks
  <2>4. [NoTask EXCEPT !.pc = pc, !.sha = task[u].sha] \in Tasks
    <3>1. NoTask \in Tasks
      BY DEF NoTask, Tasks, MaxRetries, Target
    <3>2. QED
      BY <2>3, <3>1 DEF Tasks
  <2>5. QED
    BY <2>1, <2>2, <2>4
<1>4. task' \in [Delivery -> Tasks]
  BY <1>3 DEF RollBack, Onward
<1>5. task'[t] = [NoTask EXCEPT !.pc = pc, !.sha = task[t].sha]
  BY DEF RollBack, Onward
<1>6. Quiet(t)
  <2>1. task'[t].pc = pc /\ task'[t].sha = task[t].sha
    BY <1>5 DEF NoTask
  <2>2. QED
    BY <1>2, <2>1 DEF Quiet, InTurn
<1>7. ASSUME NEW u \in Delivery \ {t} PROVE Quiet(u)
  <2>1. CASE task'[u] = task[u]
    BY <1>2, <2>1 DEF Quiet
  <2>2. CASE /\ task[u].pc = "blocked"
             /\ task'[u] = [task[u] EXCEPT !.pc = "stages"]
    <3>1. /\ task'[u].pc = "stages" /\ task'[u].sha = task[u].sha
          /\ task'[u].at = task[u].at
      BY <1>3, <2>2 DEF Tasks
    <3>2. QED
      BY <1>2, <2>2, <3>1 DEF Quiet, InTurn
  <2>3. QED
    BY <2>1, <2>2 DEF RollBack, Onward
<1>8. QED
  BY <1>1, <1>4, <1>6, <1>7 DEF AllQuiet, TasksTyped, RollBack

\* A step between two files, of which the transaction knows nothing.
LEMMA StepsQuietly ==
  ASSUME GitTypes, NEW t \in Delivery, NEW r \in Tasks,
         task' = [task EXCEPT ![t] = r], UNCHANGED <<bound, content, tx>>,
         task[t].pc \notin {"handles", "concludes"},
         r.pc \notin {"none", "handles", "concludes"},
         r.sha \in CommitId, r.sha = task[t].sha \/ task[t].pc = "none",
         r.pc \in {"stages", "blocked"} =>
           task[t].pc \in {"stages", "blocked"} /\ r.at = task[t].at
  PROVE  AllQuiet
<1>1. /\ task' \in [Delivery -> Tasks]
      /\ task'[t] = r
      /\ \A u \in Delivery \ {t} : task'[u] = task[u]
  BY GoesOn
<1>2. \A u \in Delivery : tx'[u] = tx[u]
  OBVIOUS
<1>3. Quiet(t)
  BY <1>1, <1>2 DEF Quiet
<1>4. \A u \in Delivery \ {t} : Quiet(u)
  BY <1>1, <1>2 DEF Quiet
<1>5. tx' \in [Delivery -> Transactions]
  BY DEF GitTypes
<1>6. QED
  BY <1>1, <1>3, <1>4, <1>5 DEF AllQuiet, TasksTyped

\* A step that changes no task and no transaction, nor what they look at.
LEMMA StandsStill ==
  ASSUME GitTypes, UNCHANGED <<bound, content, task, tx>>
  PROVE  AllQuiet
BY DEF GitTypes, AllQuiet, TasksTyped, Quiet

LEMMA TaskRead ==
  ASSUME GitTypes, InTurn, NEW t \in Delivery
  PROVE  /\ task[t] \in Tasks
         /\ task[t].pc # "none" => task[t].sha \in CommitId
BY DEF GitTypes, InTurn

LEMMA DeliverQuiet ==
  ASSUME GitTypes, InTurn, NEW t \in Delivery, NEW c \in CommitId,
         Deliver(t, c)
  PROVE  AllQuiet
<1> DEFINE r == [task[t] EXCEPT !.pc = "queued", !.sha = c]
<1>1. r \in Tasks /\ r.pc = "queued" /\ r.sha = c
  BY TaskRead DEF Tasks
<1>2. task' = [task EXCEPT ![t] = r]
  BY DEF Deliver
<1> HIDE DEF r
<1>3. QED
  BY <1>1, <1>2, StepsQuietly DEF Deliver, NoCommit

LEMMA CloneQuiet ==
  ASSUME GitTypes, InTurn, NEW t \in Delivery,
         Skip(t) \/ Clone(t) \/ CloneFails(t)
  PROVE  AllQuiet
<1>1. /\ task[t] \in Tasks /\ task[t].pc = "queued"
      /\ task[t].sha \in CommitId
      /\ UNCHANGED <<bound, content, tx>>
  BY TaskRead DEF Skip, Clone, CloneFails, NoCommit
<1>2. ASSUME NEW pc \in {"over", "cloned", "queued"}, NEW n \in 0..MaxRetries,
             task' = [task EXCEPT ![t] = [task[t] EXCEPT !.pc = pc,
                                                         !.tries = n]]
      PROVE  AllQuiet
  <2> DEFINE r == [task[t] EXCEPT !.pc = pc, !.tries = n]
  <2>1. r \in Tasks /\ r.pc = pc /\ r.sha = task[t].sha
    BY <1>1 DEF Tasks, Importing
  <2> HIDE DEF r
  <2>2. task' = [task EXCEPT ![t] = r]
    BY <1>2 DEF r
  <2>3. QED
    BY <1>1, <2>1, <2>2, StepsQuietly
<1>3. task[t].tries \in 0..MaxRetries
  BY <1>1 DEF Tasks
<1>4. CASE Skip(t)
  <2>1. [task[t] EXCEPT !.pc = "over"]
          = [task[t] EXCEPT !.pc = "over", !.tries = task[t].tries]
    BY <1>1 DEF Tasks
  <2>2. task' = [task EXCEPT ![t] = [task[t] EXCEPT !.pc = "over"]]
    BY <1>4 DEF Skip, Goes
  <2>3. QED
    BY <1>2, <1>3, <2>1, <2>2
<1>5. CASE Clone(t)
  <2>1. task' = [task EXCEPT ![t] = [task[t] EXCEPT !.pc = "cloned",
                                                    !.tries = 0]]
    BY <1>5 DEF Clone
  <2>2. 0 \in 0..MaxRetries
    BY DEF MaxRetries
  <2>3. QED
    BY <1>2, <2>1, <2>2
<1>6. CASE CloneFails(t)
  <2>1. CASE Retries(t)
    <3>1. task[t].tries + 1 \in 0..MaxRetries
      BY <1>3, <2>1 DEF Retries, MaxRetries
    <3>2. [task[t] EXCEPT !.tries = @ + 1]
            = [task[t] EXCEPT !.pc = "queued", !.tries = task[t].tries + 1]
      BY <1>1 DEF Tasks
    <3>3. task' = [task EXCEPT ![t] = [task[t] EXCEPT !.tries = @ + 1]]
      BY <1>6, <2>1 DEF CloneFails
    <3>4. QED
      BY <1>2, <3>1, <3>2, <3>3
  <2>2. CASE ~Retries(t)
    <3>1. [task[t] EXCEPT !.pc = "over"]
            = [task[t] EXCEPT !.pc = "over", !.tries = task[t].tries]
      BY <1>1 DEF Tasks
    <3>2. task' = [task EXCEPT ![t] = [task[t] EXCEPT !.pc = "over"]]
      BY <1>6, <2>2 DEF CloneFails
    <3>3. QED
      BY <1>2, <1>3, <3>1, <3>2
  <2>3. QED
    BY <2>1, <2>2
<1>7. QED
  BY <1>4, <1>5, <1>6

LEMMA TurnQuiet ==
  ASSUME GitTypes, InTurn, NEW t \in Delivery,
         \/ SeekGlobal(t) \/ LoadGroups(t)
         \/ \E g \in Managed : NextGroup(t, g)
  PROVE  AllQuiet
<1>1. /\ task[t] \in Tasks /\ task[t].pc \in {"cloned", "loads", "groups"}
      /\ task[t].sha \in CommitId
      /\ UNCHANGED <<bound, content, tx>>
  BY Zenon, TaskRead DEF SeekGlobal, LoadGroups, NextGroup, NoCommit
<1>2. ASSUME NEW pc \in {"loads", "waits", "groups"}, NEW x \in Target,
             NEW S \in SUBSET Managed,
             task' = [task EXCEPT ![t] = [task[t] EXCEPT !.pc = pc, !.at = x,
                                                         !.todo = S]]
      PROVE  AllQuiet
  <2> DEFINE r == [task[t] EXCEPT !.pc = pc, !.at = x, !.todo = S]
  <2>1. r \in Tasks /\ r.pc = pc /\ r.sha = task[t].sha
    BY <1>1 DEF Tasks, Importing
  <2> HIDE DEF r
  <2>2. task' = [task EXCEPT ![t] = r]
    BY <1>2 DEF r
  <2>3. QED
    BY <1>1, <2>1, <2>2, StepsQuietly
<1>3. task[t].todo \in SUBSET Managed /\ task[t].at \in Target
  BY <1>1 DEF Tasks
<1>4. CASE SeekGlobal(t)
  <2> DEFINE pc == IF File[task[t].sha][Install].kind = "missing"
                     THEN "loads" ELSE "waits"
  <2>1. [task[t] EXCEPT !.at = Install, !.pc = pc]
          = [task[t] EXCEPT !.pc = pc, !.at = Install, !.todo = task[t].todo]
    BY <1>1 DEF Tasks
  <2>2. task' = [task EXCEPT ![t] = [task[t] EXCEPT !.at = Install, !.pc = pc]]
    BY <1>4 DEF SeekGlobal
  <2>3. pc \in {"loads", "waits", "groups"} /\ Install \in Target
    BY DEF Target
  <2> HIDE DEF pc
  <2>4. QED
    BY <1>2, <1>3, <2>1, <2>2, <2>3
<1>5. CASE LoadGroups(t)
  <2> DEFINE S == {g \in Managed : bound[g].enabled}
  <2>1. [task[t] EXCEPT !.todo = S, !.pc = "groups"]
          = [task[t] EXCEPT !.pc = "groups", !.at = task[t].at, !.todo = S]
    BY <1>1 DEF Tasks
  <2>2. task' = [task EXCEPT ![t] = [task[t] EXCEPT !.todo = S,
                                                    !.pc = "groups"]]
    BY <1>5 DEF LoadGroups
  <2>3. S \in SUBSET Managed
    OBVIOUS
  <2> HIDE DEF S
  <2>4. QED
    BY <1>2, <1>3, <2>1, <2>2, <2>3
<1>6. ASSUME NEW g \in Managed, NextGroup(t, g)
      PROVE  AllQuiet
  <2>1. [task[t] EXCEPT !.todo = @ \ {g}, !.at = g, !.pc = "waits"]
          = [task[t] EXCEPT !.pc = "waits", !.at = g,
                            !.todo = task[t].todo \ {g}]
    BY <1>1 DEF Tasks
  <2>2. task' = [task EXCEPT ![t] = [task[t] EXCEPT !.todo = @ \ {g}, !.at = g,
                                                    !.pc = "waits"]]
    BY <1>6 DEF NextGroup
  <2>3. g \in Target /\ task[t].todo \ {g} \in SUBSET Managed
    BY <1>3 DEF Target
  <2>4. QED
    BY <1>2, <2>1, <2>2, <2>3
<1>7. QED
  BY SMTT(30), <1>4, <1>5, <1>6

\* A message sent, or a host left out, waited for or staged.
LEMMA StageQuiet ==
  ASSUME GitTypes, InTurn, NEW t \in Delivery,
         SendJobs(t) \/ Stage(t)
  PROVE  AllQuiet
<1>1. /\ task[t] \in Tasks /\ task[t].pc \in {"sends", "stages"}
      /\ task[t].sha \in CommitId
      /\ UNCHANGED <<bound, content>>
  BY TaskRead DEF Stage, SendJobs, NoCommit
<1>2. ASSUME NEW pc \in {"over", "groups", "blocked"}, Goes(t, pc),
             pc = "blocked" => task[t].pc = "stages",
             \/ tx' = tx
             \/ tx' = [tx EXCEPT ![t].staged = "listed"]
      PROVE  AllQuiet
  <2>1. /\ task' \in [Delivery -> Tasks]
        /\ task'[t].pc = pc /\ task'[t].sha = task[t].sha
        /\ task'[t].at = task[t].at
        /\ \A u \in Delivery \ {t} : task'[u] = task[u]
    BY <1>2, GoesTo DEF Importing
  <2>2. /\ tx' \in [Delivery -> Transactions]
        /\ tx'[t].holds = tx[t].holds /\ tx'[t].marks = tx[t].marks
        /\ tx'[t].wrote = tx[t].wrote
        /\ \A u \in Delivery \ {t} : tx'[u] = tx[u]
    <3>1. /\ tx[t] \in Transactions
          /\ [tx[t] EXCEPT !.staged = "listed"] \in Transactions
      BY DEF GitTypes, Transactions
    <3>2. CASE tx' = tx
      BY <3>2 DEF GitTypes
    <3>3. CASE tx' = [tx EXCEPT ![t].staged = "listed"]
      <4>1. tx' = [tx EXCEPT ![t] = [tx[t] EXCEPT !.staged = "listed"]]
        BY <3>3
      <4>2. /\ tx' \in [Delivery -> Transactions]
            /\ tx'[t] = [tx[t] EXCEPT !.staged = "listed"]
            /\ \A u \in Delivery \ {t} : tx'[u] = tx[u]
        BY <3>1, <4>1 DEF GitTypes
      <4>3. QED
        BY <3>1, <4>2 DEF Transactions
    <3>4. QED
      BY <1>2, <3>2, <3>3
  <2>3. Quiet(t)
    BY <1>1, <1>2, <2>1, <2>2 DEF Quiet
  <2>4. \A u \in Delivery \ {t} : Quiet(u)
    BY <2>1, <2>2 DEF Quiet
  <2>5. QED
    BY <1>1, <2>1, <2>2, <2>3, <2>4 DEF AllQuiet, TasksTyped
<1>3. CASE SendJobs(t)
  BY <1>2, <1>3 DEF SendJobs
<1>4. CASE Stage(t)
  <2>1. /\ task[t].pc = "stages"
        /\ \/ tx' = [tx EXCEPT ![t].staged = "listed"] /\ Goes(t, "groups")
           \/ Goes(t, "blocked") /\ UNCHANGED tx
           \/ Goes(t, "groups") /\ UNCHANGED tx
    BY <1>4 DEF Stage
  <2>2. QED
    BY <1>2, <2>1
<1>5. QED
  BY <1>3, <1>4

\* Whom a transaction has locked is locked by no other.
OneHolder ==
  \A t, u \in Delivery : t # u => tx[t].holds \cap tx[u].holds = {}

\* What it wrote it has locked, and a group whose rows it wrote it has marked,
\* unless it is still at it. A delivery that nobody sent has locked nothing.
LockedBy(t) ==
  /\ \A x \in Target : \A h \in NamesOf(x) :
       tx[t].wrote[x][h] # Same => x \in tx[t].holds
  /\ \A g \in Managed : tx[t].marks[g] # "same" => g \in tx[t].holds
  /\ \A g \in Managed : \A h \in NamesOf(g) :
       tx[t].wrote[g][h] # Same =>
         \/ tx[t].marks[g] # "same"
         \/ task[t].at = g /\ task[t].pc \in {"handles", "concludes"}
  /\ task[t].pc = "none" => tx[t].holds = {}
  /\ task[t].pc \in {"handles", "concludes"} =>
       task[t].at \in tx[t].holds /\ FileOf(t).kind = "file"
  /\ task[t].pc \in {"stages", "blocked"} => task[t].at \in tx[t].holds
UnderLock == \A t \in Delivery : LockedBy(t)

\* t sees in a module of x what its commit has there.
Settled(t, x, h) ==
  Asked(h, File[task[t].sha][x].has[h]) \in {Same, Seen(t, x, h)}
Compared(x) == NamesOf(x) \ {"scheduled_actions"}

\* A bound group whose file is being handled without an error agrees with the
\* file as far as it was handled, and one that is marked `synced' in all of it.
AsFar(t) ==
  /\ task[t].pc \in {"handles", "concludes"} /\ ~task[t].failed
  /\ task[t].at \in Managed /\ bound[task[t].at].enabled
  => \A i \in 1..(task[t].next - 1) :
       ModulesOf(task[t].at)[i] # "scheduled_actions"
         => Settled(t, task[t].at, ModulesOf(task[t].at)[i])
AsMarked(t) ==
  \A g \in Managed :
    tx[t].marks[g] = "synced" /\ bound[g].enabled =>
      /\ File[task[t].sha][g].kind = "file"
      /\ \A h \in Compared(g) : Settled(t, g, h)
Handled == \A t \in Delivery : AsFar(t) /\ AsMarked(t)

LEMMA QuietKeepsLocks ==
  ASSUME GitTypes, InTurn, OneHolder, UnderLock, AllQuiet
  PROVE  InTurn' /\ OneHolder' /\ UnderLock'
<1> USE DEF AllQuiet
<1>1. \A u \in Delivery : tx'[u].holds = tx[u].holds \/ tx'[u] = NoWrites
  BY DEF Quiet
<1>2. OneHolder'
  BY <1>1, NoWritesType DEF OneHolder
<1>3. InTurn'
  <2> SUFFICES ASSUME NEW t \in Delivery
               PROVE  /\ task'[t].pc # "none" => task'[t].sha \in CommitId
                      /\ task'[t].pc = "handles" =>
                           task'[t].next \in 1..Len(ModulesOf(task'[t].at))
                      /\ task'[t].pc = "concludes" =>
                           task'[t].next = Len(ModulesOf(task'[t].at)) + 1
                      /\ task'[t].pc \in {"stages", "blocked"}
                           => task'[t].at \in Managed
    BY DEF InTurn
  <2>1. Quiet(t)
    OBVIOUS
  <2>2. CASE task'[t] = task[t]
    BY <2>2 DEF InTurn
  <2>3. CASE task'[t] # task[t]
    BY <2>1, <2>3 DEF InTurn, Quiet
  <2>4. QED
    BY <2>2, <2>3
<1>4. ASSUME NEW t \in Delivery
      PROVE  LockedBy(t)'
  <2>1. LockedBy(t)
    BY DEF UnderLock
  <2>2. CASE task'[t] = task[t] /\ tx'[t] = tx[t]
    BY <2>1, <2>2 DEF LockedBy, FileOf
  <2>3. CASE /\ task'[t].pc \notin
                  {"none", "handles", "concludes", "stages", "blocked"}
             /\ tx'[t] = NoWrites
    BY <2>3, NoWritesType DEF LockedBy, Target
  <2>4. CASE /\ task[t].pc \notin {"handles", "concludes"}
             /\ task'[t].pc \notin {"none", "handles", "concludes"}
             /\ task'[t].pc \in {"stages", "blocked"} =>
                  /\ task[t].pc \in {"stages", "blocked"}
                  /\ task'[t].at = task[t].at
             /\ tx'[t].holds = tx[t].holds /\ tx'[t].marks = tx[t].marks
             /\ tx'[t].wrote = tx[t].wrote
    BY <2>1, <2>4 DEF LockedBy
  <2>5. QED
    BY <2>2, <2>3, <2>4 DEF Quiet
<1>5. QED
  BY <1>2, <1>3, <1>4 DEF UnderLock

\* The same commit, the same rows and the same writes: as settled as before.
LEMMA StaysSettled ==
  ASSUME NEW t \in Delivery, NEW x \in Target, NEW h \in NamesOf(x),
         Settled(t, x, h), task'[t].sha = task[t].sha,
         tx'[t].wrote[x][h] = tx[t].wrote[x][h],
         content'[x][h] = content[x][h]
  PROVE  Settled(t, x, h)'
BY DEF Settled, Seen

LEMMA ComparedIsNamed ==
  ASSUME NEW g \in Managed
  PROVE  /\ g \in Target /\ Compared(g) \subseteq NamesOf(g)
BY DEF Target, Compared

\* What one task is at, if neither it nor the rows of what it holds change.
LEMMA StaysHandled ==
  ASSUME GitTypes, InTurn, UnderLock, Handled, NEW t \in Delivery,
         tx'[t] = tx[t], task'[t].sha = task[t].sha,
         \/ task'[t] = task[t]
         \/ task'[t].pc \notin {"handles", "concludes"},
         \A g \in Managed \cap tx[t].holds : bound'[g].enabled =>
           /\ bound[g].enabled
           /\ \A h \in Compared(g) : content'[g][h] = content[g][h]
  PROVE  AsFar(t)' /\ AsMarked(t)'
<1>1. AsFar(t) /\ AsMarked(t) /\ LockedBy(t)
  BY DEF Handled, UnderLock
<1>2. AsMarked(t)'
  <2> SUFFICES ASSUME NEW g \in Managed, tx'[t].marks[g] = "synced",
                      bound'[g].enabled
               PROVE  /\ File[task'[t].sha][g].kind = "file"
                      /\ \A h \in Compared(g) : Settled(t, g, h)'
    BY DEF AsMarked
  <2>1. g \in tx[t].holds /\ Compared(g) \subseteq NamesOf(g) /\ g \in Target
    BY <1>1, ComparedIsNamed DEF LockedBy
  <2>2. /\ File[task[t].sha][g].kind = "file"
        /\ bound[g].enabled
        /\ \A h \in Compared(g) : content'[g][h] = content[g][h]
    BY <1>1, <2>1 DEF AsMarked
  <2>3. QED
    BY <1>1, <2>1, <2>2, StaysSettled DEF AsMarked
<1>3. AsFar(t)'
  <2> SUFFICES ASSUME task'[t] = task[t], NEW g \in Managed, g = task[t].at,
                      task[t].pc \in {"handles", "concludes"},
                      ~task[t].failed, bound'[g].enabled,
                      NEW i \in 1..(task[t].next - 1),
                      ModulesOf(g)[i] # "scheduled_actions"
               PROVE  Settled(t, g, ModulesOf(g)[i])'
    BY DEF AsFar
  <2>1. g \in tx[t].holds /\ g \in Target
    BY <1>1, ComparedIsNamed DEF LockedBy
  <2>2. /\ bound[g].enabled
        /\ \A k \in Compared(g) : content'[g][k] = content[g][k]
    BY <2>1
  <2>3. ModulesOf(g)[i] \in Compared(g) /\ ModulesOf(g)[i] \in NamesOf(g)
    <3>1. i \in 1..Len(ModulesOf(g))
      BY <2>1, HandlersAreNamed DEF InTurn
    <3>2. QED
      BY <2>1, <3>1, HandlersAreNamed DEF Compared
  <2>4. Settled(t, g, ModulesOf(g)[i])
    BY <1>1, <2>2 DEF AsFar
  <2>5. QED
    BY <2>1, <2>2, <2>3, <2>4, StaysSettled
<1>4. QED
  BY <1>2, <1>3

LEMMA QuietKeepsHandled ==
  ASSUME GitTypes, InTurn, UnderLock, Handled, AllQuiet
  PROVE  Handled'
<1> SUFFICES ASSUME NEW t \in Delivery
             PROVE  AsFar(t)' /\ AsMarked(t)'
  BY DEF Handled
<1>1. Quiet(t) /\ UNCHANGED <<bound, content>>
  BY DEF AllQuiet
<1>2. AsFar(t) /\ AsMarked(t) /\ LockedBy(t)
  BY DEF Handled, UnderLock
<1>3. CASE task'[t] = task[t] /\ tx'[t] = tx[t]
  BY <1>1, <1>3, StaysHandled
<1>4. CASE /\ task'[t].pc \notin {"handles", "concludes"}
           /\ tx'[t] = NoWrites
  BY <1>4, NoWritesType DEF AsFar, AsMarked
<1>5. CASE /\ task'[t].pc \notin {"handles", "concludes"}
           /\ task'[t].sha = task[t].sha \/ task[t].pc = "none"
           /\ tx'[t].marks = tx[t].marks /\ tx'[t].wrote = tx[t].wrote
  <2>1. AsFar(t)'
    BY <1>5 DEF AsFar
  <2> SUFFICES ASSUME NEW g \in Managed, tx'[t].marks[g] = "synced",
                      bound'[g].enabled
               PROVE  /\ File[task'[t].sha][g].kind = "file"
                      /\ \A h \in Compared(g) : Settled(t, g, h)'
    BY <2>1 DEF AsMarked
  <2>2. task[t].pc # "none" /\ task'[t].sha = task[t].sha
    BY <1>2, <1>5 DEF LockedBy
  <2>3. /\ File[task[t].sha][g].kind = "file"
        /\ \A h \in Compared(g) : Settled(t, g, h)
    BY <1>1, <1>2, <1>5 DEF AsMarked
  <2>4. QED
    BY <1>1, <1>5, <2>2, <2>3, ComparedIsNamed, StaysSettled
<1>6. QED
  BY <1>1, <1>3, <1>4, <1>5 DEF Quiet

LEMMA StaysOneCommit ==
  ASSUME SyncedIsOneCommit, UNCHANGED <<bound, content>>
  PROVE  SyncedIsOneCommit'
BY DEF SyncedIsOneCommit, Agrees

\* The rest of an invariant after a step of t that the others do not see.
LEMMA Unseen ==
  ASSUME GitTypes, InTurn, UnderLock, Handled, NEW t \in Delivery,
         UNCHANGED <<bound, content>>,
         \A u \in Delivery \ {t} : task'[u] = task[u] /\ tx'[u] = tx[u]
  PROVE  \A u \in Delivery \ {t} : LockedBy(u)' /\ AsFar(u)' /\ AsMarked(u)'
<1> SUFFICES ASSUME NEW u \in Delivery \ {t}
             PROVE  LockedBy(u)' /\ AsFar(u)' /\ AsMarked(u)'
  OBVIOUS
<1>1. task'[u] = task[u] /\ tx'[u] = tx[u] /\ LockedBy(u)
  BY DEF UnderLock
<1>2. LockedBy(u)'
  BY <1>1 DEF LockedBy, FileOf
<1>3. QED
  BY <1>1, <1>2, StaysHandled

LEMMA InTurnStep ==
  ASSUME InTurn, NEW t \in Delivery,
         \A u \in Delivery \ {t} : task'[u] = task[u],
         task'[t].sha \in CommitId,
         task'[t].pc = "handles" =>
           task'[t].next \in 1..Len(ModulesOf(task'[t].at)),
         task'[t].pc = "concludes" =>
           task'[t].next = Len(ModulesOf(task'[t].at)) + 1,
         task'[t].pc \in {"stages", "blocked"} => task'[t].at \in Managed
  PROVE  InTurn'
<1> SUFFICES ASSUME NEW u \in Delivery
             PROVE  /\ task'[u].pc # "none" => task'[u].sha \in CommitId
                    /\ task'[u].pc = "handles" =>
                         task'[u].next \in 1..Len(ModulesOf(task'[u].at))
                    /\ task'[u].pc = "concludes" =>
                         task'[u].next = Len(ModulesOf(task'[u].at)) + 1
                    /\ task'[u].pc \in {"stages", "blocked"}
                         => task'[u].at \in Managed
  BY DEF InTurn
<1>1. CASE u = t
  BY <1>1
<1>2. CASE u # t
  <2>1. task'[u] = task[u]
    BY <1>2
  <2>2. QED
    BY <2>1 DEF InTurn
<1>3. QED
  BY <1>1, <1>2

\* A transaction that writes or marks changes no other.
LEMMA Writes ==
  ASSUME GitTypes, NEW t \in Delivery, NEW r \in Transactions,
         tx' = [tx EXCEPT ![t] = r]
  PROVE  /\ tx' \in [Delivery -> Transactions]
         /\ tx'[t] = r
         /\ \A u \in Delivery \ {t} : tx'[u] = tx[u]
BY DEF GitTypes

LEMMA Marks ==
  ASSUME GitTypes, NEW t \in Delivery, NEW g \in Managed, NEW s \in Statuses,
         Mark(t, g, s)
  PROVE  /\ tx' \in [Delivery -> Transactions]
         /\ \A u \in Delivery \ {t} : tx'[u] = tx[u]
         /\ tx'[t].marks[g] = s
         /\ \A k \in Managed \ {g} : tx'[t].marks[k] = tx[t].marks[k]
         /\ tx'[t].holds = tx[t].holds /\ tx'[t].wrote = tx[t].wrote
<1> DEFINE m == [tx[t].marks EXCEPT ![g] = s]
           r == [tx[t] EXCEPT !.marks = m]
<1>1. tx[t] \in Transactions
  BY DEF GitTypes
<1>2. /\ m \in [Managed -> Statuses \cup {"same"}] /\ m[g] = s
      /\ \A k \in Managed \ {g} : m[k] = tx[t].marks[k]
  BY <1>1 DEF Transactions
<1>3. tx' = [tx EXCEPT ![t] = r]
  BY DEF Mark
<1> HIDE DEF m
<1>4. /\ r \in Transactions /\ r.marks = m
      /\ r.holds = tx[t].holds /\ r.wrote = tx[t].wrote
  BY <1>1, <1>2 DEF Transactions
<1> HIDE DEF r
<1>5. QED
  BY <1>2, <1>3, <1>4, Writes

LEMMA BackType ==
  ASSUME NEW t \in Delivery PROVE Back(t) \in {"loads", "groups"}
BY DEF Back

\* All that is kept, in one.
GitTold == InTurn /\ OneHolder /\ UnderLock /\ Handled

\* The query of a host's syncs raises: an error, with a job staged or not.
LEMMA StagingMarks ==
  ASSUME GitTypes, GitTold, NEW t \in Delivery, StagingRaises(t)
  PROVE  TasksTyped /\ GitTold' /\ UNCHANGED <<bound, content>>
<1> USE DEF GitTold
<1>1. /\ task[t].pc = "stages" /\ task[t].at \in Managed
      /\ task[t].sha \in CommitId
      /\ UNCHANGED <<bound, content>>
      /\ LockedBy(t) /\ AsMarked(t)
  BY TaskRead DEF StagingRaises, NoCommit, InTurn, UnderLock, Handled
<1>2. PICK g \in Managed : g = task[t].at
  BY <1>1
<1>3. tx[t] \in Transactions
  BY DEF GitTypes
<1>4. g \in tx[t].holds
  BY <1>1, <1>2 DEF LockedBy
<1>5. PICK pc \in {"groups", "blocked"} : Goes(t, pc)
  BY DEF StagingRaises
<1>6. /\ task' \in [Delivery -> Tasks]
      /\ task'[t].pc = pc /\ task'[t].sha = task[t].sha /\ task'[t].at = g
      /\ \A u \in Delivery \ {t} : task'[u] = task[u]
  BY <1>2, <1>5, GoesTo DEF Importing
<1>7. /\ tx' \in [Delivery -> Transactions]
      /\ \A u \in Delivery \ {t} : tx'[u] = tx[u]
      /\ tx'[t].marks[g] = "error"
      /\ \A k \in Managed \ {g} : tx'[t].marks[k] = tx[t].marks[k]
      /\ tx'[t].holds = tx[t].holds /\ tx'[t].wrote = tx[t].wrote
  <2> DEFINE m == [tx[t].marks EXCEPT ![g] = "error"]
  <2>1. PICK staged \in {"no", "listed", "unlisted"} :
          tx' = [tx EXCEPT ![t] = [tx[t] EXCEPT !.staged = staged,
                                                !.marks = m]]
    <3>1. PICK staged \in {tx[t].staged, "unlisted"} :
            tx' = [tx EXCEPT ![t] = [tx[t] EXCEPT !.staged = staged,
                                                  !.marks[g] = "error"]]
      BY <1>2 DEF StagingRaises
    <3>2. tx[t].staged \in {"no", "listed", "unlisted"}
      BY <1>3 DEF Transactions
    <3>3. [tx[t] EXCEPT !.staged = staged, !.marks[g] = "error"]
            = [tx[t] EXCEPT !.staged = staged, !.marks = m]
      BY <1>3 DEF Transactions
    <3>4. QED
      BY <3>1, <3>2, <3>3, Zenon
  <2>2. /\ m \in [Managed -> Statuses \cup {"same"}] /\ m[g] = "error"
        /\ \A k \in Managed \ {g} : m[k] = tx[t].marks[k]
    BY <1>3 DEF Transactions, Statuses
  <2> DEFINE r == [tx[t] EXCEPT !.staged = staged, !.marks = m]
  <2>3. tx' = [tx EXCEPT ![t] = r]
    BY <2>1
  <2> HIDE DEF m
  <2>4. /\ r \in Transactions /\ r.marks = m
        /\ r.holds = tx[t].holds /\ r.wrote = tx[t].wrote
    BY <1>3, <2>2 DEF Transactions
  <2> HIDE DEF r
  <2>5. QED
    BY <2>2, <2>3, <2>4, Writes
<1>8. InTurn'
  BY <1>1, <1>6, InTurnStep
<1>9. OneHolder'
  BY <1>7 DEF OneHolder
<1>10. LockedBy(t)'
  BY <1>1, <1>4, <1>6, <1>7 DEF LockedBy
<1>11. AsFar(t)' /\ AsMarked(t)'
  <2>1. AsFar(t)'
    BY <1>6 DEF AsFar
  <2>2. ASSUME NEW k \in Managed, tx'[t].marks[k] = "synced",
               bound'[k].enabled
        PROVE  /\ File[task'[t].sha][k].kind = "file"
               /\ \A h \in Compared(k) : Settled(t, k, h)'
    <3>1. tx[t].marks[k] = "synced" /\ bound[k].enabled
      BY <1>1, <1>7, <2>2
    <3>2. /\ File[task[t].sha][k].kind = "file"
          /\ \A h \in Compared(k) : Settled(t, k, h)
      BY <1>1, <3>1 DEF AsMarked
    <3>3. QED
      BY <1>1, <1>6, <1>7, <3>2, ComparedIsNamed, StaysSettled
  <2>3. QED
    BY <2>1, <2>2 DEF AsMarked
<1>12. QED
  BY <1>1, <1>6, <1>7, <1>8, <1>9, <1>10, <1>11, Unseen
     DEF TasksTyped, UnderLock, Handled

LEMMA LockTold ==
  ASSUME GitTypes, GitTold, NEW t \in Delivery, Lock(t)
  PROVE  TasksTyped /\ GitTold' /\ UNCHANGED <<bound, content>>
<1> USE DEF GitTold
<1>1. /\ task[t] \in Tasks /\ tx[t] \in Transactions
      /\ task[t].pc = "waits" /\ task[t].sha \in CommitId
      /\ UNCHANGED <<bound, content>>
      /\ LockedBy(t) /\ AsMarked(t)
  BY TaskRead DEF Lock, NoCommit, UnderLock, Handled, GitTypes
<1>2. PICK x \in Target : x = task[t].at
  BY <1>1 DEF Tasks
<1>3. /\ \A u \in Delivery \ {t} : x \notin tx[u].holds
      /\ FileOf(t) = File[task[t].sha][x]
  BY <1>2 DEF Lock, Unheld, FileOf
\* What it is at then, and what it marks.
<1>4. /\ task' \in [Delivery -> Tasks] /\ tx' \in [Delivery -> Transactions]
      /\ \A u \in Delivery \ {t} : task'[u] = task[u] /\ tx'[u] = tx[u]
      /\ task'[t].sha = task[t].sha /\ task'[t].at = x
      /\ \/ task'[t].pc \in {"loads", "groups"}
         \/ /\ task'[t].pc = "handles" /\ task'[t].next = 1
            /\ FileOf(t).kind = "file"
      /\ tx'[t].holds = tx[t].holds \cup {x} /\ tx'[t].wrote = tx[t].wrote
      /\ \A g \in Managed : \/ tx'[t].marks[g] = tx[t].marks[g]
                            \/ g = x /\ tx'[t].marks[g] = "error"
  <2>1. CASE FileOf(t).kind = "file"
    <3> DEFINE r == [task[t] EXCEPT !.pc = "handles", !.next = 1,
                                    !.failed = FALSE, !.changed = FALSE]
               w == [tx[t] EXCEPT !.holds = tx[t].holds \cup {x}]
    <3>1. /\ task' = [task EXCEPT ![t] = r]
          /\ tx' = [tx EXCEPT ![t] = w]
      BY <1>2, <2>1 DEF Lock
    <3>2. /\ r \in Tasks /\ r.pc = "handles" /\ r.next = 1
          /\ r.sha = task[t].sha /\ r.at = x
      <4>1. 1 \in 1..9 /\ FALSE \in BOOLEAN /\ "handles" \in Importing
        BY DEF Importing
      <4>2. QED
        BY <1>1, <1>2, <4>1 DEF Tasks
    <3>3. /\ w \in Transactions /\ w.holds = tx[t].holds \cup {x}
          /\ w.wrote = tx[t].wrote /\ w.marks = tx[t].marks
      BY <1>1 DEF Transactions
    <3> HIDE DEF r, w
    <3>4. QED
      BY <2>1, <3>1, <3>2, <3>3, GoesOn, Writes
  <2>2. CASE FileOf(t).kind # "file"
    <3> DEFINE m == IF x = Install THEN tx[t].marks
                    ELSE [tx[t].marks EXCEPT ![x] = "error"]
               w == [tx[t] EXCEPT !.holds = tx[t].holds \cup {x}, !.marks = m]
    <3>1. Goes(t, Back(t)) /\ tx' = [tx EXCEPT ![t] = w]
      BY <1>2, <2>2 DEF Lock
    <3>2. /\ task' \in [Delivery -> Tasks]
          /\ task'[t].pc \in {"loads", "groups"}
          /\ task'[t].sha = task[t].sha /\ task'[t].at = x
          /\ \A u \in Delivery \ {t} : task'[u] = task[u]
      BY ZenonT(40), <1>2, <3>1, BackType, GoesTo DEF Importing
    <3>3. /\ m \in [Managed -> Statuses \cup {"same"}]
          /\ \A g \in Managed : \/ m[g] = tx[t].marks[g]
                                \/ g = x /\ m[g] = "error"
      <4>1. tx[t].marks \in [Managed -> Statuses \cup {"same"}]
        BY <1>1 DEF Transactions
      <4>2. x # Install => x \in Managed
        BY DEF Target
      <4>3. QED
        BY <4>1, <4>2 DEF Statuses
    <3> HIDE DEF m
    <3>4. /\ w \in Transactions /\ w.holds = tx[t].holds \cup {x}
          /\ w.wrote = tx[t].wrote /\ w.marks = m
      BY <1>1, <3>3 DEF Transactions
    <3> HIDE DEF w
    <3>5. QED
      BY <3>1, <3>2, <3>3, <3>4, Writes
  <2>3. QED
    BY <2>1, <2>2
<1>5. InTurn'
  <2>1. task'[t].pc = "handles" =>
          task'[t].next \in 1..Len(ModulesOf(task'[t].at))
    <3>1. Len(ModulesOf(x)) \in 1..8
      BY HandlersAreNamed
    <3>2. 1 \in 1..Len(ModulesOf(x))
      BY SMTT(30), <3>1
    <3>3. QED
      BY <1>4, <3>2
  <2>2. QED
    BY <1>1, <1>4, <2>1, InTurnStep
<1>6. OneHolder'
  BY <1>3, <1>4 DEF OneHolder
<1>7. LockedBy(t)'
  <2>1. task'[t].pc = "handles" =>
          task'[t].at \in tx'[t].holds /\ FileOf(t)'.kind = "file"
    BY <1>3, <1>4 DEF FileOf
  <2>2. QED
    BY <1>1, <1>4, <2>1 DEF LockedBy
<1>8. AsFar(t)' /\ AsMarked(t)'
  <2>1. AsFar(t)'
    BY <1>4 DEF AsFar
  <2>2. ASSUME NEW k \in Managed, tx'[t].marks[k] = "synced",
               bound'[k].enabled
        PROVE  /\ File[task'[t].sha][k].kind = "file"
               /\ \A h \in Compared(k) : Settled(t, k, h)'
    <3>1. tx[t].marks[k] = "synced" /\ bound[k].enabled
      BY <1>1, <1>4, <2>2
    <3>2. /\ File[task[t].sha][k].kind = "file"
          /\ \A h \in Compared(k) : Settled(t, k, h)
      BY <1>1, <3>1 DEF AsMarked
    <3>3. QED
      BY <1>1, <1>4, <3>2, ComparedIsNamed, StaysSettled
  <2>3. QED
    BY <2>1, <2>2 DEF AsMarked
<1>9. QED
  BY <1>1, <1>4, <1>5, <1>6, <1>7, <1>8, Unseen
     DEF TasksTyped, UnderLock, Handled

\* A handler that raises nothing leaves its module settled, or an error.
LEMMA HandlerTold ==
  ASSUME GitTypes, GitTold, NEW t \in Delivery, RunHandler(t)
  PROVE  TasksTyped /\ GitTold' /\ UNCHANGED <<bound, content>>
<1> USE DEF GitTold
<1>1. /\ task[t] \in Tasks /\ tx[t] \in Transactions
      /\ task[t].pc = "handles" /\ task[t].sha \in CommitId
      /\ UNCHANGED <<bound, content>>
      /\ LockedBy(t) /\ AsFar(t) /\ AsMarked(t)
  BY Zenon, TaskRead DEF RunHandler, NoCommit, UnderLock, Handled, GitTypes
<1>2. PICK x \in Target : x = task[t].at
  BY <1>1 DEF Tasks
<1>3. PICK n \in 1..Len(ModulesOf(x)) : n = task[t].next
  BY <1>1, <1>2 DEF InTurn
<1>4. Len(ModulesOf(x)) \in 1..8 /\ n \in Nat
  BY <1>3, HandlersAreNamed
<1>5. PICK h \in NamesOf(x) : h = ModulesOf(x)[n]
  BY SMTT(30), <1>3, HandlersAreNamed
<1>6. PICK asked \in (SUBSET Entry) \cup {Refused, Same} :
        /\ asked = Asked(h, File[task[t].sha][x].has[h])
        /\ FileOf(t) = File[task[t].sha][x]
  <2>1. /\ h \in Modules \cup {"drift", "discovery"}
        /\ File[task[t].sha][x].has[h] \in (SUBSET Entry) \cup {Absent}
    BY <1>1, HandlersAreNamed, GitAssumption
  <2>2. Asked(h, File[task[t].sha][x].has[h])
          \in (SUBSET Entry) \cup {Refused, Unfit, Same}
    BY SMTT(30), <2>1, AskedType
  <2>3. FileOf(t) = File[task[t].sha][x]
    BY <1>2 DEF FileOf
  <2>4. Asked(h, File[task[t].sha][x].has[h]) # Unfit
    BY Zenon, <1>2, <1>3, <1>5, <2>3 DEF RunHandler
  <2>5. QED
    BY <2>2, <2>3, <2>4
<1>7. PICK differs \in BOOLEAN :
        differs <=> asked \notin {Refused, Same, Seen(t, x, h)}
  OBVIOUS
<1>8. PICK pc \in {"handles", "concludes"} :
        pc = IF n = Len(ModulesOf(x)) THEN "concludes" ELSE "handles"
  OBVIOUS
\* The task.
<1>9. /\ task' \in [Delivery -> Tasks]
      /\ \A u \in Delivery \ {t} : task'[u] = task[u]
      /\ task'[t].sha = task[t].sha /\ task'[t].at = x
      /\ task'[t].pc = pc /\ task'[t].next = n + 1
      /\ task'[t].failed <=> (task[t].failed \/ asked = Refused)
  <2> DEFINE f == task[t].failed \/ asked = Refused
             c == task[t].changed \/ differs
             r == [task[t] EXCEPT !.next = n + 1, !.failed = f,
                                  !.changed = c, !.pc = pc]
  <2>1. task' = [task EXCEPT ![t] = r]
    BY ZenonT(40), <1>1, <1>2, <1>3, <1>5, <1>6, <1>7, <1>8 DEF RunHandler
  <2>2. f \in BOOLEAN /\ c \in BOOLEAN /\ n + 1 \in 1..9
    <3>1. f \in BOOLEAN /\ c \in BOOLEAN
      BY Zenon
    <3>2. PICK last \in 1..8 : last = Len(ModulesOf(x))
      BY <1>4
    <3>3. n \in 1..last
      BY <1>3, <3>2
    <3>4. n + 1 \in 1..9
      BY <3>3
    <3>5. QED
      BY <3>1, <3>4, Zenon
  <2>3. pc \in Importing
    BY DEF Importing
  <2> HIDE DEF f, c
  <2>4. /\ r \in Tasks /\ r.sha = task[t].sha /\ r.at = x
        /\ r.pc = pc /\ r.next = n + 1 /\ r.failed = f
    BY <1>1, <1>2, <2>2, <2>3 DEF Tasks
  <2> HIDE DEF r
  <2>5. QED
    BY Zenon, <2>1, <2>4, GoesOn DEF f
\* The transaction.
<1>10. /\ tx' \in [Delivery -> Transactions]
       /\ \A u \in Delivery \ {t} : tx'[u] = tx[u]
       /\ tx'[t].holds = tx[t].holds /\ tx'[t].marks = tx[t].marks
       /\ \A y \in Target : \A k \in NamesOf(y) :
            y # x \/ k # h => tx'[t].wrote[y][k] = tx[t].wrote[y][k]
       /\ tx'[t].wrote[x][h] = IF differs THEN asked ELSE tx[t].wrote[x][h]
  <2>1. CASE ~differs
    <3>1. tx' = tx
      BY Zenon, <1>2, <1>3, <1>5, <1>6, <1>7, <2>1 DEF RunHandler
    <3>2. QED
      BY <2>1, <3>1 DEF GitTypes
  <2>2. CASE differs
    <3> DEFINE w == [tx[t].wrote EXCEPT ![x][h] = asked]
               r == [tx[t] EXCEPT !.wrote = w]
    <3>1. tx' = [tx EXCEPT ![t].wrote[x][h] = asked]
      BY Zenon, <1>2, <1>3, <1>5, <1>6, <1>7, <2>2 DEF RunHandler
    <3>2. tx' = [tx EXCEPT ![t] = r]
      BY <3>1
    <3>3. /\ w \in Sections((SUBSET Entry) \cup {Same})
          /\ w[x][h] = asked
          /\ \A y \in Target : \A k \in NamesOf(y) :
               y # x \/ k # h => w[y][k] = tx[t].wrote[y][k]
      <4>1. tx[t].wrote \in Sections((SUBSET Entry) \cup {Same})
        BY <1>1 DEF Transactions
      <4>2. asked \in (SUBSET Entry) \cup {Same}
        BY <1>7, <2>2
      <4>3. PICK S : S = (SUBSET Entry) \cup {Same}
        OBVIOUS
      <4>4. tx[t].wrote \in Sections(S) /\ asked \in S
        BY <4>1, <4>2, <4>3
      <4>5. w = Written(tx[t].wrote, x, h, asked)
        BY DEF Written
      <4> HIDE DEF w
      <4>6. QED
        BY <4>3, <4>4, <4>5, SectionWritten
    <3> HIDE DEF w
    <3>4. /\ r \in Transactions /\ r.wrote = w
          /\ r.holds = tx[t].holds /\ r.marks = tx[t].marks
      BY <1>1, <3>3 DEF Transactions
    <3> HIDE DEF r
    <3>5. /\ tx' \in [Delivery -> Transactions]
          /\ tx'[t] = r
          /\ \A u \in Delivery \ {t} : tx'[u] = tx[u]
      BY <3>2, <3>4, Writes
    <3>6. QED
      BY SMTT(30), <2>2, <3>3, <3>4, <3>5
  <2>3. QED
    BY <2>1, <2>2
<1>11. InTurn'
  <2>1. pc = "handles" => n + 1 \in 1..Len(ModulesOf(x))
    BY <1>3, <1>4, <1>8
  <2>2. pc = "concludes" => n + 1 = Len(ModulesOf(x)) + 1
    BY <1>8
  <2>3. QED
    BY <1>1, <1>9, <2>1, <2>2, InTurnStep
<1>12. OneHolder'
  BY <1>10 DEF OneHolder
<1>13. LockedBy(t)'
  <2>1. x \in tx[t].holds /\ File[task[t].sha][x].kind = "file"
    BY Zenon, <1>1, <1>2, <1>6 DEF LockedBy
  <2>2. FileOf(t)' = File[task[t].sha][x]
    BY <1>9 DEF FileOf
  <2>3. QED
    BY SMTT(30), <1>1, <1>2, <1>9, <1>10, <2>1, <2>2 DEF LockedBy, Target
\* What was settled stays so, and the handler's module is, if it is no error.
<1>14. ASSUME NEW y \in Target, NEW k \in NamesOf(y)
       PROVE  /\ Settled(t, y, k) => Settled(t, y, k)'
              /\ y = x /\ k = h /\ asked # Refused => Settled(t, y, k)'
  <2>1. CASE y # x \/ k # h
    BY SMTT(30), <1>1, <1>9, <1>10, <2>1, StaysSettled
  <2>2. CASE y = x /\ k = h /\ ~differs
    <3>1. Seen(t, y, k)' = Seen(t, y, k)
      BY SMTT(30), <1>1, <1>10, <2>2 DEF Seen
    <3>2. QED
      BY Zenon, <1>6, <1>7, <1>9, <2>2, <3>1 DEF Settled
  <2>3. CASE y = x /\ k = h /\ differs
    <3>1. Seen(t, y, k)' = asked
      BY <1>7, <1>10, <2>3 DEF Seen
    <3>2. QED
      BY Zenon, <1>6, <1>9, <2>3, <3>1 DEF Settled
  <2>4. QED
    BY <2>1, <2>2, <2>3
<1>15. AsFar(t)'
  <2>1. task'[t].next - 1 = n
    BY <1>4, <1>9
  <2> SUFFICES ASSUME ~task[t].failed, asked # Refused, x \in Managed,
                      bound[x].enabled, NEW i \in 1..n,
                      ModulesOf(x)[i] # "scheduled_actions"
               PROVE  Settled(t, x, ModulesOf(x)[i])'
    BY SMTT(30), <1>1, <1>9, <2>1 DEF AsFar
  <2>2. ModulesOf(x)[i] \in NamesOf(x)
    BY <1>3, <1>4, HandlersAreNamed
  <2>3. CASE i = n
    BY <1>5, <1>14, <2>2, <2>3
  <2>4. CASE i # n
    <3>1. i \in 1..(n - 1)
      BY <1>4, <2>4
    <3>2. Settled(t, x, ModulesOf(x)[i])
      BY <1>1, <1>2, <1>3, <3>1 DEF AsFar
    <3>3. QED
      BY <1>14, <2>2, <3>2
  <2>5. QED
    BY <2>3, <2>4
<1>16. AsMarked(t)'
  <2> SUFFICES ASSUME NEW k \in Managed, tx'[t].marks[k] = "synced",
                      bound'[k].enabled
               PROVE  /\ File[task'[t].sha][k].kind = "file"
                      /\ \A m \in Compared(k) : Settled(t, k, m)'
    BY DEF AsMarked
  <2>1. /\ File[task[t].sha][k].kind = "file"
        /\ \A m \in Compared(k) : Settled(t, k, m)
    BY <1>1, <1>10 DEF AsMarked
  <2>2. QED
    BY <1>9, <1>14, <2>1, ComparedIsNamed
<1>17. QED
  BY SMTT(30), <1>1, <1>9, <1>10, <1>11, <1>12, <1>13, <1>15, <1>16, Unseen
     DEF TasksTyped, UnderLock, Handled

\* Past its last handler a group is marked for what it came to.
LEMMA ConcludeTold ==
  ASSUME GitTypes, GitTold, NEW t \in Delivery, Conclude(t)
  PROVE  TasksTyped /\ GitTold' /\ UNCHANGED <<bound, content>>
<1> USE DEF GitTold
<1>1. /\ task[t] \in Tasks /\ tx[t] \in Transactions
      /\ task[t].pc = "concludes" /\ task[t].sha \in CommitId
      /\ UNCHANGED <<bound, content>>
      /\ LockedBy(t) /\ AsFar(t) /\ AsMarked(t)
  BY TaskRead DEF Conclude, NoCommit, UnderLock, Handled, GitTypes
<1>2. PICK x \in Target : x = task[t].at
  BY <1>1 DEF Tasks
<1>3. PICK pc \in {"stages", "loads", "groups"} :
        Goes(t, pc) /\ (pc = "stages" => x \in Managed)
  <2>1. x # Install => x \in Managed
    BY DEF Target
  <2>2. QED
    BY <1>2, <2>1, BackType DEF Conclude
<1>4. /\ task' \in [Delivery -> Tasks]
      /\ task'[t].pc = pc /\ task'[t].sha = task[t].sha /\ task'[t].at = x
      /\ \A u \in Delivery \ {t} : task'[u] = task[u]
  BY <1>2, <1>3, GoesTo DEF Importing
<1>5. /\ tx' \in [Delivery -> Transactions]
      /\ \A u \in Delivery \ {t} : tx'[u] = tx[u]
      /\ tx'[t].holds = tx[t].holds /\ tx'[t].wrote = tx[t].wrote
      /\ \A g \in Managed :
           \/ g # x /\ tx'[t].marks[g] = tx[t].marks[g]
           \/ /\ g = x /\ tx'[t].marks[g] # "same"
              /\ tx'[t].marks[g] = "synced" => ~task[t].failed
  <2>1. CASE x = Install
    <3>1. tx' = tx
      BY <1>2, <2>1 DEF Conclude
    <3>2. x \notin Managed
      BY <2>1, GitAssumption
    <3>3. QED
      BY <3>1, <3>2 DEF GitTypes
  <2>2. CASE x # Install
    <3>1. x \in Managed
      BY <2>2 DEF Target
    <3>2. PICK s \in {"error", "synced"} :
            Mark(t, x, s) /\ (s = "synced" => ~task[t].failed)
      BY <1>2, <2>2 DEF Conclude
    <3>3. s \in Statuses /\ s # "same"
      BY DEF Statuses
    <3>4. QED
      BY <3>1, <3>2, <3>3, Marks
  <2>3. QED
    BY <2>1, <2>2
<1>6. InTurn'
  BY <1>1, <1>3, <1>4, InTurnStep
<1>7. OneHolder'
  BY <1>5 DEF OneHolder
<1>8. LockedBy(t)'
  <2>1. x \in tx[t].holds
    BY <1>1, <1>2 DEF LockedBy
  <2>2. QED
    BY <1>1, <1>2, <1>3, <1>4, <1>5, <2>1 DEF LockedBy
<1>9. AsFar(t)'
  BY <1>3, <1>4 DEF AsFar
<1>10. AsMarked(t)'
  <2> SUFFICES ASSUME NEW g \in Managed, tx'[t].marks[g] = "synced",
                      bound'[g].enabled
               PROVE  /\ File[task'[t].sha][g].kind = "file"
                      /\ \A h \in Compared(g) : Settled(t, g, h)'
    BY DEF AsMarked
  <2>1. /\ File[task[t].sha][g].kind = "file"
        /\ \A h \in Compared(g) : Settled(t, g, h)
    <3>1. CASE g # x
      BY <1>1, <1>5, <3>1 DEF AsMarked
    <3>2. CASE g = x
      <4>1. ~task[t].failed /\ bound[g].enabled /\ task[t].at = g
        BY <1>1, <1>2, <1>5, <3>2
      <4>2. task[t].next - 1 = Len(ModulesOf(g)) /\ g \in Target
        <5>1. task[t].next = Len(ModulesOf(g)) + 1
          BY <1>1, <1>2, <3>2 DEF InTurn
        <5>2. Len(ModulesOf(g)) \in Nat
          BY <3>2, HandlersAreNamed
        <5>3. QED
          BY <3>2, <5>1, <5>2
      <4>3. File[task[t].sha][g].kind = "file"
        BY <1>1, <1>2, <3>2 DEF LockedBy, FileOf
      <4>4. ASSUME NEW h \in Compared(g)
            PROVE  Settled(t, g, h)
        <5>1. PICK i \in 1..Len(ModulesOf(g)) : ModulesOf(g)[i] = h
          BY <4>2, HandlersAreNamed DEF Compared
        <5>2. h # "scheduled_actions"
          BY DEF Compared
        <5>3. QED
          BY <1>1, <4>1, <4>2, <5>1, <5>2 DEF AsFar
      <4>5. QED
        BY <4>3, <4>4
    <3>3. QED
      BY <3>1, <3>2
  <2>2. QED
    BY <1>1, <1>4, <1>5, <2>1, ComparedIsNamed, StaysSettled
<1>11. QED
  BY <1>1, <1>4, <1>5, <1>6, <1>7, <1>8, <1>9, <1>10, Unseen
     DEF TasksTyped, UnderLock, Handled

\* What others hold is none of what a transaction has written or marked.
LEMMA CommitIsOfItsOwn ==
  ASSUME GitTypes, GitTold, NEW t \in Delivery, CommitImport(t),
         NEW u \in Delivery \ {t}, NEW g \in Managed, g \in tx[u].holds
  PROVE  /\ bound'[g] = bound[g]
         /\ \A h \in Compared(g) : content'[g][h] = content[g][h]
<1>1. g \notin tx[t].holds /\ LockedBy(t)
  BY DEF GitTold, OneHolder, UnderLock
<1>2. g \in Target /\ Compared(g) \subseteq NamesOf(g)
  BY ComparedIsNamed
<1>3. tx[t].marks[g] = "same"
  BY <1>1 DEF LockedBy
<1>4. \A h \in NamesOf(g) : tx[t].wrote[g][h] = Same
  BY <1>1, <1>2 DEF LockedBy
<1>5. bound'[g] = bound[g]
  BY <1>3 DEF CommitImport
<1>6. \A h \in NamesOf(g) : content'[g][h] = content[g][h]
  BY <1>2, <1>4 DEF CommitImport, Seen
<1>7. QED
  BY <1>2, <1>5, <1>6

LEMMA CommitTyped ==
  ASSUME GitTypes, GitTold, NEW t \in Delivery, CommitImport(t)
  PROVE  /\ TasksTyped
         /\ tx'[t] = NoWrites /\ task'[t].pc \in {"sends", "over", "unsent"}
         /\ task'[t].sha = task[t].sha
         /\ \A u \in Delivery \ {t} :
              /\ tx'[u] = tx[u]
              /\ \/ task'[u] = task[u]
                 \/ /\ task[u].pc = "blocked" /\ task'[u].pc = "breaks"
                    /\ task'[u].sha = task[u].sha
<1>1. PICK pc \in {"sends", "over", "unsent"} : Onward(t, pc, "breaks")
  <2>1. tx[t].staged \in {"no", "listed", "unlisted"}
    BY DEF GitTypes, Transactions
  <2>2. QED
    BY <2>1 DEF CommitImport
<1>2. ASSUME NEW u \in Delivery
      PROVE  /\ task[u] \in Tasks
             /\ [NoTask EXCEPT !.pc = pc, !.sha = task[u].sha] \in Tasks
             /\ [NoTask EXCEPT !.pc = pc, !.sha = task[u].sha].pc = pc
             /\ [NoTask EXCEPT !.pc = pc, !.sha = task[u].sha].sha = task[u].sha
             /\ [task[u] EXCEPT !.pc = "breaks"] \in Tasks
             /\ [task[u] EXCEPT !.pc = "breaks"].pc = "breaks"
             /\ [task[u] EXCEPT !.pc = "breaks"].sha = task[u].sha
  <2>1. task[u] \in Tasks
    BY DEF GitTypes
  <2>2. /\ [task[u] EXCEPT !.pc = "breaks"] \in Tasks
        /\ [task[u] EXCEPT !.pc = "breaks"].pc = "breaks"
        /\ [task[u] EXCEPT !.pc = "breaks"].sha = task[u].sha
    BY <2>1 DEF Tasks, Importing
  <2>3. task[u].sha \in CommitId \cup {Before}
    BY <2>1 DEF Tasks
  <2>4. NoTask \in Tasks
    BY DEF NoTask, Tasks, MaxRetries, Target
  <2>5. QED
    BY <2>1, <2>2, <2>3, <2>4 DEF Tasks, Importing
<1>3. task' \in [Delivery -> Tasks]
  BY <1>1, <1>2 DEF Onward
<1>4. tx' \in [Delivery -> Transactions] /\ tx'[t] = NoWrites
      /\ \A u \in Delivery \ {t} : tx'[u] = tx[u]
  BY NoWritesType DEF CommitImport, GitTypes
<1>5. task'[t] = [NoTask EXCEPT !.pc = pc, !.sha = task[t].sha]
  BY <1>1 DEF Onward
<1>6. \A u \in Delivery \ {t} :
        \/ task'[u] = task[u]
        \/ /\ task[u].pc = "blocked"
           /\ task'[u] = [task[u] EXCEPT !.pc = "breaks"]
  BY <1>1 DEF Onward
<1>7. task'[t].pc = pc /\ task'[t].sha = task[t].sha
  BY <1>2, <1>5
<1>8. ASSUME NEW u \in Delivery \ {t}
      PROVE  \/ task'[u] = task[u]
             \/ /\ task[u].pc = "blocked" /\ task'[u].pc = "breaks"
                /\ task'[u].sha = task[u].sha
  BY <1>2, <1>6
<1>9. QED
  BY <1>3, <1>4, <1>7, <1>8 DEF TasksTyped

LEMMA CommitTold ==
  ASSUME GitTypes, GitTold, NEW t \in Delivery, CommitImport(t)
  PROVE  GitTold'
<1> USE DEF GitTold
<1>1. task[t].sha \in CommitId
  BY TaskRead DEF CommitImport
<1>2. InTurn'
  <2> SUFFICES ASSUME NEW u \in Delivery
               PROVE  /\ task'[u].pc # "none" => task'[u].sha \in CommitId
                      /\ task'[u].pc = "handles" =>
                           task'[u].next \in 1..Len(ModulesOf(task'[u].at))
                      /\ task'[u].pc = "concludes" =>
                           task'[u].next = Len(ModulesOf(task'[u].at)) + 1
                      /\ task'[u].pc \in {"stages", "blocked"}
                           => task'[u].at \in Managed
    BY DEF InTurn
  <2>1. CASE u = t
    BY <1>1, <2>1, CommitTyped
  <2>2. CASE u # t /\ task'[u] = task[u]
    BY <2>2 DEF InTurn
  <2>3. CASE /\ task[u].pc = "blocked" /\ task'[u].pc = "breaks"
             /\ task'[u].sha = task[u].sha
    BY <2>3, TaskRead
  <2>4. QED
    BY <2>1, <2>2, <2>3, CommitTyped
<1>3. OneHolder'
  BY CommitTyped, NoWritesType DEF OneHolder
<1>4. LockedBy(t)' /\ AsFar(t)' /\ AsMarked(t)'
  BY CommitTyped, NoWritesType DEF LockedBy, AsFar, AsMarked, Target
<1>5. ASSUME NEW u \in Delivery \ {t}
      PROVE  LockedBy(u)' /\ AsFar(u)' /\ AsMarked(u)'
  <2>1. /\ tx'[u] = tx[u] /\ task'[u].sha = task[u].sha
        /\ \/ task'[u] = task[u]
           \/ task[u].pc = "blocked" /\ task'[u].pc = "breaks"
    BY CommitTyped
  <2>2. LockedBy(u)
    BY DEF UnderLock
  <2>3. LockedBy(u)'
    BY <2>1, <2>2 DEF LockedBy, FileOf
  <2>4. AsFar(u)' /\ AsMarked(u)'
    BY <2>1, CommitIsOfItsOwn, StaysHandled
  <2>5. QED
    BY <2>3, <2>4
<1>6. QED
  BY <1>2, <1>3, <1>4, <1>5 DEF UnderLock, Handled

\* A group that shows `synced' after a commit is one the commit is of, or one it
\* did not touch.
LEMMA CommitIsOne ==
  ASSUME GitTypes, GitTold, SyncedIsOneCommit, NEW t \in Delivery,
         CommitImport(t)
  PROVE  SyncedIsOneCommit'
<1> SUFFICES ASSUME NEW g \in Managed,
                    bound'[g] = [enabled |-> TRUE, status |-> "synced"]
             PROVE  \E c \in CommitId :
                      /\ File[c][g].kind = "file"
                      /\ \A h \in Compared(g) : Agrees(g, h, c)'
  BY DEF SyncedIsOneCommit, Compared
<1>1. /\ LockedBy(t) /\ AsMarked(t) /\ task[t].pc = "groups"
      /\ task[t].sha \in CommitId
      /\ bound[g] \in [enabled : BOOLEAN, status : Statuses]
  BY TaskRead DEF GitTold, UnderLock, Handled, GitTypes, CommitImport
<1>2. g \in Target /\ Compared(g) \subseteq NamesOf(g)
  BY ComparedIsNamed
<1>3. \A h \in Compared(g) : content'[g][h] = Seen(t, g, h)
  BY <1>2 DEF CommitImport
<1>4. CASE tx[t].marks[g] = "same"
  <2>1. \A h \in Compared(g) : content'[g][h] = content[g][h]
    BY <1>1, <1>2, <1>3, <1>4 DEF LockedBy, Seen
  <2>2. bound'[g] = bound[g]
    BY <1>4 DEF CommitImport
  <2>3. PICK c \in CommitId : /\ File[c][g].kind = "file"
                              /\ \A h \in Compared(g) : Agrees(g, h, c)
    BY <2>2 DEF SyncedIsOneCommit, Compared
  <2>4. \A h \in Compared(g) : Agrees(g, h, c)'
    BY <2>1, <2>3 DEF Agrees
  <2>5. QED
    BY <2>3, <2>4
<1>5. CASE tx[t].marks[g] # "same"
  <2>1. bound'[g] = [bound[g] EXCEPT !.status = tx[t].marks[g]]
    BY <1>5 DEF CommitImport
  <2>2. tx[t].marks[g] = "synced" /\ bound[g].enabled
    <3>1. /\ bound'[g].status = tx[t].marks[g]
          /\ bound'[g].enabled = bound[g].enabled
      BY <1>1, <2>1
    <3>2. bound'[g].status = "synced" /\ bound'[g].enabled = TRUE
      OBVIOUS
    <3>3. QED
      BY <3>1, <3>2
  <2>3. /\ File[task[t].sha][g].kind = "file"
        /\ \A h \in Compared(g) : Settled(t, g, h)
    BY <1>1, <2>2 DEF AsMarked
  <2>4. PICK c \in CommitId : c = task[t].sha
    BY <1>1
  <2>5. \A h \in Compared(g) : Agrees(g, h, c)'
    BY <1>3, <2>3, <2>4 DEF Agrees, Settled
  <2>6. QED
    BY <2>3, <2>4, <2>5
<1>6. QED
  BY <1>4, <1>5

\* What an operator changes is a group that nobody holds or that is not bound,
\* or rows that are not compared.
OfOthers(g) ==
  /\ \A k \in Managed \ {g} :
       /\ bound'[k] = bound[k]
       /\ \A h \in Compared(k) : content'[k][h] = content[k][h]
  /\ \/ \A t \in Delivery : g \notin tx[t].holds
     \/ bound'[g] = bound[g] /\ ~bound[g].enabled
     \/ /\ bound'[g] = bound[g]
        /\ \A h \in Compared(g) : content'[g][h] = content[g][h]
  /\ \/ bound'[g] # [enabled |-> TRUE, status |-> "synced"]
     \/ /\ bound'[g] = bound[g]
        /\ \A h \in Compared(g) : content'[g][h] = content[g][h]

\* An operator binds, releases or edits a group that no transaction holds, or
\* edits one that is not bound.
LEMMA HandTold ==
  ASSUME GitTypes, GitTold, SyncedIsOneCommit, NEW g \in Managed,
         \/ Bind(g) \/ Release(g)
         \/ \E h \in NamesOf(g) : HandEdit(g, h)
  PROVE  TasksTyped /\ GitTold' /\ SyncedIsOneCommit'
<1>1. task' = task /\ tx' = tx
  BY DEF Bind, Release, HandEdit
<1>2. TasksTyped /\ InTurn' /\ OneHolder' /\ UnderLock'
  BY <1>1 DEF TasksTyped, GitTypes, GitTold, InTurn, OneHolder, UnderLock,
     LockedBy, FileOf
<1>3. OfOthers(g)
  <2> USE DEF OfOthers
  <2>1. \A k \in Managed : bound[k] \in [enabled : BOOLEAN, status : Statuses]
    BY DEF GitTypes
  <2>2. CASE Bind(g) \/ Release(g)
    <3>1. PICK e \in BOOLEAN :
            bound' = [bound EXCEPT ![g] = [bound[g] EXCEPT
                        !.enabled = e, !.status = "disconnected"]]
      BY <2>2 DEF Bind, Release
    <3>2. /\ \A k \in Managed \ {g} : bound'[k] = bound[k]
          /\ bound'[g].status = "disconnected"
      BY <2>1, <3>1 DEF GitTypes
    <3>3. bound'[g] # [enabled |-> TRUE, status |-> "synced"]
      BY <3>2
    <3>4. UNCHANGED content /\ \A t \in Delivery : g \notin tx[t].holds
      BY <2>2 DEF Bind, Release
    <3>5. QED
      BY <3>2, <3>3, <3>4
  <2>3. ASSUME NEW h \in NamesOf(g), HandEdit(g, h)
        PROVE  OfOthers(g)
    <3>1. UNCHANGED bound
      BY <2>3 DEF HandEdit
    <3>2. \A k \in Target : \A m \in NamesOf(k) :
            k # g \/ m # h => content'[k][m] = content[k][m]
      <4>1. content' = Written(content, g, h, ByHand)
        BY <2>3 DEF HandEdit, Written
      <4>2. PICK S : S = SUBSET (Entry \cup ByHand)
        OBVIOUS
      <4>3. content \in Sections(S) /\ ByHand \in S /\ g \in Target
        BY <4>2 DEF GitTypes, Target
      <4>4. QED
        BY <4>1, <4>3, SectionWritten
    <3>3. \A k \in Managed : k \in Target /\ Compared(k) \subseteq NamesOf(k)
      BY ComparedIsNamed
    <3>4. CASE h = "scheduled_actions"
      BY <3>1, <3>2, <3>3, <3>4 DEF Compared
    <3>5. CASE ~bound[g].enabled
      BY <3>1, <3>2, <3>3, <3>5
    <3>6. QED
      BY <2>3, <3>4, <3>5 DEF HandEdit, Unlocked
  <2>4. QED
    BY <2>2, <2>3
<1>4. Handled'
  <2> SUFFICES ASSUME NEW t \in Delivery PROVE AsFar(t)' /\ AsMarked(t)'
    BY DEF Handled
  <2>1. ASSUME NEW k \in Managed \cap tx[t].holds, bound'[k].enabled
        PROVE  /\ bound[k].enabled
               /\ \A h \in Compared(k) : content'[k][h] = content[k][h]
    BY <1>3, <2>1 DEF OfOthers
  <2>2. QED
    BY <1>1, <2>1, StaysHandled DEF GitTold
<1>5. SyncedIsOneCommit'
  <2> SUFFICES ASSUME NEW k \in Managed,
                      bound'[k] = [enabled |-> TRUE, status |-> "synced"]
               PROVE  \E c \in CommitId :
                        /\ File[c][k].kind = "file"
                        /\ \A h \in Compared(k) : Agrees(k, h, c)'
    BY DEF SyncedIsOneCommit, Compared
  <2>1. /\ bound'[k] = bound[k]
        /\ \A h \in Compared(k) : content'[k][h] = content[k][h]
    BY <1>3 DEF OfOthers
  <2>2. PICK c \in CommitId : /\ File[c][k].kind = "file"
                              /\ \A h \in Compared(k) : Agrees(k, h, c)
    BY <2>1 DEF SyncedIsOneCommit, Compared
  <2>3. \A h \in Compared(k) : Agrees(k, h, c)'
    BY <2>1, <2>2 DEF Agrees
  <2>4. QED
    BY <2>2, <2>3
<1>6. QED
  BY <1>2, <1>4, <1>5 DEF GitTold

LEMMA DeliveryTold ==
  ASSUME GitTypes, GitTold, SyncedIsOneCommit, NEW t \in Delivery,
         \/ \E c \in CommitId : Deliver(t, c)
         \/ DeliveryStep(t)
         \/ DeliveryDies(t)
  PROVE  TasksTyped /\ GitTold' /\ SyncedIsOneCommit'
<1>1. ASSUME AllQuiet
      PROVE  TasksTyped /\ GitTold' /\ SyncedIsOneCommit'
  BY <1>1, QuietKeepsLocks, QuietKeepsHandled, StaysOneCommit
  DEF AllQuiet, GitTold
<1>2. InTurn
  BY DEF GitTold
<1>3. ASSUME NEW c \in CommitId, Deliver(t, c)
      PROVE  AllQuiet
  BY <1>2, <1>3, DeliverQuiet
<1>4. CASE Skip(t) \/ Clone(t) \/ CloneFails(t)
  BY <1>1, <1>2, <1>4, CloneQuiet
<1>5. CASE \/ SeekGlobal(t) \/ LoadGroups(t)
           \/ \E g \in Managed : NextGroup(t, g)
  BY <1>1, <1>2, <1>5, TurnQuiet
<1>6. CASE Lock(t)
  BY <1>6, LockTold, StaysOneCommit
<1>7. CASE RunHandler(t)
  BY <1>7, HandlerTold, StaysOneCommit
<1>8. CASE Conclude(t)
  BY <1>8, ConcludeTold, StaysOneCommit
<1>9. CASE SendJobs(t) \/ Stage(t)
  BY <1>1, <1>2, <1>9, StageQuiet
<1>10. CASE StagingRaises(t)
  BY <1>10, StagingMarks, StaysOneCommit
<1>11. CASE CommitImport(t)
  BY <1>11, CommitTyped, CommitTold, CommitIsOne
\* It ends without a trace.
<1>12. CASE HandlerBreaks(t) \/ StageBreaks(t) \/ Deadlock(t) \/ DeliveryDies(t)
  <2>1. PICK pc \in {"undone", "dead", "unsent"} : RollBack(t, pc)
    BY <1>12 DEF HandlerBreaks, StageBreaks, Deadlock, DeliveryDies
  <2>2. task[t].pc # "none"
    BY <1>12 DEF HandlerBreaks, StageBreaks, Deadlock, DeliveryDies,
       WaitsFor, Importing
  <2>3. QED
    BY <1>1, <1>2, <2>1, <2>2, RollBackQuiet
<1>13. QED
  BY <1>1, <1>3, <1>4, <1>5, <1>6, <1>7, <1>8, <1>9, <1>10, <1>11, <1>12
  DEF DeliveryStep

LEMMA StepTold ==
  ASSUME GitTypes, GitTold, SyncedIsOneCommit, [GitNext]_gitVars
  PROVE  TasksTyped /\ GitTold' /\ SyncedIsOneCommit'
<1>1. ASSUME UNCHANGED <<bound, content, task, tx>>
      PROVE  TasksTyped /\ GitTold' /\ SyncedIsOneCommit'
  <2>1. AllQuiet
    BY <1>1, StandsStill
  <2>2. QED
    BY <2>1, QuietKeepsLocks, QuietKeepsHandled, StaysOneCommit
    DEF AllQuiet, GitTold
<1>2. CASE OtherSync \/ OtherEnds \/ TakeMessage \/ JobEnds
           \/ UNCHANGED gitVars
  BY <1>1, <1>2 DEF OtherSync, OtherEnds, TakeMessage, JobEnds, gitVars
<1>3. QED
  BY <1>2, DeliveryTold, HandTold DEF GitNext, Operates

\* What is not the tasks'.
LEMMA RestTyped ==
  ASSUME GitTypes, TasksTyped, [GitNext]_gitVars
  PROVE  GitTypes'
<1> DEFINE Committed ==
      /\ lastSha' \in CommitId \cup {Before}
      /\ bound' \in [Managed -> [enabled : BOOLEAN, status : Statuses]]
      /\ content' \in Sections(SUBSET (Entry \cup ByHand))
    Sent ==
      /\ job' \in [firewall : {"none", "pending", "running"},
                   other : {"none", "running"}]
      /\ posted' \in BOOLEAN
      /\ hands' \in 0..MaxHands
<1> SUFFICES Committed /\ Sent
  BY DEF GitTypes, TasksTyped
<1>1. ASSUME UNCHANGED <<lastSha, bound, content>>
      PROVE  Committed
  BY <1>1 DEF GitTypes
<1>2. ASSUME UNCHANGED <<job, posted, hands>>
      PROVE  Sent
  BY <1>2 DEF GitTypes
<1>3. ASSUME UNCHANGED <<lastSha, bound, content, job, posted, hands>>
      PROVE  Committed /\ Sent
  BY <1>1, <1>2, <1>3
<1> HIDE DEF Committed, Sent
<1>4. ASSUME Hand
      PROVE  hands' \in 0..MaxHands
  BY <1>4, GitAssumption DEF Hand, GitTypes
<1>5. ASSUME NEW t \in Delivery, NEW c \in CommitId, Deliver(t, c)
      PROVE  Committed /\ Sent
  BY <1>3, <1>5 DEF Deliver, NoCommit
<1>6. ASSUME NEW t \in Delivery,
             \/ Skip(t) \/ Clone(t) \/ CloneFails(t) \/ SeekGlobal(t)
             \/ LoadGroups(t) \/ (\E g \in Managed : NextGroup(t, g))
             \/ Lock(t) \/ RunHandler(t) \/ Conclude(t) \/ Stage(t)
             \/ StagingRaises(t) \/ HandlerBreaks(t) \/ StageBreaks(t)
             \/ Deadlock(t) \/ DeliveryDies(t)
      PROVE  Committed /\ Sent
  <2>1. UNCHANGED <<lastSha, bound, content, job, posted, hands>>
    BY Zenon, <1>6
    DEF Skip, Clone, CloneFails, SeekGlobal, LoadGroups, NextGroup,
       Lock, RunHandler, Conclude, Stage, StagingRaises, HandlerBreaks,
       StageBreaks, Deadlock, DeliveryDies, RollBack, NoCommit
  <2>2. QED
    BY SMTT(30), <1>3, <2>1
<1>7. ASSUME NEW t \in Delivery, CommitImport(t)
      PROVE  Committed /\ Sent
  <2>1. task[t] \in Tasks /\ tx[t] \in Transactions
    BY DEF GitTypes
  <2>2. lastSha' \in CommitId \cup {Before}
    BY <1>7, <2>1 DEF CommitImport, Tasks
  <2>3. bound' \in [Managed -> [enabled : BOOLEAN, status : Statuses]]
    <3>1. ASSUME NEW g \in Managed
          PROVE  /\ bound[g] \in [enabled : BOOLEAN, status : Statuses]
                 /\ tx[t].marks[g] # "same" =>
                      [bound[g] EXCEPT !.status = tx[t].marks[g]]
                        \in [enabled : BOOLEAN, status : Statuses]
      <4>1. bound[g] \in [enabled : BOOLEAN, status : Statuses]
        BY DEF GitTypes
      <4>2. tx[t].marks[g] \in Statuses \cup {"same"}
        BY <2>1 DEF Transactions
      <4>3. QED
        BY <4>1, <4>2
    <3>2. QED
      BY <1>7, <3>1 DEF CommitImport
  <2>4. content' \in Sections(SUBSET (Entry \cup ByHand))
    <3>1. ASSUME NEW x \in Target, NEW h \in NamesOf(x)
          PROVE  Seen(t, x, h) \in SUBSET (Entry \cup ByHand)
      <4>1. content[x][h] \in SUBSET (Entry \cup ByHand)
        BY SectionRead DEF GitTypes
      <4>2. tx[t].wrote[x][h] \in (SUBSET Entry) \cup {Same}
        BY <2>1, SectionRead DEF Transactions
      <4>3. QED
        BY <4>1, <4>2 DEF Seen
    <3>2. PICK S : S = SUBSET (Entry \cup ByHand)
      OBVIOUS
    <3>3. \A x \in Target :
            [h \in NamesOf(x) |-> Seen(t, x, h)] \in [NamesOf(x) -> S]
      BY <3>1, <3>2
    <3>4. \A x \in Target :
            [h \in NamesOf(x) |-> Seen(t, x, h)]
              \in UNION { [NamesOf(y) -> S] : y \in Target }
      BY <3>3
    <3>5. [x \in Target |-> [h \in NamesOf(x) |-> Seen(t, x, h)]]
            \in Sections(S)
      BY <3>3, <3>4 DEF Sections
    <3>6. QED
      BY <1>7, <3>2, <3>5 DEF CommitImport
  <2>5. job' \in [firewall : {"none", "pending", "running"},
                  other : {"none", "running"}]
    BY <1>7 DEF CommitImport, GitTypes
  <2>6. posted' \in BOOLEAN /\ hands' \in 0..MaxHands
    BY <1>7 DEF CommitImport, GitTypes
  <2>7. QED
    BY <2>2, <2>3, <2>4, <2>5, <2>6 DEF Committed, Sent
<1>8. ASSUME NEW t \in Delivery, SendJobs(t)
      PROVE  Committed /\ Sent
  BY <1>1, <1>8 DEF SendJobs, Sent, GitTypes
<1>9. ASSUME NEW g \in Managed, Bind(g) \/ Release(g)
      PROVE  Committed /\ Sent
  <2>1. Sent
    BY <1>4, <1>9 DEF Bind, Release, Sent, GitTypes
  <2>2. PICK e \in BOOLEAN :
          bound' = [bound EXCEPT ![g] = [bound[g] EXCEPT
                      !.enabled = e, !.status = "disconnected"]]
    BY <1>9 DEF Bind, Release
  <2>3. bound' \in [Managed -> [enabled : BOOLEAN, status : Statuses]]
    BY <2>2 DEF GitTypes, Statuses
  <2>4. QED
    BY <1>9, <2>1, <2>3 DEF Bind, Release, Committed, GitTypes
<1>10. ASSUME NEW g \in Managed, NEW h \in NamesOf(g), HandEdit(g, h)
       PROVE  Committed /\ Sent
  <2>1. Sent
    BY <1>4, <1>10 DEF HandEdit, Sent, GitTypes
  <2>2. content' \in Sections(SUBSET (Entry \cup ByHand))
    <3>1. content' = Written(content, g, h, ByHand)
      BY <1>10 DEF HandEdit, Written
    <3>2. PICK S : S = SUBSET (Entry \cup ByHand)
      OBVIOUS
    <3>3. content \in Sections(S) /\ ByHand \in S /\ g \in Target
      BY <3>2 DEF GitTypes, Target
    <3>4. QED
      BY <3>1, <3>2, <3>3, SectionWritten
  <2>3. QED
    BY <1>10, <2>1, <2>2 DEF HandEdit, Committed, GitTypes
<1>11. CASE OtherSync
  BY <1>1, <1>4, <1>11 DEF OtherSync, Sent, GitTypes
<1>12. CASE OtherEnds \/ TakeMessage \/ JobEnds
  BY <1>1, <1>12 DEF OtherEnds, TakeMessage, JobEnds, Sent, GitTypes
<1>13. CASE UNCHANGED gitVars
  BY <1>3, <1>13 DEF gitVars
<1>14. QED
  BY <1>5, <1>6, <1>7, <1>8, <1>9, <1>10, <1>11, <1>12, <1>13
  DEF GitNext, DeliveryStep, Operates

-----------------------------------------------------------------------------
(* GitOps: what is proved *)

GitIInv == GitTypes /\ GitTold /\ SyncedIsOneCommit

LEMMA GitInvariant == GitSpec => []GitIInv
<1>1. GitInit => GitIInv
  <2> SUFFICES ASSUME GitInit PROVE GitIInv
    OBVIOUS
  <2>1. NoTask \in Tasks /\ NoTask.pc = "none"
    BY DEF NoTask, Tasks, MaxRetries, Target
  <2>2. content \in Sections(SUBSET (Entry \cup ByHand))
    <3>1. PICK S : S = SUBSET (Entry \cup ByHand)
      OBVIOUS
    <3>2. /\ \A x \in Target : [h \in NamesOf(x) |-> {}] \in [NamesOf(x) -> S]
          /\ \A x \in Target : [h \in NamesOf(x) |-> {}]
                                 \in UNION { [NamesOf(y) -> S] : y \in Target }
      BY <3>1
    <3>3. [x \in Target |-> [h \in NamesOf(x) |-> {}]] \in Sections(S)
      BY <3>2 DEF Sections
    <3>4. QED
      BY <3>1, <3>3 DEF GitInit
  <2>3. GitTypes
    <3>1. bound \in [Managed -> [enabled : BOOLEAN, status : Statuses]]
      BY DEF GitInit, Statuses
    <3>2. /\ task \in [Delivery -> Tasks]
          /\ tx \in [Delivery -> Transactions]
      BY <2>1, NoWritesType DEF GitInit
    <3>3. hands \in 0..MaxHands
      BY GitAssumption DEF GitInit
    <3>4. /\ lastSha \in CommitId \cup {Before} /\ posted \in BOOLEAN
          /\ job \in [firewall : {"none", "pending", "running"},
                     other : {"none", "running"}]
      BY DEF GitInit
    <3>5. QED
      BY <2>2, <3>1, <3>2, <3>3, <3>4 DEF GitTypes
  <2>4. InTurn /\ OneHolder /\ UnderLock /\ Handled
    BY <2>1, NoWritesType DEF GitInit, InTurn, OneHolder, UnderLock, LockedBy,
       Handled, AsFar, AsMarked, Target
  <2>5. SyncedIsOneCommit
    BY DEF GitInit, SyncedIsOneCommit
  <2>6. QED
    BY <2>3, <2>4, <2>5 DEF GitIInv, GitTold
<1>2. GitIInv /\ [GitNext]_gitVars => GitIInv'
  BY StepTold, RestTyped DEF GitIInv
<1>3. QED
  BY <1>1, <1>2, PTL DEF GitSpec

\* Whatever was pushed, bound, released or edited, every variable has its type.
THEOREM GitTypeCorrect == GitSpec => []GitTypeOK
<1>1. GitIInv => GitTypeOK
  <2> SUFFICES ASSUME GitTypes PROVE GitTypeOK
    BY DEF GitIInv
  <2>1. ASSUME NEW x \in Target, NEW h \in NamesOf(x)
        PROVE  content[x][h] \subseteq Entry \cup ByHand
    BY SectionRead DEF GitTypes
  <2>2. ASSUME NEW t \in Delivery
        PROVE  /\ tx[t].holds \subseteq Target
               /\ tx[t].staged \in {"no", "listed", "unlisted"}
               /\ \A x \in Target : \A h \in NamesOf(x) :
                    tx[t].wrote[x][h] \in (SUBSET Entry) \cup {Same}
    BY SectionRead DEF GitTypes, Transactions
  <2>3. QED
    BY <2>1, <2>2 DEF GitTypes, GitTypeOK, Tasks
<1>2. QED
  BY <1>1, GitInvariant, PTL

\* A bound group that shows `synced' holds the file of one commit, for any
\* number of deliveries, groups and operators.
THEOREM SyncedIsOne == GitSpec => []SyncedIsOneCommit
BY GitInvariant, PTL DEF GitIInv

-----------------------------------------------------------------------------
(* GitOps: a staged sync gets its message *)

\* Those who have what they staged to send stay so until they send it, those
\* who lost it for good.
Senders == { t \in Delivery : task[t].pc \in {"sends", "unsent"} }

LEMMA SendersStay ==
  ASSUME GitTypes, NEW t \in Delivery,
         \/ \E c \in CommitId : Deliver(t, c)
         \/ DeliveryStep(t) /\ ~SendJobs(t)
         \/ DeliveryDies(t)
  PROVE  Senders \subseteq Senders'
<1> SUFFICES ASSUME NEW u \in Delivery, task[u].pc \in {"sends", "unsent"}
             PROVE  task'[u].pc \in {"sends", "unsent"}
  BY DEF Senders
<1>1. ASSUME NEW pc, NEW theirs, Onward(t, pc, theirs), u # t
      PROVE  task'[u] = task[u]
  BY <1>1 DEF Onward
<1>2. CASE u # t
  <2>1. task'[u] = task[u]
    <3>1. CASE \/ \E c \in CommitId : Deliver(t, c)
               \/ Skip(t) \/ Clone(t) \/ CloneFails(t) \/ SeekGlobal(t)
               \/ LoadGroups(t) \/ (\E g \in Managed : NextGroup(t, g))
               \/ Lock(t) \/ RunHandler(t) \/ Conclude(t) \/ Stage(t)
               \/ StagingRaises(t)
      BY ZenonT(40), <1>2, <3>1
      DEF Deliver, Skip, Clone, CloneFails, SeekGlobal,
         LoadGroups, NextGroup, Lock, RunHandler, Conclude, Stage,
         StagingRaises, Goes, GitTypes
    <3>2. CASE \/ HandlerBreaks(t) \/ StageBreaks(t) \/ Deadlock(t)
               \/ DeliveryDies(t) \/ CommitImport(t)
      BY <1>1, <1>2, <3>2 DEF HandlerBreaks, StageBreaks, Deadlock,
         DeliveryDies, CommitImport, RollBack
    <3>3. QED
      BY SMTT(30), <3>1, <3>2 DEF DeliveryStep
  <2>2. QED
    BY <2>1
<1>3. CASE u = t
  <2>1. DeliveryDies(t) /\ task[t].pc = "sends"
    BY Zenon, <1>3
    DEF Deliver, DeliveryStep, Skip, Clone, CloneFails, SeekGlobal,
       LoadGroups, NextGroup, Lock, RunHandler, HandlerBreaks, Conclude, Stage,
       StagingRaises, CommitImport, StageBreaks, Deadlock, WaitsFor,
       DeliveryDies, Importing
  <2>2. task'[t] = [NoTask EXCEPT !.pc = "unsent", !.sha = task[t].sha]
    BY <2>1 DEF DeliveryDies, RollBack, Onward
  <2>3. QED
    BY <1>3, <2>2 DEF NoTask
<1>4. QED
  BY <1>2, <1>3

\* A sync that is committed gets its message, unless the task dies before it
\* sends it, or forgot it as the staging raised for another host.
THEOREM StagedGetsSent == GitSpec => []StagedIsSent
<1>1. GitInit => StagedIsSent
  BY DEF GitInit, StagedIsSent
<1>2. ASSUME GitTypes, StagedIsSent, [GitNext]_gitVars
      PROVE  StagedIsSent'
  <2> SUFFICES ASSUME job'.firewall = "pending"
               PROVE  posted' \/ job'.other = "running" \/ Senders' # {}
    BY DEF StagedIsSent, Senders
  <2>1. job.firewall = "pending" =>
          posted \/ job.other = "running" \/ Senders # {}
    BY <1>2 DEF StagedIsSent, Senders
  <2>2. job \in [firewall : {"none", "pending", "running"},
                 other : {"none", "running"}]
    BY <1>2 DEF GitTypes
  <2>3. ASSUME NEW t \in Delivery, CommitImport(t)
        PROVE  posted' \/ job'.other = "running" \/ Senders' # {}
    <3>1. CASE Staged(t)
      <4>1. PICK pc \in {"sends", "unsent"} :
              task'[t] = [NoTask EXCEPT !.pc = pc, !.sha = task[t].sha]
        <5>1. tx[t].staged \in {"listed", "unlisted"}
          BY <1>2, <3>1 DEF Staged, GitTypes, Transactions
        <5>2. QED
          BY <2>3, <5>1 DEF CommitImport, Onward
      <4>2. task'[t].pc \in {"sends", "unsent"}
        BY <4>1 DEF NoTask
      <4>3. QED
        BY <4>2 DEF Senders
    <3>2. CASE ~Staged(t)
      <4>1. UNCHANGED <<job, posted>>
        BY <2>3, <3>2 DEF CommitImport
      <4>2. Senders \subseteq Senders'
        BY Zenon, <1>2, <2>3, SendersStay
        DEF DeliveryStep, CommitImport, SendJobs
      <4>3. QED
        BY <2>1, <4>1, <4>2
    <3>3. QED
      BY <3>1, <3>2
  <2>4. ASSUME NEW t \in Delivery, SendJobs(t)
        PROVE  posted'
    BY <2>4 DEF SendJobs
  <2>5. ASSUME NEW t \in Delivery,
               \/ \E c \in CommitId : Deliver(t, c)
               \/ DeliveryStep(t) /\ ~SendJobs(t) /\ ~CommitImport(t)
               \/ DeliveryDies(t)
        PROVE  posted' \/ job'.other = "running" \/ Senders' # {}
    <3>1. UNCHANGED <<job, posted>>
      BY Zenon, <2>5
      DEF DeliveryStep, Deliver, Skip, Clone, CloneFails, SeekGlobal,
         LoadGroups, NextGroup, Lock, RunHandler, Conclude, Stage,
         StagingRaises, HandlerBreaks, StageBreaks, Deadlock, DeliveryDies,
         RollBack, NoCommit
    <3>2. Senders \subseteq Senders'
      BY <1>2, <2>5, SendersStay
    <3>3. QED
      BY <2>1, <3>1, <3>2
  <2>6. ASSUME UNCHANGED task
        PROVE  Senders' = Senders
    BY <2>6 DEF Senders
  <2>7. CASE \/ \E g \in Managed : \/ Bind(g) \/ Release(g)
                                   \/ \E h \in NamesOf(g) : HandEdit(g, h)
             \/ UNCHANGED gitVars
    BY <2>1, <2>6, <2>7 DEF Bind, Release, HandEdit, gitVars
  <2>8. CASE OtherSync \/ OtherEnds \/ TakeMessage \/ JobEnds
    BY <2>1, <2>2, <2>6, <2>8 DEF OtherSync, OtherEnds, TakeMessage, JobEnds
  <2>9. QED
    BY <1>2, <2>3, <2>4, <2>5, <2>7, <2>8 DEF GitNext, Operates
<1>3. GitSpec => []GitTypes
  <2>1. GitIInv => GitTypes
    BY DEF GitIInv
  <2>2. QED
    BY <2>1, GitInvariant, PTL
<1>4. QED
  BY <1>1, <1>2, <1>3, PTL DEF GitSpec
=============================================================================
