--------------------------- MODULE GenealogyProofs ---------------------------
(***************************************************************************)
(* For any tree and any number of overlapping requests.  What the          *)
(* constraints of the two tables guarantee needs no strengthening; what    *)
(* the validation of a request achieves is about two steps, the one that   *)
(* loads the graph and plans and the one that writes the plan, and so the  *)
(* proofs carry what is true of the plans of requests nobody overtook.     *)
(***************************************************************************)
EXTENDS Genealogy, FiniteSetTheorems, WellFoundedInduction, TLAPS

\* A request that starts writes no row.
LEMMA RequestWritesNothing ==
  ASSUME NEW t \in Tx, Request(t)
  PROVE  UNCHANGED <<status, parents, children, commits>>
<1> DEFINE Kept == UNCHANGED <<status, parents, children, commits>>
<1>1. ASSUME NEW plan, Begin(t, plan) PROVE Kept
  BY <1>1 DEF Begin
<1> HIDE DEF Kept
<1>2. ASSUME NEW p \in Person, NEW q \in Person, NEW biological \in BOOLEAN,
             AddParent(t, p, q, biological)
      PROVE  Kept
  BY <1>1, <1>2 DEF AddParent
<1>3. ASSUME NEW p \in Person, NEW q \in Person, NEW r \in Person, NEW biological \in BOOLEAN,
             AddBothParents(t, p, q, r, biological)
      PROVE  Kept
  BY <1>1, <1>3 DEF AddBothParents
<1>4. ASSUME NEW p \in Person, NEW q \in Person, NEW r \in Person \cup {NoPerson},
             NEW biological \in BOOLEAN, NEW force \in BOOLEAN,
             AddChild(t, p, q, r, biological, force)
      PROVE  Kept
  BY <1>1, <1>4 DEF AddChild
<1>5. ASSUME NEW p \in Person, NEW q \in Person, AddSpouse(t, p, q) PROVE Kept
  BY <1>1, <1>5 DEF AddSpouse
<1>6. ASSUME NEW p \in Person, NEW q \in Person, AddSibling(t, p, q) PROVE Kept
  BY <1>1, <1>6 DEF AddSibling
<1>7. ASSUME NEW g \in Fg, DeleteFamilyGroup(t, g) PROVE Kept
  BY <1>1, <1>7 DEF DeleteFamilyGroup
<1>8. ASSUME NEW g \in Fg, NEW p \in Person, RemoveMember(t, g, p) PROVE Kept
  BY <1>1, <1>8 DEF RemoveMember
<1>9. Kept
  BY <1>2, <1>3, <1>4, <1>5, <1>6, <1>7, <1>8 DEF Request
<1> QED BY <1>9 DEF Kept

\* A request that starts with a well-formed plan keeps the types.
LEMMA BeginTypes ==
  ASSUME TypeOK, NEW t \in Tx, NEW plan \in Plan, Begin(t, plan)
  PROVE  TypeOK'
BY DEF TypeOK, Begin

\* The groups a link may go to are group ids.
LEMMA TargetsAreIds ==
  ASSUME NEW del, NEW gone, NEW p, NEW q
  PROVE  /\ TargetGroups(Without(Graph, del, gone), p, q) \subseteq Fg
         /\ FreshIds \subseteq Fg
         /\ FamilyOfOrigin(Graph, p) \subseteq Fg \cup {NoFg}
BY DEF TargetGroups, FreshIds, FamilyOfOrigin, GroupsAsParent, GroupsAsChild, Without, Graph

\* The rows of a group are rows.
LEMMA RowsOfTypes ==
  ASSUME TypeOK, NEW g \in Fg
  PROVE  RowsOf(g) \in SUBSET (Fg \X Person)
BY DEF TypeOK, RowsOf

\* The rows and groups a re-link deletes are rows and groups.
LEMMA UnlinkTypes ==
  ASSUME TypeOK, NEW c \in Person
  PROVE  /\ UnlinkedRows(c) \in SUBSET (Fg \X Person)
         /\ OrphanedBy(c) \in SUBSET Fg
<1>1. GroupsAsChild(Graph, c) \subseteq Fg
  BY DEF GroupsAsChild, Graph
<1>2. OrphanedBy(c) \in SUBSET Fg
  BY <1>1 DEF OrphanedBy
<1>3. OriginRows(c) \in SUBSET (Fg \X Person)
  BY <1>1 DEF OriginRows
<1>4. UNION {RowsOf(g) : g \in OrphanedBy(c)} \in SUBSET (Fg \X Person)
  BY <1>2, RowsOfTypes
<1>5. UnlinkedRows(c) \in SUBSET (Fg \X Person)
  BY <1>3, <1>4 DEF UnlinkedRows
<1> QED BY <1>2, <1>5

\* Every request decides on a well-formed plan.
LEMMA RequestTypes ==
  ASSUME TypeOK, NEW t \in Tx, Request(t)
  PROVE  TypeOK'
<1> USE DEF Kinds, Row
<1>0. \A groups : Created(groups) \in SUBSET Fg
  BY TargetsAreIds DEF Created
<1>1. ASSUME NEW p \in Person, NEW q \in Person, NEW biological \in BOOLEAN,
             AddParent(t, p, q, biological)
      PROVE  TypeOK'
  <2>1. PICK g \in Fg :
          Begin(t, [kind |-> "parent", del |-> {}, gone |-> {}, new |-> Created({g}),
                    ins |-> {<<g, q, "PARENT">>} \cup
                            (IF g \in Graph.live THEN {} ELSE {<<g, p, "CHILD">>}),
                    checked |-> {<<q, p>>}])
    BY <1>1, TargetsAreIds DEF AddParent
  <2> QED BY <1>0, <2>1, BeginTypes DEF Plan
<1>2. ASSUME NEW c \in Person, NEW f \in Person, NEW m \in Person, NEW biological \in BOOLEAN,
             AddBothParents(t, c, f, m, biological)
      PROVE  TypeOK'
  <2> DEFINE G == Without(Graph, UnlinkedRows(c), OrphanedBy(c))
  <2>1. PICK g \in Fg :
          Begin(t, [kind |-> "pair", del |-> UnlinkedRows(c), gone |-> OrphanedBy(c),
                    new |-> Created({g}),
                    ins |-> {<<g, c, "CHILD">>} \cup
                            (IF g \in G.live THEN {} ELSE {<<g, p, "PARENT">> : p \in {f, m}}),
                    checked |-> {<<f, c>>, <<m, c>>}])
    BY <1>2, TargetsAreIds DEF AddBothParents
  <2>2. {<<g, c, "CHILD">>} \cup
        (IF g \in G.live THEN {} ELSE {<<g, p, "PARENT">> : p \in {f, m}}) \in SUBSET Row
    OBVIOUS
  <2> QED BY <1>0, <2>1, <2>2, UnlinkTypes, BeginTypes DEF Plan
<1>3. ASSUME NEW p \in Person, NEW c \in Person, NEW o \in Person \cup {NoPerson},
             NEW biological \in BOOLEAN, NEW force \in BOOLEAN,
             AddChild(t, p, c, o, biological, force)
      PROVE  TypeOK'
  <2> DEFINE del == IF force THEN UnlinkedRows(c) ELSE {}
             gone == IF force THEN OrphanedBy(c) ELSE {}
             G == Without(Graph, del, gone)
  <2>1. PICK g \in Fg :
          Begin(t, [kind |-> "child", del |-> del, gone |-> gone, new |-> Created({g}),
                    ins |-> {<<g, c, "CHILD">>} \cup
                            (IF g \in G.live THEN {}
                             ELSE {<<g, r, "PARENT">> : r \in {p, o} \ {NoPerson}}),
                    checked |-> {<<p, c>>}])
    BY <1>3, TargetsAreIds DEF AddChild
  <2>2. {<<g, c, "CHILD">>} \cup
        (IF g \in G.live THEN {} ELSE {<<g, r, "PARENT">> : r \in {p, o} \ {NoPerson}})
          \in SUBSET Row
    OBVIOUS
  <2>3. del \in SUBSET (Fg \X Person) /\ gone \in SUBSET Fg
    BY UnlinkTypes
  <2> QED BY <1>0, <2>1, <2>2, <2>3, BeginTypes DEF Plan
<1>4. ASSUME NEW p \in Person, NEW q \in Person, AddSpouse(t, p, q) PROVE TypeOK'
  <2>1. PICK g \in Fg :
          Begin(t, [kind |-> "spouse", del |-> {}, gone |-> {}, new |-> {g},
                    ins |-> {<<g, p, "PARENT">>, <<g, q, "PARENT">>}, checked |-> {}])
    BY <1>4, TargetsAreIds DEF AddSpouse
  <2> QED BY <2>1, BeginTypes DEF Plan
<1>5. ASSUME NEW p \in Person, NEW s \in Person, AddSibling(t, p, s) PROVE TypeOK'
  <2>1. PICK g \in Fg :
          Begin(t, [kind |-> "sibling", del |-> {}, gone |-> {}, new |-> Created({g}),
                    ins |-> {<<g, s, "CHILD">>} \cup
                            (IF g \in Graph.live THEN {} ELSE {<<g, p, "CHILD">>}),
                    checked |-> {}])
    BY <1>5, TargetsAreIds DEF AddSibling
  <2> QED BY <1>0, <2>1, BeginTypes DEF Plan
<1>6. ASSUME NEW g \in Fg, DeleteFamilyGroup(t, g) PROVE TypeOK'
  BY <1>6, RowsOfTypes, BeginTypes DEF DeleteFamilyGroup, Plan
<1>7. ASSUME NEW g \in Fg, NEW p \in Person, RemoveMember(t, g, p) PROVE TypeOK'
  <2> DEFINE gone == IF parents[g] \subseteq {p} THEN {g} ELSE {}
             del == IF gone = {} THEN RowsOf(g) \cap {<<g, p>>} ELSE RowsOf(g)
  <2>1. del \in SUBSET (Fg \X Person) /\ gone \in SUBSET Fg
    BY RowsOfTypes
  <2>2. Begin(t, [kind |-> "remove", del |-> del, gone |-> gone, new |-> {}, ins |-> {},
                  checked |-> {}])
    BY <1>7 DEF RemoveMember
  <2> QED BY <2>1, <2>2, BeginTypes DEF Plan
<1> QED BY <1>1, <1>2, <1>3, <1>4, <1>5, <1>6, <1>7 DEF Request

\* TypeOK: every variable, the plans of open requests included, keeps its type.
THEOREM TypeCorrect == Spec => []TypeOK
<1>1. Init => TypeOK
  BY BoundAssumption DEF Init, TypeOK
<1>2. TypeOK /\ [Next]_vars => TypeOK'
  <2> SUFFICES ASSUME TypeOK, [Next]_vars PROVE TypeOK'
    OBVIOUS
  <2>1. CASE UNCHANGED vars
    BY <2>1 DEF TypeOK, vars
  <2>2. ASSUME NEW t \in Tx, Request(t) PROVE TypeOK'
    BY <2>2, RequestTypes
  <2>3. ASSUME NEW t \in Tx, Commit(t) PROVE TypeOK'
    <3>1. status' \in [Fg -> {"unused", "live", "deleted"}]
      BY <2>3 DEF Commit, TypeOK
    <3>2. parents' \in [Fg -> SUBSET Person] /\ children' \in [Fg -> SUBSET Person]
      BY <2>3 DEF Commit, Written, TypeOK
    <3>3. tx' \in [Tx -> Plan \cup {Idle}] /\ current' \in SUBSET Tx
      BY <2>3 DEF Commit, TypeOK
    <3>4. commits' \in 0..MaxCommits
      BY <2>3, BoundAssumption DEF Commit, TypeOK
    <3> QED BY <3>1, <3>2, <3>3, <3>4 DEF TypeOK
  <2>4. ASSUME NEW t \in Tx, Rollback(t) PROVE TypeOK'
    BY <2>4 DEF Rollback, TypeOK
  <2> QED BY <2>1, <2>2, <2>3, <2>4 DEF Next
<1> QED BY <1>1, <1>2, PTL DEF Spec

\* The rows a group has after a commit: kept or inserted, none if it is deleted.
LEMMA RowsAfterCommit ==
  ASSUME NEW t \in Tx, Commit(t), NEW g \in Fg, NEW p,
         p \in parents'[g] \/ p \in children'[g]
  PROVE  /\ g \notin tx[t].gone
         /\ p \in parents'[g] => \/ p \in parents[g] /\ <<g, p>> \notin tx[t].del
                                 \/ <<g, p, "PARENT">> \in tx[t].ins
         /\ p \in children'[g] => \/ p \in children[g] /\ <<g, p>> \notin tx[t].del
                                  \/ <<g, p, "CHILD">> \in tx[t].ins
BY DEF Commit, Written

\* A commit keeps the two roles of a group apart: a row for a person the group
\* already has is refused, and so are two rows for one person.
LEMMA CommitKeepsOneRole ==
  ASSUME OneRolePerGroup, NEW t \in Tx, Commit(t)
  PROVE  OneRolePerGroup'
<1> SUFFICES ASSUME NEW g \in Fg, NEW p, p \in parents'[g], p \in children'[g]
             PROVE  FALSE
  BY DEF OneRolePerGroup
<1> DEFINE parent == <<g, p, "PARENT">>
           child == <<g, p, "CHILD">>
<1>1. UniqueHolds(tx[t])
  BY DEF Commit
<1>2. CASE p \in parents[g] /\ <<g, p>> \notin tx[t].del
  <2>1. child \in tx[t].ins
    BY <1>2, RowsAfterCommit DEF OneRolePerGroup
  <2> QED BY <1>1, <1>2, <2>1 DEF UniqueHolds
<1>3. CASE parent \in tx[t].ins
  <2>1. ~(p \in children[g] /\ <<g, p>> \notin tx[t].del)
    BY <1>1, <1>3 DEF UniqueHolds
  <2>2. child \in tx[t].ins
    BY <2>1, RowsAfterCommit
  <2>3. parent = child
    BY <1>1, <1>3, <2>2 DEF UniqueHolds
  <2>4. parent # child
    OBVIOUS
  <2> QED BY <2>3, <2>4
<1> QED BY <1>2, <1>3, RowsAfterCommit

\* OneRolePerGroup: whatever requests overlap, nobody is a parent and a child
\* in one family group.
THEOREM RolesApart == Spec => []OneRolePerGroup
<1>1. Init => OneRolePerGroup
  BY DEF Init, OneRolePerGroup
<1>2. OneRolePerGroup /\ [Next]_vars => OneRolePerGroup'
  <2> SUFFICES ASSUME OneRolePerGroup, [Next]_vars PROVE OneRolePerGroup'
    OBVIOUS
  <2>1. CASE UNCHANGED <<parents, children>>
    BY <2>1 DEF OneRolePerGroup
  <2>2. ASSUME NEW t \in Tx, Request(t) PROVE OneRolePerGroup'
    BY <2>1, <2>2, RequestWritesNothing
  <2>3. ASSUME NEW t \in Tx, Commit(t) PROVE OneRolePerGroup'
    BY <2>3, CommitKeepsOneRole
  <2>4. ASSUME NEW t \in Tx, Rollback(t) PROVE OneRolePerGroup'
    BY <2>1, <2>4 DEF Rollback
  <2> QED BY <2>1, <2>2, <2>3, <2>4 DEF Next, vars
<1> QED BY <1>1, <1>2, PTL DEF Spec

\* DeletedGroupsAreEmpty: a member added while its group is being deleted is
\* refused or goes with the group; no row is left without its group.
THEOREM NoRowOutlivesItsGroup == Spec => []DeletedGroupsAreEmpty
<1>1. Init => DeletedGroupsAreEmpty
  BY DEF Init, DeletedGroupsAreEmpty
<1>2. DeletedGroupsAreEmpty /\ [Next]_vars => DeletedGroupsAreEmpty'
  <2> SUFFICES ASSUME DeletedGroupsAreEmpty, [Next]_vars PROVE DeletedGroupsAreEmpty'
    OBVIOUS
  <2>1. CASE UNCHANGED <<status, parents, children>>
    BY <2>1 DEF DeletedGroupsAreEmpty
  <2>2. ASSUME NEW t \in Tx, Request(t) PROVE DeletedGroupsAreEmpty'
    BY <2>1, <2>2, RequestWritesNothing
  <2>3. ASSUME NEW t \in Tx, Commit(t) PROVE DeletedGroupsAreEmpty'
    <3> SUFFICES ASSUME NEW g \in Fg, status'[g] # "live",
                        NEW p, p \in parents'[g] \cup children'[g]
                 PROVE  FALSE
      BY DEF DeletedGroupsAreEmpty
    <3>1. g \notin tx[t].gone
      BY <2>3, RowsAfterCommit
    <3>2. g \notin tx[t].new /\ status[g] # "live"
      BY <2>3, <3>1 DEF Commit
    <3>3. p \notin parents[g] \cup children[g]
      BY <3>2 DEF DeletedGroupsAreEmpty
    <3>4. <<g, p, "PARENT">> \in tx[t].ins \/ <<g, p, "CHILD">> \in tx[t].ins
      BY <2>3, <3>3, RowsAfterCommit
    <3>5. ForeignKeysHold(tx[t])
      BY <2>3 DEF Commit
    <3> QED BY <3>2, <3>4, <3>5 DEF ForeignKeysHold
  <2>4. ASSUME NEW t \in Tx, Rollback(t) PROVE DeletedGroupsAreEmpty'
    BY <2>1, <2>4 DEF Rollback
  <2> QED BY <2>1, <2>2, <2>3, <2>4 DEF Next, vars
<1> QED BY <1>1, <1>2, PTL DEF Spec

-----------------------------------------------------------------------------
\* At most two parents, for a request that no commit overtakes.

ParentsAfter(plan, g) == Written(parents, plan, "PARENT")[g]

\* What a plan would leave, written to the tree as it is now.
Fits(plan) == AtMostTwoParents => \A g \in Fg : Cardinality(ParentsAfter(plan, g)) <= 2

\* While a request is current its plan fits: the group it joins had a place
\* free, and a group it creates has no other members.
PlansFit == \A t \in current : tx[t] # Idle => Fits(tx[t])

\* A set of one or two persons.
LEMMA PairSize ==
  ASSUME NEW p, NEW q, NEW S, S \subseteq {p, q}
  PROVE  Cardinality(S) <= 2
<1>1. IsFiniteSet({p}) /\ Cardinality({p}) = 1
  BY FS_Singleton
<1>2. IsFiniteSet({p} \cup {q}) /\ Cardinality({p} \cup {q}) <= 2
  BY <1>1, FS_AddElement
<1>3. {p} \cup {q} = {p, q}
  OBVIOUS
<1>4. Cardinality(S) <= Cardinality({p, q}) /\ Cardinality(S) \in Nat /\ Cardinality({p, q}) \in Nat
  BY <1>2, <1>3, FS_Subset, FS_CardinalityType
<1> QED BY <1>2, <1>3, <1>4

\* The three ways a plan fits: it adds no parent, the parents of a new group,
\* or one parent to a group with a place free.
LEMMA PlanFits ==
  ASSUME TypeOK, DeletedGroupsAreEmpty, NEW plan \in Plan, NEW g0 \in Fg,
         NEW p \in Person, NEW q \in Person,
         \/ \A row \in plan.ins : row[3] = "CHILD"
         \/ /\ status[g0] = "unused"
            /\ \A row \in plan.ins :
                 row[3] = "PARENT" => row \in {<<g0, p, "PARENT">>, <<g0, q, "PARENT">>}
         \/ /\ ~IsFull(Graph, g0)
            /\ \A row \in plan.ins : row[3] = "PARENT" => row = <<g0, p, "PARENT">>
  PROVE  Fits(plan)
<1> SUFFICES ASSUME AtMostTwoParents, NEW g \in Fg
             PROVE  Cardinality(ParentsAfter(plan, g)) <= 2
  BY DEF Fits
<1> DEFINE old == parents[g]
           added == {r \in Person : <<g, r, "PARENT">> \in plan.ins}
           after == ParentsAfter(plan, g)
<1>1. after \subseteq old \cup added
  BY DEF ParentsAfter, Written
<1>2. IsFiniteSet(old) /\ Cardinality(old) \in Nat /\ Cardinality(old) <= 2
  <2>1. old \subseteq Person
    BY DEF TypeOK
  <2> QED BY <2>1, PersonAssumption, FS_Subset, FS_CardinalityType DEF AtMostTwoParents
<1>3. CASE added = {}
  <2>1. after \subseteq old
    BY <1>1, <1>3
  <2>2. Cardinality(after) <= Cardinality(old) /\ Cardinality(after) \in Nat
    BY <1>2, <2>1, FS_Subset, FS_CardinalityType
  <2> QED BY <1>2, <2>2
<1>4. CASE added # {} /\ status[g0] = "unused"
           /\ \A row \in plan.ins :
                row[3] = "PARENT" => row \in {<<g0, p, "PARENT">>, <<g0, q, "PARENT">>}
  <2>1. \A r \in added : g = g0 /\ r \in {p, q}
    <3> SUFFICES ASSUME NEW r \in added PROVE g = g0 /\ r \in {p, q}
      OBVIOUS
    <3>1. <<g, r, "PARENT">> \in {<<g0, p, "PARENT">>, <<g0, q, "PARENT">>}
      BY <1>4
    <3> QED BY <3>1
  <2>2. old = {}
    BY <1>4, <2>1 DEF DeletedGroupsAreEmpty
  <2>3. after \subseteq {p, q}
    BY <1>1, <2>1, <2>2
  <2> QED BY <2>3, PairSize
<1>5. CASE added # {} /\ ~IsFull(Graph, g0)
           /\ \A row \in plan.ins : row[3] = "PARENT" => row = <<g0, p, "PARENT">>
  <2>1. \A r \in added : g = g0 /\ r = p
    <3> SUFFICES ASSUME NEW r \in added PROVE g = g0 /\ r = p
      OBVIOUS
    <3>1. <<g, r, "PARENT">> = <<g0, p, "PARENT">>
      BY <1>5
    <3> QED BY <3>1
  <2>2. Cardinality(old) < 2
    <3>1. g = g0
      BY <1>5, <2>1
    <3>2. ~(Cardinality(old) >= 2)
      BY <1>5, <3>1 DEF IsFull, Graph
    <3> QED BY <1>2, <3>2
  <2>3. after \subseteq old \cup {p}
    BY <1>1, <2>1
  <2>4. IsFiniteSet(old \cup {p}) /\ Cardinality(old \cup {p}) <= Cardinality(old) + 1
    BY SMTT(15), <1>2, FS_AddElement
  <2>5. Cardinality(after) <= Cardinality(old \cup {p}) /\ Cardinality(after) \in Nat
        /\ Cardinality(old \cup {p}) \in Nat
    BY <2>3, <2>4, FS_Subset, FS_CardinalityType
  <2> QED BY <1>2, <2>2, <2>4, <2>5
<1>6. (\A row \in plan.ins : row[3] = "CHILD") => added = {}
  <2> SUFFICES ASSUME \A row \in plan.ins : row[3] = "CHILD", NEW r \in added PROVE FALSE
    OBVIOUS
  <2>1. <<g, r, "PARENT">>[3] = "CHILD"
    OBVIOUS
  <2> QED BY <2>1
<1> QED BY <1>3, <1>4, <1>5, <1>6

\* A plan that inserts nothing fits.
LEMMA PlanWithoutRowsFits ==
  ASSUME TypeOK, NEW plan \in Plan, plan.ins = {}
  PROVE  Fits(plan)
<1> SUFFICES ASSUME AtMostTwoParents, NEW g \in Fg
             PROVE  Cardinality(ParentsAfter(plan, g)) <= 2
  BY DEF Fits
<1>1. ParentsAfter(plan, g) \subseteq parents[g] /\ parents[g] \subseteq Person
  BY DEF ParentsAfter, Written, TypeOK
<1> QED BY <1>1, PersonAssumption, FS_Subset, FS_CardinalityType DEF AtMostTwoParents

\* A group found for a link is live in the graph; any other is a fresh id.
LEMMA TargetIsFoundOrFresh ==
  ASSUME NEW G, NEW p, NEW q, NEW g \in TargetGroups(G, p, q), g \notin G.live
  PROVE  status[g] = "unused"
BY DEF TargetGroups, GroupsAsParent, FreshIds

\* Every request starts with a plan that fits.
LEMMA RequestFits ==
  ASSUME TypeOK, DeletedGroupsAreEmpty, PlansFit, NEW t \in Tx, Request(t)
  PROVE  PlansFit'
<1> USE DEF Kinds, Row
<1>0. \A groups : Created(groups) \in SUBSET Fg
  BY TargetsAreIds DEF Created
<1>1. ASSUME NEW plan \in Plan, Fits(plan), Begin(t, plan) PROVE PlansFit'
  <2>1. \A other : Fits(other)' <=> Fits(other)
    BY <1>1 DEF Begin, Fits, AtMostTwoParents, ParentsAfter, Written
  <2>2. ASSUME NEW u \in current', tx'[u] # Idle PROVE Fits(tx'[u])
    <3>1. CASE u = t
      BY <1>1, <3>1 DEF Begin, TypeOK
    <3>2. CASE u # t
      BY <1>1, <2>2, <3>2 DEF Begin, TypeOK, PlansFit
    <3> QED BY <3>1, <3>2
  <2> QED BY <2>1, <2>2 DEF PlansFit
<1>2. ASSUME NEW c \in Person, NEW p \in Person, NEW biological \in BOOLEAN,
             AddParent(t, c, p, biological)
      PROVE  PlansFit'
  <2> DEFINE plan(g) ==
        [kind |-> "parent", del |-> {}, gone |-> {}, new |-> Created({g}),
         ins |-> {<<g, p, "PARENT">>} \cup
                 (IF g \in Graph.live THEN {} ELSE {<<g, c, "CHILD">>}),
         checked |-> {<<p, c>>}]
  <2>1. PICK g \in Fg : (status[g] = "unused" \/ ~IsFull(Graph, g)) /\ Begin(t, plan(g))
    BY <1>2, TargetsAreIds DEF AddParent, FreshIds
  <2>2. plan(g) \in Plan
    BY <1>0 DEF Plan
  <2>3. \A row \in plan(g).ins : row[3] = "PARENT" => row = <<g, p, "PARENT">>
    OBVIOUS
  <2>4. Fits(plan(g))
    BY <2>1, <2>2, <2>3, PlanFits
  <2> QED BY <1>1, <2>1, <2>2, <2>4
<1>3. ASSUME NEW c \in Person, NEW f \in Person, NEW m \in Person, NEW biological \in BOOLEAN,
             AddBothParents(t, c, f, m, biological)
      PROVE  PlansFit'
  <2> DEFINE G == Without(Graph, UnlinkedRows(c), OrphanedBy(c))
             plan(g) ==
        [kind |-> "pair", del |-> UnlinkedRows(c), gone |-> OrphanedBy(c), new |-> Created({g}),
         ins |-> {<<g, c, "CHILD">>} \cup
                 (IF g \in G.live THEN {} ELSE {<<g, p, "PARENT">> : p \in {f, m}}),
         checked |-> {<<f, c>>, <<m, c>>}]
  <2>1. PICK g \in TargetGroups(G, f, m) : Begin(t, plan(g))
    BY <1>3 DEF AddBothParents
  <2>2. g \in Fg
    BY TargetsAreIds
  <2>3. {<<g, c, "CHILD">>} \cup
        (IF g \in G.live THEN {} ELSE {<<g, p, "PARENT">> : p \in {f, m}}) \in SUBSET Row
    BY <2>2
  <2>4. plan(g) \in Plan
    BY <1>0, <2>2, <2>3, UnlinkTypes DEF Plan
  <2>5. CASE g \in G.live
    <3>1. \A row \in plan(g).ins : row[3] = "CHILD"
      BY <2>5
    <3> QED BY <1>1, <2>1, <2>2, <2>4, <3>1, PlanFits
  <2>6. CASE g \notin G.live
    <3>1. status[g] = "unused"
      BY <2>6, TargetIsFoundOrFresh
    <3>2. \A row \in plan(g).ins :
            row[3] = "PARENT" => row \in {<<g, f, "PARENT">>, <<g, m, "PARENT">>}
      BY <2>6
    <3> QED BY <1>1, <2>1, <2>2, <2>4, <3>1, <3>2, PlanFits
  <2> QED BY <2>5, <2>6
<1>4. ASSUME NEW p \in Person, NEW c \in Person, NEW o \in Person \cup {NoPerson},
             NEW biological \in BOOLEAN, NEW force \in BOOLEAN,
             AddChild(t, p, c, o, biological, force)
      PROVE  PlansFit'
  <2> DEFINE del == IF force THEN UnlinkedRows(c) ELSE {}
             gone == IF force THEN OrphanedBy(c) ELSE {}
             G == Without(Graph, del, gone)
             second == IF o = NoPerson THEN p ELSE o
             plan(g) ==
        [kind |-> "child", del |-> del, gone |-> gone, new |-> Created({g}),
         ins |-> {<<g, c, "CHILD">>} \cup
                 (IF g \in G.live THEN {}
                  ELSE {<<g, r, "PARENT">> : r \in {p, o} \ {NoPerson}}),
         checked |-> {<<p, c>>}]
  <2>1. PICK g \in TargetGroups(G, p, o) : Begin(t, plan(g))
    BY <1>4 DEF AddChild
  <2>2. g \in Fg
    BY TargetsAreIds
  <2>3. {<<g, c, "CHILD">>} \cup
        (IF g \in G.live THEN {} ELSE {<<g, r, "PARENT">> : r \in {p, o} \ {NoPerson}})
          \in SUBSET Row
    BY <2>2
  <2>4. del \in SUBSET (Fg \X Person) /\ gone \in SUBSET Fg
    BY UnlinkTypes
  <2>5. plan(g) \in Plan
    BY <1>0, <2>2, <2>3, <2>4 DEF Plan
  <2>6. CASE g \in G.live
    <3>1. \A row \in plan(g).ins : row[3] = "CHILD"
      BY <2>6
    <3> QED BY <1>1, <2>1, <2>2, <2>5, <3>1, PlanFits
  <2>7. CASE g \notin G.live
    <3>1. status[g] = "unused"
      BY <2>7, TargetIsFoundOrFresh
    <3>2. \A row \in plan(g).ins :
            row[3] = "PARENT" => row \in {<<g, p, "PARENT">>, <<g, second, "PARENT">>}
      BY <2>7
    <3>3. second \in Person
      OBVIOUS
    <3> QED BY <1>1, <2>1, <2>2, <2>5, <3>1, <3>2, <3>3, PlanFits
  <2> QED BY <2>6, <2>7
<1>5. ASSUME NEW p \in Person, NEW q \in Person, AddSpouse(t, p, q) PROVE PlansFit'
  <2> DEFINE plan(g) ==
        [kind |-> "spouse", del |-> {}, gone |-> {}, new |-> {g},
         ins |-> {<<g, p, "PARENT">>, <<g, q, "PARENT">>}, checked |-> {}]
  <2>1. PICK g \in Fg : status[g] = "unused" /\ Begin(t, plan(g))
    BY <1>5 DEF AddSpouse, FreshIds
  <2>2. plan(g) \in Plan
    BY DEF Plan
  <2> QED BY <1>1, <2>1, <2>2, PlanFits
<1>6. ASSUME NEW p \in Person, NEW s \in Person, AddSibling(t, p, s) PROVE PlansFit'
  <2> DEFINE plan(g) ==
        [kind |-> "sibling", del |-> {}, gone |-> {}, new |-> Created({g}),
         ins |-> {<<g, s, "CHILD">>} \cup
                 (IF g \in Graph.live THEN {} ELSE {<<g, p, "CHILD">>}),
         checked |-> {}]
  <2>1. PICK g \in Fg : Begin(t, plan(g))
    BY <1>6, TargetsAreIds DEF AddSibling
  <2>2. plan(g) \in Plan
    BY <1>0 DEF Plan
  <2>3. \A row \in plan(g).ins : row[3] = "CHILD"
    OBVIOUS
  <2> QED BY <1>1, <2>1, <2>2, <2>3, PlanFits
<1>7. ASSUME NEW g \in Fg, DeleteFamilyGroup(t, g) PROVE PlansFit'
  <2> DEFINE plan == [kind |-> "remove", del |-> RowsOf(g), gone |-> {g}, new |-> {}, ins |-> {},
                      checked |-> {}]
  <2>1. plan \in Plan
    BY RowsOfTypes DEF Plan
  <2>2. Begin(t, plan)
    BY <1>7 DEF DeleteFamilyGroup
  <2> QED BY <1>1, <2>1, <2>2, PlanWithoutRowsFits
<1>8. ASSUME NEW g \in Fg, NEW p \in Person, RemoveMember(t, g, p) PROVE PlansFit'
  <2> DEFINE gone == IF parents[g] \subseteq {p} THEN {g} ELSE {}
             plan == [kind |-> "remove",
                      del |-> IF gone = {} THEN RowsOf(g) \cap {<<g, p>>} ELSE RowsOf(g),
                      gone |-> gone, new |-> {}, ins |-> {}, checked |-> {}]
  <2>1. plan \in Plan
    BY RowsOfTypes DEF Plan
  <2>2. Begin(t, plan)
    BY <1>8 DEF RemoveMember
  <2> QED BY <1>1, <2>1, <2>2, PlanWithoutRowsFits
<1> QED BY <1>2, <1>3, <1>4, <1>5, <1>6, <1>7, <1>8 DEF Request

\* CleanCommitsKeepTwoParents: a family group gets a third parent only through
\* a request that another commit has overtaken.
THEOREM TwoParentsUnlessOvertaken == Spec => CleanCommitsKeepTwoParents
<1>1. Init => PlansFit
  BY DEF Init, PlansFit
<1>2. ASSUME TypeOK, DeletedGroupsAreEmpty, PlansFit, [Next]_vars PROVE PlansFit'
  <2>1. CASE UNCHANGED vars
    BY <1>2, <2>1 DEF vars, PlansFit, Fits, AtMostTwoParents, ParentsAfter, Written
  <2>2. ASSUME NEW t \in Tx, Request(t) PROVE PlansFit'
    BY <1>2, <2>2, RequestFits
  <2>3. ASSUME NEW t \in Tx, Commit(t) PROVE PlansFit'
    BY <2>3 DEF Commit, PlansFit
  <2>4. ASSUME NEW t \in Tx, Rollback(t) PROVE PlansFit'
    <3>1. \A other : Fits(other)' <=> Fits(other)
      BY <2>4 DEF Rollback, Fits, AtMostTwoParents, ParentsAfter, Written
    <3>2. ASSUME NEW u \in current', tx'[u] # Idle PROVE Fits(tx'[u])
      BY <1>2, <2>4, <3>2 DEF Rollback, TypeOK, PlansFit
    <3> QED BY <3>1, <3>2 DEF PlansFit
  <2> QED BY <1>2, <2>1, <2>2, <2>3, <2>4 DEF Next
<1>3. ASSUME TypeOK, PlansFit, [Next]_vars, NEW t \in Tx, Clean(t), AtMostTwoParents
      PROVE  AtMostTwoParents'
  <2>1. PICK u \in Tx : Commit(u)
    <3>1. commits' # commits
      BY <1>3 DEF Clean
    <3>2. PICK u \in Tx : Request(u) \/ Commit(u) \/ Rollback(u)
      BY <1>3, <3>1 DEF Next, vars
    <3>3. ~Request(u) /\ ~Rollback(u)
      BY <3>1, RequestWritesNothing DEF Rollback
    <3> QED BY <3>2, <3>3
  <2>2. u = t
    BY <1>3, <2>1 DEF Clean, Commit, TypeOK
  <2>3. Fits(tx[t])
    BY <1>3, <2>1, <2>2 DEF PlansFit, Clean, Commit
  <2> QED BY <1>3, <2>1, <2>2, <2>3 DEF Fits, ParentsAfter, Commit, AtMostTwoParents
<1>4. TypeOK /\ PlansFit /\ [Next]_vars =>
        [\A t \in Tx : Clean(t) /\ AtMostTwoParents => AtMostTwoParents']_vars
  BY <1>3
<1> QED BY <1>1, <1>2, <1>4, TypeCorrect, NoRowOutlivesItsGroup, PTL
        DEF Spec, CleanCommitsKeepTwoParents

-----------------------------------------------------------------------------
\* Families of origin and the groups a re-link leaves, for a request that no
\* commit overtakes.

\* The groups a plan would leave a person a child of, written to the tree now.
OriginsAfter(plan, p) == {g \in Fg : p \in Written(children, plan, "CHILD")[g]}

OneOrigin(plan) ==
  plan.kind # "parent" =>
    \A p \in Person :
      \/ \A g, h \in OriginsAfter(plan, p) : g = h
      \/ OriginsAfter(plan, p) \subseteq {g \in Fg : p \in children[g]}

\* A group a row is deleted of goes too, keeps a child or is a couple.
NoOrphan(plan) ==
  plan.kind \in {"pair", "child"} =>
    \A g \in {row[1] : row \in plan.del} :
      \/ g \in plan.gone
      \/ Written(children, plan, "CHILD")[g] # {}
      \/ Cardinality(Written(parents, plan, "PARENT")[g]) >= 2

\* While a request is current its plan has both properties.
RelinksSound == \A t \in current : tx[t] # Idle => OneOrigin(tx[t]) /\ NoOrphan(tx[t])

\* A plan all of whose CHILD rows are of persons that are in no group it keeps,
\* each with one row, gives nobody a second family of origin.
LEMMA PlanKeepsOrigins ==
  ASSUME NEW plan \in Plan,
         \A g, h \in Fg, p \in Person :
           <<g, p, "CHILD">> \in plan.ins =>
             /\ <<h, p, "CHILD">> \in plan.ins => g = h
             /\ p \in children[h] => h \in plan.gone \/ <<h, p>> \in plan.del
  PROVE  OneOrigin(plan)
<1> SUFFICES ASSUME NEW p \in Person
             PROVE  \/ \A g, h \in OriginsAfter(plan, p) : g = h
                    \/ OriginsAfter(plan, p) \subseteq {g \in Fg : p \in children[g]}
  BY DEF OneOrigin
<1>1. \A g \in OriginsAfter(plan, p) :
        /\ g \in Fg
        /\ \/ p \in children[g] /\ g \notin plan.gone /\ <<g, p>> \notin plan.del
           \/ <<g, p, "CHILD">> \in plan.ins
  BY DEF OriginsAfter, Written
<1>2. CASE \E g \in Fg : <<g, p, "CHILD">> \in plan.ins
  BY <1>1, <1>2
<1>3. CASE ~ \E g \in Fg : <<g, p, "CHILD">> \in plan.ins
  BY <1>1, <1>3
<1> QED BY <1>2, <1>3

\* A person with no family of origin in the graph is in no other group either.
LEMMA NoParentsNoGroup ==
  ASSUME DeletedGroupsAreEmpty, NEW del, NEW gone, NEW c \in Person,
         HasNoParents(Without(Graph, del, gone), c), NEW h \in Fg, c \in children[h]
  PROVE  h \in gone \/ <<h, c>> \in del
BY DEF DeletedGroupsAreEmpty, HasNoParents, Without, Graph, GroupsAsChild

\* What re-linking a child deletes leaves no group behind that has no child and
\* fewer than two parents: the rows of a group that stays are the child's own,
\* who is no parent there.
LEMMA UnlinkLeavesNoOrphan ==
  ASSUME TypeOK, OneRolePerGroup, NEW c \in Person, NEW plan \in Plan,
         plan.del = UnlinkedRows(c), plan.gone = OrphanedBy(c)
  PROVE  NoOrphan(plan)
<1> SUFFICES ASSUME NEW g \in {row[1] : row \in plan.del}, g \notin plan.gone,
                    Written(children, plan, "CHILD")[g] = {}
             PROVE  Cardinality(Written(parents, plan, "PARENT")[g]) >= 2
  BY DEF NoOrphan
<1>1. GroupsAsChild(Graph, c) \subseteq Fg /\ \A h \in GroupsAsChild(Graph, c) : c \in children[h]
  BY DEF GroupsAsChild, Graph
<1>2. \A row \in UnlinkedRows(c) :
        \/ row[1] \in OrphanedBy(c)
        \/ row[1] \in GroupsAsChild(Graph, c) /\ row = <<row[1], c>>
  BY DEF UnlinkedRows, OriginRows, RowsOf
<1>3. g \in GroupsAsChild(Graph, c) /\ g \in Fg /\ g \notin OrphanedBy(c)
  BY <1>1, <1>2
<1>4. \A p : <<g, p>> \in plan.del => p = c
  <2> SUFFICES ASSUME NEW p, <<g, p>> \in plan.del PROVE p = c
    OBVIOUS
  <2>1. <<g, p>>[1] = g
    OBVIOUS
  <2>2. <<g, p>> = <<g, c>>
    BY <1>2, <1>3, <2>1
  <2> QED BY <2>2
<1>5. children[g] \subseteq {c}
  <2> SUFFICES ASSUME NEW d \in children[g], d # c PROVE FALSE
    OBVIOUS
  <2>1. d \in Written(children, plan, "CHILD")[g]
    BY <1>3, <1>4 DEF Written
  <2> QED BY <2>1
<1>6. children[g] = {c}
  BY <1>1, <1>3, <1>5
<1>7. ~(Cardinality(parents[g]) < 2)
  BY <1>3, <1>6 DEF OrphanedBy
<1>8. c \notin parents[g]
  BY <1>3, <1>6 DEF OneRolePerGroup
<1>9. parents[g] \subseteq Written(parents, plan, "PARENT")[g]
  <2>1. parents[g] \subseteq Person
    BY <1>3 DEF TypeOK
  <2> QED BY <1>3, <1>4, <1>8 DEF Written
<1>10. Written(parents, plan, "PARENT")[g] \subseteq Person
  BY <1>3 DEF Written, TypeOK
<1> DEFINE old == parents[g]
           new == Written(parents, plan, "PARENT")[g]
<1>11. IsFiniteSet(new)
  BY <1>10, PersonAssumption, FS_Subset
<1>12. Cardinality(old) <= Cardinality(new) /\ IsFiniteSet(old)
  BY <1>9, <1>11, FS_Subset
<1>13. Cardinality(old) \in Nat /\ Cardinality(new) \in Nat
  BY <1>11, <1>12, FS_CardinalityType
<1> HIDE DEF old, new
<1>14. Cardinality(new) >= 2
  BY <1>7, <1>12, <1>13 DEF old
<1> QED BY <1>14 DEF new

\* A plan that deletes no row leaves no group, and one without CHILD rows gives
\* nobody a family of origin.
LEMMA PlanWithoutDeletes ==
  ASSUME NEW plan, plan.del = {}
  PROVE  NoOrphan(plan)
BY DEF NoOrphan

LEMMA PlanWithoutChildren ==
  ASSUME NEW plan \in Plan, \A row \in plan.ins : row[3] = "PARENT"
  PROVE  OneOrigin(plan)
<1>1. \A g, p : <<g, p, "CHILD">> \notin plan.ins
  <2> SUFFICES ASSUME NEW g, NEW p, <<g, p, "CHILD">> \in plan.ins PROVE FALSE
    OBVIOUS
  <2>1. <<g, p, "CHILD">>[3] = "CHILD"
    OBVIOUS
  <2> QED BY <2>1
<1> QED BY <1>1, PlanKeepsOrigins

\* Every request starts with a plan that has both properties.
LEMMA RequestRelinks ==
  ASSUME TypeOK, DeletedGroupsAreEmpty, OneRolePerGroup, RelinksSound, NEW t \in Tx, Request(t)
  PROVE  RelinksSound'
<1> USE DEF Kinds, Row
<1>0. \A groups : Created(groups) \in SUBSET Fg
  BY TargetsAreIds DEF Created
<1>1. ASSUME NEW plan \in Plan, OneOrigin(plan), NoOrphan(plan), Begin(t, plan) PROVE RelinksSound'
  <2>1. \A other : (OneOrigin(other)' <=> OneOrigin(other)) /\ (NoOrphan(other)' <=> NoOrphan(other))
    BY <1>1 DEF Begin, OneOrigin, OriginsAfter, NoOrphan, Written
  <2>2. ASSUME NEW u \in current', tx'[u] # Idle PROVE OneOrigin(tx'[u]) /\ NoOrphan(tx'[u])
    <3>1. CASE u = t
      BY <1>1, <3>1 DEF Begin, TypeOK
    <3>2. CASE u # t
      BY <1>1, <2>2, <3>2 DEF Begin, TypeOK, RelinksSound
    <3> QED BY <3>1, <3>2
  <2> QED BY <2>1, <2>2 DEF RelinksSound
<1>2. ASSUME NEW c \in Person, NEW p \in Person, NEW biological \in BOOLEAN,
             AddParent(t, c, p, biological)
      PROVE  RelinksSound'
  <2> DEFINE plan(g) ==
        [kind |-> "parent", del |-> {}, gone |-> {}, new |-> Created({g}),
         ins |-> {<<g, p, "PARENT">>} \cup
                 (IF g \in Graph.live THEN {} ELSE {<<g, c, "CHILD">>}),
         checked |-> {<<p, c>>}]
  <2>1. PICK g \in Fg : Begin(t, plan(g))
    BY <1>2, TargetsAreIds DEF AddParent
  <2>2. plan(g) \in Plan
    BY <1>0 DEF Plan
  <2>3. OneOrigin(plan(g)) /\ NoOrphan(plan(g))
    BY DEF OneOrigin, NoOrphan
  <2> QED BY <1>1, <2>1, <2>2, <2>3
<1>3. ASSUME NEW c \in Person, NEW f \in Person, NEW m \in Person, NEW biological \in BOOLEAN,
             AddBothParents(t, c, f, m, biological)
      PROVE  RelinksSound'
  <2> DEFINE G == Without(Graph, UnlinkedRows(c), OrphanedBy(c))
             plan(g) ==
        [kind |-> "pair", del |-> UnlinkedRows(c), gone |-> OrphanedBy(c), new |-> Created({g}),
         ins |-> {<<g, c, "CHILD">>} \cup
                 (IF g \in G.live THEN {} ELSE {<<g, p, "PARENT">> : p \in {f, m}}),
         checked |-> {<<f, c>>, <<m, c>>}]
  <2>1. PICK g \in TargetGroups(G, f, m) : HasNoParents(G, c) /\ Begin(t, plan(g))
    BY <1>3 DEF AddBothParents
  <2>2. g \in Fg
    BY TargetsAreIds
  <2>3. {<<g, c, "CHILD">>} \cup
        (IF g \in G.live THEN {} ELSE {<<g, p, "PARENT">> : p \in {f, m}}) \in SUBSET Row
    BY <2>2
  <2>4. plan(g) \in Plan
    BY <1>0, <2>2, <2>3, UnlinkTypes DEF Plan
  <2>5. NoOrphan(plan(g))
    BY <2>4, UnlinkLeavesNoOrphan
  <2>6. \A h, p : <<h, p, "CHILD">> \in plan(g).ins => h = g /\ p = c
    OBVIOUS
  <2>7. OneOrigin(plan(g))
    <3>1. \A h \in Fg : c \in children[h] => h \in plan(g).gone \/ <<h, c>> \in plan(g).del
      BY <2>1, NoParentsNoGroup
    <3> HIDE DEF plan
    <3> QED BY <2>4, <2>6, <3>1, PlanKeepsOrigins
  <2> QED BY <1>1, <2>1, <2>4, <2>5, <2>7
<1>4. ASSUME NEW p \in Person, NEW c \in Person, NEW o \in Person \cup {NoPerson},
             NEW biological \in BOOLEAN, NEW force \in BOOLEAN,
             AddChild(t, p, c, o, biological, force)
      PROVE  RelinksSound'
  <2> DEFINE del == IF force THEN UnlinkedRows(c) ELSE {}
             gone == IF force THEN OrphanedBy(c) ELSE {}
             G == Without(Graph, del, gone)
             plan(g) ==
        [kind |-> "child", del |-> del, gone |-> gone, new |-> Created({g}),
         ins |-> {<<g, c, "CHILD">>} \cup
                 (IF g \in G.live THEN {}
                  ELSE {<<g, r, "PARENT">> : r \in {p, o} \ {NoPerson}}),
         checked |-> {<<p, c>>}]
  <2>1. PICK g \in TargetGroups(G, p, o) : HasNoParents(G, c) /\ Begin(t, plan(g))
    BY <1>4 DEF AddChild
  <2>2. g \in Fg
    BY TargetsAreIds
  <2>3. {<<g, c, "CHILD">>} \cup
        (IF g \in G.live THEN {} ELSE {<<g, r, "PARENT">> : r \in {p, o} \ {NoPerson}})
          \in SUBSET Row
    BY <2>2
  <2>4. del \in SUBSET (Fg \X Person) /\ gone \in SUBSET Fg
    BY UnlinkTypes
  <2>5. plan(g) \in Plan
    BY <1>0, <2>2, <2>3, <2>4 DEF Plan
  <2>6. NoOrphan(plan(g))
    <3>1. CASE force
      BY <2>5, <3>1, UnlinkLeavesNoOrphan
    <3>2. CASE ~force
      BY <3>2, PlanWithoutDeletes
    <3> QED BY <3>1, <3>2
  <2>7. \A h, q : <<h, q, "CHILD">> \in plan(g).ins => h = g /\ q = c
    OBVIOUS
  <2>8. OneOrigin(plan(g))
    <3>1. \A h \in Fg : c \in children[h] => h \in plan(g).gone \/ <<h, c>> \in plan(g).del
      BY <2>1, NoParentsNoGroup
    <3> HIDE DEF plan
    <3> QED BY <2>5, <2>7, <3>1, PlanKeepsOrigins
  <2> QED BY <1>1, <2>1, <2>5, <2>6, <2>8
<1>5. ASSUME NEW p \in Person, NEW q \in Person, AddSpouse(t, p, q) PROVE RelinksSound'
  <2> DEFINE plan(g) ==
        [kind |-> "spouse", del |-> {}, gone |-> {}, new |-> {g},
         ins |-> {<<g, p, "PARENT">>, <<g, q, "PARENT">>}, checked |-> {}]
  <2>1. PICK g \in Fg : Begin(t, plan(g))
    BY <1>5 DEF AddSpouse, FreshIds
  <2>2. plan(g) \in Plan
    BY DEF Plan
  <2>3. \A row \in plan(g).ins : row[3] = "PARENT"
    OBVIOUS
  <2>4. OneOrigin(plan(g)) /\ NoOrphan(plan(g))
    BY <2>2, <2>3, PlanWithoutChildren, PlanWithoutDeletes
  <2> QED BY <1>1, <2>1, <2>2, <2>4
<1>6. ASSUME NEW p \in Person, NEW s \in Person, AddSibling(t, p, s) PROVE RelinksSound'
  <2> DEFINE plan(g) ==
        [kind |-> "sibling", del |-> {}, gone |-> {}, new |-> Created({g}),
         ins |-> {<<g, s, "CHILD">>} \cup
                 (IF g \in Graph.live THEN {} ELSE {<<g, p, "CHILD">>}),
         checked |-> {}]
  <2>1. PICK g \in Fg : /\ HasNoParents(Graph, s)
                        /\ g \in Graph.live \/ GroupsAsChild(Graph, p) = {}
                        /\ Begin(t, plan(g))
    <3>1. PICK origin \in FamilyOfOrigin(Graph, p) :
            \E g \in IF origin # NoFg THEN {origin} ELSE FreshIds : Begin(t, plan(g))
      BY <1>6 DEF AddSibling
    <3>2. origin # NoFg => origin \in Graph.live /\ origin \in Fg
      BY DEF FamilyOfOrigin, GroupsAsChild, Graph
    <3>3. origin = NoFg => GroupsAsChild(Graph, p) = {}
      BY MarkerAssumption DEF FamilyOfOrigin, GroupsAsChild, Graph
    <3> HIDE DEF plan
    <3> QED BY <1>6, <3>1, <3>2, <3>3 DEF AddSibling, FreshIds
  <2>2. plan(g) \in Plan
    BY <1>0 DEF Plan
  <2>3. \A h, q : <<h, q, "CHILD">> \in plan(g).ins => h = g /\ (q = s \/ (q = p /\ g \notin Graph.live))
    OBVIOUS
  <2>4. \A h \in Fg : s \notin children[h]
    BY <2>1 DEF DeletedGroupsAreEmpty, HasNoParents, Graph, GroupsAsChild
  <2>5. g \notin Graph.live => \A h \in Fg : p \notin children[h]
    BY <2>1 DEF DeletedGroupsAreEmpty, Graph, GroupsAsChild
  <2>6. OneOrigin(plan(g))
    <3> HIDE DEF plan
    <3> QED BY <2>2, <2>3, <2>4, <2>5, PlanKeepsOrigins
  <2>7. NoOrphan(plan(g))
    BY PlanWithoutDeletes
  <2> QED BY <1>1, <2>1, <2>2, <2>6, <2>7
<1>7. ASSUME NEW g \in Fg, DeleteFamilyGroup(t, g) PROVE RelinksSound'
  <2> DEFINE plan == [kind |-> "remove", del |-> RowsOf(g), gone |-> {g}, new |-> {}, ins |-> {},
                      checked |-> {}]
  <2>1. plan \in Plan
    BY RowsOfTypes DEF Plan
  <2>2. Begin(t, plan)
    BY <1>7 DEF DeleteFamilyGroup
  <2>3. OneOrigin(plan) /\ NoOrphan(plan)
    BY <2>1, PlanWithoutChildren DEF NoOrphan
  <2> QED BY <1>1, <2>1, <2>2, <2>3
<1>8. ASSUME NEW g \in Fg, NEW p \in Person, RemoveMember(t, g, p) PROVE RelinksSound'
  <2> DEFINE gone == IF parents[g] \subseteq {p} THEN {g} ELSE {}
             plan == [kind |-> "remove",
                      del |-> IF gone = {} THEN RowsOf(g) \cap {<<g, p>>} ELSE RowsOf(g),
                      gone |-> gone, new |-> {}, ins |-> {}, checked |-> {}]
  <2>1. plan \in Plan
    BY RowsOfTypes DEF Plan
  <2>2. Begin(t, plan)
    BY <1>8 DEF RemoveMember
  <2>3. OneOrigin(plan) /\ NoOrphan(plan)
    BY <2>1, PlanWithoutChildren DEF NoOrphan
  <2> QED BY <1>1, <2>1, <2>2, <2>3
<1> QED BY <1>2, <1>3, <1>4, <1>5, <1>6, <1>7, <1>8 DEF Request

\* A commit makes every other graph stale; a rollback only takes plans away.
LEMMA RelinksStep ==
  ASSUME TypeOK, DeletedGroupsAreEmpty, OneRolePerGroup, RelinksSound, [Next]_vars
  PROVE  RelinksSound'
<1>1. ASSUME UNCHANGED <<parents, children>>,
             \A t \in current' : tx'[t] # Idle => t \in current /\ tx'[t] = tx[t]
      PROVE  RelinksSound'
  <2>1. \A plan : (OneOrigin(plan)' <=> OneOrigin(plan)) /\ (NoOrphan(plan)' <=> NoOrphan(plan))
    BY <1>1 DEF OneOrigin, OriginsAfter, NoOrphan, Written
  <2> QED BY <1>1, <2>1 DEF RelinksSound
<1>2. CASE UNCHANGED vars
  BY <1>1, <1>2 DEF vars
<1>3. ASSUME NEW t \in Tx, Request(t) PROVE RelinksSound'
  BY <1>3, RequestRelinks
<1>4. ASSUME NEW t \in Tx, Commit(t) PROVE RelinksSound'
  BY <1>4 DEF Commit, RelinksSound
<1>5. ASSUME NEW t \in Tx, Rollback(t) PROVE RelinksSound'
  BY <1>1, <1>5 DEF Rollback, TypeOK
<1> QED BY <1>2, <1>3, <1>4, <1>5 DEF Next

\* The two properties hold of every plan as long as nothing was committed.
LEMMA RelinksInvariant == Spec => []RelinksSound
<1>1. Init => RelinksSound
  BY DEF Init, RelinksSound
<1> QED BY <1>1, RelinksStep, TypeCorrect, RolesApart, NoRowOutlivesItsGroup, PTL DEF Spec

\* The step that ends a request and writes rows is its commit.
LEMMA CleanIsCommit ==
  ASSUME TypeOK, [Next]_vars, NEW t \in Tx, Clean(t)
  PROVE  Commit(t) /\ t \in current /\ tx[t] # Idle
<1>1. commits' # commits
  BY DEF Clean
<1>2. PICK u \in Tx : Request(u) \/ Commit(u) \/ Rollback(u)
  BY <1>1 DEF Next, vars
<1>3. Commit(u)
  BY <1>1, <1>2, RequestWritesNothing DEF Rollback
<1> QED BY <1>3 DEF Clean, Commit, TypeOK

\* OnlyAddParentDoublesOrigin: add_both_parents, a forced add_child and the
\* other links leave a person with the families of origin it had, or with one,
\* unless another commit came between.
THEOREM OriginsStaySingle == Spec => OnlyAddParentDoublesOrigin
<1>1. ASSUME TypeOK, DeletedGroupsAreEmpty, RelinksSound, [Next]_vars,
             NEW t \in Tx, Clean(t), tx[t].kind # "parent", NEW p \in Person
      PROVE  \/ Cardinality(GroupsAsChild(Graph, p)') <= 1
             \/ GroupsAsChild(Graph, p)' \subseteq GroupsAsChild(Graph, p)
  <2> DEFINE after == GroupsAsChild(Graph, p)'
  <2>1. Commit(t) /\ OneOrigin(tx[t])
    BY <1>1, CleanIsCommit DEF RelinksSound
  <2>2. after \subseteq OriginsAfter(tx[t], p)
    BY <2>1 DEF Commit, GroupsAsChild, Graph, OriginsAfter
  <2>3. {g \in Fg : p \in children[g]} \subseteq GroupsAsChild(Graph, p)
    BY <1>1 DEF DeletedGroupsAreEmpty, GroupsAsChild, Graph
  <2>4. CASE \A g, h \in OriginsAfter(tx[t], p) : g = h
    <3> HIDE DEF after
    <3>1. after = {} \/ \E g : after = {g}
      BY <2>2, <2>4
    <3>2. CASE after = {}
      <4>1. Cardinality(after) = 0
        BY <3>2, FS_EmptySet
      <4> QED BY <4>1 DEF after
    <3>3. ASSUME NEW g, after = {g} PROVE Cardinality(after) <= 1
      <4>1. Cardinality({g}) = 1
        BY FS_Singleton
      <4> QED BY <3>3, <4>1
    <3> QED BY <3>1, <3>2, <3>3 DEF after
  <2>5. CASE OriginsAfter(tx[t], p) \subseteq {g \in Fg : p \in children[g]}
    BY <2>2, <2>3, <2>5
  <2> QED BY <1>1, <2>1, <2>4, <2>5 DEF OneOrigin
<1>2. TypeOK /\ DeletedGroupsAreEmpty /\ RelinksSound /\ [Next]_vars =>
        [\A t \in Tx : Clean(t) /\ tx[t].kind # "parent" =>
           \A p \in Person :
             \/ Cardinality(GroupsAsChild(Graph, p)') <= 1
             \/ GroupsAsChild(Graph, p)' \subseteq GroupsAsChild(Graph, p)]_vars
  BY <1>1
<1> QED BY <1>2, RelinksInvariant, TypeCorrect, NoRowOutlivesItsGroup, PTL
        DEF Spec, OnlyAddParentDoublesOrigin

\* RelinkLeavesNoOrphan: a group that a re-linked child leaves is deleted by the
\* same request, or it still has a child or is a couple.
THEOREM NoOrphanLeft == Spec => RelinkLeavesNoOrphan
<1>1. ASSUME TypeOK, RelinksSound, [Next]_vars, NEW t \in Tx, Clean(t),
             tx[t].kind \in {"pair", "child"}, NEW g \in {row[1] : row \in tx[t].del}
      PROVE  status'[g] = "deleted" \/ children'[g] # {} \/ Cardinality(parents'[g]) >= 2
  <2>1. Commit(t) /\ NoOrphan(tx[t])
    BY <1>1, CleanIsCommit DEF RelinksSound
  <2>2. g \in Fg
    BY <1>1, <2>1 DEF TypeOK, Plan, Commit
  <2> QED BY <1>1, <2>1, <2>2 DEF NoOrphan, Commit
<1>2. TypeOK /\ RelinksSound /\ [Next]_vars =>
        [\A t \in Tx : Clean(t) /\ tx[t].kind \in {"pair", "child"} =>
           \A g \in {row[1] : row \in tx[t].del} :
             status'[g] = "deleted" \/ children'[g] # {} \/ Cardinality(parents'[g]) >= 2]_vars
  BY <1>1
<1> QED BY <1>2, RelinksInvariant, TypeCorrect, PTL DEF Spec, RelinkLeavesNoOrphan

-----------------------------------------------------------------------------
\* Descendants.  The walk down the tree stops after MaxDepth generations; it
\* sees every descendant in a tree of at most one person more than that.

\* The least element of a set of numbers, for the inductions below.
LEMMA SmallestOf ==
  ASSUME NEW S \in SUBSET Nat, S # {}
  PROVE  \E m \in S : \A k \in S : m <= k
<1>1. PICK m \in S : \A k \in S : <<k, m>> \notin OpToRel(<, Nat)
  BY NatLessThanWellFounded, WFMin
<1>2. ASSUME NEW k \in S PROVE m <= k
  <2>1. m \in Nat /\ k \in Nat
    OBVIOUS
  <2>2. <<k, m>> \notin OpToRel(<, Nat)
    BY <1>1
  <2>3. ~(k < m)
    BY <2>1, <2>2 DEF OpToRel
  <2> QED BY <2>1, <2>3
<1> QED BY <1>2

\* One more generation, and the function of Descendants that adds them up.
NextUp(G, p, S) == S \cup UNION {ChildrenOf(G, q) : q \in S \cup {p}}

IsUpTo(G, p, f) ==
  f = [n \in Nat |-> IF n = 0 THEN {}
                     ELSE f[n - 1] \cup UNION {ChildrenOf(G, q) : q \in f[n - 1] \cup {p}}]

\* x is k generations below p.
Chain(G, p, k, x) ==
  \E s \in [0..k -> Person] :
    s[0] = p /\ s[k] = x /\ \A i \in 1..k : s[i] \in ChildrenOf(G, s[i - 1])

LEMMA LongerChain ==
  ASSUME NEW G, NEW p \in Person, NEW k \in Nat, NEW x \in Person
  PROVE  Chain(G, p, k + 1, x) <=> \E q \in Person : Chain(G, p, k, q) /\ x \in ChildrenOf(G, q)
<1>1. ASSUME Chain(G, p, k + 1, x)
      PROVE  \E q \in Person : Chain(G, p, k, q) /\ x \in ChildrenOf(G, q)
  <2>1. PICK s \in [0..(k + 1) -> Person] :
          /\ s[0] = p /\ s[k + 1] = x
          /\ \A i \in 1..(k + 1) : s[i] \in ChildrenOf(G, s[i - 1])
    BY <1>1 DEF Chain
  <2> DEFINE r == [i \in 0..k |-> s[i]]
  <2>2. r \in [0..k -> Person] /\ r[0] = p /\ r[k] = s[k]
    BY <2>1
  <2>3. \A i \in 1..k : r[i] \in ChildrenOf(G, r[i - 1])
    BY <2>1
  <2>4. Chain(G, p, k, s[k])
    BY <2>2, <2>3 DEF Chain
  <2>5. s[k] \in Person /\ x \in ChildrenOf(G, s[k])
    <3>1. k + 1 \in 1..(k + 1) /\ (k + 1) - 1 = k
      OBVIOUS
    <3> QED BY <2>1, <3>1
  <2> QED BY <2>4, <2>5
<1>2. ASSUME NEW q \in Person, Chain(G, p, k, q), x \in ChildrenOf(G, q)
      PROVE  Chain(G, p, k + 1, x)
  <2>1. PICK s \in [0..k -> Person] :
          s[0] = p /\ s[k] = q /\ \A i \in 1..k : s[i] \in ChildrenOf(G, s[i - 1])
    BY <1>2 DEF Chain
  <2> DEFINE r == [i \in 0..(k + 1) |-> IF i = k + 1 THEN x ELSE s[i]]
  <2>2. r \in [0..(k + 1) -> Person] /\ r[0] = p /\ r[k + 1] = x
    BY <2>1
  <2>3. ASSUME NEW i \in 1..(k + 1) PROVE r[i] \in ChildrenOf(G, r[i - 1])
    <3>1. CASE i = k + 1
      <4>1. r[i - 1] = q /\ r[i] = x
        BY <2>1, <3>1
      <4> QED BY <1>2, <4>1
    <3>2. CASE i # k + 1
      <4>1. i \in 1..k /\ r[i] = s[i] /\ r[i - 1] = s[i - 1]
        BY <3>2
      <4> QED BY <2>1, <4>1
    <3> QED BY <3>1, <3>2
  <2> HIDE DEF r
  <2> QED BY <2>2, <2>3 DEF Chain
<1> QED BY <1>1, <1>2

\* The function of Descendants exists, so Descendants is what it says.
LEMMA UpToExists ==
  ASSUME NEW G, NEW p \in Person, \A q : ChildrenOf(G, q) \subseteq Person
  PROVE  \E f : IsUpTo(G, p, f) /\ Descendants(G, p) = f[MaxDepth] \ {p}
<1> DEFINE below(n) == {x \in Person : \E k \in 1..n : Chain(G, p, k, x)}
           f == [n \in Nat |-> below(n)]
<1>1. \A x : Chain(G, p, 0, x) <=> x = p
  <2>1. ASSUME NEW x, Chain(G, p, 0, x) PROVE x = p
    BY <2>1 DEF Chain
  <2>2. Chain(G, p, 0, p)
    <3>1. [i \in 0..0 |-> p] \in [0..0 -> Person] /\ [i \in 0..0 |-> p][0] = p
      OBVIOUS
    <3>2. 1..0 = {}
      OBVIOUS
    <3> QED BY <3>1, <3>2 DEF Chain
  <2> QED BY <2>1, <2>2
<1>2. f[0] = {}
  OBVIOUS
<1>3. ASSUME NEW n \in Nat PROVE f[n + 1] = NextUp(G, p, f[n])
  <2>1. ASSUME NEW x \in f[n + 1] PROVE x \in NextUp(G, p, f[n])
    <3>1. PICK k \in 1..(n + 1) : Chain(G, p, k, x)
      OBVIOUS
    <3>2. x \in Person /\ k - 1 \in Nat /\ (k - 1) + 1 = k
      OBVIOUS
    <3>3. PICK q \in Person : Chain(G, p, k - 1, q) /\ x \in ChildrenOf(G, q)
      BY <3>1, <3>2, LongerChain
    <3>4. q \in f[n] \cup {p}
      <4>1. CASE k = 1
        <5>1. Chain(G, p, 0, q)
          BY <3>3, <4>1
        <5> QED BY <1>1, <5>1
      <4>2. CASE k # 1
        <5>1. k - 1 \in 1..n
          BY <4>2
        <5> QED BY <3>3, <5>1
      <4> QED BY <4>1, <4>2
    <3> HIDE DEF f
    <3> QED BY <3>3, <3>4 DEF NextUp
  <2>2. ASSUME NEW x \in f[n] PROVE x \in f[n + 1]
    <3>1. PICK k \in 1..n : Chain(G, p, k, x)
      OBVIOUS
    <3>2. k \in 1..(n + 1)
      OBVIOUS
    <3> QED BY <3>1, <3>2
  <2>3. ASSUME NEW q \in f[n] \cup {p}, NEW x \in ChildrenOf(G, q) PROVE x \in f[n + 1]
    <3>1. q \in Person /\ x \in Person
      OBVIOUS
    <3>2. PICK k \in 0..n : Chain(G, p, k, q)
      <4>1. CASE q = p
        BY <1>1, <4>1
      <4>2. CASE q \in f[n]
        BY <4>2
      <4> QED BY <4>1, <4>2
    <3>3. Chain(G, p, k + 1, x)
      BY <3>1, <3>2, LongerChain
    <3>4. k + 1 \in 1..(n + 1)
      OBVIOUS
    <3> QED BY <3>1, <3>3, <3>4
  <2> HIDE DEF f
  <2> QED BY <2>1, <2>2, <2>3 DEF NextUp
<1>4. \E g : IsUpTo(G, p, g)
  <2>1. ASSUME NEW n \in Nat
        PROVE  f[n] = IF n = 0 THEN {}
                      ELSE f[n - 1] \cup UNION {ChildrenOf(G, q) : q \in f[n - 1] \cup {p}}
    <3>1. CASE n = 0
      BY <1>2, <3>1
    <3>2. CASE n # 0
      <4>1. n - 1 \in Nat /\ (n - 1) + 1 = n
        BY <3>2
      <4>2. f[n] = NextUp(G, p, f[n - 1])
        BY <1>3, <4>1
      <4> HIDE DEF f
      <4> QED BY <3>2, <4>2 DEF NextUp
    <3> HIDE DEF f
    <3> QED BY <3>1, <3>2
  <2>2. f = [n \in Nat |-> f[n]]
    OBVIOUS
  <2> HIDE DEF f
  <2>3. IsUpTo(G, p, f)
    BY <2>1, <2>2 DEF IsUpTo
  <2> QED BY <2>3
<1> HIDE DEF f
<1> DEFINE g == CHOOSE h : IsUpTo(G, p, h)
<1>5. IsUpTo(G, p, g)
  BY <1>4
<1>6. Descendants(G, p) = g[MaxDepth] \ {p}
  BY DEF Descendants, IsUpTo
<1> QED BY <1>5, <1>6

\* With at most one person more than generations are walked, the children of a
\* person and its descendants are descendants: as long as they are not, each
\* generation adds one.
LEMMA DescendantsAreClosed ==
  ASSUME Cardinality(Person) <= MaxDepth + 1,
         NEW G, NEW p \in Person, \A q : ChildrenOf(G, q) \subseteq Person
  PROVE  /\ Descendants(G, p) \subseteq Person
         /\ \A q \in Descendants(G, p) \cup {p} : ChildrenOf(G, q) \subseteq Descendants(G, p) \cup {p}
<1>1. PICK f : IsUpTo(G, p, f) /\ Descendants(G, p) = f[MaxDepth] \ {p}
  BY UpToExists
<1> DEFINE family(n) == f[n] \cup {p}
           Wider(S) == S \cup UNION {ChildrenOf(G, q) : q \in S}
<1>2. family(0) = {p}
  BY <1>1 DEF IsUpTo
<1>3. \A n \in Nat : family(n + 1) = Wider(family(n))
  <2> SUFFICES ASSUME NEW n \in Nat PROVE family(n + 1) = Wider(family(n))
    OBVIOUS
  <2>1. n + 1 \in Nat /\ n + 1 # 0 /\ (n + 1) - 1 = n
    OBVIOUS
  <2>2. f[n + 1] = f[(n + 1) - 1] \cup UNION {ChildrenOf(G, r) : r \in f[(n + 1) - 1] \cup {p}}
    BY <1>1, <2>1 DEF IsUpTo
  <2> QED BY <2>1, <2>2
<1>4. Descendants(G, p) \cup {p} = family(MaxDepth)
  BY <1>1
<1>5. \A S : S \subseteq Wider(S) /\ (S \subseteq Person => Wider(S) \subseteq Person)
             /\ (Wider(S) = S => \A q \in S : ChildrenOf(G, q) \subseteq S)
  OBVIOUS
<1> HIDE DEF family, Wider
<1>6. \A n \in Nat : family(n) \subseteq Person
  <2> DEFINE Bad == {n \in Nat : ~(family(n) \subseteq Person)}
  <2> SUFFICES ASSUME Bad # {} PROVE FALSE
    OBVIOUS
  <2>1. PICK m \in Bad : \A k \in Bad : m <= k
    BY SmallestOf
  <2>2. m - 1 \in Nat /\ (m - 1) + 1 = m /\ m - 1 \notin Bad
    BY <1>2, <2>1
  <2>3. family(m) = Wider(family(m - 1)) /\ family(m - 1) \subseteq Person
    BY <1>3, <2>2
  <2> QED BY <1>5, <2>1, <2>3
<1>7. family(MaxDepth + 1) = family(MaxDepth)
  <2> SUFFICES ASSUME family(MaxDepth + 1) # family(MaxDepth) PROVE FALSE
    OBVIOUS
  <2>0. MaxDepth \in Nat
    BY DepthAssumption
  <2>1. ASSUME NEW n \in Nat, n <= MaxDepth PROVE family(n + 1) # family(n)
    <3> SUFFICES ASSUME family(n + 1) = family(n) PROVE FALSE
      OBVIOUS
    <3> DEFINE Grows == {k \in Nat : n <= k /\ family(k + 1) # family(k)}
    <3>1. PICK m \in Grows : \A k \in Grows : m <= k
      <4>1. MaxDepth \in Grows
        BY <2>0, <2>1
      <4> QED BY <4>1, SmallestOf
    <3>2. m - 1 \in Nat /\ (m - 1) + 1 = m /\ n <= m - 1
      BY <3>1
    <3>3. family(m) = family(m - 1)
      BY <3>1, <3>2
    <3>4. family(m + 1) = Wider(family(m)) /\ family(m) = Wider(family(m - 1))
      BY <1>3, <3>2
    <3> QED BY <3>1, <3>3, <3>4
  <2>2. \A n \in Nat : /\ IsFiniteSet(family(n)) /\ Cardinality(family(n)) \in Nat
                       /\ Cardinality(family(n)) <= Cardinality(Person)
    BY <1>6, PersonAssumption, FS_Subset, FS_CardinalityType
  <2> DEFINE Small == {n \in Nat : n <= MaxDepth + 1 /\ Cardinality(family(n)) < n + 1}
  <2>3. CASE Small # {}
    <3>1. PICK m \in Small : \A k \in Small : m <= k
      BY <2>3, SmallestOf
    <3>2. m # 0
      <4>1. Cardinality(family(0)) = 1
        BY <1>2, FS_Singleton
      <4> QED BY <3>1, <4>1
    <3>3. m - 1 \in Nat /\ (m - 1) + 1 = m /\ m - 1 <= MaxDepth /\ m - 1 \notin Small
      BY <2>0, <3>1, <3>2
    <3>4. Cardinality(family(m - 1)) >= m
      BY <2>0, <2>2, <3>3
    <3>5. family(m) # family(m - 1) /\ family(m - 1) \subseteq family(m)
      <4>1. family(m) = Wider(family(m - 1))
        BY <1>3, <3>3
      <4>2. family(m) # family(m - 1)
        BY <2>1, <3>3
      <4> QED BY <1>5, <4>1, <4>2
    <3>6. Cardinality(family(m - 1)) < Cardinality(family(m))
      <4>1. /\ Cardinality(family(m - 1)) <= Cardinality(family(m))
            /\ Cardinality(family(m - 1)) # Cardinality(family(m))
        BY <2>2, <3>5, FS_Subset
      <4>2. Cardinality(family(m - 1)) \in Nat /\ Cardinality(family(m)) \in Nat
        BY <2>2, <3>3
      <4> QED BY <4>1, <4>2
    <3>7. /\ Cardinality(family(m)) < m + 1
          /\ Cardinality(family(m)) \in Nat /\ Cardinality(family(m - 1)) \in Nat
      BY <2>2, <3>1, <3>3
    <3> QED BY <3>3, <3>4, <3>6, <3>7
  <2>4. CASE Small = {}
    <3>1. ~(Cardinality(family(MaxDepth + 1)) < (MaxDepth + 1) + 1)
      BY <2>0, <2>4
    <3>2. /\ Cardinality(family(MaxDepth + 1)) <= Cardinality(Person)
          /\ Cardinality(family(MaxDepth + 1)) \in Nat
      BY <2>0, <2>2
    <3>3. Cardinality(Person) \in Nat
      BY PersonAssumption, FS_CardinalityType
    <3> QED BY <2>0, <3>1, <3>2, <3>3
  <2> QED BY <2>3, <2>4
<1>8. family(MaxDepth + 1) = Wider(family(MaxDepth)) /\ family(MaxDepth) \subseteq Person
  BY <1>3, <1>6, DepthAssumption
<1>9. \A q \in family(MaxDepth) : ChildrenOf(G, q) \subseteq family(MaxDepth)
  BY <1>5, <1>7, <1>8
<1> QED BY <1>4, <1>8, <1>9

\* A set that holds the child, all of whose other children it holds too, and
\* none of the parents proposed: what the validator found on the graph.
Apart(plan) ==
  \/ plan.checked = {}
  \/ \E c \in Person, D \in SUBSET Person :
       /\ c \in D
       /\ \A link \in plan.checked : link[2] = c /\ link[1] \notin D
       /\ \A q \in D : ChildrenOf(Graph, q) \ {c} \subseteq D

PlansApart == \A t \in current : tx[t] # Idle => Apart(tx[t])

\* A proposed parent that the walk down from the child does not meet is apart
\* from it, on any graph that lacks only links to the child.
LEMMA NotCircularIsApart ==
  ASSUME Cardinality(Person) <= MaxDepth + 1,
         NEW G, \A q : ChildrenOf(G, q) \subseteq Person,
         NEW c \in Person, \A q : ChildrenOf(Graph, q) \ {c} \subseteq ChildrenOf(G, q),
         NEW plan,
         \A link \in plan.checked :
           link[2] = c /\ link[1] # c /\ ~Circular(G, c, link[1])
  PROVE  Apart(plan)
<1> DEFINE D == Descendants(G, c) \cup {c}
<1>1. D \in SUBSET Person /\ \A q \in D : ChildrenOf(G, q) \subseteq D
  BY DescendantsAreClosed
<1>2. \A link \in plan.checked : link[1] \notin D
  BY DEF Circular
<1>3. c \in D
  OBVIOUS
<1> HIDE DEF D
<1>4. \A q \in D : ChildrenOf(Graph, q) \ {c} \subseteq D
  BY <1>1
<1> QED BY <1>1, <1>2, <1>3, <1>4 DEF Apart

\* Deleting the child's rows and the groups it leaves takes away no other link.
LEMMA UnlinkKeepsOtherLinks ==
  ASSUME TypeOK, OneRolePerGroup, NEW c \in Person,
         NEW del, NEW gone,
         \/ del = UnlinkedRows(c) /\ gone = OrphanedBy(c)
         \/ del = {} /\ gone = {},
         NEW q
  PROVE  /\ ChildrenOf(Graph, q) \ {c} \subseteq ChildrenOf(Without(Graph, del, gone), q)
         /\ ChildrenOf(Without(Graph, del, gone), q) \subseteq Person
         /\ ChildrenOf(Graph, q) \subseteq Person
<1> DEFINE G == Without(Graph, del, gone)
<1>1. /\ G.live = {g \in Fg : status[g] = "live"} \ gone
      /\ \A g \in Fg :
           /\ G.parents[g] = IF g \in gone THEN {} ELSE {p \in parents[g] : <<g, p>> \notin del}
           /\ G.children[g] = IF g \in gone THEN {} ELSE {p \in children[g] : <<g, p>> \notin del}
  BY DEF Without, Graph
<1>2. ASSUME NEW x \in ChildrenOf(Graph, q), x # c PROVE x \in ChildrenOf(G, q)
  <2>1. PICK g \in Fg : status[g] = "live" /\ q \in parents[g] /\ x \in children[g]
    BY <1>2 DEF ChildrenOf, GroupsAsParent, Graph
  <2>2. g \notin gone
    BY <1>2, <2>1 DEF OrphanedBy
  <2>3. \A r : <<g, r>> \in del => r = c /\ c \in children[g]
    <3> SUFFICES ASSUME NEW r, <<g, r>> \in del PROVE r = c /\ c \in children[g]
      OBVIOUS
    <3>1. del = UnlinkedRows(c) /\ gone = OrphanedBy(c)
      OBVIOUS
    <3>2. \A row \in UNION {RowsOf(h) : h \in OrphanedBy(c)} : row[1] \in gone
      BY <3>1 DEF RowsOf
    <3>3. <<g, r>> \in OriginRows(c)
      BY <2>2, <3>1, <3>2 DEF UnlinkedRows
    <3>4. r = c /\ g \in GroupsAsChild(Graph, c)
      BY <3>3 DEF OriginRows
    <3> QED BY <3>4 DEF GroupsAsChild, Graph
  <2>4. <<g, x>> \notin del /\ <<g, q>> \notin del
    BY <1>2, <2>1, <2>3 DEF OneRolePerGroup
  <2>5. g \in G.live /\ q \in G.parents[g] /\ x \in G.children[g]
    BY <1>1, <2>1, <2>2, <2>4
  <2> HIDE DEF G
  <2> QED BY <2>5 DEF ChildrenOf, GroupsAsParent
<1>3. ChildrenOf(G, q) \subseteq Person
  <2>1. \A g \in G.live : G.children[g] \subseteq Person
    BY <1>1 DEF TypeOK
  <2> HIDE DEF G
  <2> QED BY <2>1 DEF ChildrenOf, GroupsAsParent
<1>4. ChildrenOf(Graph, q) \subseteq Person
  BY DEF ChildrenOf, GroupsAsParent, Graph, TypeOK
<1> QED BY <1>2, <1>3, <1>4

\* The plan of every link is apart.
LEMMA RequestApart ==
  ASSUME Cardinality(Person) <= MaxDepth + 1,
         TypeOK, OneRolePerGroup, PlansApart, NEW t \in Tx, Request(t)
  PROVE  PlansApart'
<1>1. ASSUME NEW plan, Apart(plan), Begin(t, plan) PROVE PlansApart'
  <2>1. Graph' = Graph
    BY <1>1 DEF Begin, Graph
  <2>2. \A q : ChildrenOf(Graph, q)' = ChildrenOf(Graph, q)
    BY <2>1 DEF ChildrenOf, GroupsAsParent
  <2>3. \A other : Apart(other)' <=> Apart(other)
    BY <2>2 DEF Apart
  <2>4. ASSUME NEW u \in current', tx'[u] # Idle PROVE Apart(tx'[u])
    <3>1. CASE u = t
      BY <1>1, <3>1 DEF Begin, TypeOK
    <3>2. CASE u # t
      BY <1>1, <2>4, <3>2 DEF Begin, TypeOK, PlansApart
    <3> QED BY <3>1, <3>2
  <2> QED BY <2>3, <2>4 DEF PlansApart
<1>2. \A plan : plan.checked = {} => Apart(plan)
  BY DEF Apart
<1>3. ASSUME NEW c \in Person, NEW p \in Person, NEW biological \in BOOLEAN,
             AddParent(t, c, p, biological)
      PROVE  PlansApart'
  <2> DEFINE plan(g) ==
        [kind |-> "parent", del |-> {}, gone |-> {}, new |-> Created({g}),
         ins |-> {<<g, p, "PARENT">>} \cup
                 (IF g \in Graph.live THEN {} ELSE {<<g, c, "CHILD">>}),
         checked |-> {<<p, c>>}]
  <2>1. PICK g : c # p /\ ~Circular(Graph, c, p) /\ Begin(t, plan(g))
    BY <1>3 DEF AddParent
  <2>2. \A link \in plan(g).checked : link[2] = c /\ link[1] # c /\ ~Circular(Graph, c, link[1])
    BY <2>1
  <2>3. \A q : ChildrenOf(Graph, q) \subseteq Person
    BY UnlinkKeepsOtherLinks
  <2> HIDE DEF plan
  <2>4. Apart(plan(g))
    BY <2>2, <2>3, NotCircularIsApart
  <2> QED BY <1>1, <2>1, <2>4
<1>4. ASSUME NEW c \in Person, NEW f \in Person, NEW m \in Person, NEW biological \in BOOLEAN,
             AddBothParents(t, c, f, m, biological)
      PROVE  PlansApart'
  <2> DEFINE G == Without(Graph, UnlinkedRows(c), OrphanedBy(c))
             plan(g) ==
        [kind |-> "pair", del |-> UnlinkedRows(c), gone |-> OrphanedBy(c), new |-> Created({g}),
         ins |-> {<<g, c, "CHILD">>} \cup
                 (IF g \in G.live THEN {} ELSE {<<g, p, "PARENT">> : p \in {f, m}}),
         checked |-> {<<f, c>>, <<m, c>>}]
  <2>1. PICK g : /\ c \notin {f, m} /\ ~Circular(G, c, f) /\ ~Circular(G, c, m)
                 /\ Begin(t, plan(g))
    BY <1>4 DEF AddBothParents
  <2>2. \A link \in plan(g).checked : link[2] = c /\ link[1] # c /\ ~Circular(G, c, link[1])
    BY <2>1
  <2>3. \A q : ChildrenOf(G, q) \subseteq Person /\ ChildrenOf(Graph, q) \ {c} \subseteq ChildrenOf(G, q)
    BY UnlinkKeepsOtherLinks
  <2> HIDE DEF plan, G
  <2>4. Apart(plan(g))
    BY <2>2, <2>3, NotCircularIsApart
  <2> QED BY <1>1, <2>1, <2>4
<1>5. ASSUME NEW p \in Person, NEW c \in Person, NEW o \in Person \cup {NoPerson},
             NEW biological \in BOOLEAN, NEW force \in BOOLEAN,
             AddChild(t, p, c, o, biological, force)
      PROVE  PlansApart'
  <2> DEFINE del == IF force THEN UnlinkedRows(c) ELSE {}
             gone == IF force THEN OrphanedBy(c) ELSE {}
             G == Without(Graph, del, gone)
             plan(g) ==
        [kind |-> "child", del |-> del, gone |-> gone, new |-> Created({g}),
         ins |-> {<<g, c, "CHILD">>} \cup
                 (IF g \in G.live THEN {}
                  ELSE {<<g, r, "PARENT">> : r \in {p, o} \ {NoPerson}}),
         checked |-> {<<p, c>>}]
  <2>1. PICK g : p # c /\ ~Circular(G, c, p) /\ Begin(t, plan(g))
    BY <1>5 DEF AddChild
  <2>2. \A link \in plan(g).checked : link[2] = c /\ link[1] # c /\ ~Circular(G, c, link[1])
    BY <2>1
  <2>3. \A q : ChildrenOf(G, q) \subseteq Person /\ ChildrenOf(Graph, q) \ {c} \subseteq ChildrenOf(G, q)
    BY UnlinkKeepsOtherLinks
  <2> HIDE DEF plan, G
  <2>4. Apart(plan(g))
    BY <2>2, <2>3, NotCircularIsApart
  <2> QED BY <1>1, <2>1, <2>4
<1>6. ASSUME NEW p \in Person, NEW q \in Person, AddSpouse(t, p, q) \/ AddSibling(t, p, q)
      PROVE  PlansApart'
  <2>1. \E plan : plan.checked = {} /\ Begin(t, plan)
    BY <1>6 DEF AddSpouse, AddSibling
  <2> QED BY <1>1, <1>2, <2>1
<1>7. ASSUME NEW g \in Fg, DeleteFamilyGroup(t, g) \/ \E p \in Person : RemoveMember(t, g, p)
      PROVE  PlansApart'
  <2>1. \E plan : plan.checked = {} /\ Begin(t, plan)
    BY <1>7 DEF DeleteFamilyGroup, RemoveMember
  <2> QED BY <1>1, <1>2, <2>1
<1> QED BY <1>3, <1>4, <1>5, <1>6, <1>7 DEF Request

\* Linking a child to persons its descendants are apart from closes no circle:
\* one that passed through the child would stay among its descendants.
LEMMA ApartKeepsAncestry ==
  ASSUME NoCircularAncestry, TypeOK', NEW plan, Apart(plan), Links' \ Links \subseteq plan.checked
  PROVE  NoCircularAncestry'
<1> SUFFICES ASSUME NEW S \in (SUBSET Person) \ {{}},
                    \A p \in S : ChildrenOf(Graph, p)' \cap S # {}
             PROVE  FALSE
  BY DEF NoCircularAncestry
<1>1. ASSUME NEW p \in S, NEW x \in S, x \in ChildrenOf(Graph, p)'
      PROVE  x \in ChildrenOf(Graph, p) \/ <<p, x>> \in plan.checked
  <2>1. <<p, x>> \in Links'
    BY <1>1 DEF Links
  <2>2. <<p, x>> \in Links \/ <<p, x>> \in plan.checked
    BY <2>1
  <2> QED BY <2>2 DEF Links
<1>2. ASSUME NEW T \in SUBSET S, T # {}, \A p \in T : ChildrenOf(Graph, p) \cap T # {} PROVE FALSE
  BY <1>2 DEF NoCircularAncestry
<1>3. ~ \A p, x \in S : <<p, x>> \notin plan.checked
  <2> SUFFICES ASSUME \A p, x \in S : <<p, x>> \notin plan.checked PROVE FALSE
    OBVIOUS
  <2>1. \A p \in S : ChildrenOf(Graph, p) \cap S # {}
    BY <1>1
  <2>2. S \in SUBSET S
    OBVIOUS
  <2>3. S # {}
    OBVIOUS
  <2> QED BY <1>2, <2>1, <2>2, <2>3
<1>4. ASSUME NEW c \in Person, NEW D \in SUBSET Person, c \in D,
             \A link \in plan.checked : link[2] = c /\ link[1] \notin D,
             \A q \in D : ChildrenOf(Graph, q) \ {c} \subseteq D
      PROVE  FALSE
  <2>1. \A p, x : <<p, x>> \in plan.checked => x = c /\ p \notin D
    <3> SUFFICES ASSUME NEW p, NEW x, <<p, x>> \in plan.checked PROVE x = c /\ p \notin D
      OBVIOUS
    <3>1. <<p, x>>[2] = c /\ <<p, x>>[1] \notin D
      BY <1>4
    <3> QED BY <3>1
  <2>2. CASE c \notin S
    BY <1>3, <2>1, <2>2
  <2>3. CASE c \in S
    <3> DEFINE T == S \cap D
    <3>1. ASSUME NEW p \in T PROVE ChildrenOf(Graph, p) \cap T # {}
      <4>1. PICK x \in S : x \in ChildrenOf(Graph, p)'
        OBVIOUS
      <4>2. x \in ChildrenOf(Graph, p)
        BY <1>1, <2>1, <4>1
      <4>3. x \in D
        BY <1>4, <4>2
      <4> QED BY <4>2, <4>3
    <3>2. T # {} /\ T \in SUBSET S
      BY <1>4, <2>3
    <3> QED BY <1>2, <3>1, <3>2
  <2> QED BY <2>2, <2>3
<1> QED BY <1>3, <1>4 DEF Apart

\* CheckedLinksKeepAncestry: in a tree of at most one person more than the walk
\* has generations (100 in the code), a link that was validated on the current
\* graph never makes anybody their own ancestor, through a chain of unions of
\* any length (check_circular_ancestry).
THEOREM AncestryKept ==
  ASSUME Cardinality(Person) <= MaxDepth + 1
  PROVE  Spec => CheckedLinksKeepAncestry
<1>1. Init => PlansApart
  BY DEF Init, PlansApart
<1>2. ASSUME TypeOK, OneRolePerGroup, PlansApart, [Next]_vars PROVE PlansApart'
  <2>1. ASSUME UNCHANGED <<status, parents, children>>,
               \A t \in current' : tx'[t] # Idle => t \in current /\ tx'[t] = tx[t]
        PROVE  PlansApart'
    <3>1. \A q : ChildrenOf(Graph, q)' = ChildrenOf(Graph, q)
      BY <2>1 DEF ChildrenOf, GroupsAsParent, Graph
    <3>2. \A plan : Apart(plan)' <=> Apart(plan)
      BY <3>1 DEF Apart
    <3> QED BY <1>2, <2>1, <3>2 DEF PlansApart
  <2>2. CASE UNCHANGED vars
    BY <2>1, <2>2 DEF vars
  <2>3. ASSUME NEW t \in Tx, Request(t) PROVE PlansApart'
    BY <1>2, <2>3, RequestApart
  <2>4. ASSUME NEW t \in Tx, Commit(t) PROVE PlansApart'
    BY <2>4 DEF Commit, PlansApart
  <2>5. ASSUME NEW t \in Tx, Rollback(t) PROVE PlansApart'
    BY <1>2, <2>1, <2>5 DEF Rollback, TypeOK
  <2> QED BY <1>2, <2>2, <2>3, <2>4, <2>5 DEF Next
<1>3. TypeOK /\ OneRolePerGroup /\ PlansApart /\ [Next]_vars => PlansApart'
  BY <1>2
<1>4. ASSUME TypeOK, TypeOK', PlansApart, [Next]_vars, NEW t \in Tx, Clean(t), NoCircularAncestry,
             Links' \ Links \subseteq tx[t].checked
      PROVE  NoCircularAncestry'
  <2>1. Apart(tx[t])
    BY <1>4, CleanIsCommit DEF PlansApart
  <2> QED BY <1>4, <2>1, ApartKeepsAncestry
<1>5. TypeOK /\ TypeOK' /\ PlansApart /\ [Next]_vars =>
        [\A t \in Tx :
           Clean(t) /\ NoCircularAncestry /\ Links' \ Links \subseteq tx[t].checked
             => NoCircularAncestry']_vars
  BY <1>4
<1> QED BY <1>1, <1>3, <1>5, TypeCorrect, RolesApart, PTL DEF Spec, CheckedLinksKeepAncestry
=============================================================================
