------------------------------ MODULE Genealogy ------------------------------
\* The family groups of one tree and the requests that link persons through
\* them.  A request loads the tree into a graph, validates the link on that
\* graph and writes its rows when its transaction commits; requests overlap,
\* so the graph a link was validated on may be out of date at the commit.
\* Only the unique constraint (family_group_id, person_id) and the foreign key
\* to family_groups look at the rows themselves.
\*
\* Persons are all live and belong to the tree: the checks of _require_in_tree
\* pass.  Snapshots and log entries of these requests are module AuditRevert.
EXTENDS Naturals, FiniteSets

CONSTANTS
  Person,      \* the persons of the tree
  Fg,          \* family group ids, each given out once
  Tx,          \* overlapping requests
  Sex,         \* the recorded sex of each person
  NoPerson,    \* other_parent_id not given
  NoFg,        \* no family of origin
  MaxDepth,    \* generations a traversal walks (100 in the code)
  MaxCommits   \* bound of the instance: commits of a behaviour

ASSUME SexAssumption == Sex \in [Person -> {"MALE", "FEMALE", "OTHER", "UNKNOWN"}]
ASSUME DepthAssumption == MaxDepth \in Nat \ {0}
ASSUME PersonAssumption == IsFiniteSet(Person)
ASSUME BoundAssumption == MaxCommits \in Nat
ASSUME MarkerAssumption == NoPerson \notin Person /\ NoFg \notin Fg

VARIABLES
  status,      \* of each group id: unused, live or deleted
  parents,     \* the PARENT rows of each group
  children,    \* the CHILD rows of each group
  tx,          \* the open requests: what each will write
  current,     \* open requests whose graph is still the tree as it is
  commits      \* commits so far

vars == <<status, parents, children, tx, current, commits>>

Kinds == {"parent", "pair", "child", "spouse", "sibling", "remove"}
Row == Fg \X Person \X {"PARENT", "CHILD"}

\* What a request has decided to write: rows and groups to delete, group ids
\* to create, rows to insert.  checked holds the parentage links that the
\* validator has compared with the child's descendants.
Plan == [kind : Kinds, del : SUBSET (Fg \X Person), gone : SUBSET Fg, new : SUBSET Fg,
         ins : SUBSET Row, checked : SUBSET (Person \X Person)]
Idle == [kind |-> "idle"]

TypeOK ==
  /\ status \in [Fg -> {"unused", "live", "deleted"}]
  /\ parents \in [Fg -> SUBSET Person]
  /\ children \in [Fg -> SUBSET Person]
  /\ tx \in [Tx -> Plan \cup {Idle}]
  /\ current \in SUBSET Tx
  /\ commits \in 0..MaxCommits

Init ==
  /\ status = [g \in Fg |-> "unused"]
  /\ parents = [g \in Fg |-> {}]
  /\ children = [g \in Fg |-> {}]
  /\ tx = [t \in Tx |-> Idle]
  /\ current = {}
  /\ commits = 0

-----------------------------------------------------------------------------
\* The graph a request loads, and its queries.

Graph == [live |-> {g \in Fg : status[g] = "live"}, parents |-> parents, children |-> children]

\* What the request itself sees after it has deleted rows and groups.
Without(G, del, gone) ==
  [live     |-> G.live \ gone,
   parents  |-> [g \in Fg |-> IF g \in gone THEN {} ELSE {p \in G.parents[g] : <<g, p>> \notin del}],
   children |-> [g \in Fg |-> IF g \in gone THEN {} ELSE {p \in G.children[g] : <<g, p>> \notin del}]]

GroupsAsParent(G, p) == {g \in G.live : p \in G.parents[g]}
GroupsAsChild(G, p) == {g \in G.live : p \in G.children[g]}

\* The graph keeps one family of origin per person, the last one loaded, and
\* the rows come in no particular order.
FamilyOfOrigin(G, p) == IF GroupsAsChild(G, p) = {} THEN {NoFg} ELSE GroupsAsChild(G, p)

ChildrenOf(G, p) == UNION {G.children[g] : g \in GroupsAsParent(G, p)}

Descendants(G, p) ==
  LET upTo[n \in Nat] ==
        IF n = 0 THEN {} ELSE upTo[n - 1] \cup UNION {ChildrenOf(G, q) : q \in upTo[n - 1] \cup {p}}
  IN  upTo[MaxDepth] \ {p}

\* Mutant: one parent too many.
FullAfterThree(G, g) == Cardinality(G.parents[g]) > 2

IsFull(G, g) == Cardinality(G.parents[g]) >= 2

FreshIds == {g \in Fg : status[g] = "unused" /\ \A t \in Tx : tx[t] # Idle => g \notin tx[t].new}

\* Mutant: no id is drawn for a new group.
UnnamedGroup(G, p, q) ==
  LET found == {g \in GroupsAsParent(G, p) :
                  IF q = NoPerson THEN Cardinality(G.parents[g]) = 1 ELSE q \in G.parents[g]}
  IN  IF found = {} THEN {NoFg} ELSE found

\* A group of p alone, or of p and q when q is given; otherwise a new group.
TargetGroups(G, p, q) ==
  LET found == {g \in GroupsAsParent(G, p) :
                  IF q = NoPerson THEN Cardinality(G.parents[g]) = 1 ELSE q \in G.parents[g]}
  IN  IF found = {} THEN FreshIds ELSE found

\* Mutant: only the next generation is looked at.
ChildrenOnly(G, child, parent) == parent \in ChildrenOf(G, child)

\* Validation: the proposed parent is a descendant of the child.  The code's
\* second walk, up from the parent, follows one group of origin per person and
\* so sees no link that the walk down does not.
Circular(G, child, parent) == parent \in Descendants(G, child)

\* Mutant: a group without parents does not count.
NoParentRecorded(G, child) == \A g \in GroupsAsChild(G, child) : G.parents[g] = {}

\* Validation: the child is in no family group yet.
HasNoParents(G, child) == GroupsAsChild(G, child) = {}

\* Validation: the recorded sexes of the parents of a biological child.
Sexed(p) == Sex[p] \in {"MALE", "FEMALE"}
BiologicalOK(people, biological) ==
  biological => \/ Cardinality({p \in people : Sexed(p)}) < 2
                \/ \E p, q \in people : Sexed(p) /\ Sexed(q) /\ Sex[p] # Sex[q]

-----------------------------------------------------------------------------
\* Requests: reading, validating and deciding what to write.

\* A DELETE waits for the rows another open request has deleted.
Locked(rows) == \E t \in Tx : tx[t] # Idle /\ tx[t].del \cap rows # {}

Begin(t, plan) ==
  /\ ~Locked(plan.del)
  /\ tx' = [tx EXCEPT ![t] = plan]
  /\ current' = current \cup {t}
  /\ UNCHANGED <<status, parents, children, commits>>

RowsOf(g) == {<<g, p>> : p \in parents[g] \cup children[g]}
Created(groups) == groups \cap FreshIds

\* Mutant: a single parent keeps an empty group.
ParentlessOnly(c) == {g \in GroupsAsChild(Graph, c) : children[g] = {c} /\ parents[g] = {}}

\* Re-linking a child first deletes its CHILD rows, and then the groups this
\* leaves without a child and with fewer than two parents.
OriginRows(c) == {<<g, c>> : g \in GroupsAsChild(Graph, c)}
OrphanedBy(c) ==
  {g \in GroupsAsChild(Graph, c) : children[g] = {c} /\ Cardinality(parents[g]) < 2}
UnlinkedRows(c) == OriginRows(c) \cup UNION {RowsOf(g) : g \in OrphanedBy(c)}

AddParent(t, child, parent, biological) ==
  \E origin \in FamilyOfOrigin(Graph, child) :
    \E g \in IF origin # NoFg /\ ~IsFull(Graph, origin) THEN {origin} ELSE FreshIds :
      /\ child # parent
      /\ parent \notin parents[g]
      /\ ~Circular(Graph, child, parent)
      /\ g \in Graph.live => BiologicalOK(parents[g] \cup {parent}, biological)
      /\ Begin(t, [kind |-> "parent", del |-> {}, gone |-> {}, new |-> Created({g}),
                   ins |-> {<<g, parent, "PARENT">>} \cup
                           (IF g \in Graph.live THEN {} ELSE {<<g, child, "CHILD">>}),
                   checked |-> {<<parent, child>>}])

\* Both parents replace whatever family of origin the child has.  Naming one
\* person twice passes the checks if its sex is not recorded, and then works
\* with an existing group only: a new one would hold the same row twice.
AddBothParents(t, child, father, mother, biological) ==
  LET G == Without(Graph, UnlinkedRows(child), OrphanedBy(child)) IN
  /\ child \notin {father, mother}
  /\ HasNoParents(G, child)
  /\ \E g \in TargetGroups(G, father, mother) :
    /\ ~Circular(G, child, father) /\ ~Circular(G, child, mother)
    /\ biological /\ Sexed(father) /\ Sexed(mother) => Sex[father] # Sex[mother]
    /\ g \notin G.live => father # mother
    /\ Begin(t, [kind |-> "pair", del |-> UnlinkedRows(child), gone |-> OrphanedBy(child),
                 new |-> Created({g}),
                 ins |-> {<<g, child, "CHILD">>} \cup
                         (IF g \in G.live THEN {} ELSE {<<g, p, "PARENT">> : p \in {father, mother}}),
                 checked |-> {<<father, child>>, <<mother, child>>}])

\* The other parent is only looked up: no check compares it with the child.
AddChild(t, parent, child, other, biological, force) ==
  LET del  == IF force THEN UnlinkedRows(child) ELSE {}
      gone == IF force THEN OrphanedBy(child) ELSE {}
      G    == Without(Graph, del, gone)
  IN
  \E g \in TargetGroups(G, parent, other) :
    /\ parent # child
    /\ HasNoParents(G, child)
    /\ ~Circular(G, child, parent)
    /\ g \in G.live => BiologicalOK(G.parents[g], biological)
    /\ g \notin G.live => other # parent
    /\ Begin(t, [kind |-> "child", del |-> del, gone |-> gone, new |-> Created({g}),
                 ins |-> {<<g, child, "CHILD">>} \cup
                         (IF g \in G.live THEN {}
                          ELSE {<<g, p, "PARENT">> : p \in {parent, other} \ {NoPerson}}),
                 checked |-> {<<parent, child>>}])

AddSpouse(t, p, q) ==
  /\ p # q
  /\ GroupsAsParent(Graph, p) \cap GroupsAsParent(Graph, q) = {}
  /\ \E g \in FreshIds :
       Begin(t, [kind |-> "spouse", del |-> {}, gone |-> {}, new |-> {g},
                 ins |-> {<<g, p, "PARENT">>, <<g, q, "PARENT">>}, checked |-> {}])

\* The sibling joins the person's family of origin, or both start one without
\* parents.  Nothing compares the group's parents with the sibling.
AddSibling(t, p, sibling) ==
  /\ p # sibling
  /\ HasNoParents(Graph, sibling)
  /\ \E origin \in FamilyOfOrigin(Graph, p) :
       \E g \in IF origin # NoFg THEN {origin} ELSE FreshIds :
         Begin(t, [kind |-> "sibling", del |-> {}, gone |-> {}, new |-> Created({g}),
                   ins |-> {<<g, sibling, "CHILD">>} \cup
                           (IF g \in Graph.live THEN {} ELSE {<<g, p, "CHILD">>}),
                   checked |-> {}])

DeleteFamilyGroup(t, g) ==
  /\ status[g] = "live"
  /\ Begin(t, [kind |-> "remove", del |-> RowsOf(g), gone |-> {g}, new |-> {}, ins |-> {},
               checked |-> {}])

\* Taking the last parent out of a group, or anybody out of a group that never
\* had one, deletes the group.
RemoveMember(t, g, p) ==
  /\ status[g] = "live"
  /\ LET gone == IF parents[g] \subseteq {p} THEN {g} ELSE {} IN
     Begin(t, [kind |-> "remove",
               del |-> IF gone = {} THEN RowsOf(g) \cap {<<g, p>>} ELSE RowsOf(g),
               gone |-> gone, new |-> {}, ins |-> {}, checked |-> {}])

-----------------------------------------------------------------------------
\* The end of a request.

\* Mutant: the group may be gone by now.
EverCreated(plan) == \A row \in plan.ins : row[1] \in plan.new \/ status[row[1]] # "unused"

\* Foreign key to family_groups: the group of every inserted row is there.
ForeignKeysHold(plan) ==
  \A row \in plan.ins : \/ row[1] \in plan.new
                        \/ status[row[1]] = "live" /\ row[1] \notin plan.gone

\* Mutant: the constraint includes the role.
UniqueWithRole(plan) ==
  \A row \in plan.ins :
    LET rows == IF row[3] = "PARENT" THEN parents ELSE children IN
    row[2] \notin rows[row[1]] \/ <<row[1], row[2]>> \in plan.del

\* Unique (family_group_id, person_id) among the rows kept and inserted.
UniqueHolds(plan) ==
  \A row \in plan.ins :
    /\ row[2] \notin parents[row[1]] \cup children[row[1]] \/ <<row[1], row[2]>> \in plan.del
    /\ \A other \in plan.ins : row[1] = other[1] /\ row[2] = other[2] => row = other

Written(rows, plan, role) ==
  [g \in Fg |-> IF g \in plan.gone THEN {}
                ELSE {p \in rows[g] : <<g, p>> \notin plan.del}
                       \cup {p \in Person : <<g, p, role>> \in plan.ins}]

Commit(t) ==
  LET plan == tx[t] IN
  /\ plan # Idle
  /\ commits < MaxCommits
  /\ ForeignKeysHold(plan)
  /\ UniqueHolds(plan)
  /\ status' = [g \in Fg |-> IF g \in plan.gone THEN "deleted"
                             ELSE IF g \in plan.new THEN "live" ELSE status[g]]
  /\ parents' = Written(parents, plan, "PARENT")
  /\ children' = Written(children, plan, "CHILD")
  /\ tx' = [tx EXCEPT ![t] = Idle]
  /\ current' = {}
  /\ commits' = commits + 1

\* A constraint the rows violate, or a connection that is lost.
Rollback(t) ==
  /\ tx[t] # Idle
  /\ tx' = [tx EXCEPT ![t] = Idle]
  /\ current' = current \ {t}
  /\ UNCHANGED <<status, parents, children, commits>>

Request(t) ==
  /\ tx[t] = Idle
  /\ commits < MaxCommits
  /\ \/ \E p, q \in Person, biological \in BOOLEAN :
          \/ AddParent(t, p, q, biological)
          \/ \E r \in Person : AddBothParents(t, p, q, r, biological)
          \/ \E r \in Person \cup {NoPerson}, force \in BOOLEAN :
               AddChild(t, p, q, r, biological, force)
     \/ \E p, q \in Person : AddSpouse(t, p, q) \/ AddSibling(t, p, q)
     \/ \E g \in Fg : DeleteFamilyGroup(t, g) \/ \E p \in Person : RemoveMember(t, g, p)

Next == \E t \in Tx : Request(t) \/ Commit(t) \/ Rollback(t)

Spec == Init /\ [][Next]_vars

-----------------------------------------------------------------------------
\* Invariants that hold however requests overlap.

\* Nobody is both a parent and a child in one family group, although no check
\* of the graph asks for it: a sibling may be proposed as a parent, and the
\* second parent of add_child may be the child.
OneRolePerGroup == \A g \in Fg : parents[g] \cap children[g] = {}

\* A group that a re-link or a removal has deleted holds nobody, also when
\* another request was adding a member to it meanwhile.
DeletedGroupsAreEmpty == \A g \in Fg : status[g] # "live" => parents[g] \cup children[g] = {}

-----------------------------------------------------------------------------
\* What validation on the graph achieves when no commit comes between the graph
\* and the rows it decides on.

Clean(t) == t \in current /\ tx[t] # Idle /\ tx'[t] = Idle /\ commits' # commits

AtMostTwoParents == \A g \in Fg : Cardinality(parents[g]) <= 2

\* A group gains a third parent only by a request another one has overtaken.
CleanCommitsKeepTwoParents ==
  [][\A t \in Tx : Clean(t) /\ AtMostTwoParents => AtMostTwoParents']_vars

\* Nobody is their own ancestor: every set of persons has a member without a
\* child in the set.
NoCircularAncestry ==
  \A set \in (SUBSET Person) \ {{}} : \E p \in set : ChildrenOf(Graph, p) \cap set = {}

Links == {link \in Person \X Person : link[2] \in ChildrenOf(Graph, link[1])}

\* Ancestry stays without circles when every new parentage link is one that the
\* validator compared with the child's descendants: a chain of unions of any
\* length is seen.
CheckedLinksKeepAncestry ==
  [][\A t \in Tx :
       Clean(t) /\ NoCircularAncestry /\ Links' \ Links \subseteq tx[t].checked
         => NoCircularAncestry']_vars

\* Only add_parent gives a person a second family of origin.
OnlyAddParentDoublesOrigin ==
  [][\A t \in Tx : Clean(t) /\ tx[t].kind # "parent" =>
       \A p \in Person :
         \/ Cardinality(GroupsAsChild(Graph, p)') <= 1
         \/ GroupsAsChild(Graph, p)' \subseteq GroupsAsChild(Graph, p)]_vars

\* A group the re-linked child leaves is deleted, keeps a child or is a couple.
RelinkLeavesNoOrphan ==
  [][\A t \in Tx : Clean(t) /\ tx[t].kind \in {"pair", "child"} =>
       \A g \in {row[1] : row \in tx[t].del} :
         status'[g] = "deleted" \/ children'[g] # {} \/ Cardinality(parents'[g]) >= 2]_vars

=============================================================================
