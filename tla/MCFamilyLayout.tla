----------------------------- MODULE MCFamilyLayout -----------------------------
(***************************************************************************)
(* FamilyLayout on every small graph, up to the names of the persons, who  *)
(* are numbered in the order in which the groups mention them.             *)
(***************************************************************************)
EXTENDS FamilyLayout

Couples == {S \in SUBSET Person : Cardinality(S) <= 2}
IsUpto(S) == S = 1..Cardinality(S)

\* Adds a group to a shape.
With(t, couple, kids) ==
  [parents |-> Append(t.parents, couple), children |-> Append(t.children, kids)]

Mentioned(t) == UNION {t.parents[g] \cup t.children[g] : g \in DOMAIN t.parents}

NewCouples(t) == {c \in Couples : IsUpto(Mentioned(t) \cup c)}
NewKids(t, c) == {k \in SUBSET (Person \ c) : IsUpto(Mentioned(t) \cup c \cup k)}

Grown(S) ==
  UNION {UNION {{With(t, c, k) : k \in NewKids(t, c)} : c \in NewCouples(t)} : t \in S}

\* As Grown, with unique families of origin, for groups that have two parents
\* or a parent and children.
Kids(t) == UNION {t.children[g] : g \in DOMAIN t.children}
Families(S) ==
  UNION {UNION {{With(t, c, k) : k \in {n \in NewKids(t, c) :
                                          /\ n \cap Kids(t) = {}
                                          /\ Cardinality(c) = 2 \/ n # {}}} :
                  c \in NewCouples(t) \ {{}}} : t \in S}

Nothing == {[parents |-> << >>, children |-> << >>]}

Remarriage(t) == \E g, h \in DOMAIN t.parents : g # h /\ t.parents[g] \cap t.parents[h] # {}

Plain(t) ==
  [parents |-> t.parents, children |-> t.children, aligned |-> FALSE,
   year |-> [p \in Person |-> Unknown]]

\* Aligned by birth year.
Dated(t, y) ==
  [parents |-> t.parents, children |-> t.children, aligned |-> TRUE, year |-> y]

\* Two generations of parents, some of them without a date.
Lineage(t) == t.children[1] \cap t.parents[2] # {}
Dates(t) == {y \in [Person -> {Unknown, 0, MaxYear}] :
               /\ \E p \in t.parents[1] \cup t.parents[2] : y[p] = Unknown
               /\ \A p \in Person \ Mentioned(t) : y[p] = Unknown}

\* Persons without a family of origin who are met as a spouse before their own
\* union is reached, and a group with a third parent.
Remarriages ==
  {[parents |-> <<{}, {}, {3, 4}, {1, 2}, {2, 4}>>, children |-> <<{3}, {4}, {}, {}, {}>>],
   [parents |-> <<{1}, {2, 3, 4}, {2, 3}>>, children |-> <<{2}, {}, {}>>]}

\* 1 married 2, then 3, whose group may be the first to be visited: root groups
\* go by the birth years of the parents.
TwoMarriages == {Plain([parents |-> <<{1, 2}, {1, 3}>>, children |-> <<{}, {}>>])}

MCTrees ==
  {Plain(t) : t \in Grown(Grown(Nothing))}
  \cup {Plain(t) : t \in {u \in Families(Families(Families(Nothing))) :
                         Remarriage(u) /\ CanBeLayered(u)}}
  \cup {Plain(t) : t \in Remarriages}
  \cup UNION {{Dated(t, y) : y \in Dates(t)} : t \in {u \in Families(Families(Nothing)) : Lineage(u)}}

=============================================================================
