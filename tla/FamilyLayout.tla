------------------------------ MODULE FamilyLayout ------------------------------
(***************************************************************************)
(* The layout of a family tree                                             *)
(* (features/tree/canvas/algorithms/familyTree.ts): rows from generations, *)
(* then a depth-first walk that gives every person a place on its row.     *)
(*                                                                         *)
(* Places are counted in units of a card and its gap, from the margin.     *)
(* The widths of subtrees only propose a place: any proposal of Slot may   *)
(* be made.  Lists that the code sorts by birth year are visited in any    *)
(* order, except the unions of a person, where the first matters: groups   *)
(* are numbered by the birth year of their first child.                    *)
(***************************************************************************)
EXTENDS Naturals, Integers, FiniteSets, Sequences

CONSTANTS
  Person,
  Group,     \* family groups, in the order their unions are sorted
  MaxYear,   \* the last row a birth year asks for
  MaxRow,    \* rows a run of the loops may reach before it counts as endless
  Slot,      \* the places the subtree widths propose
  Trees      \* the graphs to lay out

Unknown == -1
Row == 0..MaxRow
NoPlace == -1

\* A graph has some of the groups; aligned is the option alignByBirthYear.
TreeOf(G) ==
  [parents : [G -> SUBSET Person], children : [G -> SUBSET Person],
   aligned : BOOLEAN, year : [Person -> 0..MaxYear \cup {Unknown}]]

\* A layering below the seeded rows needs no more than a row for each person,
\* and the first row for parents that are not recorded.
ASSUME LayoutAssumption ==
  /\ Group \subseteq Nat /\ Slot \subseteq Nat
  /\ IsFiniteSet(Person) /\ IsFiniteSet(Group)
  /\ MaxYear \in Nat /\ MaxRow \in Nat /\ MaxRow >= MaxYear + Cardinality(Person)
  /\ \A t \in Trees : \E G \in SUBSET Group : t \in TreeOf(G)

VARIABLES
  tree,    \* the graph; year is the row that a birth year asks for
  phase,
  gen,     \* the row of each person, -1 before one is known
  seed,    \* gen before the structural promotion
  x,       \* posMap
  free,    \* rowRightX: the first free place of each row
  placed,  \* placedFGs
  stack    \* the placeFG calls under way, and the loop over the root persons

vars == <<tree, phase, gen, seed, x, free, placed, stack>>

Groups == DOMAIN tree.parents
Parents(g) == tree.parents[g]
Children(g) == tree.children[g]
Unions(p) == {g \in Groups : p \in Parents(g)}
HasOrigin(p) == \E g \in Groups : p \in Children(g)

NoGroup == -1
Nobody == {}
Frame == [fg : Group \cup {NoGroup}, todo : SUBSET Person, child : SUBSET Person]

TypeOK ==
  /\ \E G \in SUBSET Group : tree \in TreeOf(G)
  /\ phase \in {"seed", "pull", "promote", "stuck", "roots", "persons", "laid", "compact"}
  /\ {gen, seed} \subseteq [Person -> Row \cup {-1}]
  /\ phase \in {"seed", "stuck"} \/ gen \in [Person -> Row]
  /\ x \in [Person -> Nat \cup {NoPlace}]
  /\ free \in [Row -> Nat]
  /\ placed \subseteq Group
  /\ stack \in Seq(Frame)

----------------------------------------------------------------------------
\* computeGenerations.

StartRow(t, p) ==
  IF t.aligned THEN IF t.year[p] = Unknown THEN 0 ELSE t.year[p]
  ELSE IF \E g \in DOMAIN t.children : p \in t.children[g] THEN -1 ELSE 0

Init ==
  /\ tree \in Trees
  /\ phase = IF tree.aligned THEN "pull" ELSE "seed"
  /\ gen = [p \in Person |-> StartRow(tree, p)]
  /\ seed = gen
  /\ x = [p \in Person |-> NoPlace]
  /\ free = [r \in Row |-> 0]
  /\ placed = {}
  /\ stack = <<>>

Walk == <<x, free, placed, stack>>

\* One step of the search from the root persons: c is below p in g.
Below(g, p, c) ==
  /\ p \in Parents(g) /\ c \in Children(g)
  /\ gen[p] >= 0 /\ gen[c] < gen[p] + 1

Search ==
  /\ phase = "seed"
  /\ \E g \in Groups : \E p \in Parents(g), c \in Children(g) :
       /\ Below(g, p, c)
       /\ IF gen[p] + 1 \in Row
            THEN gen' = [gen EXCEPT ![c] = gen[p] + 1] /\ UNCHANGED phase
            ELSE phase' = "stuck" /\ UNCHANGED gen
  /\ UNCHANGED <<tree, seed, Walk>>

\* Mutant: a person no root leads to gets no row.
Unreached(p) == gen[p]

\* The queue is empty; a person no root leads to starts on the first row.
Reached(p) == IF gen[p] = -1 THEN 0 ELSE gen[p]

Searched ==
  /\ phase = "seed"
  /\ \A g \in Groups : \A p \in Parents(g), c \in Children(g) : ~Below(g, p, c)
  /\ gen' = [p \in Person |-> Reached(p)]
  /\ seed' = gen'
  /\ phase' = "promote"
  /\ UNCHANGED <<tree, Walk>>

\* The row right above the first child of g.
IsAboveChildren(g, r) ==
  /\ \A c \in Children(g) : r < gen[c]
  /\ \E c \in Children(g) : r = gen[c] - 1

Pulled(g, r) == {p \in Parents(g) : tree.year[p] = Unknown /\ gen[p] < r}

Pull ==
  /\ phase = "pull"
  /\ \E g \in Groups : \E r \in Row \ {0} :
       /\ IsAboveChildren(g, r) /\ Pulled(g, r) # {}
       /\ gen' = [p \in Person |-> IF p \in Pulled(g, r) THEN r ELSE gen[p]]
  /\ UNCHANGED <<tree, phase, seed, Walk>>

PulledAll ==
  /\ phase = "pull"
  /\ \A g \in Groups : \A r \in Row \ {0} : ~(IsAboveChildren(g, r) /\ Pulled(g, r) # {})
  /\ seed' = gen
  /\ phase' = "promote"
  /\ UNCHANGED <<tree, gen, Walk>>

\* The last row of the parents of g, the first row when it has none.
IsLastRow(g, r) ==
  /\ \A p \in Parents(g) : gen[p] <= r
  /\ IF Parents(g) = {} THEN r = 0 ELSE \E p \in Parents(g) : gen[p] = r

\* Mutant: the children are moved below the row of a parent, over and over.
PromotedTwice(g, r, p) ==
  IF p \in Children(g) /\ gen[p] < r + 1 THEN r + 2
  ELSE IF p \in Parents(g) THEN r ELSE gen[p]

\* Mutant: the children are moved, up as well.
PromotedAnew(g, r, p) ==
  IF p \in Children(g) THEN r + 1 ELSE IF p \in Parents(g) THEN r ELSE gen[p]

Promoted(g, r, p) ==
  IF p \in Children(g) /\ gen[p] < r + 1 THEN r + 1
  ELSE IF p \in Parents(g) THEN r ELSE gen[p]

Moves(g, r) == \E p \in Person : Promoted(g, r, p) # gen[p]

Promote ==
  /\ phase = "promote"
  /\ \E g \in Groups, r \in Row :
       /\ IsLastRow(g, r) /\ Moves(g, r)
       /\ IF \A p \in Person : Promoted(g, r, p) \in Row
            THEN gen' = [p \in Person |-> Promoted(g, r, p)] /\ UNCHANGED phase
            ELSE phase' = "stuck" /\ UNCHANGED gen
  /\ UNCHANGED <<tree, seed, Walk>>

\* A pass over all groups changed nothing.
Stable ==
  /\ phase = "promote"
  /\ \A g \in Groups, r \in Row : ~(IsLastRow(g, r) /\ Moves(g, r))
  /\ phase' = "roots"
  /\ UNCHANGED <<tree, gen, seed, Walk>>

----------------------------------------------------------------------------
\* Placement.  pl is posMap and rowRightX at some moment.

Larger(a, b) == IF a >= b THEN a ELSE b

IsPlaced(pl, p) == pl.x[p] # NoPlace

Occupy(pl, p, at) ==
  [x |-> [pl.x EXCEPT ![p] = at],
   free |-> [pl.free EXCEPT ![gen[p]] = Larger(@, at + 1)]]

\* Mutant: the cursor of the row is not heeded.
PushUnclamped(pl, p, want) == Occupy(pl, p, want)

PushPerson(pl, p, want) == Occupy(pl, p, Larger(want, pl.free[gen[p]]))

Remarried(p) == Cardinality(Unions(p)) > 1

IsFirstUnion(p, g) == \A h \in Unions(p) : g <= h

\* <<left, right>>: one that married again is right of the first spouse and
\* left of the later ones; sex and birth year decide for the others.  A group
\* that overtaking requests gave a third parent is drawn with two of them.
OrderedParents(g) ==
  {pair \in Parents(g) \X Parents(g) :
     /\ pair[1] # pair[2]
     /\ \/ ~Remarried(pair[1]) /\ ~Remarried(pair[2])
        \/ \E i \in 1..2 : Remarried(pair[i]) /\ (IsFirstUnion(pair[i], g) <=> i = 2)}

\* A couple: one to the left of a person that is placed may be moved over
\* another card, since only the margin stops it.
Couple(pl, l, r, want) ==
  IF IsPlaced(pl, l)
    THEN IF IsPlaced(pl, r) THEN pl ELSE PushPerson(pl, r, pl.x[l] + 1)
    ELSE IF IsPlaced(pl, r) THEN Occupy(pl, l, Larger(pl.x[r] - 1, 0))
         ELSE PushPerson(PushPerson(pl, l, want), r, want + 1)

\* What placing the parents of g can come to.
ParentsPlaced(pl, g) ==
  IF Cardinality(Parents(g)) >= 2
    THEN {Couple(pl, pair[1], pair[2], want) : pair \in OrderedParents(g), want \in Slot}
  ELSE IF \A p \in Parents(g) : IsPlaced(pl, p)
    THEN {pl}
    ELSE {PushPerson(pl, p, want) : p \in Parents(g), want \in Slot}

Here == [x |-> x, free |-> free]
Become(pl) == x' = pl.x /\ free' = pl.free

Pending(S) == S \ placed

\* Starts placeFG(g) with the calls of calls under way.
PlaceFG(g, calls) ==
  /\ g \notin placed
  /\ placed' = placed \cup {g}
  /\ \E pl \in ParentsPlaced(Here, g) : Become(pl)
  /\ stack' = Append(calls, [fg |-> g, todo |-> Children(g), child |-> Nobody])

RootGroups == {g \in Groups : \A p \in Parents(g) : ~HasOrigin(p)}

PlaceRoot ==
  /\ phase = "roots" /\ stack = <<>>
  /\ \E g \in RootGroups : PlaceFG(g, <<>>)
  /\ UNCHANGED <<tree, phase, gen, seed>>

RootPersons == {p \in Person : ~HasOrigin(p)}

RootsPlaced ==
  /\ phase = "roots" /\ stack = <<>>
  /\ RootGroups \subseteq placed
  /\ phase' = "persons"
  /\ stack' = <<[fg |-> NoGroup, todo |-> RootPersons, child |-> Nobody]>>
  /\ UNCHANGED <<tree, gen, seed, x, free, placed>>

Top == stack[Len(stack)]
Callers == SubSeq(stack, 1, Len(stack) - 1)
Continue(frame) == Append(Callers, frame)

\* The next child, or root person: skipped when it has a place.
NextPerson ==
  /\ stack # <<>> /\ Top.child = Nobody
  /\ \E p \in Top.todo :
       stack' = Continue([Top EXCEPT !.todo = @ \ {p},
                                     !.child = IF IsPlaced(Here, p) THEN Nobody ELSE {p}])
  /\ UNCHANGED <<tree, phase, gen, seed, x, free, placed>>

\* The union of p to follow next.
NextUnion(p) == {g \in Pending(Unions(p)) : \A h \in Pending(Unions(p)) : g <= h}

PlaceUnion ==
  /\ stack # <<>>
  /\ \E p \in Top.child : \E g \in NextUnion(p) : PlaceFG(g, stack)
  /\ UNCHANGED <<tree, phase, gen, seed>>

\* All unions of p were followed: it gets a place of its own if none gave it one.
PlacePerson ==
  /\ stack # <<>>
  /\ \E p \in Top.child :
       /\ NextUnion(p) = {}
       /\ IF IsPlaced(Here, p) THEN UNCHANGED <<x, free>>
          ELSE \E want \in Slot : Become(PushPerson(Here, p, want))
  /\ stack' = Continue([Top EXCEPT !.child = Nobody])
  /\ UNCHANGED <<tree, phase, gen, seed, placed>>

\* placeFG returns; after the loop over the root persons the walk is over.
Return ==
  /\ stack # <<>> /\ Top.child = Nobody /\ Top.todo = {}
  /\ stack' = Callers
  /\ phase' = IF Top.fg = NoGroup THEN "laid" ELSE phase
  /\ UNCHANGED <<tree, gen, seed, x, free, placed>>

\* compact: every row is repacked in the order it has; order decides between
\* persons that share a place.
Orders == {order \in [Person -> 1..Cardinality(Person)] :
             \A p, q \in Person : p # q => order[p] # order[q]}

InRow(p) == {q \in Person : IsPlaced(Here, q) /\ gen[q] = gen[p]}

Repacked(order, p) ==
  IF IsPlaced(Here, p)
    THEN Cardinality({q \in InRow(p) : x[q] < x[p] \/ (x[q] = x[p] /\ order[q] < order[p])})
    ELSE NoPlace

Compact ==
  /\ phase = "laid"
  /\ phase' = "compact"
  /\ \E order \in Orders : x' = [p \in Person |-> Repacked(order, p)]
  /\ UNCHANGED <<tree, gen, seed, free, placed, stack>>

Next ==
  \/ Search \/ Searched \/ Pull \/ PulledAll \/ Promote \/ Stable
  \/ PlaceRoot \/ RootsPlaced \/ NextPerson \/ PlaceUnion \/ PlacePerson \/ Return
  \/ Compact

\* The layout is one synchronous call: nothing but its own loops keeps it
\* from returning.
Spec == Init /\ [][Next]_vars /\ WF_vars(Next)

----------------------------------------------------------------------------
\* Properties.

\* Couples share a row, children are on a lower one.
IsLayering(r) ==
  \A g \in Groups :
    /\ \A p, q \in Parents(g) : r[p] = r[q]
    /\ \A p \in Parents(g), c \in Children(g) : r[p] < r[c]
    /\ \A c \in Children(g) : 0 < r[c]

CanBeLayered(t) ==
  \E r \in [Person -> 0..(Cardinality(Person) - 1)] :
    \A g \in DOMAIN t.parents :
      /\ \A p, q \in t.parents[g] : r[p] = r[q]
      /\ \A p \in t.parents[g], c \in t.children[g] : r[p] < r[c]

Laid == phase \in {"laid", "compact"}

\* The rows the loops end with are the first ones there are from the seeded
\* rows down, whatever the order in which they visit the groups; loops that
\* pass the last of them have no end (computeGenerations, 117-133).
RowsAreLeast ==
  [][phase = "promote" /\ phase' # "promote" =>
       \A r \in [Person -> Row] :
         IsLayering(r) /\ (\A p \in Person : seed[p] <= r[p]) =>
           phase' = "roots" /\ \A p \in Person : gen[p] <= r[p]]_vars

\* A person without a place is a child, and none of its families of origin was
\* followed.  A union that was not followed is no root group, and every parent
\* of it that has a place was met in another one: as a spouse, or in a root
\* group.  The walk skips the other unions of a person it has met (384-403,
\* 454-475).
LeftOutBehindRemarriage ==
  Laid =>
    /\ \A p \in Person :
         x[p] = NoPlace => HasOrigin(p) /\ \A g \in placed : p \notin Children(g)
    /\ \A g \in Groups \ placed :
         /\ g \notin RootGroups
         /\ \A p \in Parents(g) :
              x[p] # NoPlace =>
                \E h \in Unions(p) \cap placed : HasOrigin(p) => Cardinality(Parents(h)) >= 2

\* Two persons of a row share a place only when one of them is the spouse of
\* a person that married more than once, and never after a repack (271-279,
\* 349-360, 497-520).
OverlapsAreSpouses ==
  \A p, q \in Person :
    p # q /\ x[p] # NoPlace /\ gen[p] = gen[q] /\ x[p] = x[q] =>
      /\ phase # "compact"
      /\ \E g \in Groups : \E s \in Parents(g) :
           Remarried(s) /\ (Parents(g) \ {s}) \cap {p, q} # {}

\* What the comments say of the cursor: it prevents any two persons of a row
\* from overlapping (familyTree.ts 13-16, 267-268).
RowsDoNotOverlap ==
  Laid => \A p, q \in Person : p # q /\ x[p] # NoPlace /\ gen[p] = gen[q] => x[p] # x[q]

\* What can go wrong with a place, and where only (13-19): none was given, or
\* one was given twice.
PlacementIsSound == LeftOutBehindRemarriage /\ OverlapsAreSpouses

\* The layout of a tree whose persons can be put on rows ends, and of no
\* other: a circle of ancestors keeps the loops going (101-111, 119-133).
LayoutEnds == <>(IF CanBeLayered(tree) THEN Laid ELSE phase = "stuck")

=============================================================================
