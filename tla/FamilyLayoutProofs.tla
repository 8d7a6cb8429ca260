--------------------------- MODULE FamilyLayoutProofs ---------------------------
(***************************************************************************)
(* The rows and the places of FamilyLayout, for any number of persons and  *)
(* groups.  The rows are below every layering that starts at the seeded    *)
(* ones, so the loop cannot pass one.  The places are sound because of     *)
(* what the walk has met so far: a person whose union is not placed yet    *)
(* was followed, or has another union that is.                             *)
(***************************************************************************)
EXTENDS FamilyLayout, FiniteSetTheorems, SequenceTheorems, WellFoundedInduction, TLAPS

\* No row is passed that some layering below the seeded rows could do with.
RowsInv ==
  /\ \E G \in SUBSET Group : tree \in TreeOf(G)
  /\ gen \in [Person -> Row \cup {-1}]
  /\ phase \in {"seed", "pull", "promote"} => stack = <<>>
  /\ phase = "pull" => gen \in [Person -> Row]
  /\ phase = "promote" =>
       /\ gen \in [Person -> Row]
       /\ \A r \in [Person -> Row] :
            IsLayering(r) /\ (\A p \in Person : seed[p] <= r[p]) =>
              \A p \in Person : gen[p] <= r[p]

\* Promoting the persons of a group keeps them above every layering that was
\* below them (computeGenerations, 121-132).
LEMMA PromotedAboveLayering ==
  ASSUME \E G \in SUBSET Group : tree \in TreeOf(G),
         gen \in [Person -> Row],
         NEW r \in [Person -> Row], IsLayering(r),
         \A p \in Person : gen[p] <= r[p],
         NEW g \in Groups, NEW m \in Row, IsLastRow(g, m),
         NEW p \in Person
  PROVE  Promoted(g, m, p) \in Row /\ Promoted(g, m, p) <= r[p]
<1> Row \subseteq Nat
  BY LayoutAssumption DEF Row
<1>1. Parents(g) \subseteq Person /\ Children(g) \subseteq Person
  BY DEF TreeOf, Groups, Parents, Children
<1>2. \A q \in Parents(g) : m <= r[q]
  <2>1. SUFFICES ASSUME NEW q \in Parents(g) PROVE m <= r[q]
    OBVIOUS
  <2>2. PICK s \in Parents(g) : gen[s] = m
    BY DEF IsLastRow
  <2>3. r[s] = r[q]
    BY DEF IsLayering
  <2>4. gen[s] <= r[s]
    BY <1>1
  <2> QED BY <2>2, <2>3, <2>4
<1>3. p \in Children(g) => m + 1 <= r[p]
  <2>1. SUFFICES ASSUME p \in Children(g) PROVE m + 1 <= r[p]
    OBVIOUS
  <2>2. CASE Parents(g) = {}
    <3>1. m = 0 /\ 0 < r[p]
      BY <2>1, <2>2 DEF IsLastRow, IsLayering
    <3>2. r[p] \in Nat
      OBVIOUS
    <3> QED BY <3>1, <3>2
  <2>3. CASE Parents(g) # {}
    <3>1. PICK q \in Parents(g) : TRUE
      BY <2>3
    <3>2. r[q] < r[p]
      BY <2>1 DEF IsLayering
    <3>3. r[q] \in Nat /\ r[p] \in Nat /\ m \in Nat
      BY <1>1
    <3> QED BY <1>2, <3>2, <3>3
  <2> QED BY <2>2, <2>3
<1>4. Promoted(g, m, p) \in Nat /\ Promoted(g, m, p) <= r[p]
  <2>1. gen[p] \in Nat /\ r[p] \in Nat /\ m \in Nat /\ gen[p] <= r[p]
    OBVIOUS
  <2> QED BY <2>1, <1>2, <1>3 DEF Promoted
<1>5. r[p] \in Nat /\ r[p] <= MaxRow
  BY LayoutAssumption DEF Row
<1> QED BY <1>4, <1>5, LayoutAssumption DEF Row

\* The step that ends the promotion, or finds that it has no end, leaves the
\* least rows there are; no circle is suspected where a layering exists.
THEOREM LeastRows == Spec => RowsAreLeast
<1> USE DEF Row
<1>1. Init => RowsInv
  <2> SUFFICES ASSUME Init PROVE RowsInv
    OBVIOUS
  <2>1. PICK G \in SUBSET Group : tree \in TreeOf(G)
    BY LayoutAssumption DEF Init
  <2>0. 0 \in Row /\ 0..MaxYear \subseteq Row
    BY FS_CardinalityType, LayoutAssumption
  <2>2. \A p \in Person : StartRow(tree, p) \in Row \cup {-1}
    <3>1. \A p \in Person : tree.year[p] \in 0..MaxYear \cup {Unknown}
      BY <2>1 DEF TreeOf
    <3> QED BY <2>0, <3>1 DEF StartRow
  <2>3. phase = "pull" => \A p \in Person : StartRow(tree, p) \in Row
    <3>1. \A p \in Person : tree.year[p] \in 0..MaxYear \cup {Unknown}
      BY <2>1 DEF TreeOf
    <3>2. phase = "pull" => tree.aligned
      BY DEF Init
    <3> QED BY <2>0, <3>1, <3>2 DEF StartRow
  <2> QED BY <2>1, <2>2, <2>3 DEF Init, RowsInv
<1>2. RowsInv /\ [Next]_vars => RowsInv'
  <2> SUFFICES ASSUME RowsInv, [Next]_vars PROVE RowsInv'
    OBVIOUS
  <2>1. CASE Search
    <3>1. gen' \in [Person -> Row \cup {-1}] /\ phase' # "pull" /\ phase' # "promote" /\ tree' = tree
            /\ stack' = stack /\ stack = <<>>
      BY <2>1 DEF Search, Walk, RowsInv
    <3> QED BY <3>1 DEF RowsInv
  <2>2. CASE Searched
    <3>1. \A p \in Person : Reached(p) \in Row
      BY LayoutAssumption DEF RowsInv, Reached
    <3>2. gen' \in [Person -> Row] /\ seed' = gen' /\ phase' = "promote" /\ tree' = tree
            /\ stack' = stack /\ stack = <<>>
      BY <3>1, <2>2 DEF Searched, Walk, RowsInv
    <3> QED BY <3>2 DEF RowsInv
  <2>3. CASE Pull
    <3>1. gen' \in [Person -> Row] /\ phase' = "pull" /\ tree' = tree
            /\ stack' = stack /\ stack = <<>>
      BY <2>3 DEF Pull, Walk, RowsInv
    <3> QED BY <3>1 DEF RowsInv
  <2>4. CASE PulledAll
    <3>1. gen \in [Person -> Row] /\ gen' = gen /\ seed' = gen' /\ phase' = "promote" /\ tree' = tree
            /\ stack' = stack /\ stack = <<>>
      BY <2>4 DEF PulledAll, Walk, RowsInv
    <3> QED BY <3>1 DEF RowsInv
  <2>5. CASE Promote
    <3>1. phase = "promote" /\ tree' = tree /\ seed' = seed
            /\ stack' = stack /\ stack = <<>>
      BY <2>5 DEF Promote, Walk, RowsInv
    <3>2. PICK g \in Groups, m \in Row :
            /\ IsLastRow(g, m)
            /\ IF \A p \in Person : Promoted(g, m, p) \in Row
                 THEN gen' = [p \in Person |-> Promoted(g, m, p)] /\ UNCHANGED phase
                 ELSE phase' = "stuck" /\ UNCHANGED gen
      BY <2>5 DEF Promote
    <3>3. CASE \A p \in Person : Promoted(g, m, p) \in Row
      <4>1. gen' = [p \in Person |-> Promoted(g, m, p)] /\ phase' = "promote"
        BY <3>1, <3>2, <3>3
      <4>2. ASSUME NEW r \in [Person -> Row], IsLayering(r)', \A p \in Person : seed[p] <= r[p]
            PROVE  \A p \in Person : gen'[p] <= r[p]
        <5>1. IsLayering(r)
          BY <4>2, <3>1 DEF IsLayering, Groups, Parents, Children
        <5>2. \A p \in Person : gen[p] <= r[p]
          BY <4>2, <5>1, <3>1 DEF RowsInv
        <5>3. \A p \in Person : Promoted(g, m, p) <= r[p]
          BY <5>1, <5>2, <3>1, <3>2, PromotedAboveLayering DEF RowsInv
        <5> QED BY <5>3, <4>1
      <4>3. gen' \in [Person -> Row]
        BY <4>1, <3>3
      <4> QED BY <4>1, <4>2, <4>3, <3>1 DEF RowsInv
    <3>4. CASE ~ \A p \in Person : Promoted(g, m, p) \in Row
      BY <3>1, <3>2, <3>4 DEF RowsInv
    <3> QED BY <3>3, <3>4
  <2>6. CASE Stable
    BY <2>6 DEF Stable, RowsInv
  <2>7. CASE PlaceRoot
    BY <2>7 DEF PlaceRoot, RowsInv
  <2>8. CASE RootsPlaced
    BY <2>8 DEF RootsPlaced, RowsInv
  <2>9. CASE NextPerson \/ PlaceUnion \/ PlacePerson
    <3>1. UNCHANGED <<tree, phase, gen, seed>>
      BY <2>9 DEF NextPerson, PlaceUnion, PlacePerson
    <3>2. phase \in {"seed", "pull", "promote"} => stack = <<>>
      BY DEF RowsInv
    <3>3. stack # <<>>
      BY <2>9 DEF NextPerson, PlaceUnion, PlacePerson
    <3> QED BY <3>1, <3>2, <3>3 DEF RowsInv
  <2>10. CASE Return
    BY <2>10 DEF Return, RowsInv
  <2>11. CASE Compact
    BY <2>11 DEF Compact, RowsInv
  <2>12. CASE UNCHANGED vars
    BY <2>12 DEF vars, RowsInv, IsLayering, Groups, Parents, Children
  <2> QED BY <2>1, <2>2, <2>3, <2>4, <2>5, <2>6, <2>7, <2>8, <2>9, <2>10, <2>11, <2>12 DEF Next
<1>3. RowsInv /\ [Next]_vars =>
        [phase = "promote" /\ phase' # "promote" =>
           \A r \in [Person -> Row] :
             IsLayering(r) /\ (\A p \in Person : seed[p] <= r[p]) =>
               phase' = "roots" /\ \A p \in Person : gen[p] <= r[p]]_vars
  <2> SUFFICES ASSUME RowsInv, Next, phase = "promote", phase' # "promote",
                      NEW r \in [Person -> Row], IsLayering(r),
                      \A p \in Person : seed[p] <= r[p]
               PROVE  phase' = "roots" /\ \A p \in Person : gen[p] <= r[p]
    OBVIOUS
  <2>1. \A p \in Person : gen[p] <= r[p]
    BY DEF RowsInv
  <2>2. CASE Stable
    BY <2>1, <2>2 DEF Stable
  <2>3. CASE Promote
    <3>1. \A g \in Groups, m \in Row : IsLastRow(g, m) =>
             \A p \in Person : Promoted(g, m, p) \in Row
      BY <2>1, PromotedAboveLayering DEF RowsInv
    <3> QED BY <2>3, <3>1 DEF Promote
  <2>4. Stable \/ Promote
    <3>1. stack = <<>>
      BY DEF RowsInv
    <3> QED BY <3>1 DEF Next, Search, Searched, Pull, PulledAll, PlaceRoot, RootsPlaced, NextPerson,
                     PlaceUnion, PlacePerson, Return, Compact
  <2> QED BY <2>2, <2>3, <2>4
<1> QED BY <1>1, <1>2, <1>3, PTL DEF Spec, RowsAreLeast


----------------------------------------------------------------------------
\* The calls under way (placeFG, 325-424, and the loop over the root persons,
\* 454-475): the loop is the first of them, and follows one person at a time.
CallsInv ==
  /\ phase \in {"roots", "persons"} \/ stack = <<>>
  /\ phase = "persons" => stack # <<>>
  /\ \A i \in DOMAIN stack :
       /\ stack[i].fg = NoGroup <=> phase = "persons" /\ i = 1
       /\ \A p, q \in stack[i].child : p = q

\* Somebody whose turn comes, or whose unions are being followed.
Followed(calls, p) == \E i \in DOMAIN calls : p \in calls[i].child
Awaited(calls, p) == \E i \in DOMAIN calls : p \in calls[i].todo \cup calls[i].child

RootsDone == phase \in {"persons", "laid", "compact"}

\* One that has a place was met in a union: as a spouse, unless the walk
\* follows every union of that person, or began with it.
MetIn(p, h, calls) ==
  HasOrigin(p) => Cardinality(Parents(h)) >= 2 \/ Followed(calls, p)

WalkInv ==
  /\ placed \subseteq Groups
  /\ RootsDone => RootGroups \subseteq placed
  /\ \A p \in Person :
       x[p] = NoPlace /\ ((\E g \in placed : p \in Children(g)) \/ (~HasOrigin(p) /\ RootsDone))
         => Awaited(stack, p)
  /\ \A p \in Person :
       x[p] # NoPlace =>
         Unions(p) \subseteq placed \/ \E h \in Unions(p) \cap placed : MetIn(p, h, stack)

\* Places behind the cursor of their row, shared only next to one that married again.
Places == [x : [Person -> Nat \cup {NoPlace}], free : [Row -> Nat]]
Behind(pl) == \A p \in Person : IsPlaced(pl, p) => pl.x[p] < pl.free[gen[p]]
SpouseOfRemarried(p) == \E g \in Groups : \E s \in Parents(g) : Remarried(s) /\ p \in Parents(g) \ {s}
Separate(pl) ==
  \A p, q \in Person :
    p # q /\ IsPlaced(pl, p) /\ gen[p] = gen[q] /\ pl.x[p] = pl.x[q] =>
      SpouseOfRemarried(p) \/ SpouseOfRemarried(q)
SoundPlaces(pl) == pl \in Places /\ Behind(pl) /\ Separate(pl)

PlacesInv ==
  IF phase = "compact"
    THEN \A p, q \in Person : p # q /\ x[p] # NoPlace /\ gen[p] = gen[q] => x[p] # x[q]
    ELSE phase \in {"roots", "persons", "laid"} => SoundPlaces(Here)

UnplacedBefore == phase \in {"seed", "pull", "promote", "stuck"} => placed = {} /\ \A p \in Person : x[p] = NoPlace

LayoutInv == TypeOK /\ CallsInv /\ UnplacedBefore /\ WalkInv /\ PlacesInv


\* Steps on the stack change its last frame, or remove it.
LEMMA LastFrame ==
  ASSUME stack \in Seq(Frame), stack # <<>>
  PROVE  /\ Len(stack) \in Nat \ {0} /\ DOMAIN stack = 1..Len(stack)
         /\ Top \in Frame
         /\ Callers \in Seq(Frame) /\ Len(Callers) = Len(stack) - 1
         /\ \A i \in 1..(Len(stack) - 1) : Callers[i] = stack[i]
<1>1. Len(stack) \in Nat \ {0} /\ DOMAIN stack = 1..Len(stack) /\ Top \in Frame
  BY EmptySeq, LenProperties, ElementOfSeq DEF Top
<1>2. /\ Callers \in Seq(Frame) /\ Len(Callers) = Len(stack) - 1
      /\ \A i \in 1..(Len(stack) - 1) : Callers[i] = stack[i]
  BY <1>1, SubSeqProperties DEF Callers
<1> QED BY <1>1, <1>2

LEMMA PushedFrame ==
  ASSUME NEW calls \in Seq(Frame), NEW frame \in Frame
  PROVE  /\ Append(calls, frame) \in Seq(Frame)
         /\ DOMAIN Append(calls, frame) = 1..(Len(calls) + 1)
         /\ DOMAIN calls = 1..Len(calls)
         /\ Len(calls) \in Nat
         /\ \A i \in 1..Len(calls) : Append(calls, frame)[i] = calls[i]
         /\ Append(calls, frame)[Len(calls) + 1] = frame
BY AppendProperties, LenProperties

\* What a place does to the places of others (pushPerson, 260-269, and 349-360).
LEMMA OccupyPlaces ==
  ASSUME gen \in [Person -> Row], NEW pl \in Places, NEW p \in Person, NEW at \in Nat
  PROVE  /\ Occupy(pl, p, at) \in Places
         /\ Occupy(pl, p, at).x[p] = at /\ IsPlaced(Occupy(pl, p, at), p)
         /\ \A q \in Person \ {p} : Occupy(pl, p, at).x[q] = pl.x[q]
         /\ at < Occupy(pl, p, at).free[gen[p]]
         /\ \A r \in Row : pl.free[r] <= Occupy(pl, p, at).free[r]
<1> DEFINE o == Occupy(pl, p, at)
<1>1. pl.x \in [Person -> Nat \cup {NoPlace}] /\ pl.free \in [Row -> Nat] /\ gen[p] \in Row
  BY DEF Places
<1>2. o.x = [pl.x EXCEPT ![p] = at] /\ o.free = [pl.free EXCEPT ![gen[p]] = Larger(@, at + 1)]
  BY DEF Occupy
<1>3. Larger(pl.free[gen[p]], at + 1) \in Nat /\ pl.free[gen[p]] <= Larger(pl.free[gen[p]], at + 1)
        /\ at < Larger(pl.free[gen[p]], at + 1)
  BY <1>1 DEF Larger
<1>4. o.x \in [Person -> Nat \cup {NoPlace}] /\ o.free \in [Row -> Nat]
  BY <1>1, <1>2, <1>3
<1>5. o \in Places
  BY <1>4, <1>2 DEF Places, Occupy
<1>6. o.x[p] = at /\ IsPlaced(o, p) /\ \A q \in Person \ {p} : o.x[q] = pl.x[q]
  BY <1>1, <1>2 DEF IsPlaced, NoPlace
<1>7. at < o.free[gen[p]] /\ \A r \in Row : pl.free[r] <= o.free[r]
  BY <1>1, <1>2, <1>3
<1> QED BY <1>5, <1>6, <1>7

\* A card that heeds the cursor of its row is on no other.
LEMMA PushIsSound ==
  ASSUME gen \in [Person -> Row], NEW pl, SoundPlaces(pl), NEW p \in Person, NEW want \in Nat
  PROVE  /\ SoundPlaces(PushPerson(pl, p, want))
         /\ IsPlaced(PushPerson(pl, p, want), p)
         /\ \A q \in Person \ {p} : IsPlaced(PushPerson(pl, p, want), q) <=> IsPlaced(pl, q)
<1> DEFINE at == Larger(want, pl.free[gen[p]])
           o == Occupy(pl, p, at)
<1>1. pl \in Places /\ Behind(pl) /\ Separate(pl) /\ gen[p] \in Row /\ pl.free[gen[p]] \in Nat
  BY DEF SoundPlaces, Places
<1>2. at \in Nat /\ pl.free[gen[p]] <= at
  BY <1>1 DEF Larger
<1>3. PushPerson(pl, p, want) = o
  BY DEF PushPerson
<1> HIDE DEF at
<1>4. /\ o \in Places
      /\ o.x[p] = at /\ IsPlaced(o, p)
      /\ \A q \in Person \ {p} : o.x[q] = pl.x[q]
      /\ at < o.free[gen[p]]
      /\ \A r \in Row : pl.free[r] <= o.free[r]
  BY <1>1, <1>2, OccupyPlaces
<1> HIDE DEF o
<1>5. \A q \in Person \ {p} : IsPlaced(o, q) <=> IsPlaced(pl, q)
  BY <1>4 DEF IsPlaced
<1>6. \A q \in Person \ {p} : IsPlaced(pl, q) => pl.x[q] \in Nat /\ pl.x[q] < pl.free[gen[q]]
                                  /\ pl.free[gen[q]] \in Nat /\ o.free[gen[q]] \in Nat
  BY <1>1, <1>4 DEF Behind, IsPlaced, Places
<1>7. Behind(o)
  BY <1>4, <1>5, <1>6 DEF Behind
<1>8. \A q \in Person \ {p} : IsPlaced(pl, q) /\ gen[q] = gen[p] => o.x[q] # at
  BY <1>1, <1>2, <1>4, <1>6
<1>9. Separate(o)
  BY <1>1, <1>4, <1>5, <1>8 DEF Separate, IsPlaced
<1> QED BY <1>3, <1>4, <1>5, <1>7, <1>9 DEF SoundPlaces

\* One moved to the left of a spouse that married again may be on another card.
LEMMA LeftOfSpouseIsSound ==
  ASSUME gen \in [Person -> Row], NEW pl, SoundPlaces(pl), NEW p \in Person, NEW at \in Nat,
         SpouseOfRemarried(p)
  PROVE  /\ SoundPlaces(Occupy(pl, p, at))
         /\ IsPlaced(Occupy(pl, p, at), p)
         /\ \A q \in Person \ {p} : IsPlaced(Occupy(pl, p, at), q) <=> IsPlaced(pl, q)
<1> DEFINE o == Occupy(pl, p, at)
<1>1. pl \in Places /\ Behind(pl) /\ Separate(pl) /\ gen[p] \in Row
  BY DEF SoundPlaces
<1>4. /\ o \in Places
      /\ o.x[p] = at /\ IsPlaced(o, p)
      /\ \A q \in Person \ {p} : o.x[q] = pl.x[q]
      /\ at < o.free[gen[p]]
      /\ \A r \in Row : pl.free[r] <= o.free[r]
  BY <1>1, OccupyPlaces
<1> HIDE DEF o
<1>5. \A q \in Person \ {p} : IsPlaced(o, q) <=> IsPlaced(pl, q)
  BY <1>4 DEF IsPlaced
<1>6. \A q \in Person \ {p} : IsPlaced(pl, q) => pl.x[q] \in Nat /\ pl.x[q] < pl.free[gen[q]]
                                  /\ pl.free[gen[q]] \in Nat /\ o.free[gen[q]] \in Nat
  BY <1>1, <1>4 DEF Behind, IsPlaced, Places
<1>7. Behind(o)
  BY <1>4, <1>5, <1>6 DEF Behind
<1>9. Separate(o)
  BY <1>1, <1>4, <1>5 DEF Separate, IsPlaced
<1> QED BY <1>4, <1>5, <1>7, <1>9 DEF SoundPlaces, o

LEMMA TreeParts ==
  ASSUME \E G \in SUBSET Group : tree \in TreeOf(G)
  PROVE  /\ Groups \subseteq Group /\ Groups \subseteq Nat /\ IsFiniteSet(Groups)
         /\ \A g \in Groups : Parents(g) \subseteq Person /\ Children(g) \subseteq Person
         /\ \A g \in Groups : IsFiniteSet(Parents(g))
         /\ \A p : Unions(p) \subseteq Groups /\ IsFiniteSet(Unions(p))
<1>1. PICK G \in SUBSET Group : tree \in TreeOf(G)
  OBVIOUS
<1>2. Groups = G /\ \A g \in Groups : Parents(g) \subseteq Person /\ Children(g) \subseteq Person
  BY <1>1 DEF TreeOf, Groups, Parents, Children
<1>3. Groups \subseteq Group /\ Groups \subseteq Nat /\ IsFiniteSet(Groups)
  BY <1>2, LayoutAssumption, FS_Subset
<1>4. \A p : Unions(p) \subseteq Groups
  BY DEF Unions
<1> QED BY <1>2, <1>3, <1>4, LayoutAssumption, FS_Subset

LEMMA TwoElements == ASSUME NEW a, NEW b, a # b PROVE Cardinality({a} \cup {b}) = 2
<1> DEFINE S == {a}
<1>1. IsFiniteSet(S) /\ Cardinality(S) = 1
  BY FS_Singleton
<1>2. b \notin S
  OBVIOUS
<1> HIDE DEF S
<1>3. Cardinality(S \cup {b}) = Cardinality(S) + 1
  BY <1>1, <1>2, FS_AddElement
<1> QED BY <1>1, <1>3 DEF S

LEMMA TwoUnions ==
  ASSUME \E G \in SUBSET Group : tree \in TreeOf(G),
         NEW p \in Person, NEW g \in Unions(p), NEW h \in Unions(p), g # h
  PROVE  Remarried(p)
<1>1. IsFiniteSet(Unions(p))
  BY TreeParts
<1>3. Cardinality({g} \cup {h}) = 2
  BY TwoElements
<1>4. Cardinality({g} \cup {h}) <= Cardinality(Unions(p))
  BY <1>1, FS_Subset
<1>5. Cardinality(Unions(p)) \in Nat
  BY <1>1, FS_CardinalityType
<1> QED BY <1>3, <1>4, <1>5 DEF Remarried

\* Placing the parents of a union keeps the places sound: one placed already
\* has another union, so a card that is moved to the left is that of a spouse
\* of somebody who married again (placeFG, 334-364).
LEMMA ParentsAreSound ==
  ASSUME \E G \in SUBSET Group : tree \in TreeOf(G),
         gen \in [Person -> Row], SoundPlaces(Here),
         NEW g \in Groups \ placed,
         \A p \in Person : x[p] # NoPlace =>
            Unions(p) \subseteq placed \/ \E h \in Unions(p) \cap placed : MetIn(p, h, stack),
         NEW pl \in ParentsPlaced(Here, g)
  PROVE  /\ SoundPlaces(pl)
         /\ \A p \in Person : IsPlaced(Here, p) => IsPlaced(pl, p)
         /\ \A p \in Person : IsPlaced(pl, p) => IsPlaced(Here, p) \/ p \in Parents(g)
<1>1. /\ Parents(g) \subseteq Person
      /\ Slot \subseteq Nat
  BY TreeParts, LayoutAssumption
<1>2. ASSUME NEW p \in Parents(g), IsPlaced(Here, p)
      PROVE  Remarried(p)
  <2>1. g \in Unions(p) /\ x[p] # NoPlace
    BY <1>2 DEF Unions, IsPlaced, Here
  <2>2. PICK h \in Unions(p) \cap placed : TRUE
    BY <2>1, <1>1
  <2> QED BY <2>1, <2>2, <1>1, TwoUnions
<1>3. CASE Cardinality(Parents(g)) >= 2
  <2>1. PICK pair \in OrderedParents(g), want \in Slot : pl = Couple(Here, pair[1], pair[2], want)
    BY <1>3 DEF ParentsPlaced
  <2> DEFINE l == pair[1]
             r == pair[2]
  <2>2. l \in Parents(g) /\ r \in Parents(g) /\ l # r
    BY DEF OrderedParents
  <2>3. l \in Person /\ r \in Person /\ want \in Nat /\ want + 1 \in Nat /\ pl = Couple(Here, l, r, want)
    BY <2>1, <2>2, <1>1
  <2> HIDE DEF l, r
  <2>4. CASE IsPlaced(Here, l) /\ IsPlaced(Here, r)
    BY <2>3, <2>4 DEF Couple
  <2>5. CASE IsPlaced(Here, l) /\ ~IsPlaced(Here, r)
    <3>1. x[l] + 1 \in Nat
      BY <2>5, <2>3 DEF SoundPlaces, Places, IsPlaced, Here
    <3>2. pl = PushPerson(Here, r, Here.x[l] + 1) /\ Here.x[l] = x[l]
      BY <2>3, <2>5 DEF Couple, Here
    <3> QED BY <3>1, <3>2, <2>2, <2>3, PushIsSound
  <2>6. CASE ~IsPlaced(Here, l) /\ IsPlaced(Here, r)
    <3>1. x[r] \in Nat
      BY <2>6, <2>3 DEF SoundPlaces, Places, IsPlaced, Here
    <3>2. Larger(x[r] - 1, 0) \in Nat
      BY <3>1 DEF Larger
    <3>3. pl = Occupy(Here, l, Larger(x[r] - 1, 0))
      BY <2>3, <2>6 DEF Couple, Here
    <3>4. SpouseOfRemarried(l)
      BY <1>2, <2>2, <2>6 DEF SpouseOfRemarried
    <3> QED BY <3>2, <3>3, <3>4, <2>2, <2>3, LeftOfSpouseIsSound
  <2>7. CASE ~IsPlaced(Here, l) /\ ~IsPlaced(Here, r)
    <3>1. pl = PushPerson(PushPerson(Here, l, want), r, want + 1)
      BY <2>3, <2>7 DEF Couple
    <3> DEFINE first == PushPerson(Here, l, want)
    <3>2. /\ SoundPlaces(first) /\ IsPlaced(first, l)
          /\ \A q \in Person \ {l} : IsPlaced(first, q) <=> IsPlaced(Here, q)
      BY <2>3, PushIsSound
    <3> HIDE DEF first
    <3>3. /\ SoundPlaces(PushPerson(first, r, want + 1)) /\ IsPlaced(PushPerson(first, r, want + 1), r)
          /\ \A q \in Person \ {r} : IsPlaced(PushPerson(first, r, want + 1), q) <=> IsPlaced(first, q)
      BY <2>3, <3>2, PushIsSound
    <3> QED BY <3>1, <3>2, <3>3, <2>2 DEF first
  <2> QED BY <2>4, <2>5, <2>6, <2>7
<1>4. CASE ~(Cardinality(Parents(g)) >= 2)
  <2>1. CASE \A p \in Parents(g) : IsPlaced(Here, p)
    BY <1>4, <2>1 DEF ParentsPlaced
  <2>2. CASE ~ \A p \in Parents(g) : IsPlaced(Here, p)
    <3>1. PICK p \in Parents(g), want \in Slot : pl = PushPerson(Here, p, want)
      BY <1>4, <2>2 DEF ParentsPlaced
    <3>2. p \in Person /\ want \in Nat
      BY <1>1
    <3>3. /\ SoundPlaces(pl) /\ IsPlaced(pl, p)
          /\ \A q \in Person \ {p} : IsPlaced(pl, q) <=> IsPlaced(Here, q)
      BY <3>1, <3>2, PushIsSound
    <3> QED BY <3>3
  <2> QED BY <2>1, <2>2
<1> QED BY <1>3, <1>4

LEMMA SameTree ==
  ASSUME tree' = tree
  PROVE  /\ Groups' = Groups /\ RootGroups' = RootGroups
         /\ \A g : Parents(g)' = Parents(g) /\ Children(g)' = Children(g)
         /\ \A p : /\ Unions(p)' = Unions(p)
                   /\ HasOrigin(p)' <=> HasOrigin(p)
                   /\ SpouseOfRemarried(p)' <=> SpouseOfRemarried(p)
<1>1. Groups' = Groups /\ \A g : Parents(g)' = Parents(g) /\ Children(g)' = Children(g)
  BY DEF Groups, Parents, Children
<1>2. \A p : Unions(p)' = Unions(p) /\ (HasOrigin(p)' <=> HasOrigin(p))
  BY <1>1 DEF Unions, HasOrigin
<1>3. \A p : Remarried(p)' <=> Remarried(p)
  BY <1>2 DEF Remarried
<1>4. \A p : SpouseOfRemarried(p)' <=> SpouseOfRemarried(p)
  BY <1>1, <1>3 DEF SpouseOfRemarried
<1>5. RootGroups' = RootGroups
  BY <1>1, <1>2 DEF RootGroups
<1> QED BY <1>1, <1>2, <1>4, <1>5

LEMMA SoundAfter ==
  ASSUME tree' = tree, gen' = gen, NEW pl, SoundPlaces(pl), Become(pl)
  PROVE  SoundPlaces(Here)'
<1>1. x' = pl.x /\ free' = pl.free
  BY DEF Become
<1>2. \A p : SpouseOfRemarried(p)' <=> SpouseOfRemarried(p)
  BY SameTree
<1>3. (Here \in Places)'
  BY <1>1 DEF SoundPlaces, Places, Here
<1>4. Behind(Here)'
  BY <1>1 DEF SoundPlaces, Behind, IsPlaced, Here
<1>5. Separate(Here)'
  BY <1>1, <1>2 DEF SoundPlaces, Separate, IsPlaced, Here
<1> QED BY <1>3, <1>4, <1>5 DEF SoundPlaces

LEMMA SoundStays ==
  ASSUME UNCHANGED <<tree, gen, x, free>>, SoundPlaces(Here)
  PROVE  SoundPlaces(Here)'
<1>1. Become(Here)
  BY DEF Become, Here
<1> QED BY <1>1, SoundAfter

Early == phase \in {"seed", "pull", "promote", "stuck"}

LEMMA InitLayout == Init => LayoutInv
<1> SUFFICES ASSUME Init PROVE LayoutInv
  OBVIOUS
<1> USE DEF Row
<1>1. PICK G \in SUBSET Group : tree \in TreeOf(G)
  BY LayoutAssumption DEF Init
<1>2. 0 \in Row /\ 0..MaxYear \subseteq Row
  BY FS_CardinalityType, LayoutAssumption
<1>3. \A p \in Person : tree.year[p] \in 0..MaxYear \cup {Unknown}
  BY <1>1 DEF TreeOf
<1>4. \A p \in Person : StartRow(tree, p) \in Row \cup {-1}
  BY <1>2, <1>3 DEF StartRow
<1>5. phase = "pull" => \A p \in Person : StartRow(tree, p) \in Row
  BY <1>2, <1>3 DEF StartRow, Init
<1>6. stack = <<>> /\ <<>> \in Seq(Frame) /\ DOMAIN stack = {}
  BY EmptySeq DEF Init
<1>7. TypeOK
  BY <1>1, <1>4, <1>5, <1>6 DEF Init, TypeOK
<1>8. CallsInv /\ UnplacedBefore /\ PlacesInv
  BY <1>6 DEF Init, CallsInv, UnplacedBefore, PlacesInv
<1>9. WalkInv
  BY DEF Init, WalkInv, RootsDone
<1> QED BY <1>7, <1>8, <1>9 DEF LayoutInv

\* The rows are found before anybody is placed (computeGenerations, 59-138).
LEMMA RowsStep ==
  ASSUME LayoutInv, Search \/ Searched \/ Pull \/ PulledAll \/ Promote \/ Stable
  PROVE  LayoutInv'
<1> USE DEF Row
<1>1. /\ Early /\ (Early \/ phase = "roots")'
      /\ UNCHANGED <<tree, Walk>>
      /\ \/ phase' \in {"seed", "stuck"} \/ gen' \in [Person -> Row]
      /\ gen' \in [Person -> Row \cup {-1}] /\ seed' \in [Person -> Row \cup {-1}]
  <2>0. /\ gen \in [Person -> Row \cup {-1}] /\ seed \in [Person -> Row \cup {-1}]
        /\ phase \in {"seed", "stuck"} \/ gen \in [Person -> Row]
    BY DEF LayoutInv, TypeOK
  <2>1. CASE Search
    BY <2>0, <2>1 DEF Search, Early
  <2>2. CASE Searched
    <3>1. 0 \in Row
      BY LayoutAssumption
    <3>2. \A p \in Person : Reached(p) \in Row
      BY <2>0, <3>1 DEF Reached
    <3>3. gen' \in [Person -> Row]
      BY <3>2, <2>2 DEF Searched
    <3> QED BY <3>3, <2>0, <2>2 DEF Searched, Early
  <2>3. CASE Pull
    <3>1. gen \in [Person -> Row]
      BY <2>0, <2>3 DEF Pull
    <3>2. gen' \in [Person -> Row]
      BY <3>1, <2>3 DEF Pull
    <3> QED BY <3>2, <2>0, <2>3 DEF Pull, Early
  <2>4. CASE PulledAll
    BY <2>0, <2>4 DEF PulledAll, Early
  <2>5. CASE Promote
    <3>1. gen \in [Person -> Row]
      BY <2>0, <2>5 DEF Promote
    <3>2. gen' \in [Person -> Row]
      BY <3>1, <2>5 DEF Promote
    <3> QED BY <3>2, <2>0, <2>5 DEF Promote, Early
  <2>6. CASE Stable
    BY <2>0, <2>6 DEF Stable, Early
  <2> QED BY <2>1, <2>2, <2>3, <2>4, <2>5, <2>6
<1>2. /\ stack = <<>> /\ placed = {} /\ x = [p \in Person |-> NoPlace]
      /\ x \in [Person -> Nat \cup {NoPlace}] /\ free \in [Row -> Nat]
      /\ \E G \in SUBSET Group : tree \in TreeOf(G)
  BY <1>1 DEF LayoutInv, CallsInv, UnplacedBefore, TypeOK, Early
<1>3. /\ stack' = <<>> /\ placed' = {} /\ x' = [p \in Person |-> NoPlace]
      /\ x' = x /\ free' = free /\ tree' = tree
  BY <1>1, <1>2 DEF Walk
<1>4. TypeOK'
  <2>1. <<>> \in Seq(Frame)
    BY EmptySeq
  <2> QED BY <1>1, <1>2, <1>3, <2>1 DEF TypeOK, Early
<1>5. CallsInv' /\ UnplacedBefore' /\ WalkInv'
  BY <1>1, <1>3 DEF CallsInv, UnplacedBefore, WalkInv, RootsDone, Early
<1>6. SoundPlaces(Here)'
  BY <1>2, <1>3 DEF SoundPlaces, Places, Behind, Separate, IsPlaced, Here
<1>7. PlacesInv'
  BY <1>1, <1>6 DEF PlacesInv, Early
<1> QED BY <1>4, <1>5, <1>7 DEF LayoutInv

\* While somebody is being placed.
LEMMA Walking ==
  ASSUME LayoutInv, phase \in {"roots", "persons"}
  PROVE  /\ \E G \in SUBSET Group : tree \in TreeOf(G)
         /\ gen \in [Person -> Row] /\ seed \in [Person -> Row \cup {-1}]
         /\ x \in [Person -> Nat \cup {NoPlace}] /\ free \in [Row -> Nat]
         /\ stack \in Seq(Frame) /\ DOMAIN stack = 1..Len(stack) /\ Len(stack) \in Nat
         /\ placed \subseteq Groups
         /\ SoundPlaces(Here)
<1>1. stack \in Seq(Frame)
  BY DEF LayoutInv, TypeOK
<1> QED BY <1>1, LenProperties DEF LayoutInv, TypeOK, WalkInv, PlacesInv, Row

\* placeFG begins a union: that of a root group, or of the person whose
\* unions are followed.
LEMMA PlaceFGKeeps ==
  ASSUME LayoutInv, phase \in {"roots", "persons"}, UNCHANGED <<tree, phase, gen, seed>>,
         NEW g \in Groups, PlaceFG(g, stack),
         \A p \in Parents(g) : MetIn(p, g, stack)
  PROVE  LayoutInv'
<1>1. /\ \E G \in SUBSET Group : tree \in TreeOf(G)
      /\ gen \in [Person -> Row] /\ seed \in [Person -> Row \cup {-1}]
      /\ stack \in Seq(Frame) /\ DOMAIN stack = 1..Len(stack) /\ Len(stack) \in Nat
      /\ placed \subseteq Groups /\ SoundPlaces(Here)
  BY Walking
<1>2. Groups \subseteq Group /\ Parents(g) \subseteq Person /\ Children(g) \subseteq Person /\ g # NoGroup
  BY <1>1, TreeParts DEF NoGroup
<1> DEFINE frame == [fg |-> g, todo |-> Children(g), child |-> Nobody]
<1>3. frame \in Frame /\ frame.fg = g /\ frame.todo = Children(g) /\ frame.child = {}
  BY <1>2 DEF Frame, Nobody
<1>4. g \notin placed /\ placed' = placed \cup {g} /\ stack' = Append(stack, frame)
  BY DEF PlaceFG
<1>5. PICK pl \in ParentsPlaced(Here, g) : Become(pl)
  BY DEF PlaceFG
<1> HIDE DEF frame
<1>6. /\ stack' \in Seq(Frame) /\ DOMAIN stack' = 1..(Len(stack) + 1)
      /\ \A i \in 1..Len(stack) : stack'[i] = stack[i]
      /\ stack'[Len(stack) + 1] = frame
  BY <1>1, <1>3, <1>4, PushedFrame
<1>7. /\ SoundPlaces(pl)
      /\ \A p \in Person : IsPlaced(Here, p) => IsPlaced(pl, p)
      /\ \A p \in Person : IsPlaced(pl, p) => IsPlaced(Here, p) \/ p \in Parents(g)
  <2>1. \A p \in Person : x[p] # NoPlace =>
            Unions(p) \subseteq placed \/ \E h \in Unions(p) \cap placed : MetIn(p, h, stack)
    BY DEF LayoutInv, WalkInv
  <2> QED BY <1>1, <1>4, <2>1, ParentsAreSound
<1>8. x' = pl.x /\ \A p \in Person : /\ x[p] # NoPlace => x'[p] # NoPlace
                                     /\ x'[p] # NoPlace => x[p] # NoPlace \/ p \in Parents(g)
  BY <1>5, <1>7 DEF Become, IsPlaced, Here
<1>9. SoundPlaces(Here)'
  BY <1>5, <1>7, SoundAfter
<1>10. TypeOK'
  <2>1. (Here \in Places)'
    BY <1>9 DEF SoundPlaces
  <2>2. x' \in [Person -> Nat \cup {NoPlace}] /\ free' \in [Row -> Nat]
    BY <2>1 DEF Places, Here, Row
  <2>3. placed' \subseteq Group
    BY <1>1, <1>2, <1>4
  <2>4. gen' \in [Person -> Row \cup {-1}] /\ gen' \in [Person -> Row]
    BY <1>1
  <2> QED BY <1>1, <1>6, <2>2, <2>3, <2>4 DEF TypeOK, Row
<1>11. CallsInv'
  <2>1. ASSUME NEW i \in DOMAIN stack'
        PROVE  /\ stack'[i].fg = NoGroup <=> phase = "persons" /\ i = 1
               /\ \A p, q \in stack'[i].child : p = q
    <3>1. CASE i \in 1..Len(stack)
      BY <1>1, <1>6, <3>1 DEF LayoutInv, CallsInv
    <3>2. CASE i = Len(stack) + 1
      <4>1. phase = "persons" => Len(stack) # 0
        BY <1>1, EmptySeq DEF LayoutInv, CallsInv
      <4> QED BY <1>1, <1>2, <1>3, <1>6, <3>2, <4>1
    <3> QED BY <1>1, <1>6, <3>1, <3>2
  <2>2. stack' # <<>>
    BY <1>1, <1>6, EmptySeq
  <2> QED BY <2>1, <2>2 DEF CallsInv
<1>12. \A p : Followed(stack, p) => Followed(stack', p)
  BY <1>1, <1>6 DEF Followed
<1>13. \A p : Awaited(stack, p) => Awaited(stack', p)
  BY <1>1, <1>6 DEF Awaited
<1>14. \A p \in Children(g) : Awaited(stack', p)
  BY <1>1, <1>3, <1>6 DEF Awaited
<1>15. /\ Groups' = Groups /\ RootGroups' = RootGroups
       /\ \A h : Parents(h)' = Parents(h) /\ Children(h)' = Children(h)
       /\ \A p : Unions(p)' = Unions(p) /\ (HasOrigin(p)' <=> HasOrigin(p))
  BY SameTree
<1>16. WalkInv'
  <2>1. ASSUME NEW p \in Person, x'[p] = NoPlace,
               (\E h \in placed' : p \in Children(h)) \/ (~HasOrigin(p) /\ RootsDone)
        PROVE  Awaited(stack', p)
    BY <1>4, <1>8, <1>13, <1>14, <2>1 DEF LayoutInv, WalkInv
  <2>2. ASSUME NEW p \in Person, x'[p] # NoPlace
        PROVE  Unions(p) \subseteq placed' \/
               \E h \in Unions(p) \cap placed' : HasOrigin(p) => Cardinality(Parents(h)) >= 2 \/ Followed(stack', p)
    <3>1. CASE p \in Parents(g)
      <4>1. g \in Unions(p) \cap placed' /\ MetIn(p, g, stack)
        BY <1>4, <3>1 DEF Unions
      <4> QED BY <1>12, <4>1 DEF MetIn
    <3>2. CASE p \notin Parents(g)
      <4>1. Unions(p) \subseteq placed \/ \E h \in Unions(p) \cap placed : MetIn(p, h, stack)
        BY <1>8, <2>2, <3>2 DEF LayoutInv, WalkInv
      <4> QED BY <1>4, <1>12, <4>1 DEF MetIn
    <3> QED BY <3>1, <3>2
  <2>3. placed' \subseteq Groups /\ (RootsDone => RootGroups \subseteq placed')
    BY <1>1, <1>4 DEF LayoutInv, WalkInv
  <2>4. RootsDone' <=> RootsDone
    BY DEF RootsDone
  <2> QED BY <1>15, <2>1, <2>2, <2>3, <2>4 DEF WalkInv, MetIn
<1>17. UnplacedBefore' /\ PlacesInv'
  BY <1>9 DEF UnplacedBefore, PlacesInv
<1> QED BY <1>10, <1>11, <1>16, <1>17 DEF LayoutInv

LEMMA PlaceRootKeeps == ASSUME LayoutInv, PlaceRoot PROVE LayoutInv'
<1>1. PICK g \in RootGroups : PlaceFG(g, <<>>)
  BY DEF PlaceRoot
<1>2. /\ phase = "roots" /\ stack = <<>> /\ UNCHANGED <<tree, phase, gen, seed>>
      /\ g \in Groups /\ \A p \in Parents(g) : ~HasOrigin(p)
  BY DEF PlaceRoot, RootGroups
<1>3. PlaceFG(g, stack) /\ \A p \in Parents(g) : MetIn(p, g, stack)
  BY <1>1, <1>2 DEF MetIn
<1> QED BY <1>2, <1>3, PlaceFGKeeps

LEMMA PlaceUnionKeeps == ASSUME LayoutInv, PlaceUnion PROVE LayoutInv'
<1>0. PICK c \in Top.child : \E g \in NextUnion(c) : PlaceFG(g, stack)
  BY DEF PlaceUnion
<1>1. PICK g \in NextUnion(c) : PlaceFG(g, stack)
  BY <1>0
<1>2. stack # <<>> /\ UNCHANGED <<tree, phase, gen, seed>>
  BY DEF PlaceUnion
<1>3. phase \in {"roots", "persons"}
  BY <1>2 DEF LayoutInv, CallsInv
<1>4. g \in Groups /\ c \in Parents(g)
  BY DEF NextUnion, Pending, Unions
<1>5. Followed(stack, c)
  BY <1>2, <1>3, Walking, LastFrame DEF Followed, Top
<1>6. ASSUME NEW p \in Parents(g)
      PROVE  MetIn(p, g, stack)
  <2>1. CASE p = c
    BY <1>5, <2>1 DEF MetIn
  <2>2. CASE p # c
    <3>1. IsFiniteSet(Parents(g))
      BY <1>3, <1>4, Walking, TreeParts
    <3>2. Cardinality({c} \cup {p}) = 2
      BY <2>2, TwoElements
    <3>3. {c} \cup {p} \subseteq Parents(g)
      BY <1>4
    <3>4. Cardinality({c} \cup {p}) <= Cardinality(Parents(g)) /\ Cardinality(Parents(g)) \in Nat
      BY <3>1, <3>3, FS_Subset, FS_CardinalityType
    <3> QED BY <3>2, <3>4 DEF MetIn
  <2> QED BY <2>1, <2>2
<1> QED BY <1>1, <1>2, <1>3, <1>4, <1>6, PlaceFGKeeps

LEMMA SmallestOf ==
  ASSUME NEW S \in SUBSET Nat, S # {}
  PROVE  \E m \in S : \A k \in S : m <= k
<1>1. PICK m \in S : \A k \in S : <<k, m>> \notin OpToRel(<, Nat)
  BY NatLessThanWellFounded, WFMin
<1>2. ASSUME NEW k \in S PROVE m <= k
  <2>1. m \in Nat /\ k \in Nat
    OBVIOUS
  <2>2. ~(k < m)
    BY <1>1, <2>1 DEF OpToRel
  <2> QED BY <2>1, <2>2
<1> QED BY <1>2

\* The loop over the unions of a person ends when each of them was followed.
LEMMA NoUnionLeft ==
  ASSUME \E G \in SUBSET Group : tree \in TreeOf(G), NEW p, NextUnion(p) = {}
  PROVE  Unions(p) \subseteq placed
<1> DEFINE left == Pending(Unions(p))
<1>1. left \in SUBSET Nat
  BY TreeParts DEF Pending
<1>2. left = {}
  BY <1>1, SmallestOf DEF NextUnion
<1> QED BY <1>2 DEF Pending

\* A step that gives the last call another turn.
LEMMA ContinueKeepsCalls ==
  ASSUME LayoutInv, UNCHANGED <<tree, phase, gen, seed, placed>>, SoundPlaces(Here)',
         stack # <<>>, NEW frame \in Frame, stack' = Continue(frame), frame.fg = Top.fg,
         \A p, q \in frame.child : p = q,
         \A p \in Person : x[p] # NoPlace => x'[p] # NoPlace,
         \A p \in Person : p \in Top.todo \cup Top.child =>
            x'[p] # NoPlace \/ p \in frame.todo \cup frame.child,
         \A p \in Person : p \in Top.child => p \in frame.child \/ Unions(p) \subseteq placed,
         \A p \in Person : x[p] = NoPlace /\ x'[p] # NoPlace => Unions(p) \subseteq placed
  PROVE  LayoutInv'
<1>0. phase \in {"roots", "persons"}
  BY DEF LayoutInv, CallsInv
<1>1. /\ \E G \in SUBSET Group : tree \in TreeOf(G)
      /\ gen \in [Person -> Row] /\ seed \in [Person -> Row \cup {-1}]
      /\ stack \in Seq(Frame) /\ DOMAIN stack = 1..Len(stack) /\ Len(stack) \in Nat \ {0}
      /\ placed \subseteq Groups
  BY <1>0, Walking, LastFrame
<1>2. /\ stack' \in Seq(Frame) /\ DOMAIN stack' = 1..Len(stack)
      /\ \A i \in 1..(Len(stack) - 1) : stack'[i] = stack[i]
      /\ stack'[Len(stack)] = frame
  <2>1. /\ Callers \in Seq(Frame) /\ Len(Callers) = Len(stack) - 1
        /\ \A i \in 1..(Len(stack) - 1) : Callers[i] = stack[i]
    BY <1>1, LastFrame
  <2> HIDE DEF Callers
  <2>2. /\ Append(Callers, frame) \in Seq(Frame)
        /\ DOMAIN Append(Callers, frame) = 1..(Len(Callers) + 1)
        /\ \A i \in 1..Len(Callers) : Append(Callers, frame)[i] = Callers[i]
        /\ Append(Callers, frame)[Len(Callers) + 1] = frame
    BY <2>1, PushedFrame
  <2>3. stack' = Append(Callers, frame)
    BY DEF Continue
  <2>4. Len(Callers) + 1 = Len(stack)
    BY <1>1, <2>1
  <2> QED BY <2>1, <2>2, <2>3, <2>4
<1>3. Top = stack[Len(stack)]
  BY DEF Top
<1>4. TypeOK'
  <2>1. x' \in [Person -> Nat \cup {NoPlace}] /\ free' \in [Row -> Nat]
    BY DEF SoundPlaces, Places, Here, Row
  <2>2. placed \subseteq Group
    BY <1>1, TreeParts
  <2> QED BY <1>1, <1>2, <2>1, <2>2, <1>0 DEF TypeOK, Row
<1>5. CallsInv'
  <2>1. ASSUME NEW i \in DOMAIN stack'
        PROVE  /\ stack'[i].fg = NoGroup <=> phase = "persons" /\ i = 1
               /\ \A p, q \in stack'[i].child : p = q
    <3>1. CASE i \in 1..(Len(stack) - 1)
      BY <1>1, <1>2, <3>1 DEF LayoutInv, CallsInv
    <3>2. CASE i = Len(stack)
      BY <1>1, <1>2, <1>3, <3>2 DEF LayoutInv, CallsInv
    <3> QED BY <1>1, <1>2, <3>1, <3>2
  <2>2. stack' # <<>>
    BY <1>1, <1>2, EmptySeq
  <2> QED BY <1>0, <2>1, <2>2 DEF CallsInv
<1>6. \A p \in Person : Followed(stack, p) => Followed(stack', p) \/ Unions(p) \subseteq placed
  <2> SUFFICES ASSUME NEW p \in Person, NEW i \in DOMAIN stack, p \in stack[i].child
               PROVE  Followed(stack', p) \/ Unions(p) \subseteq placed
    BY DEF Followed
  <2>1. CASE i \in 1..(Len(stack) - 1)
    BY <1>1, <1>2, <2>1 DEF Followed
  <2>2. CASE i = Len(stack)
    BY <1>1, <1>2, <1>3, <2>2 DEF Followed
  <2> QED BY <1>1, <2>1, <2>2
<1>7. \A p \in Person : Awaited(stack, p) => x'[p] # NoPlace \/ Awaited(stack', p)
  <2> SUFFICES ASSUME NEW p \in Person, NEW i \in DOMAIN stack, p \in stack[i].todo \cup stack[i].child
               PROVE  x'[p] # NoPlace \/ Awaited(stack', p)
    BY DEF Awaited
  <2>1. CASE i \in 1..(Len(stack) - 1)
    BY <1>1, <1>2, <2>1 DEF Awaited
  <2>2. CASE i = Len(stack)
    BY <1>1, <1>2, <1>3, <2>2 DEF Awaited
  <2> QED BY <1>1, <2>1, <2>2
<1>8. WalkInv'
  <2>1. ASSUME NEW p \in Person, x'[p] = NoPlace,
               (\E h \in placed : p \in Children(h)) \/ (~HasOrigin(p) /\ RootsDone)
        PROVE  Awaited(stack', p)
    BY <1>7, <2>1 DEF LayoutInv, WalkInv
  <2>2. ASSUME NEW p \in Person, x'[p] # NoPlace
        PROVE  Unions(p) \subseteq placed \/
               \E h \in Unions(p) \cap placed : HasOrigin(p) => Cardinality(Parents(h)) >= 2 \/ Followed(stack', p)
    <3>1. CASE x[p] = NoPlace
      BY <2>2, <3>1
    <3>2. CASE x[p] # NoPlace
      <4>1. Unions(p) \subseteq placed \/ \E h \in Unions(p) \cap placed : MetIn(p, h, stack)
        BY <3>2 DEF LayoutInv, WalkInv
      <4> QED BY <1>6, <4>1 DEF MetIn
    <3> QED BY <3>1, <3>2
  <2>3. placed \subseteq Groups /\ (RootsDone => RootGroups \subseteq placed)
    BY DEF LayoutInv, WalkInv
  <2>4. RootsDone' <=> RootsDone
    BY DEF RootsDone
  <2>5. /\ Groups' = Groups /\ RootGroups' = RootGroups
        /\ \A h : Parents(h)' = Parents(h) /\ Children(h)' = Children(h)
        /\ \A p : Unions(p)' = Unions(p) /\ (HasOrigin(p)' <=> HasOrigin(p))
    BY SameTree
  <2> QED BY <2>1, <2>2, <2>3, <2>4, <2>5 DEF WalkInv, MetIn
<1>9. UnplacedBefore' /\ PlacesInv'
  BY <1>0 DEF UnplacedBefore, PlacesInv
<1> QED BY <1>4, <1>5, <1>8, <1>9 DEF LayoutInv

\* Whose turn is next (381-384, 459-460).
LEMMA NextPersonKeeps == ASSUME LayoutInv, NextPerson PROVE LayoutInv'
<1>1. PICK p \in Top.todo :
        stack' = Continue([Top EXCEPT !.todo = @ \ {p},
                                      !.child = IF IsPlaced(Here, p) THEN Nobody ELSE {p}])
  BY DEF NextPerson
<1>2. UNCHANGED <<tree, phase, gen, seed, x, free, placed>> /\ stack # <<>> /\ Top.child = {}
  BY DEF NextPerson, Nobody
<1>3. phase \in {"roots", "persons"}
  BY <1>2 DEF LayoutInv, CallsInv
<1>4. Top \in Frame
  BY <1>2, <1>3, Walking, LastFrame
<1> DEFINE frame == [Top EXCEPT !.todo = @ \ {p},
                                !.child = IF IsPlaced(Here, p) THEN Nobody ELSE {p}]
<1>5. /\ frame \in Frame /\ frame.fg = Top.fg /\ frame.todo = Top.todo \ {p}
      /\ frame.child = IF x[p] = NoPlace THEN {p} ELSE {}
  BY <1>4 DEF Frame, IsPlaced, Here, Nobody
<1>6. stack' = Continue(frame)
  BY <1>1
<1> HIDE DEF frame
<1>7. SoundPlaces(Here)'
  BY <1>2, <1>3, Walking, SoundStays
<1> QED BY <1>2, <1>5, <1>6, <1>7, ContinueKeepsCalls

\* The end of a turn (392-394, 468-472).
LEMMA PlacePersonKeeps == ASSUME LayoutInv, PlacePerson PROVE LayoutInv'
<1>1. PICK p \in Top.child :
        /\ NextUnion(p) = {}
        /\ IF IsPlaced(Here, p) THEN UNCHANGED <<x, free>>
           ELSE \E want \in Slot : Become(PushPerson(Here, p, want))
  BY DEF PlacePerson
<1>2. /\ UNCHANGED <<tree, phase, gen, seed, placed>> /\ stack # <<>>
      /\ stack' = Continue([Top EXCEPT !.child = Nobody])
  BY DEF PlacePerson
<1>3. phase \in {"roots", "persons"}
  BY <1>2 DEF LayoutInv, CallsInv
<1>4. Top \in Frame /\ Len(stack) \in DOMAIN stack /\ Top = stack[Len(stack)]
  BY <1>2, <1>3, Walking, LastFrame DEF Top
<1>5. p \in Person /\ Top.child = {p}
  BY <1>4 DEF Frame, LayoutInv, CallsInv
<1>6. Unions(p) \subseteq placed
  BY <1>1, <1>3, Walking, NoUnionLeft
<1> DEFINE frame == [Top EXCEPT !.child = Nobody]
<1>7. frame \in Frame /\ frame.fg = Top.fg /\ frame.todo = Top.todo /\ frame.child = {}
  BY <1>4 DEF Frame, Nobody
<1>8. stack' = Continue(frame)
  BY <1>2
<1> HIDE DEF frame
<1>9. /\ SoundPlaces(Here)' /\ x'[p] # NoPlace
      /\ \A q \in Person \ {p} : x'[q] # NoPlace <=> x[q] # NoPlace
  <2>1. CASE IsPlaced(Here, p)
    <3>1. UNCHANGED <<tree, gen, x, free>> /\ x[p] # NoPlace
      BY <1>1, <1>2, <2>1 DEF IsPlaced, Here
    <3> QED BY <1>3, <3>1, Walking, SoundStays
  <2>2. CASE ~IsPlaced(Here, p)
    <3>1. PICK want \in Slot : Become(PushPerson(Here, p, want))
      BY <1>1, <2>2
    <3> DEFINE pl == PushPerson(Here, p, want)
    <3>2. /\ SoundPlaces(pl) /\ IsPlaced(pl, p)
          /\ \A q \in Person \ {p} : IsPlaced(pl, q) <=> IsPlaced(Here, q)
      BY <1>3, <1>5, Walking, PushIsSound, LayoutAssumption
    <3>3. Become(pl)
      BY <3>1
    <3> HIDE DEF pl
    <3>4. SoundPlaces(Here)'
      BY <1>2, <3>2, <3>3, SoundAfter
    <3> QED BY <3>2, <3>3, <3>4 DEF Become, IsPlaced, Here
  <2> QED BY <2>1, <2>2
<1> QED BY <1>2, <1>5, <1>6, <1>7, <1>8, <1>9, ContinueKeepsCalls

\* Every root group was begun; the loop over the root persons is next.
LEMMA RootsPlacedKeeps == ASSUME LayoutInv, RootsPlaced PROVE LayoutInv'
<1>1. /\ phase = "roots" /\ stack = <<>> /\ RootGroups \subseteq placed /\ phase' = "persons"
      /\ stack' = <<[fg |-> NoGroup, todo |-> RootPersons, child |-> Nobody]>>
      /\ UNCHANGED <<tree, gen, seed, x, free, placed>>
  BY DEF RootsPlaced
<1>2. /\ \E G \in SUBSET Group : tree \in TreeOf(G)
      /\ gen \in [Person -> Row] /\ seed \in [Person -> Row \cup {-1}]
      /\ x \in [Person -> Nat \cup {NoPlace}] /\ free \in [Row -> Nat]
      /\ placed \subseteq Groups
      /\ SoundPlaces(Here)
  BY <1>1, Walking
<1> DEFINE frame == [fg |-> NoGroup, todo |-> RootPersons, child |-> Nobody]
<1>3. /\ frame \in Frame /\ frame.fg = NoGroup /\ frame.child = {}
      /\ \A p \in Person : ~HasOrigin(p) => p \in frame.todo
  BY DEF Frame, RootPersons, Nobody
<1> HIDE DEF frame
<1>4. stack' = <<frame>>
  BY <1>1 DEF frame
<1>5. stack' \in Seq(Frame) /\ stack' # <<>> /\ DOMAIN stack' = {1} /\ stack'[1] = frame
  BY <1>3, <1>4
<1>6. TypeOK'
  <2>1. placed \subseteq Group
    BY <1>2, TreeParts
  <2> QED BY <1>1, <1>2, <1>5, <2>1 DEF TypeOK, Row
<1>7. CallsInv' /\ UnplacedBefore'
  BY <1>1, <1>3, <1>5 DEF CallsInv, UnplacedBefore
<1>8. PlacesInv'
  BY <1>1, <1>2, SoundStays DEF PlacesInv
<1>9. WalkInv'
  <2>1. \A p : ~Awaited(stack, p) /\ ~Followed(stack, p)
    BY <1>1 DEF Awaited, Followed
  <2>2. \A p \in Person : ~HasOrigin(p) => Awaited(stack', p)
    BY <1>3, <1>5 DEF Awaited
  <2>3. \A p \in Person : x[p] = NoPlace => \A h \in placed : p \notin Children(h)
    BY <2>1 DEF LayoutInv, WalkInv
  <2>4. \A p \in Person : x[p] # NoPlace => 
           Unions(p) \subseteq placed \/
           \E h \in Unions(p) \cap placed : HasOrigin(p) => Cardinality(Parents(h)) >= 2
    BY <2>1 DEF LayoutInv, WalkInv, MetIn
  <2>5. /\ Groups' = Groups /\ RootGroups' = RootGroups
        /\ \A h : Parents(h)' = Parents(h) /\ Children(h)' = Children(h)
        /\ \A p : Unions(p)' = Unions(p) /\ (HasOrigin(p)' <=> HasOrigin(p))
    BY <1>1, SameTree
  <2> QED BY <1>1, <1>2, <2>2, <2>3, <2>4, <2>5 DEF WalkInv, MetIn
<1> QED BY <1>6, <1>7, <1>8, <1>9 DEF LayoutInv

\* placeFG returns, or the loop over the root persons ends.
LEMMA ReturnKeeps == ASSUME LayoutInv, Return PROVE LayoutInv'
<1>1. /\ stack # <<>> /\ Top.child = {} /\ Top.todo = {} /\ stack' = Callers
      /\ phase' = (IF Top.fg = NoGroup THEN "laid" ELSE phase)
      /\ UNCHANGED <<tree, gen, seed, x, free, placed>>
  BY DEF Return, Nobody
<1>2. phase \in {"roots", "persons"}
  BY <1>1 DEF LayoutInv, CallsInv
<1>3. /\ \E G \in SUBSET Group : tree \in TreeOf(G)
      /\ gen \in [Person -> Row] /\ seed \in [Person -> Row \cup {-1}]
      /\ x \in [Person -> Nat \cup {NoPlace}] /\ free \in [Row -> Nat]
      /\ stack \in Seq(Frame) /\ DOMAIN stack = 1..Len(stack) /\ Len(stack) \in Nat \ {0}
      /\ placed \subseteq Groups /\ SoundPlaces(Here)
  BY <1>1, <1>2, Walking, LastFrame
<1>4. /\ stack' \in Seq(Frame) /\ Len(stack') = Len(stack) - 1
      /\ \A i \in 1..(Len(stack) - 1) : stack'[i] = stack[i]
  BY <1>1, <1>3, LastFrame
<1>5. DOMAIN stack' = 1..(Len(stack) - 1)
  BY <1>4, LenProperties
<1>6. Top = stack[Len(stack)]
  BY DEF Top
<1>7. Top.fg = NoGroup <=> phase = "persons" /\ Len(stack) = 1
  <2>1. Len(stack) \in DOMAIN stack
    BY <1>3
  <2>2. \A i \in DOMAIN stack : stack[i].fg = NoGroup <=> phase = "persons" /\ i = 1
    BY DEF LayoutInv, CallsInv
  <2> QED BY <1>6, <2>1, <2>2
<1>8. Len(stack) = 1 <=> stack' = <<>>
  BY SMTT(15), <1>3, <1>4, EmptySeq
<1>9. phase' \in {"roots", "persons", "laid"} /\ (phase' = "laid" <=> phase = "persons" /\ stack' = <<>>)
        /\ (phase' # "laid" => phase' = phase)
  BY <1>1, <1>2, <1>7, <1>8
<1>10. TypeOK'
  <2>1. placed \subseteq Group
    BY <1>3, TreeParts
  <2> QED BY <1>1, <1>3, <1>4, <1>9, <2>1 DEF TypeOK, Row
<1>11. CallsInv'
  <2>1. ASSUME NEW i \in DOMAIN stack'
        PROVE  /\ stack'[i].fg = NoGroup <=> phase' = "persons" /\ i = 1
               /\ \A p, q \in stack'[i].child : p = q
    <3>1. i \in DOMAIN stack /\ stack'[i] = stack[i] /\ Len(stack) # 1
      BY <1>3, <1>4, <1>5
    <3>2. phase' = phase
      BY <1>8, <1>9, <3>1
    <3> QED BY <3>1, <3>2 DEF LayoutInv, CallsInv
  <2>2. phase' = "persons" => stack' # <<>>
    BY <1>9
  <2>3. phase' = "laid" => stack' = <<>>
    BY <1>9
  <2> QED BY <1>9, <2>1, <2>2, <2>3 DEF CallsInv
<1>12. UnplacedBefore' /\ PlacesInv'
  BY <1>1, <1>3, <1>9, SoundStays DEF UnplacedBefore, PlacesInv
<1>13. \A p : (Awaited(stack, p) => Awaited(stack', p)) /\ (Followed(stack, p) => Followed(stack', p))
  <2>1. ASSUME NEW i \in DOMAIN stack, i # Len(stack)
        PROVE  i \in DOMAIN stack' /\ stack'[i] = stack[i]
    <3>1. i \in 1..Len(stack) /\ Len(stack) \in Nat
      BY <1>3
    <3>2. i \in 1..(Len(stack) - 1)
      BY <2>1, <3>1
    <3> QED BY <1>4, <1>5, <3>2
  <2> QED BY <1>1, <1>6, <2>1 DEF Awaited, Followed
<1>14. RootsDone' <=> RootsDone
  BY <1>2, <1>9 DEF RootsDone
<1>15. WalkInv'
  <2>1. /\ Groups' = Groups /\ RootGroups' = RootGroups
        /\ \A h : Parents(h)' = Parents(h) /\ Children(h)' = Children(h)
        /\ \A p : Unions(p)' = Unions(p) /\ (HasOrigin(p)' <=> HasOrigin(p))
    BY <1>1, SameTree
  <2>2. ASSUME NEW p \in Person, x[p] = NoPlace,
               (\E h \in placed : p \in Children(h)) \/ (~HasOrigin(p) /\ RootsDone)
        PROVE  Awaited(stack', p)
    BY <1>13, <2>2 DEF LayoutInv, WalkInv
  <2>3. ASSUME NEW p \in Person, x[p] # NoPlace
        PROVE  Unions(p) \subseteq placed \/
               \E h \in Unions(p) \cap placed : HasOrigin(p) => Cardinality(Parents(h)) >= 2 \/ Followed(stack', p)
    BY <1>13, <2>3 DEF LayoutInv, WalkInv, MetIn
  <2>4. placed \subseteq Groups /\ (RootsDone => RootGroups \subseteq placed)
    BY DEF LayoutInv, WalkInv
  <2> QED BY <1>1, <1>14, <2>1, <2>2, <2>3, <2>4 DEF WalkInv, MetIn
<1> QED BY <1>10, <1>11, <1>12, <1>15 DEF LayoutInv

\* A repack counts the persons of a row that come before: of two persons, the
\* later one counts the earlier as well (497-520).
LEMMA RepackedApart ==
  ASSUME gen \in [Person -> Row], x \in [Person -> Nat \cup {NoPlace}], NEW order \in Orders,
         NEW p \in Person, NEW q \in Person, x[p] # NoPlace, x[q] # NoPlace, gen[p] = gen[q],
         x[p] < x[q] \/ (x[p] = x[q] /\ order[p] < order[q])
  PROVE  Repacked(order, p) < Repacked(order, q)
<1> DEFINE before(r) == {s \in InRow(r) : x[s] < x[r] \/ (x[s] = x[r] /\ order[s] < order[r])}
<1>1. \A s \in Person : order[s] \in Nat
  BY FS_CardinalityType, LayoutAssumption DEF Orders
<1>2. InRow(p) = InRow(q) /\ p \in InRow(p) /\ InRow(p) \subseteq Person
  BY DEF InRow, IsPlaced, Here
<1>3. \A s \in InRow(p) : x[s] \in Nat /\ order[s] \in Nat
  BY <1>1, <1>2 DEF InRow, IsPlaced, Here
<1>4. q \in InRow(p)
  BY DEF InRow, IsPlaced, Here
<1>5. before(p) \subseteq before(q) /\ p \in before(q) /\ p \notin before(p)
  BY <1>2, <1>3, <1>4
<1>6. IsFiniteSet(before(q)) /\ IsFiniteSet(before(p))
  BY <1>2, FS_Subset, LayoutAssumption
<1>7. Cardinality(before(p)) < Cardinality(before(q))
  <2>1. before(p) \cup {p} \subseteq before(q)
    BY <1>5
  <2>2. Cardinality(before(p) \cup {p}) = Cardinality(before(p)) + 1
    BY <1>5, <1>6, FS_AddElement
  <2>3. Cardinality(before(p) \cup {p}) <= Cardinality(before(q))
    BY <1>6, <2>1, FS_Subset
  <2>4. Cardinality(before(p)) \in Nat /\ Cardinality(before(q)) \in Nat
    BY <1>6, FS_CardinalityType
  <2> QED BY <2>2, <2>3, <2>4
<1> HIDE DEF before
<1>8. Repacked(order, p) = Cardinality(before(p)) /\ Repacked(order, q) = Cardinality(before(q))
  BY DEF Repacked, IsPlaced, Here, before
<1> QED BY <1>7, <1>8

LEMMA CompactKeeps == ASSUME LayoutInv, Compact PROVE LayoutInv'
<1>1. PICK order \in Orders : x' = [p \in Person |-> Repacked(order, p)]
  BY DEF Compact
<1>2. phase = "laid" /\ phase' = "compact" /\ UNCHANGED <<tree, gen, seed, free, placed, stack>>
  BY DEF Compact
<1>3. gen \in [Person -> Row] /\ x \in [Person -> Nat \cup {NoPlace}] /\ stack = <<>>
  BY <1>2 DEF LayoutInv, TypeOK, CallsInv, Row
<1>4. \A s \in Person : order[s] \in Nat
  BY FS_CardinalityType, LayoutAssumption DEF Orders
<1>5. \A p \in Person : IF x[p] = NoPlace THEN x'[p] = NoPlace ELSE x'[p] \in Nat
  <2> SUFFICES ASSUME NEW p \in Person
               PROVE IF x[p] = NoPlace THEN Repacked(order, p) = NoPlace ELSE Repacked(order, p) \in Nat
    BY <1>1
  <2> DEFINE before == {s \in InRow(p) : x[s] < x[p] \/ (x[s] = x[p] /\ order[s] < order[p])}
  <2>1. before \subseteq Person
    BY DEF InRow
  <2>2. Cardinality(before) \in Nat
    BY <2>1, FS_Subset, FS_CardinalityType, LayoutAssumption
  <2> HIDE DEF before
  <2>3. Repacked(order, p) = IF x[p] # NoPlace THEN Cardinality(before) ELSE NoPlace
    BY DEF Repacked, IsPlaced, Here, before
  <2> QED BY <2>2, <2>3
<1>6. \A p \in Person : x'[p] = NoPlace <=> x[p] = NoPlace
  BY <1>5 DEF NoPlace
<1>7. x' \in [Person -> Nat \cup {NoPlace}]
  BY <1>1, <1>5
<1>8. PlacesInv'
  <2> SUFFICES ASSUME NEW p \in Person, NEW q \in Person, p # q, x'[p] # NoPlace, gen[p] = gen[q]
               PROVE  x'[p] # x'[q]
    BY <1>2 DEF PlacesInv
  <2>1. CASE x'[q] = NoPlace
    BY <2>1
  <2>2. CASE x'[q] # NoPlace
    <3>1. x[p] \in Nat /\ x[q] \in Nat /\ x[p] # NoPlace /\ x[q] # NoPlace
      BY <1>3, <1>6, <2>2
    <3>2. order[p] \in Nat /\ order[q] \in Nat /\ order[p] # order[q]
      BY <1>4 DEF Orders
    <3>3. \/ x[p] < x[q] \/ (x[p] = x[q] /\ order[p] < order[q])
          \/ x[q] < x[p] \/ (x[q] = x[p] /\ order[q] < order[p])
      BY <3>1, <3>2
    <3>4. Repacked(order, p) < Repacked(order, q) \/ Repacked(order, q) < Repacked(order, p)
      BY <1>3, <3>1, <3>3, RepackedApart
    <3>5. x'[p] = Repacked(order, p) /\ x'[q] = Repacked(order, q) /\ x'[p] \in Nat /\ x'[q] \in Nat
      BY <1>1, <1>5, <3>1
    <3> QED BY <3>4, <3>5
  <2> QED BY <2>1, <2>2
<1>9. TypeOK' /\ CallsInv' /\ UnplacedBefore'
  <2>1. gen' \in [Person -> Row]
    BY <1>2, <1>3
  <2> QED BY <1>2, <1>3, <1>7, <2>1 DEF LayoutInv, TypeOK, CallsInv, UnplacedBefore
<1>10. WalkInv'
  <2>1. /\ Groups' = Groups /\ RootGroups' = RootGroups
        /\ \A h : Parents(h)' = Parents(h) /\ Children(h)' = Children(h)
        /\ \A p : Unions(p)' = Unions(p) /\ (HasOrigin(p)' <=> HasOrigin(p))
    BY <1>2, SameTree
  <2>2. stack' = stack /\ placed' = placed /\ (RootsDone' <=> RootsDone)
    BY <1>2 DEF RootsDone
  <2>3. \A p \in Person :
          x'[p] = NoPlace /\ ((\E h \in placed : p \in Children(h)) \/ (~HasOrigin(p) /\ RootsDone))
            => Awaited(stack, p)
    BY <1>6 DEF LayoutInv, WalkInv
  <2>4. \A p \in Person : x'[p] # NoPlace =>
          Unions(p) \subseteq placed \/
          \E h \in Unions(p) \cap placed : HasOrigin(p) => Cardinality(Parents(h)) >= 2 \/ Followed(stack, p)
    BY <1>6 DEF LayoutInv, WalkInv, MetIn
  <2> QED BY <2>1, <2>2, <2>3, <2>4 DEF LayoutInv, WalkInv, MetIn
<1> QED BY <1>8, <1>9, <1>10 DEF LayoutInv

LEMMA LayoutStep == LayoutInv /\ [Next]_vars => LayoutInv'
<1> SUFFICES ASSUME LayoutInv, [Next]_vars PROVE LayoutInv'
  OBVIOUS
<1>1. CASE UNCHANGED vars
  <2>1. /\ Groups' = Groups /\ RootGroups' = RootGroups
        /\ \A h : Parents(h)' = Parents(h) /\ Children(h)' = Children(h)
        /\ \A p : Unions(p)' = Unions(p) /\ (HasOrigin(p)' <=> HasOrigin(p))
    BY <1>1, SameTree DEF vars
  <2>2. TypeOK' /\ CallsInv' /\ UnplacedBefore'
    BY <1>1 DEF vars, LayoutInv, TypeOK, CallsInv, UnplacedBefore
  <2>3. WalkInv'
    BY <1>1, <2>1 DEF vars, LayoutInv, WalkInv, MetIn, RootsDone
  <2>4. PlacesInv'
    BY <1>1, SoundStays DEF vars, LayoutInv, PlacesInv
  <2> QED BY <2>2, <2>3, <2>4 DEF LayoutInv
<1> QED BY <1>1, RowsStep, PlaceRootKeeps, RootsPlacedKeeps, NextPersonKeeps, PlaceUnionKeeps,
           PlacePersonKeeps, ReturnKeeps, CompactKeeps DEF Next

LEMMA LayoutAlways == Spec => []LayoutInv
BY InitLayout, LayoutStep, PTL DEF Spec

\* TypeOK: every row, place and cursor is one, and the calls are on groups of
\* the graph.
THEOREM TypeCorrect == Spec => []TypeOK
<1>1. LayoutInv => TypeOK
  BY DEF LayoutInv
<1> QED BY <1>1, LayoutAlways, PTL

\* PlacementIsSound: the layout leaves somebody out only behind a union that it
\* did not follow, and puts two cards on one place only next to a person that
\* married again; a repack leaves no two of them.
THEOREM PlacesAreSound == Spec => []PlacementIsSound
<1>1. LayoutInv => LeftOutBehindRemarriage
  <2> SUFFICES ASSUME LayoutInv, Laid PROVE LeftOutBehindRemarriage
    BY DEF LeftOutBehindRemarriage
  <2>1. stack = <<>> /\ RootsDone
    BY DEF Laid, LayoutInv, CallsInv, RootsDone
  <2>2. \A p : ~Awaited(stack, p) /\ ~Followed(stack, p)
    BY <2>1 DEF Awaited, Followed
  <2>3. \A p \in Person : x[p] = NoPlace => HasOrigin(p) /\ \A g \in placed : p \notin Children(g)
    BY <2>1, <2>2 DEF LayoutInv, WalkInv
  <2>4. ASSUME NEW g \in Groups \ placed, NEW p \in Parents(g), x[p] # NoPlace
        PROVE  \E h \in Unions(p) \cap placed : HasOrigin(p) => Cardinality(Parents(h)) >= 2
    <3>1. p \in Person /\ g \in Unions(p)
      BY TreeParts DEF LayoutInv, TypeOK, Unions
    <3> QED BY <2>2, <2>4, <3>1 DEF LayoutInv, WalkInv, MetIn
  <2> QED BY <2>1, <2>3, <2>4 DEF LeftOutBehindRemarriage, LayoutInv, WalkInv
<1>2. LayoutInv => OverlapsAreSpouses
  <2> SUFFICES ASSUME LayoutInv, NEW p \in Person, NEW q \in Person,
                      p # q, x[p] # NoPlace, gen[p] = gen[q], x[p] = x[q]
               PROVE  /\ phase # "compact"
                      /\ \E g \in Groups : \E s \in Parents(g) :
                           Remarried(s) /\ (Parents(g) \ {s}) \cap {p, q} # {}
    BY DEF OverlapsAreSpouses
  <2>1. phase # "compact"
    BY DEF LayoutInv, PlacesInv
  <2>2. phase \in {"roots", "persons", "laid"}
    BY <2>1 DEF LayoutInv, TypeOK, UnplacedBefore
  <2>3. SpouseOfRemarried(p) \/ SpouseOfRemarried(q)
    BY <2>1, <2>2 DEF LayoutInv, PlacesInv, SoundPlaces, Separate, IsPlaced, Here
  <2> QED BY <2>1, <2>3 DEF SpouseOfRemarried
<1> QED BY <1>1, <1>2, LayoutAlways, PTL DEF PlacementIsSound

----------------------------------------------------------------------------
\* That the layout ends is left to TLC, but that none of its loops goes round
\* without getting anywhere is proved.

Seeding == {"seed", "pull", "promote"}

LaterPhase ==
  {<<"seed", "promote">>, <<"pull", "promote">>, <<"promote", "roots">>, <<"roots", "persons">>,
   <<"persons", "laid">>, <<"laid", "compact">>} \cup {<<"seed", "stuck">>, <<"promote", "stuck">>}

\* Some row goes down the page, none goes up.
RowsFall == phase \in Seeding /\ (\A p \in Person : gen[p] <= gen'[p]) /\ \E p \in Person : gen[p] < gen'[p]

\* A call returns, has somebody less to place, or is done with one.
CallsWindUp ==
  \/ Len(stack') < Len(stack)
  \/ /\ Len(stack') = Len(stack) /\ stack # <<>>
     /\ \/ Top'.todo \subseteq Top.todo /\ Top'.todo # Top.todo
        \/ Top'.todo = Top.todo /\ Top.child # Nobody /\ Top'.child = Nobody

\* The measure of the layout: its phase, then the rows, which MaxRow bounds, the
\* groups not placed yet, the calls under way, and the persons left in the last
\* of them.
Descends ==
  \/ <<phase, phase'>> \in LaterPhase
  \/ phase' = phase /\ RowsFall
  \/ phase' = phase /\ gen' = gen /\ placed \subseteq placed' /\ placed' # placed
  \/ phase' = phase /\ gen' = gen /\ placed' = placed /\ CallsWindUp

LoopsDescend == [][Descends]_vars

LEMMA RowsDescend ==
  ASSUME LayoutInv, Search \/ Searched \/ Pull \/ PulledAll \/ Promote \/ Stable
  PROVE  Descends
<1>0. gen \in [Person -> Row \cup {-1}] /\ (phase \in Seeding \ {"seed"} => gen \in [Person -> Row])
  BY DEF LayoutInv, TypeOK, Seeding
<1>r. \A r \in Row \cup {-1} : r \in Int
  BY LayoutAssumption DEF Row
<1>i. \A p \in Person : gen[p] \in Int
  BY <1>0, <1>r
<1>p. \A g \in Groups : Parents(g) \subseteq Person /\ Children(g) \subseteq Person
  BY TreeParts DEF LayoutInv, TypeOK
<1>1. CASE Search
  <2>0. PICK g \in Groups : \E p \in Parents(g), c \in Children(g) :
          /\ Below(g, p, c)
          /\ IF gen[p] + 1 \in Row THEN gen' = [gen EXCEPT ![c] = gen[p] + 1] /\ UNCHANGED phase
             ELSE phase' = "stuck" /\ UNCHANGED gen
    BY <1>1 DEF Search
  <2>1. PICK p \in Parents(g), c \in Children(g) :
          /\ Below(g, p, c)
          /\ IF gen[p] + 1 \in Row THEN gen' = [gen EXCEPT ![c] = gen[p] + 1] /\ UNCHANGED phase
             ELSE phase' = "stuck" /\ UNCHANGED gen
    BY <2>0
  <2>2. CASE gen[p] + 1 \in Row
    <3>1. c \in Person /\ gen[c] < gen[p] + 1 /\ phase = "seed"
      BY <1>p, <1>1, <2>1 DEF Search, Below
    <3>2. gen' = [gen EXCEPT ![c] = gen[p] + 1] /\ phase' = phase
      BY <2>1, <2>2
    <3>3. gen'[c] = gen[p] + 1 /\ \A q \in Person : q # c => gen'[q] = gen[q]
      BY <1>0, <3>1, <3>2
    <3>4. gen[c] < gen'[c] /\ \A q \in Person : gen[q] <= gen'[q]
      <4>1. gen[c] < gen'[c]
        BY <3>1, <3>3
      <4>2. ASSUME NEW q \in Person PROVE gen[q] <= gen'[q]
        <5>1. CASE q = c
          <6>1. gen[c] \in Int /\ gen[p] \in Int
            BY <1>i, <1>p, <3>1
          <6> QED BY <3>1, <3>3, <5>1, <6>1
        <5>2. CASE q # c
          <6>1. gen[q] \in Int /\ gen'[q] = gen[q]
            BY <1>i, <3>3, <5>2
          <6> QED BY <6>1
        <5> QED BY <5>1, <5>2
      <4> QED BY <4>1, <4>2
    <3>5. RowsFall
      BY <3>1, <3>4 DEF RowsFall, Seeding
    <3> QED BY <3>2, <3>5 DEF Descends
  <2>3. CASE gen[p] + 1 \notin Row
    BY <1>1, <2>1, <2>3 DEF Search, Descends, LaterPhase
  <2> QED BY <2>2, <2>3
<1>2. CASE Searched \/ PulledAll \/ Stable
  BY <1>2 DEF Searched, PulledAll, Stable, Descends, LaterPhase
<1>3. CASE Pull
  <2>1. PICK g \in Groups, r \in Row \ {0} :
          /\ Pulled(g, r) # {}
          /\ gen' = [p \in Person |-> IF p \in Pulled(g, r) THEN r ELSE gen[p]]
    BY <1>3 DEF Pull
  <2>2. phase' = phase /\ phase = "pull"
    BY <1>3 DEF Pull
  <2>3. \A p \in Person : gen[p] \in Int /\ r \in Int
    BY <1>i, <1>r
  <2>4. PICK p \in Person : p \in Pulled(g, r)
    BY <1>p, <2>1 DEF Pulled
  <2>5. RowsFall
    BY <2>1, <2>2, <2>3, <2>4 DEF RowsFall, Pulled, Seeding
  <2> QED BY <2>2, <2>5 DEF Descends
<1>4. CASE Promote
  <2>1. PICK g \in Groups, r \in Row :
          /\ IsLastRow(g, r) /\ Moves(g, r)
          /\ IF \A p \in Person : Promoted(g, r, p) \in Row
               THEN gen' = [p \in Person |-> Promoted(g, r, p)] /\ UNCHANGED phase
               ELSE phase' = "stuck" /\ UNCHANGED gen
    BY <1>4 DEF Promote
  <2>2. phase = "promote" /\ gen \in [Person -> Row]
    BY <1>0, <1>4 DEF Promote, Seeding
  <2>3. CASE phase' = "stuck"
    BY <2>2, <2>3 DEF Descends, LaterPhase
  <2>4. CASE phase' # "stuck"
    <3>1. gen' = [p \in Person |-> Promoted(g, r, p)] /\ phase' = phase
      BY <2>1, <2>4
    <3>2. ASSUME NEW p \in Person
          PROVE  Promoted(g, r, p) \in Int /\ gen[p] \in Int /\ gen[p] <= Promoted(g, r, p)
      <4>1. gen[p] \in Int /\ r \in Int
        BY <1>i, <1>r
      <4>2. p \in Parents(g) => gen[p] <= r
        BY <2>1 DEF IsLastRow
      <4> QED BY <4>1, <4>2 DEF Promoted
    <3>3. PICK p \in Person : Promoted(g, r, p) # gen[p]
      BY <2>1 DEF Moves
    <3>4. gen[p] < gen'[p] /\ \A q \in Person : gen[q] <= gen'[q]
      <4>1. \A q \in Person : gen'[q] = Promoted(g, r, q)
        BY <3>1
      <4> HIDE DEF Promoted
      <4> QED BY <3>2, <3>3, <4>1
    <3>5. RowsFall
      BY <2>2, <3>4 DEF RowsFall, Seeding
    <3> QED BY <3>1, <3>5 DEF Descends
  <2> QED BY <2>3, <2>4
<1> QED BY <1>1, <1>2, <1>3, <1>4

LEMMA CallsDescend ==
  ASSUME LayoutInv, NextPerson \/ PlacePerson \/ Return
  PROVE  Descends
<1>1. stack # <<>> /\ gen' = gen /\ placed' = placed
  BY DEF NextPerson, PlacePerson, Return
<1>2. stack \in Seq(Frame)
  BY DEF LayoutInv, TypeOK
<1>3. /\ Len(stack) \in Nat \ {0} /\ Top \in Frame
      /\ Callers \in Seq(Frame) /\ Len(Callers) = Len(stack) - 1
  BY <1>1, <1>2, LastFrame
<1>4. ASSUME NEW frame \in Frame, stack' = Continue(frame)
      PROVE  Len(stack') = Len(stack) /\ Top' = frame
  <2>1. Len(Append(Callers, frame)) = Len(Callers) + 1 /\ Append(Callers, frame)[Len(Callers) + 1] = frame
    BY <1>3, PushedFrame, AppendProperties
  <2> HIDE DEF Callers
  <2> QED BY <1>3, <1>4, <2>1 DEF Continue, Top
<1>5. CASE NextPerson
  <2>1. PICK p \in Top.todo :
          stack' = Continue([Top EXCEPT !.todo = @ \ {p},
                                        !.child = IF IsPlaced(Here, p) THEN Nobody ELSE {p}])
    BY <1>5 DEF NextPerson
  <2> DEFINE frame == [Top EXCEPT !.todo = @ \ {p},
                                  !.child = IF IsPlaced(Here, p) THEN Nobody ELSE {p}]
  <2>2. frame \in Frame /\ frame.todo = Top.todo \ {p}
    BY <1>3 DEF Frame, Nobody
  <2>3. stack' = Continue(frame)
    BY <2>1
  <2> HIDE DEF frame
  <2>4. Len(stack') = Len(stack) /\ Top' = frame
    BY <1>4, <2>2, <2>3
  <2>5. CallsWindUp
    BY <1>1, <2>2, <2>4 DEF CallsWindUp
  <2> QED BY <1>1, <1>5, <2>5 DEF NextPerson, Descends
<1>6. CASE PlacePerson
  <2> DEFINE frame == [Top EXCEPT !.child = Nobody]
  <2>1. frame \in Frame /\ frame.todo = Top.todo /\ frame.child = Nobody
    BY <1>3 DEF Frame, Nobody
  <2>2. stack' = Continue(frame) /\ Top.child # Nobody
    BY <1>6 DEF PlacePerson, Nobody
  <2> HIDE DEF frame
  <2>3. Len(stack') = Len(stack) /\ Top' = frame
    BY <1>4, <2>1, <2>2
  <2>4. CallsWindUp
    BY <1>1, <2>1, <2>2, <2>3 DEF CallsWindUp
  <2> QED BY <1>1, <1>6, <2>4 DEF PlacePerson, Descends
<1>7. CASE Return
  <2>1. Len(stack') < Len(stack)
    BY <1>3, <1>7 DEF Return
  <2>2. CASE phase' = phase
    BY <1>1, <2>1, <2>2 DEF Descends, CallsWindUp
  <2>3. CASE phase' # phase
    <3>1. Top.fg = NoGroup /\ phase' = "laid"
      BY <1>7, <2>3 DEF Return
    <3>2. Len(stack) \in DOMAIN stack
      BY <1>1, <1>2, LastFrame
    <3>3. phase = "persons"
      BY <3>1, <3>2 DEF LayoutInv, CallsInv, Top
    <3> QED BY <3>1, <3>3 DEF Descends, LaterPhase
  <2> QED BY <2>2, <2>3
<1> QED BY <1>5, <1>6, <1>7

\* Every step of the layout, on every graph and in whatever order groups and
\* persons are taken, makes progress in a measure that has no infinite descent:
\* it enters a later phase, or rows grow towards MaxRow and none shrinks, or a
\* group is placed that was not, or the calls under way come nearer their end.
\* So it is the rows of a circle alone that could go on for ever.
THEOREM EveryStepProgresses == Spec => LoopsDescend
<1>1. ASSUME LayoutInv, Next PROVE Descends
  <2>1. ASSUME PlaceRoot \/ PlaceUnion PROVE Descends
    <3>1. \E g, calls : PlaceFG(g, calls)
      BY <2>1 DEF PlaceRoot, PlaceUnion
    <3>2. placed \subseteq placed' /\ placed' # placed
      BY <3>1 DEF PlaceFG
    <3> QED BY <2>1, <3>2 DEF PlaceRoot, PlaceUnion, Descends
  <2>2. ASSUME RootsPlaced \/ Compact PROVE Descends
    BY <2>2 DEF RootsPlaced, Compact, Descends, LaterPhase
  <2> QED BY <1>1, <2>1, <2>2, RowsDescend, CallsDescend DEF Next
<1>2. LayoutInv /\ [Next]_vars => [Descends]_vars
  BY <1>1
<1> QED BY <1>2, LayoutAlways, PTL DEF Spec, LoopsDescend

----------------------------------------------------------------------------
\* Where the loops over the rows come to.

\* The layout gives up only on a graph that no rows fit, and where it goes on to
\* places, couples share a row and children are below their parents.
RowsFit ==
  /\ phase = "stuck" => ~CanBeLayered(tree)
  /\ phase \in {"roots", "persons", "laid", "compact"} => IsLayering(gen)

\* r is one of the layerings CanBeLayered asks for.
Fits(r) ==
  /\ r \in [Person -> 0..(Cardinality(Person) - 1)]
  /\ \A g \in Groups :
       /\ \A p, q \in Parents(g) : r[p] = r[q]
       /\ \A p \in Parents(g), c \in Children(g) : r[p] < r[c]

\* Seeding from the roots stays above every layering, seeding from birth years
\* above the last year, and promotion above a layering moved below both.
BelowNoLayering ==
  /\ phase = "pull" => \A p \in Person : gen[p] <= MaxYear
  /\ \A r : Fits(r) =>
       /\ phase = "seed" => \A p \in Person : gen[p] <= r[p]
       /\ phase = "promote" => \A p \in Person : gen[p] <= r[p] + MaxYear + 1
       /\ phase # "stuck"

GivenRows == phase \in {"roots", "persons", "laid", "compact"} => IsLayering(gen)

LEMMA PersonCount == Cardinality(Person) \in Nat
BY LayoutAssumption, FS_CardinalityType

\* A layering moved down by the rows of the birth years is one in Row.
LEMMA MovedDown ==
  ASSUME \E G \in SUBSET Group : tree \in TreeOf(G), NEW r, Fits(r)
  PROVE  LET d == [p \in Person |-> r[p] + MaxYear + 1]
         IN  d \in [Person -> Row] /\ IsLayering(d)
<1> DEFINE d == [p \in Person |-> r[p] + MaxYear + 1]
<1>1. \A p \in Person : r[p] \in Nat /\ r[p] <= Cardinality(Person) - 1
  BY PersonCount DEF Fits
<1>2. \A p \in Person : d[p] = r[p] + MaxYear + 1
  OBVIOUS
<1>3. d \in [Person -> Row]
  <2>1. ASSUME NEW p \in Person PROVE r[p] + MaxYear + 1 \in Row
    <3>1. r[p] \in Nat /\ r[p] <= Cardinality(Person) - 1
      BY <1>1
    <3> QED BY <3>1, PersonCount, LayoutAssumption DEF Row
  <2> QED BY <2>1
<1> HIDE DEF d
<1>4. IsLayering(d)
  <2>1. ASSUME NEW g \in Groups
        PROVE  /\ \A p, q \in Parents(g) : d[p] = d[q]
               /\ \A p \in Parents(g), c \in Children(g) : d[p] < d[c]
               /\ \A c \in Children(g) : 0 < d[c]
    <3>1. Parents(g) \subseteq Person /\ Children(g) \subseteq Person
      BY TreeParts
    <3>2. \A p, q \in Parents(g) : d[p] = d[q]
      BY <1>2, <3>1 DEF Fits
    <3>3. ASSUME NEW p \in Parents(g), NEW c \in Children(g) PROVE d[p] < d[c]
      <4>1. r[p] < r[c]
        BY DEF Fits
      <4>2. r[p] \in Nat /\ r[c] \in Nat /\ d[p] = r[p] + MaxYear + 1 /\ d[c] = r[c] + MaxYear + 1
        BY <1>1, <1>2, <3>1
      <4> QED BY <4>1, <4>2, LayoutAssumption
    <3>4. ASSUME NEW c \in Children(g) PROVE 0 < d[c]
      <4>1. r[c] \in Nat /\ d[c] = r[c] + MaxYear + 1
        BY <1>1, <1>2, <3>1
      <4> QED BY <4>1, LayoutAssumption
    <3> QED BY <3>2, <3>3, <3>4
  <2> QED BY <2>1 DEF IsLayering
<1> QED BY <1>3, <1>4 DEF d

LEMMA InitFits == Init => BelowNoLayering /\ GivenRows
<1> SUFFICES ASSUME Init PROVE BelowNoLayering /\ GivenRows
  OBVIOUS
<1>1. PICK G \in SUBSET Group : tree \in TreeOf(G)
  BY LayoutAssumption DEF Init
<1>2. phase \in {"pull", "seed"} /\ (phase = "pull" <=> tree.aligned)
  BY <1>1 DEF Init, TreeOf
<1>3. \A p \in Person : gen[p] = StartRow(tree, p)
  BY DEF Init
<1>4. ASSUME NEW p \in Person, phase = "pull" PROVE gen[p] <= MaxYear
  <2>1. tree.year[p] \in 0..MaxYear \cup {Unknown}
    BY <1>1 DEF TreeOf
  <2> QED BY <1>2, <1>3, <1>4, <2>1, LayoutAssumption DEF StartRow
<1>5. ASSUME NEW r, Fits(r), NEW p \in Person, phase = "seed" PROVE gen[p] <= r[p]
  <2>1. r[p] \in Nat
    BY <1>5, PersonCount DEF Fits
  <2>2. gen[p] \in {0, -1}
    BY <1>2, <1>3, <1>5 DEF StartRow
  <2> QED BY <2>1, <2>2
<1> QED BY <1>2, <1>4, <1>5 DEF BelowNoLayering, GivenRows

LEMMA SeedingFits ==
  ASSUME LayoutInv, BelowNoLayering, Search \/ Searched \/ Pull \/ PulledAll
  PROVE  BelowNoLayering' /\ GivenRows'
<1>0. gen \in [Person -> Row \cup {-1}] /\ tree' = tree
  BY DEF LayoutInv, TypeOK, Search, Searched, Pull, PulledAll
<1>i. \A p \in Person : gen[p] \in Int
  BY <1>0, LayoutAssumption DEF Row
<1>p. \A g \in Groups : Parents(g) \subseteq Person /\ Children(g) \subseteq Person
  BY TreeParts DEF LayoutInv, TypeOK
<1>f. \A r : Fits(r)' <=> Fits(r)
  BY <1>0 DEF Fits, Groups, Parents, Children
<1>r. \A r : Fits(r) => \A p \in Person : r[p] \in Nat /\ r[p] <= Cardinality(Person) - 1
  BY PersonCount DEF Fits
<1>1. CASE Search
  <2>0. PICK g \in Groups : \E p \in Parents(g), c \in Children(g) :
          /\ Below(g, p, c)
          /\ IF gen[p] + 1 \in Row THEN gen' = [gen EXCEPT ![c] = gen[p] + 1] /\ UNCHANGED phase
             ELSE phase' = "stuck" /\ UNCHANGED gen
    BY <1>1 DEF Search
  <2>1. PICK p \in Parents(g), c \in Children(g) :
          /\ Below(g, p, c)
          /\ IF gen[p] + 1 \in Row THEN gen' = [gen EXCEPT ![c] = gen[p] + 1] /\ UNCHANGED phase
             ELSE phase' = "stuck" /\ UNCHANGED gen
    BY <2>0
  <2>2. phase = "seed" /\ p \in Person /\ c \in Person /\ gen[p] >= 0
    BY <1>p, <1>1, <2>1 DEF Search, Below
  <2>3. ASSUME NEW r, Fits(r) PROVE gen[p] + 1 <= r[c] /\ gen[p] + 1 \in Row
    <3>1. gen[p] <= r[p] /\ r[p] < r[c]
      BY <2>2, <2>3 DEF BelowNoLayering, Fits
    <3>2. /\ gen[p] \in Int /\ r[p] \in Nat /\ r[c] \in Nat /\ r[c] <= Cardinality(Person) - 1
          /\ gen[p] >= 0
      BY <1>i, <1>r, <2>2, <2>3
    <3> QED BY <3>1, <3>2, PersonCount, LayoutAssumption DEF Row
  <2>4. CASE gen[p] + 1 \in Row
    <3>1. /\ phase' = "seed" /\ gen'[c] = gen[p] + 1
          /\ \A q \in Person : q # c => gen'[q] = gen[q]
      BY <1>0, <2>1, <2>2, <2>4
    <3>2. ASSUME NEW r, Fits(r), NEW q \in Person PROVE gen'[q] <= r[q]
      <4>1. q = c => gen'[q] <= r[q]
        BY <2>3, <3>1, <3>2
      <4>2. q # c => gen'[q] <= r[q]
        BY <2>2, <3>1, <3>2 DEF BelowNoLayering
      <4> QED BY <4>1, <4>2
    <3> QED BY <1>f, <3>1, <3>2 DEF BelowNoLayering, GivenRows
  <2>5. CASE gen[p] + 1 \notin Row
    <3>1. phase' = "stuck" /\ \A r : ~Fits(r)
      BY <2>1, <2>3, <2>5
    <3> QED BY <1>f, <3>1 DEF BelowNoLayering, GivenRows
  <2> QED BY <2>4, <2>5
<1>2. CASE Searched
  <2>1. phase = "seed" /\ phase' = "promote" /\ \A p \in Person : gen'[p] = Reached(p)
    BY <1>2 DEF Searched
  <2>2. ASSUME NEW r, Fits(r), NEW p \in Person PROVE gen'[p] <= r[p] + MaxYear + 1
    <3>1. gen[p] <= r[p] /\ gen[p] \in Int /\ r[p] \in Nat
      BY <1>i, <1>r, <2>1, <2>2 DEF BelowNoLayering
    <3>2. gen'[p] \in {gen[p], 0}
      BY <2>1 DEF Reached
    <3> QED BY <3>1, <3>2, LayoutAssumption
  <2> QED BY <1>f, <2>1, <2>2 DEF BelowNoLayering, GivenRows
<1>3. CASE Pull
  <2>1. PICK g \in Groups, m \in Row \ {0} :
          /\ IsAboveChildren(g, m)
          /\ gen' = [p \in Person |-> IF p \in Pulled(g, m) THEN m ELSE gen[p]]
    BY <1>3 DEF Pull
  <2>2. phase = "pull" /\ phase' = "pull"
    BY <1>3 DEF Pull
  <2>3. PICK c \in Children(g) : m = gen[c] - 1
    BY <2>1 DEF IsAboveChildren
  <2>4. m <= MaxYear
    <3>1. gen[c] \in Int /\ gen[c] <= MaxYear
      BY <1>i, <1>p, <2>2 DEF BelowNoLayering
    <3> QED BY <2>3, <3>1, LayoutAssumption
  <2>5. \A p \in Person : gen'[p] <= MaxYear
    BY <2>1, <2>2, <2>4 DEF BelowNoLayering
  <2> QED BY <2>2, <2>5 DEF BelowNoLayering, GivenRows
<1>4. CASE PulledAll
  <2>1. phase = "pull" /\ phase' = "promote" /\ gen' = gen
    BY <1>4 DEF PulledAll
  <2>2. ASSUME NEW r, Fits(r), NEW p \in Person PROVE gen[p] <= r[p] + MaxYear + 1
    <3>1. gen[p] <= MaxYear /\ gen[p] \in Int /\ r[p] \in Nat
      BY <1>i, <1>r, <2>1, <2>2 DEF BelowNoLayering
    <3> QED BY <3>1, LayoutAssumption
  <2> QED BY <1>f, <2>1, <2>2 DEF BelowNoLayering, GivenRows
<1> QED BY <1>1, <1>2, <1>3, <1>4

LEMMA PromoteFits ==
  ASSUME LayoutInv, BelowNoLayering, Promote
  PROVE  BelowNoLayering' /\ GivenRows'
<1>0. /\ \E G \in SUBSET Group : tree \in TreeOf(G)
      /\ gen \in [Person -> Row] /\ tree' = tree /\ phase = "promote"
  BY DEF LayoutInv, TypeOK, Promote
<1>f. \A r : Fits(r)' <=> Fits(r)
  BY <1>0 DEF Fits, Groups, Parents, Children
<1>1. PICK g \in Groups, m \in Row :
        /\ IsLastRow(g, m)
        /\ IF \A p \in Person : Promoted(g, m, p) \in Row
             THEN gen' = [p \in Person |-> Promoted(g, m, p)] /\ UNCHANGED phase
             ELSE phase' = "stuck" /\ UNCHANGED gen
  BY DEF Promote
<1>2. ASSUME NEW r, Fits(r), NEW p \in Person
      PROVE  Promoted(g, m, p) \in Row /\ Promoted(g, m, p) <= r[p] + MaxYear + 1
  <2> DEFINE d == [q \in Person |-> r[q] + MaxYear + 1]
  <2>1. d \in [Person -> Row] /\ IsLayering(d)
    BY <1>0, <1>2, MovedDown
  <2>2. \A q \in Person : d[q] = r[q] + MaxYear + 1
    OBVIOUS
  <2> HIDE DEF d
  <2>3. \A q \in Person : gen[q] <= d[q]
    BY <1>0, <1>2, <2>2 DEF BelowNoLayering
  <2>4. Promoted(g, m, p) \in Row /\ Promoted(g, m, p) <= d[p]
    BY <1>0, <1>1, <2>1, <2>3, PromotedAboveLayering
  <2> QED BY <2>2, <2>4
<1>3. CASE \A p \in Person : Promoted(g, m, p) \in Row
  <2>1. phase' = "promote" /\ \A p \in Person : gen'[p] = Promoted(g, m, p)
    BY <1>0, <1>1, <1>3
  <2> QED BY <1>f, <1>2, <2>1 DEF BelowNoLayering, GivenRows
<1>4. CASE ~ \A p \in Person : Promoted(g, m, p) \in Row
  <2>1. phase' = "stuck" /\ \A r : ~Fits(r)
    BY <1>1, <1>2, <1>4
  <2> QED BY <1>f, <2>1 DEF BelowNoLayering, GivenRows
<1> QED BY <1>3, <1>4

\* The parents of a group have a last row.
LEMMA LastRowExists ==
  ASSUME \E G \in SUBSET Group : tree \in TreeOf(G), gen \in [Person -> Row], NEW g \in Groups
  PROVE  \E r \in Row : IsLastRow(g, r)
<1>p. Parents(g) \subseteq Person
  BY TreeParts
<1>i. \A p \in Person : gen[p] \in Nat /\ gen[p] <= MaxRow
  BY LayoutAssumption DEF Row
<1>1. CASE Parents(g) = {}
  <2>1. 0 \in Row
    BY LayoutAssumption DEF Row
  <2> QED BY <1>1, <2>1 DEF IsLastRow
<1>2. CASE Parents(g) # {}
  <2> DEFINE S == {MaxRow - gen[p] : p \in Parents(g)}
  <2>1. S \in SUBSET Nat /\ S # {}
    BY <1>p, <1>i, <1>2, LayoutAssumption
  <2>2. PICK m \in S : \A k \in S : m <= k
    <3> HIDE DEF S
    <3> QED BY <2>1, SmallestOf
  <2>3. PICK q \in Parents(g) : m = MaxRow - gen[q]
    OBVIOUS
  <2>4. ASSUME NEW p \in Parents(g) PROVE gen[p] <= gen[q]
    <3>1. m <= MaxRow - gen[p]
      BY <2>2
    <3>2. gen[p] \in Nat /\ gen[q] \in Nat
      BY <1>p, <1>i
    <3> QED BY <2>3, <3>1, <3>2, LayoutAssumption
  <2>5. gen[q] \in Row
    BY <1>p
  <2> QED BY <1>2, <2>4, <2>5 DEF IsLastRow
<1> QED BY <1>1, <1>2

LEMMA StableFits ==
  ASSUME LayoutInv, Stable
  PROVE  IsLayering(gen)
<1>0. /\ \E G \in SUBSET Group : tree \in TreeOf(G)
      /\ gen \in [Person -> Row] /\ phase = "promote"
  BY DEF LayoutInv, TypeOK, Stable
<1>1. ASSUME NEW g \in Groups
      PROVE  /\ \A p, q \in Parents(g) : gen[p] = gen[q]
             /\ \A p \in Parents(g), c \in Children(g) : gen[p] < gen[c]
             /\ \A c \in Children(g) : 0 < gen[c]
  <2>p. Parents(g) \subseteq Person /\ Children(g) \subseteq Person
    BY <1>0, TreeParts
  <2>1. PICK r \in Row : IsLastRow(g, r)
    BY <1>0, LastRowExists
  <2>2. \A p \in Person : Promoted(g, r, p) = gen[p]
    BY <2>1 DEF Stable, Moves
  <2>i. r \in Nat /\ \A p \in Person : gen[p] \in Nat
    BY <1>0, LayoutAssumption DEF Row
  <2>3. ASSUME NEW c \in Children(g) PROVE r < gen[c]
    <3>1. c \in Person /\ gen[c] \in Nat
      BY <2>p, <2>i
    <3>2. CASE gen[c] < r + 1
      <4>1. gen[c] = r + 1
        BY <2>2, <3>1, <3>2 DEF Promoted
      <4> QED BY <2>i, <3>2, <4>1
    <3>3. CASE ~(gen[c] < r + 1)
      BY <2>i, <3>1, <3>3
    <3> QED BY <3>2, <3>3
  <2>4. ASSUME NEW p \in Parents(g) PROVE gen[p] = r
    <3>1. p \in Person /\ gen[p] <= r /\ gen[p] \in Nat
      BY <2>p, <2>i, <2>1 DEF IsLastRow
    <3>2. p \notin Children(g)
      BY <2>3, <2>i, <3>1
    <3> QED BY <2>2, <3>1, <3>2 DEF Promoted
  <2>5. ASSUME NEW c \in Children(g) PROVE 0 < gen[c]
    BY <2>3, <2>i, <2>p
  <2> QED BY <2>3, <2>4, <2>5
<1> QED BY <1>1 DEF IsLayering

\* On every finite graph the loops over the rows give up only where no rows fit
\* it, a circle of ancestors, however it is seeded; and the rows the cards are
\* placed on have couples side by side and children below both parents.
THEOREM RowsFitTheGraph == Spec => []RowsFit
<1>1. LayoutInv /\ BelowNoLayering /\ GivenRows /\ [Next]_vars => BelowNoLayering' /\ GivenRows'
  <2> SUFFICES ASSUME LayoutInv, BelowNoLayering, GivenRows, [Next]_vars
               PROVE  BelowNoLayering' /\ GivenRows'
    OBVIOUS
  <2>1. CASE Stable
    <3>1. IsLayering(gen) /\ UNCHANGED <<tree, gen>> /\ phase' = "roots"
      BY <2>1, StableFits DEF Stable
    <3> QED BY <3>1 DEF BelowNoLayering, GivenRows, IsLayering, Groups, Parents, Children
  <2>2. CASE PlaceRoot \/ RootsPlaced \/ NextPerson \/ PlaceUnion \/ PlacePerson \/ Return \/ Compact
    <3>1. stack # <<>> => phase \in {"roots", "persons"}
      BY DEF LayoutInv, CallsInv
    <3>2. /\ UNCHANGED <<tree, gen>> /\ phase \in {"roots", "persons", "laid"}
          /\ phase' \in {"roots", "persons", "laid", "compact"}
      BY <2>2, <3>1 DEF PlaceRoot, RootsPlaced, NextPerson, PlaceUnion, PlacePerson, Return, Compact
    <3> QED BY <3>2 DEF BelowNoLayering, GivenRows, IsLayering, Groups, Parents, Children
  <2>3. CASE UNCHANGED vars
    BY <2>3 DEF vars, BelowNoLayering, GivenRows, IsLayering, Fits, Groups, Parents, Children
  <2> QED BY <2>1, <2>2, <2>3, SeedingFits, PromoteFits DEF Next
<1>2. LayoutInv /\ BelowNoLayering /\ GivenRows => RowsFit
  <2> SUFFICES ASSUME BelowNoLayering, phase = "stuck", CanBeLayered(tree) PROVE FALSE
    BY DEF RowsFit, GivenRows
  <2>1. \E r : Fits(r)
    BY DEF CanBeLayered, Fits, Groups, Parents, Children
  <2> QED BY <2>1 DEF BelowNoLayering
<1> QED BY <1>1, <1>2, InitFits, LayoutAlways, PTL DEF Spec
=============================================================================
