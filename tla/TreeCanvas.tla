------------------------------- MODULE TreeCanvas -------------------------------
(***************************************************************************)
(* Who is drawn on the canvas of a tree, and where                         *)
(* (features/tree/canvas/: TreeCanvas.tsx, useExpandCollapse.ts,           *)
(* useTreeLayout.ts, algorithms/; store/canvas.store.ts).                  *)
(*                                                                         *)
(* The canvas draws what the last answer of the graph query holds, less    *)
(* what the set of expanded persons leaves out; the charts about one       *)
(* person choose their own persons.  Others edit the tree meanwhile, and   *)
(* several dialogs of the page refetch the graph.                          *)
(***************************************************************************)
EXTENDS Naturals, FiniteSets, Sequences

CONSTANTS
  Persons, Groups,   \* how many the graph may list
  Links,         \* the family links there may be between them
  Guest,         \* the persons that are added and deleted
  ShownDepth,    \* generations a chart draws (4 in the code)
  LaidDepth,     \* generations its layout places (8)
  WedgeDepth,    \* generations whose wedge in the ancestry fan is a degree wide (7)
  LineDepth,     \* generations of the charts with families (100)
  NoGraph

\* By their places in the lists of the graph.
Person == 1..Persons
Group == 1..Groups
Nobody == 0

ASSUME CanvasAssumption ==
  /\ {Persons, Groups, ShownDepth, LaidDepth, WedgeDepth} \subseteq Nat /\ LineDepth \in Nat \ {0}
  /\ ShownDepth <= LaidDepth /\ WedgeDepth <= LaidDepth /\ LaidDepth <= LineDepth
  /\ Links \subseteq [parents : [Group -> SUBSET Person], children : [Group -> SUBSET Person]]
  /\ Guest \subseteq Person

VARIABLES
  links,
  live,       \* the persons the server holds
  graph,      \* the persons the graph query holds, kept while the page is away
  load,       \* the answer on its way to it, if any
  away,       \* another page, or another tree, is open
  expanded,   \* expandedNodeIds
  focus,      \* focusPersonId
  mode,       \* layoutMode
  adding,     \* the persons of the calls of handleAdded that await a refetch
  missed      \* history: whose refetch failed, was overtaken or came after a deletion

query == <<graph, load, adding, missed>>
canvasVars == <<links, live, query, away, expanded, focus, mode>>

\* The layouts that place persons by their kinship to one of them.
Chart == {"fan", "ancestry-fan", "pedigree", "ancestor", "descendant"}

\* vertical stands for horizontal, generation and compact too, and the views
\* with families for their compact forms.
Mode == Chart \cup {"vertical", "ancestor-family", "descendant-family"}

CanvasTypeOK ==
  /\ links \in Links
  /\ live \subseteq Person
  /\ \A held \in {graph, load} : held = NoGraph \/ held \subseteq Person
  /\ away \in BOOLEAN
  /\ expanded \subseteq Person /\ adding \subseteq Person /\ missed \subseteq Person
  /\ focus \in Person \cup {Nobody}
  /\ mode \in Mode

----------------------------------------------------------------------------
\* The graph as the page holds it.

Parents(g) == links.parents[g] \cap graph
Children(g) == links.children[g] \cap graph
Unions(p) == {g \in Group : p \in Parents(g)}
Origins(p) == {g \in Group : p \in Children(g)}

\* A loop over 1..n: its body takes the index, then what the loop builds.
Loop(body, start, n) ==
  LET after[i \in 0..n] == IF i = 0 THEN start ELSE body[i][after[i - 1]]
  IN after[n]

Repeat(step, start, n) == Loop([i \in Nat |-> step], start, n)

AllParents(S) == UNION {Parents(g) : g \in UNION {Origins(p) : p \in S}}
AllChildren(S) == UNION {Children(g) : g \in UNION {Unions(p) : p \in S}}

\* The search that every chart of ancestors makes in its own way:
\* ancestorSubgraphIds, pedigreeChartVisibleIds, buildAncestorGenerations.
Ancestors(p, depth) ==
  Repeat([S \in SUBSET Person |-> S \cup AllParents(S)], {p}, depth)

\* descendantSubgraphIds.
Descendants(p, depth) ==
  Repeat([S \in SUBSET Person |-> S \cup AllChildren(S)], {p}, depth)

\* included and nextFrontier of descendantFamilySubgraphIds.
Search == [ids : SUBSET Person, next : Seq(Person)]

\* Mutant: the children of a group are marked before they are queued.
MarkedFirst(search, g) == [search EXCEPT !.ids = @ \cup Parents(g) \cup Children(g)]

\* The parents of g are met, then its children; only children that were not
\* met before are searched from.
MeetGroup(search, g) ==
  Loop([c \in Person |-> [s \in Search |->
          IF c \in Children(g) \ s.ids
          THEN [ids |-> s.ids \cup {c}, next |-> Append(s.next, c)] ELSE s]],
       [search EXCEPT !.ids = @ \cup Parents(g)], Persons)

MeetPerson(search, p) ==
  Loop([g \in Group |-> [s \in Search |-> IF g \in Unions(p) THEN MeetGroup(s, g) ELSE s]],
       search, Groups)

MeetFrontier(search) ==
  Loop([i \in DOMAIN search.next |-> [s \in Search |-> MeetPerson(s, search.next[i])]],
       [search EXCEPT !.next = <<>>], Len(search.next))

DescendantFamily(p, depth) ==
  Repeat([s \in Search |-> MeetFrontier(s)], [ids |-> {p}, next |-> <<p>>], depth).ids

LastOrigin(p) == {g \in Origins(p) : \A h \in Origins(p) : h <= g}

\* Mutant: the father's line only.
FirstParent(p) == UNION {{q \in Parents(g) : \A r \in Parents(g) : q <= r} : g \in LastOrigin(p)}

\* The parents that get a bin: a map from child to group keeps the last one.
BinParents(p) == UNION {Parents(g) : g \in LastOrigin(p)}

\* personBin of the pedigree, and the wedges of the ancestry fan.
Bins(p, depth) ==
  Repeat([S \in SUBSET Person |-> S \cup UNION {BinParents(q) : q \in S}], {p}, depth)

\* The person the ancestry fan is about.
FanFocus ==
  IF focus \in graph THEN focus
  ELSE LET kids == {p \in graph : Origins(p) # {}}
           from == IF kids # {} THEN kids ELSE graph
       IN CHOOSE p \in from : \A q \in from : p <= q

\* filterByExpanded, and the subgraphs of useTreeLayout.
Drawn ==
  CASE mode = "ancestry-fan" -> Ancestors(FanFocus, LaidDepth)
    [] mode \in {"fan", "pedigree"} /\ focus # Nobody -> Ancestors(focus, ShownDepth) \cap graph
    [] mode = "ancestor-family" /\ focus # Nobody -> Ancestors(focus, LineDepth) \cap graph
    [] mode = "descendant-family" /\ focus # Nobody ->
         DescendantFamily(focus, LineDepth) \cap graph
    [] OTHER -> expanded \cap graph

\* Whom a chart has a place for; the others stay at (0, 0), or, in the ancestry
\* fan, are not painted: it has no wedges narrower than a degree.
Placed ==
  CASE mode = "ancestry-fan" -> Bins(FanFocus, WedgeDepth)
    [] mode \in {"fan", "ancestor"} -> Ancestors(focus, LaidDepth)
    [] mode = "pedigree" -> Bins(focus, LaidDepth)
    [] mode = "descendant" -> Descendants(focus, LaidDepth)

----------------------------------------------------------------------------
\* The graph query.

GraphLoaded == graph # NoGraph /\ graph # {}
Here == ~away

CanvasInit ==
  /\ links \in Links
  /\ live \in {Person, Person \ Guest}
  /\ graph = NoGraph /\ load = NoGraph /\ away = FALSE
  /\ expanded = {} /\ focus = Nobody /\ mode = "vertical"
  /\ adding = {} /\ missed = {}

\* Mutant: only the graph is refetched.
AsBefore(persons) == expanded

WithEveryone(persons) == expanded \cup persons

\* What handleAdded does when its refetch is over: it expands everybody the
\* query holds by then.  It does so after its page was left, too; if another
\* tree is open by then, with the persons of that one.
Resume(held) ==
  \/ held = NoGraph /\ UNCHANGED expanded
  \/ held # NoGraph /\ expanded' = WithEveryone(held)
  \/ away /\ UNCHANGED expanded

\* A load that is on its way is cancelled for a newer one.  Of the calls of
\* handleAdded in waiting, some go on with the newer load, and those in resumed
\* go on at once, with what the query holds: versions of React Query differ, and
\* what such a call refreshes next overtakes the others once more.
Overtake(waiting, resumed) ==
  /\ adding' = waiting \ resumed
  /\ IF resumed = {} THEN UNCHANGED expanded ELSE Resume(graph)

\* The first load, a refetch in the background, or what another dialog, of this
\* page or of one that was left, refetches or invalidates.  The answer is what
\* the server has when it is asked; a first load is joined, not cancelled.
Fetch ==
  /\ graph # NoGraph \/ load = NoGraph
  /\ load' = live
  /\ \E resumed \in SUBSET adding :
       /\ Overtake(adding, resumed)
       /\ missed' = missed \cup resumed
  /\ UNCHANGED <<links, live, graph, away, focus, mode>>

\* The load ends, well or not.  What awaited it goes on, and refreshes the
\* queries of the tree, of which a page that was left shows none.
Arrive ==
  /\ load # NoGraph
  /\ \/ graph' = load /\ UNCHANGED missed
     \/ UNCHANGED graph /\ missed' = missed \cup adding
  /\ IF adding = {} THEN UNCHANGED expanded ELSE Resume(graph')
  /\ load' = IF adding # {} /\ Here THEN live ELSE NoGraph
  /\ adding' = {}
  /\ UNCHANGED <<links, live, away, focus, mode>>

ForgetGraph ==
  /\ away /\ load = NoGraph
  /\ graph' = NoGraph
  /\ UNCHANGED <<links, live, load, adding, missed, away, expanded, focus, mode>>

\* Somebody else adds or deletes a person.
OtherEdits(p) ==
  /\ IF p \in live
     THEN live' = live \ {p} /\ missed' = missed \cup (adding \cap {p})
     ELSE live' = live \cup {p} /\ UNCHANGED missed
  /\ UNCHANGED <<links, graph, load, adding, away, expanded, focus, mode>>

\* The user adds a person: its request was answered, handleAdded refetches the
\* graph, whatever another call of it awaits.
Add(p) ==
  /\ Here /\ GraphLoaded
  /\ p \notin live \cup adding
  /\ live' = live \cup {p}
  /\ load' = live'
  /\ \E resumed \in SUBSET (adding \cup {p}) :
       /\ resumed # {p}
       /\ Overtake(adding \cup {p}, resumed)
       /\ missed' = (missed \ {p}) \cup resumed
  /\ UNCHANGED <<links, graph, away, focus, mode>>

----------------------------------------------------------------------------
\* The canvas.

\* The effect that shows the whole tree when nobody is expanded.
Heal ==
  /\ Here /\ GraphLoaded /\ expanded = {}
  /\ expanded' = graph
  /\ UNCHANGED <<links, live, query, away, focus, mode>>

ExpandAll ==
  /\ Here /\ graph # NoGraph
  /\ expanded' = graph
  /\ UNCHANGED <<links, live, query, away, focus, mode>>

CollapseAll ==
  /\ Here /\ focus # Nobody
  /\ expanded' = {focus}
  /\ UNCHANGED <<links, live, query, away, focus, mode>>

\* toggleExpand: its button is only on the card of a person that is not
\* expanded, and that has children or parents.
Reveal(p, relatives) ==
  /\ Here /\ GraphLoaded /\ mode # "ancestry-fan"
  /\ p \in Drawn \ expanded /\ relatives # {}
  /\ expanded' = expanded \cup {p} \cup relatives
  /\ UNCHANGED <<links, live, query, away, focus, mode>>

SetFocus(p) ==
  /\ Here /\ GraphLoaded /\ p \in graph
  /\ focus' = p
  /\ UNCHANGED <<links, live, query, away, expanded, mode>>

SetMode(m) ==
  /\ Here
  /\ mode' = m
  /\ UNCHANGED <<links, live, query, away, expanded, focus>>

\* resetCanvas.
Leave ==
  /\ Here
  /\ away' = TRUE
  /\ expanded' = {} /\ focus' = Nobody /\ mode' = "vertical"
  /\ UNCHANGED <<links, live, query>>

\* From another page, or from another tree: then the canvas is reset again.
Return ==
  /\ away
  /\ away' = FALSE
  /\ UNCHANGED expanded \/ expanded' = {}
  /\ UNCHANGED <<links, live, query, focus, mode>>

CanvasNext ==
  \/ Fetch \/ Arrive \/ ForgetGraph \/ Heal \/ ExpandAll \/ CollapseAll \/ Leave \/ Return
  \/ \E p \in Guest : OtherEdits(p) \/ Add(p)
  \/ \E p \in Person :
       \/ Reveal(p, AllChildren({p}))
       \/ Reveal(p, AllParents({p}))
       \/ SetFocus(p)
  \/ \E m \in Mode : SetMode(m)

\* A load ends, well or not.
CanvasSpec == CanvasInit /\ [][CanvasNext]_canvasVars /\ WF_canvasVars(Arrive)

----------------------------------------------------------------------------
\* Properties.

\* A chart about a person of the tree has a place for everybody it draws, but
\* for these:  (a) the charts of all ancestors and of all descendants draw
\* whoever is expanded and place their own persons only (useTreeLayout.ts
\* 461-467, 520-526);  (b) charts that bin parents by a map from child to
\* family, which keeps one, may leave a person out when somebody they draw has
\* two families of origin (pedigreeChart.ts 93-98, AncestryFanChart.tsx
\* 126-131);  (c) the ancestry fan gathers a generation more than it has wedges
\* for (AncestryFanChart.tsx 226).
DrawnArePlaced ==
  Here /\ GraphLoaded /\ focus \in graph /\ mode \in Chart =>
    \A p \in Drawn \ Placed :
      \/ mode = "ancestor" /\ p \in expanded \ Ancestors(focus, LaidDepth)
      \/ mode = "descendant" /\ p \in expanded \ Descendants(focus, LaidDepth)
      \/ /\ mode \in {"pedigree", "ancestry-fan"}
         /\ \E q \in Drawn : Cardinality(Origins(q)) > 1
      \/ mode = "ancestry-fan" /\ p \notin Ancestors(focus, WedgeDepth)

\* The chart of descendants and spouses draws every descendant, and the spouses
\* of all but the last generation, up to descendants who are the spouse of
\* another: they are drawn, but may have been met as a spouse and not searched
\* from, and then neither their other spouses nor who is below them need be
\* drawn (ancestorChart.ts 136-149).
DescendantsAreDrawn ==
  Here /\ GraphLoaded /\ focus \in graph /\ mode = "descendant-family" =>
    LET below == Descendants(focus, LineDepth)
        married == {q \in below : \E g \in Unions(q) : (Parents(g) \ {q}) \cap below # {}}
    IN \A p \in below :
         \/ /\ p \in Drawn
            /\ p \in Descendants(focus, LineDepth - 1) \ married =>
                 UNION {Parents(g) : g \in Unions(p)} \subseteq Drawn
         \/ \E q \in married \ {p} : p \in Descendants(q, LineDepth)

\* A person the user added is shown, unless its refetch fails or is overtaken
\* by another before it is over, the page is left or somebody deletes the
\* person: the canvas leaves out whoever is not expanded (FamilyTreePage.tsx
\* 3710-3717).
OwnAddIsShown ==
  \A p \in Guest : p \in adding ~> p \in expanded \cup missed \/ away

=============================================================================
