------------------------------ MODULE MCTreeCanvas ------------------------------
(***************************************************************************)
(* TreeCanvas on small trees; persons 3 and 4 come and go.                 *)
(***************************************************************************)
EXTENDS TreeCanvas

Tree(parents, children) == [parents |-> parents, children |-> children]

MCLinks ==
  { \* a child of 1 marries a grandchild of 1, who has a child of her own
    Tree(<<{1}, {2, 4}, {3}, {4}>>, <<{2, 3}, {}, {4}, {5}>>),
    \* children of two marriages of 1 marry each other, and one marries again
    Tree(<<{1, 2}, {1, 4}, {3, 5}, {5}>>, <<{3}, {5}, {}, {4}>>),
    \* 1 has two families of origin, and 4 is a grandparent in both
    Tree(<<{2}, {3}, {4, 5}, {4}>>, <<{1}, {1}, {2}, {3}>>),
    \* two families of origin two generations up
    Tree(<<{2, 3}, {4}, {5}, {}>>, <<{1}, {2}, {2}, {3}>>),
    \* both parents and both grandparents of 1
    Tree(<<{2, 3}, {4, 5}, {}, {}>>, <<{1}, {2}, {}, {}>>),
    \* a line of five generations
    Tree(<<{1}, {2}, {3}, {4}>>, <<{2}, {3}, {4}, {5}>>),
    \* a circle of ancestors
    Tree(<<{1, 5}, {2}, {3}, {4}>>, <<{2}, {3}, {1}, {5}>>) }

\* Bound of the instance: person 3 comes and goes only on a canvas that the user
\* has not turned to another view or person.
Untouched == focus = Nobody /\ mode = "vertical"
NoVisitor ==
  3 \in live \ missed /\ \A held \in {graph, load} : held # NoGraph => 3 \in held

MCNext ==
  \/ Fetch \/ Arrive \/ ForgetGraph \/ Heal \/ ExpandAll \/ CollapseAll \/ Leave \/ Return
  \/ \E p \in Guest : (p = 3 => Untouched) /\ (OtherEdits(p) \/ Add(p))
  \/ \E p \in Person :
       \/ Reveal(p, AllChildren({p}))
       \/ Reveal(p, AllParents({p}))
       \/ NoVisitor /\ SetFocus(p)
  \/ NoVisitor /\ \E m \in Mode : SetMode(m)

MCSpec == CanvasInit /\ [][MCNext]_canvasVars /\ WF_canvasVars(Arrive)

=============================================================================
