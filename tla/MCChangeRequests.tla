-------------------------- MODULE MCChangeRequests --------------------------
\* A shared tree of two persons, parent and child in one union, and a third
\* person id for create_person.
EXTENDS ChangeRequests, TLC

CONSTANTS ann, bob, cid, old, union

MCPerson == {ann, bob, cid}
MCStart ==
  [rows |-> [p \in MCPerson |-> [st |-> IF p = cid THEN "absent" ELSE "live",
                                cloned |-> FALSE, val |-> old]],
   groups |-> {[key |-> union, label |-> old, parents |-> {ann}, children |-> {bob}]}]

\* Transactions, editors, drafts and requests are interchangeable.
MCSymmetry == Permutations(Tx) \cup Permutations(Draft) \cup Permutations(Req) \cup Permutations(Editor)

\* Bounds of the instance.  Two edits or three are committed only while there
\* is one draft, and beside a log of an approval and a revert.  Transactions
\* overlap at will, except that the last ones begin when none is open: after
\* the third edit, and after an edit, two drafts and two entries of the log.
OneDraft == \A c, d \in Draft : drafts[c].st # "unborn" /\ drafts[d].st # "unborn" => c = d
Overlap == \E t, u \in Tx : t # u /\ tx[t] # Idle /\ tx[u] # Idle
MCNext ==
  /\ Next
  /\ edits' > 1 => OneDraft' /\ Len(audit') <= 2
  /\ edits > 2 \/ (edits = 1 /\ ~OneDraft /\ Len(audit) > 1) => Overlap \/ ~Overlap'
MCSpec == Init /\ [][MCNext]_vars
=============================================================================
