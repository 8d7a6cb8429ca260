----------------------------- MODULE MCGenealogy -----------------------------
\* Two men, two women; family group ids and requests are interchangeable.
EXTENDS Genealogy, TLC

CONSTANTS ann, bob, cid, dee

MCPerson == {ann, bob, cid, dee}
MCSex == [p \in MCPerson |-> IF p \in {ann, dee} THEN "FEMALE" ELSE "MALE"]
MCSymmetry == Permutations(Fg) \cup Permutations(Tx)
               \cup Permutations({ann, dee}) \cup Permutations({bob, cid})

\* Bound of the instance: a request begins beside another one only while at
\* most one has committed; after that requests follow each other.
OneAtATime(t) == \A u \in Tx \ {t} : tx[u] = Idle
MCNext == \E t \in Tx : \/ (commits <= 1 \/ OneAtATime(t)) /\ Request(t)
                       \/ Commit(t) \/ Rollback(t)
MCSpec == Init /\ [][MCNext]_vars
=============================================================================
