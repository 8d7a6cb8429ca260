--------------------------- MODULE MCAuditRevert ---------------------------
\* A tree of two persons, parent and child in one union, and a third person
\* id that create_person may take.
EXTENDS AuditRevert

CONSTANTS ann, bob, cid, old, new, union

MCPerson == {ann, bob, cid}
MCStart ==
  [rows |-> [p \in MCPerson |-> [st |-> IF p = cid THEN "absent" ELSE "live",
                                cloned |-> FALSE, val |-> old]],
   groups |-> {[key |-> union, label |-> old, parents |-> {ann}, children |-> {bob}]}]
=============================================================================
