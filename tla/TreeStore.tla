----------------------------- MODULE TreeStore -----------------------------
(***************************************************************************)
(* The rows of one family tree (tables persons, family_groups and          *)
(* family_group_members) and the pure functions on them that the draft,    *)
(* approval and revert code is built from.                                 *)
(*                                                                         *)
(* A person is named by the id its row has, or would have, in the original *)
(* tree: the clone that a draft holds of person p stands at p with         *)
(* cloned = TRUE (the column origin_person_id), so canon_map and id_map of *)
(* the code are the identity on these names.  One Value stands for all the *)
(* editable columns PERSON_SNAPSHOT_FIELDS of a row, one Label for all of  *)
(* FAMILY_GROUP_FIELDS.  A family group keeps its key when it is copied;   *)
(* the uuid a copy gets is the module's user's concern.                    *)
(***************************************************************************)
CONSTANTS Person, Value, Key, Label

ASSUME TreeStoreAssumption == Person # {} /\ Value # {} /\ Label # {}

Row == [st : {"absent", "live", "deleted"}, cloned : BOOLEAN, val : Value]

Group == [key : Key, label : Label, parents : SUBSET Person, children : SUBSET Person]

Tree == [rows : [Person -> Row], groups : SUBSET Group]

NoRow == [st |-> "absent", cloned |-> FALSE, val |-> CHOOSE v \in Value : TRUE]

EmptyTree == [rows |-> [p \in Person |-> NoRow], groups |-> {}]

Live(t) == {p \in Person : t.rows[p].st = "live"}

Stored(t) == {p \in Person : t.rows[p].st # "absent"}

Members(g) == g.parents \cup g.children

LiveRows(t) == [p \in Person |-> IF p \in Live(t) THEN t.rows[p] ELSE NoRow]

\* Groups of gs with a parent or a child: the two loops that rebuild groups
\* skip the others.
Inhabited(gs) == {g \in gs : Members(g) # {}}

----------------------------------------------------------------------------
\* snapshot_tree: the persons that are not soft-deleted, and every group with
\* every member row, the rows of soft-deleted persons included.
Snapshot(t) == [rows |-> LiveRows(t), groups |-> t.groups]

\* apply_revert.  seen is current_ids, the persons it read as live.
\* Mutant: the UPDATE of a person still stored does not clear is_deleted.
RestoreRowNotUndeleted(t, seen, snap, p) ==
  IF p \in Live(snap)
  THEN IF p \in Stored(t) THEN [t.rows[p] EXCEPT !.val = snap.rows[p].val] ELSE t.rows[p]
  ELSE IF p \in seen \cap Stored(t) THEN [t.rows[p] EXCEPT !.st = "deleted"] ELSE t.rows[p]

RestoreRow(t, seen, snap, p) ==
  IF p \in Live(snap)
  THEN IF p \in Stored(t) THEN [t.rows[p] EXCEPT !.st = "live", !.val = snap.rows[p].val]
                          ELSE t.rows[p]
  ELSE IF p \in seen \cap Stored(t) THEN [t.rows[p] EXCEPT !.st = "deleted"]
                                    ELSE t.rows[p]

\* Mutant: the family groups made since the snapshot are not deleted.
RestoreTreeKeepsGroups(t, seen, snap) ==
  [rows |-> [p \in Person |-> RestoreRow(t, seen, snap, p)],
   groups |-> t.groups \cup Inhabited(snap.groups)]

RestoreTree(t, seen, snap) ==
  [rows |-> [p \in Person |-> RestoreRow(t, seen, snap, p)],
   groups |-> Inhabited(snap.groups)]

----------------------------------------------------------------------------
\* create_draft's copy: live persons become clones, groups are copied with
\* all their members (a soft-deleted member keeps its original id).
CloneTree(t) ==
  [rows |-> [p \in Person |-> IF p \in Live(t) THEN [t.rows[p] EXCEPT !.cloned = TRUE]
                                               ELSE NoRow],
   groups |-> Inhabited(t.groups)]

\* _apply_change_request.  read holds the rows it selected from the draft;
\* draft is what the draft holds when the writes run.
Matched(read) == {p \in Live(read) : read.rows[p].cloned}

Adopted(read) == {p \in Live(read) : ~read.rows[p].cloned}

\* Mutant: a matched row gets the draft's row where it should get its fields.
MergeRowWhole(t, draft, read, p) ==
  IF p \in Matched(read) /\ p \in Stored(t)
  THEN [t.rows[p] EXCEPT !.val = read.rows[p]] ELSE t.rows[p]

MergeRow(t, draft, read, p) ==
  IF p \in Matched(read)
  THEN IF p \in Stored(t) THEN [t.rows[p] EXCEPT !.val = read.rows[p].val] ELSE t.rows[p]
  ELSE IF p \in Adopted(read)
  THEN IF p \in Stored(draft) THEN [draft.rows[p] EXCEPT !.cloned = FALSE] ELSE t.rows[p]
  ELSE IF p \in Live(t) THEN [t.rows[p] EXCEPT !.st = "deleted"] ELSE t.rows[p]

\* Mutant: no foreign key from member rows to persons.
CascadedNone(draft, read) == {}

\* A member that was not among the rows read keeps the id of its draft row,
\* and goes with that row when the draft is deleted (ON DELETE CASCADE).
Cascaded(draft, read) == {p \in Stored(draft) : p \notin Live(read)}

MergeGroup(g, gone) == [g EXCEPT !.parents = @ \ gone, !.children = @ \ gone]

MergeTree(t, draft, read) ==
  [rows |-> [p \in Person |-> MergeRow(t, draft, read, p)],
   groups |-> {MergeGroup(g, Cascaded(draft, read)) : g \in Inhabited(draft.groups)}]
=============================================================================
