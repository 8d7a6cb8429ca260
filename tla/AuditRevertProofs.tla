------------------------- MODULE AuditRevertProofs -------------------------
(***************************************************************************)
(* For every set of persons, groups and transactions, and without the      *)
(* bound on the log that TLC needs: the revert machinery implements the    *)
(* ledger of undos, so no entry is ever undone twice.                      *)
(***************************************************************************)
EXTENDS AuditRevert, SequenceTheorems, TLAPS

\* The lemmas on logs and the theorems about the ledger, for this log.
LedgerProofs == INSTANCE RevertLedgerProofs

----------------------------------------------------------------------------
\* The functions on trees return trees.

\* A tree is its rows and its groups.
LEMMA TreeParts ==
  ASSUME NEW t \in Tree
  PROVE  /\ t = [rows |-> t.rows, groups |-> t.groups]
         /\ t.rows \in [Person -> Row] /\ t.groups \subseteq Group
         /\ \A p \in Person : t.rows[p] \in Row
  BY DEF Tree

\* Writing a row, its state or its value leaves a tree.
LEMMA RowWritten ==
  ASSUME NEW t \in Tree, NEW p \in Person, NEW r \in Row
  PROVE  [t EXCEPT !.rows[p] = r] \in Tree
  BY DEF Tree

LEMMA RowFields ==
  ASSUME NEW r \in Row
  PROVE  /\ \A s \in {"absent", "live", "deleted"} : [r EXCEPT !.st = s] \in Row
         /\ \A v \in Value : [r EXCEPT !.val = v] \in Row
         /\ \A b \in BOOLEAN : [r EXCEPT !.cloned = b] \in Row
         /\ r.st \in {"absent", "live", "deleted"} /\ r.val \in Value /\ r.cloned \in BOOLEAN
  BY DEF Row

LEMMA StateWritten ==
  ASSUME NEW t \in Tree, NEW p \in Person, NEW s \in {"absent", "live", "deleted"}
  PROVE  [t EXCEPT !.rows[p].st = s] \in Tree
  <1>1. t.rows[p] \in Row
    BY TreeParts
  <1>2. [t.rows[p] EXCEPT !.st = s] \in Row
    BY <1>1, RowFields
  <1>3. [t EXCEPT !.rows[p].st = s] = [t EXCEPT !.rows[p] = [t.rows[p] EXCEPT !.st = s]]
    OBVIOUS
  <1> QED
    BY <1>2, <1>3, RowWritten

LEMMA ValueWritten ==
  ASSUME NEW t \in Tree, NEW p \in Person, NEW v \in Value
  PROVE  [t EXCEPT !.rows[p].val = v] \in Tree
  <1>1. t.rows[p] \in Row
    BY TreeParts
  <1>2. [t.rows[p] EXCEPT !.val = v] \in Row
    BY <1>1, RowFields
  <1>3. [t EXCEPT !.rows[p].val = v] = [t EXCEPT !.rows[p] = [t.rows[p] EXCEPT !.val = v]]
    OBVIOUS
  <1> QED
    BY <1>2, <1>3, RowWritten

\* Writing the groups leaves a tree.
LEMMA GroupsWritten ==
  ASSUME NEW t \in Tree, NEW gs \in SUBSET Group
  PROVE  [t EXCEPT !.groups = gs] \in Tree
  BY DEF Tree

\* A row with no person behind it, and a tree of such rows.
LEMMA EmptyTreeIsTree == NoRow \in Row /\ EmptyTree \in Tree
  <1>1. (CHOOSE v \in Value : TRUE) \in Value
    BY TreeStoreAssumption
  <1>2. NoRow \in Row
    BY <1>1 DEF NoRow, Row
  <1> QED
    BY <1>2 DEF EmptyTree, Tree

LEMMA NoRowFields ==
  NoRow.st = "absent" /\ ~NoRow.cloned /\ Live(EmptyTree) = {} /\ Stored(EmptyTree) = {}
  BY DEF NoRow, Live, Stored, EmptyTree

\* A snapshot is a tree.
LEMMA SnapshotIsTree ==
  ASSUME NEW t \in Tree
  PROVE  Snapshot(t) \in Tree /\ LiveRows(t) \in [Person -> Row]
  <1>1. LiveRows(t) \in [Person -> Row]
    BY TreeParts, EmptyTreeIsTree DEF LiveRows
  <1> QED
    BY <1>1, TreeParts DEF Snapshot, Tree

\* Restoring a snapshot leaves a tree.
LEMMA RestoreIsTree ==
  ASSUME NEW t \in Tree, NEW snap \in Tree, NEW seen
  PROVE  RestoreTree(t, seen, snap) \in Tree
  <1>1. ASSUME NEW p \in Person
        PROVE  RestoreRow(t, seen, snap, p) \in Row
    <2>1. t.rows[p] \in Row /\ snap.rows[p] \in Row
      BY TreeParts
    <2>2. snap.rows[p].val \in Value
      BY <2>1, RowFields
    <2>3. [t.rows[p] EXCEPT !.st = "deleted"] \in Row
      BY <2>1, RowFields
    <2>4. [t.rows[p] EXCEPT !.st = "live", !.val = snap.rows[p].val] \in Row
      BY <2>1, <2>2 DEF Row
    <2> QED
      BY <2>1, <2>3, <2>4 DEF RestoreRow
  <1>2. Inhabited(snap.groups) \subseteq Group
    BY TreeParts DEF Inhabited
  <1> QED
    BY <1>1, <1>2 DEF RestoreTree, Tree

----------------------------------------------------------------------------

\* The pieces of the type invariant, for a transaction or an entry at hand.
LEMMA IdleIsTransaction == Idle \in Transaction
  BY EmptyTreeIsTree DEF Idle, Transaction

LEMMA EntryFields ==
  ASSUME NEW e \in Entry
  PROVE  /\ e.before \in Tree /\ e.person \in Person \cup {NoPerson}
         /\ e.reverted \in BOOLEAN /\ e.undoes \in Nat /\ e.kind \in Kinds \cup {"none"}
         /\ e.era \in Nat /\ e.key \in Key \cup {NoKey}
  BY DEF Entry

\* What record_revertible_action appends is an entry, not reverted, that
\* names no other entry.
LEMMA RecordedIsEntry ==
  ASSUME NEW x \in Transaction, NEW kind \in Kinds, audit \in Seq(Entry),
         NEW action \in {"CREATE_PERSON", "UPDATE_PERSON", "DELETE_PERSON",
                         "UPDATE_RELATIONSHIP", "REMOVE_RELATIONSHIP"}
  PROVE  \E e \in Entry : /\ Recorded(action, kind, x) = Append(audit, e)
                          /\ e.kind = kind /\ ~e.reverted /\ e.undoes = 0
                          /\ e.action = action /\ e.person = x.person /\ e.before = x.before
  <1> DEFINE e == [action |-> action, kind |-> kind, person |-> x.person, key |-> x.key,
                   era |-> x.era, before |-> x.before, reverted |-> FALSE, undoes |-> 0]
  <1>1. e \in Entry
    BY DEF Entry, Transaction
  <1> QED
    BY <1>1 DEF Recorded

----------------------------------------------------------------------------
(* The steps of the system, by what they do to the log and to a transaction *)

\* A step that only opens, advances or gives up transaction t.
Quiet(t) ==
  /\ UNCHANGED <<tree, era, audit>>
  /\ \E x \in Transaction :
       /\ tx' = [tx EXCEPT ![t] = x]
       /\ x.op # "reverting"
       /\ x.op = "revert" => x.entry \in DOMAIN audit /\ Revertible(audit[x.entry])

\* A step that commits an edit and its entry.
Commits(t) ==
  /\ tree' \in Tree /\ era' = era
  /\ \E e \in Entry : audit' = Append(audit, e) /\ ~e.reverted /\ e.undoes = 0
  /\ tx' = tx \/ tx' = [tx EXCEPT ![t] = Idle]

\* Opening a transaction is quiet when its record is one.
LEMMA BeginIsQuiet ==
  ASSUME NEW t \in Tx, NEW x \in Transaction, Begin(t, x), x.op \in Ops \ {"revert", "reverting"}
  PROVE  Quiet(t)
  BY DEF Begin, Quiet, Ops

\* Every begin, and a rollback, is a quiet step.
LEMMA QuietSteps ==
  ASSUME TypeOK, NEW t \in Tx,
         \/ BeginUpdatePerson(t) \/ BeginDeletePerson(t) \/ BeginUpdateFamilyGroup(t)
         \/ BeginDeleteFamilyGroup(t) \/ BeginRemoveMember(t) \/ CountParents(t)
         \/ BeginRevert(t) \/ Rollback(t)
  PROVE  Quiet(t)
  <1>0. /\ tree \in Tree /\ era \in Nat /\ Idle \in Transaction /\ Snapshot(tree) \in Tree
        /\ DOMAIN audit = 1 .. Len(audit) /\ Len(audit) \in Nat
    BY IdleIsTransaction, SnapshotIsTree, LenProperties DEF TypeOK
  <1>1. CASE BeginUpdatePerson(t)
    <2> PICK p \in Stored(tree) :
          Begin(t, [Idle EXCEPT !.op = "update_person", !.person = p,
                                !.before = OnlyPerson(tree, p)])
      BY <1>1 DEF BeginUpdatePerson
    <2>1. p \in Person /\ OnlyPerson(tree, p) \in Tree
      BY <1>0, EmptyTreeIsTree, TreeParts, RowWritten DEF Stored, OnlyPerson
    <2>2. [Idle EXCEPT !.op = "update_person", !.person = p, !.before = OnlyPerson(tree, p)]
            \in Transaction
      BY <1>0, <2>1 DEF Transaction, Ops
    <2> QED BY <2>2, BeginIsQuiet DEF Idle, Ops
  <1>2. CASE BeginDeletePerson(t)
    <2> PICK p \in Stored(tree) :
          Begin(t, [Idle EXCEPT !.op = "delete_person", !.person = p, !.before = Snapshot(tree)])
      BY <1>2 DEF BeginDeletePerson
    <2>1. [Idle EXCEPT !.op = "delete_person", !.person = p, !.before = Snapshot(tree)]
            \in Transaction
      BY <1>0 DEF Transaction, Ops, Stored
    <2> QED BY <2>1, BeginIsQuiet DEF Idle, Ops
  <1>3. CASE BeginUpdateFamilyGroup(t)
    <2> PICK g \in tree.groups :
          Begin(t, [Idle EXCEPT !.op = "update_family_group", !.key = g.key, !.era = era,
                                !.before = OnlyGroup(tree, g.key)])
      BY <1>3 DEF BeginUpdateFamilyGroup
    <2>1. g.key \in Key /\ {h \in tree.groups : h.key = g.key} \in SUBSET Group
      BY <1>0, TreeParts DEF Group
    <2>2. OnlyGroup(tree, g.key) \in Tree
      BY <2>1, EmptyTreeIsTree, GroupsWritten DEF OnlyGroup
    <2>3. [Idle EXCEPT !.op = "update_family_group", !.key = g.key, !.era = era,
                       !.before = OnlyGroup(tree, g.key)] \in Transaction
      BY <1>0, <2>1, <2>2 DEF Transaction, Ops
    <2> QED BY <2>3, BeginIsQuiet DEF Idle, Ops
  <1>4. CASE BeginDeleteFamilyGroup(t)
    <2> PICK g \in tree.groups :
          Begin(t, [Idle EXCEPT !.op = "delete_family_group", !.key = g.key, !.era = era,
                                !.before = Snapshot(tree)])
      BY <1>4 DEF BeginDeleteFamilyGroup
    <2>1. g.key \in Key
      BY <1>0, TreeParts DEF Group
    <2>2. [Idle EXCEPT !.op = "delete_family_group", !.key = g.key, !.era = era,
                       !.before = Snapshot(tree)] \in Transaction
      BY <1>0, <2>1 DEF Transaction, Ops
    <2> QED BY <2>2, BeginIsQuiet DEF Idle, Ops
  <1>5. CASE BeginRemoveMember(t)
    <2> PICK g \in tree.groups : \E p \in Members(g) :
          Begin(t, [Idle EXCEPT !.op = "remove_family_group_member", !.key = g.key,
                                !.era = era, !.person = p, !.before = Snapshot(tree)])
      BY <1>5 DEF BeginRemoveMember
    <2> PICK p \in Members(g) :
          Begin(t, [Idle EXCEPT !.op = "remove_family_group_member", !.key = g.key,
                                !.era = era, !.person = p, !.before = Snapshot(tree)])
      OBVIOUS
    <2>1. g.key \in Key /\ p \in Person
      BY <1>0, TreeParts DEF Group, Members
    <2>2. [Idle EXCEPT !.op = "remove_family_group_member", !.key = g.key, !.era = era,
                       !.person = p, !.before = Snapshot(tree)] \in Transaction
      BY <1>0, <2>1 DEF Transaction, Ops
    <2> QED BY <2>2, BeginIsQuiet DEF Idle, Ops
  <1>6. CASE BeginRevert(t)
    <2> PICK i \in DOMAIN audit :
          /\ Revertible(audit[i])
          /\ Begin(t, [Idle EXCEPT !.op = "revert", !.entry = i])
      BY <1>6 DEF BeginRevert
    <2> DEFINE x == [Idle EXCEPT !.op = "revert", !.entry = i]
    <2>0. i \in Nat
      BY <1>0
    <2>1. x \in Transaction
      BY <1>0, <2>0 DEF Transaction, Ops
    <2>2. x.op = "revert" /\ x.entry = i
      BY DEF Idle
    <2> QED BY <2>1, <2>2 DEF Begin, Quiet
  <1>7. CASE Rollback(t)
    BY <1>0, <1>7 DEF Rollback, End, Quiet, Idle
  <1>8. CASE CountParents(t)
    <2>1. PICK op \in {"last_parent_removed", "member_removed"} : tx' = [tx EXCEPT ![t].op = op]
      BY <1>8 DEF CountParents
    <2> DEFINE x == [tx[t] EXCEPT !.op = op]
    <2>2. x \in Transaction /\ x.op = op
      BY DEF TypeOK, Transaction, Ops
    <2> QED BY <1>8, <2>1, <2>2 DEF CountParents, Quiet
  <1> QED
    BY <1>1, <1>2, <1>3, <1>4, <1>5, <1>6, <1>7, <1>8

\* The groups an edit of a family group leaves are groups.
LEMMA GroupFields ==
  ASSUME NEW g \in Group
  PROVE  /\ \A l \in Label : [g EXCEPT !.label = l] \in Group
         /\ \A p : [g EXCEPT !.parents = @ \ {p}, !.children = @ \ {p}] \in Group
         /\ g.label \in Label
  BY DEF Group

\* Every edit that commits appends one entry of its own.
LEMMA CommitSteps ==
  ASSUME TypeOK, NEW t \in Tx,
         \/ CreatePerson(t) \/ CommitUpdatePerson(t) \/ CommitDeletePerson(t)
         \/ CommitUpdateFamilyGroup(t) \/ CommitDeleteFamilyGroup(t) \/ CommitRemoveMember(t)
  PROVE  Commits(t)
  <1>0. /\ tree \in Tree /\ audit \in Seq(Entry) /\ tx[t] \in Transaction
        /\ Idle \in Transaction
    BY IdleIsTransaction DEF TypeOK
  <1>1. tree.groups \subseteq Group /\ Target(tx[t]) \subseteq tree.groups
    BY <1>0, TreeParts DEF Target
  <1>2. \A gs \in SUBSET Group : [tree EXCEPT !.groups = (@ \ Target(tx[t])) \cup gs] \in Tree
    BY <1>0, <1>1, GroupsWritten
  <1>3. CASE CreatePerson(t)
    <2>1. PICK p \in Person \ Stored(tree), v \in Value :
            /\ tree' = [tree EXCEPT !.rows[p] = [st |-> "live", cloned |-> FALSE, val |-> v]]
            /\ audit' = Recorded("CREATE_PERSON", "person_created", [Idle EXCEPT !.person = p])
            /\ UNCHANGED <<era, tx>>
      BY <1>3 DEF CreatePerson
    <2>2. [st |-> "live", cloned |-> FALSE, val |-> v] \in Row
      BY DEF Row
    <2>3. tree' \in Tree
      BY <1>0, <2>1, <2>2, RowWritten
    <2> DEFINE x == [Idle EXCEPT !.person = p]
    <2>4. x \in Transaction
      BY <1>0 DEF Transaction
    <2>5. audit' = Recorded("CREATE_PERSON", "person_created", x)
      BY <2>1
    <2> HIDE DEF x
    <2>6. \E e \in Entry : audit' = Append(audit, e) /\ ~e.reverted /\ e.undoes = 0
      BY <1>0, <2>4, <2>5, RecordedIsEntry DEF Kinds
    <2> QED BY <2>1, <2>3, <2>6 DEF Commits
  <1>4. CASE CommitUpdatePerson(t)
    <2> PICK v \in Value : /\ tx[t].person \in Live(tree)
                           /\ tree' = [tree EXCEPT !.rows[tx[t].person].val = v]
      BY <1>4 DEF CommitUpdatePerson
    <2>1. tree' \in Tree
      BY <1>0, ValueWritten DEF Live
    <2>2. audit' = Recorded("UPDATE_PERSON", "person_updated", tx[t])
      BY <1>4 DEF CommitUpdatePerson
    <2>3. \E e \in Entry : audit' = Append(audit, e) /\ ~e.reverted /\ e.undoes = 0
      BY <1>0, <2>2, RecordedIsEntry DEF Kinds
    <2> QED BY <1>4, <2>1, <2>3 DEF Commits, CommitUpdatePerson, End
  <1>5. CASE CommitDeletePerson(t)
    <2>1. tree' \in Tree
      <3>1. CASE tx[t].person \in Person
        BY <1>0, <1>5, <3>1, StateWritten DEF CommitDeletePerson
      <3>2. CASE tx[t].person \notin Person
        BY <1>0, <1>5, <3>2, TreeParts DEF CommitDeletePerson
      <3> QED BY <3>1, <3>2
    <2>2. \E e \in Entry : audit' = Append(audit, e) /\ ~e.reverted /\ e.undoes = 0
      BY <1>0, <1>5, RecordedIsEntry DEF Kinds, CommitDeletePerson
    <2> QED BY <1>5, <2>1, <2>2 DEF Commits, CommitDeletePerson, End
  <1>6. CASE CommitUpdateFamilyGroup(t)
    <2> PICK l \in Label :
          tree' = [tree EXCEPT !.groups = (@ \ Target(tx[t]))
                     \cup {[g EXCEPT !.label = l] : g \in Target(tx[t])}]
      BY <1>6 DEF CommitUpdateFamilyGroup
    <2>1. {[g EXCEPT !.label = l] : g \in Target(tx[t])} \in SUBSET Group
      BY <1>1, GroupFields
    <2>2. tree' \in Tree
      BY <1>2, <2>1
    <2>3. \E e \in Entry : audit' = Append(audit, e) /\ ~e.reverted /\ e.undoes = 0
      BY <1>0, <1>6, RecordedIsEntry DEF Kinds, CommitUpdateFamilyGroup
    <2> QED BY <1>6, <2>2, <2>3 DEF Commits, CommitUpdateFamilyGroup, End
  <1>7. CASE CommitDeleteFamilyGroup(t)
    <2>1. tree.groups \ Target(tx[t]) \in SUBSET Group
      BY <1>1
    <2>2. tree' \in Tree
      BY <1>0, <1>7, <2>1, GroupsWritten DEF CommitDeleteFamilyGroup
    <2>3. \E e \in Entry : audit' = Append(audit, e) /\ ~e.reverted /\ e.undoes = 0
      BY <1>0, <1>7, RecordedIsEntry DEF Kinds, CommitDeleteFamilyGroup
    <2> QED BY <1>7, <2>2, <2>3 DEF Commits, CommitDeleteFamilyGroup, End
  <1>8. CASE CommitRemoveMember(t)
    <2> DEFINE without == {[g EXCEPT !.parents = @ \ {tx[t].person},
                                     !.children = @ \ {tx[t].person}] : g \in Target(tx[t])}
    <2>0. \A g \in Target(tx[t]) :
            [g EXCEPT !.parents = @ \ {tx[t].person}, !.children = @ \ {tx[t].person}] \in Group
      BY <1>1, GroupFields
    <2>1. (IF tx[t].op = "member_removed" THEN without ELSE {}) \in SUBSET Group
      BY <2>0
    <2>2. tree' = [tree EXCEPT !.groups = (@ \ Target(tx[t]))
                     \cup IF tx[t].op = "member_removed" THEN without ELSE {}]
      BY <1>8 DEF CommitRemoveMember
    <2>3. tree' \in Tree
      BY <1>2, <2>1, <2>2
    <2>5. audit' = Recorded("REMOVE_RELATIONSHIP", "full_tree", tx[t])
      BY <1>8 DEF CommitRemoveMember
    <2>4. \E e \in Entry : audit' = Append(audit, e) /\ ~e.reverted /\ e.undoes = 0
      BY SMTT(20), <1>0, <2>5, RecordedIsEntry DEF Kinds
    <2> QED BY <1>8, <2>3, <2>4 DEF Commits, CommitRemoveMember, End
  <1> QED
    BY <1>3, <1>4, <1>5, <1>6, <1>7, <1>8

\* A step that commits a revert: it marks the entry it claimed and appends an
\* entry that names it.
Undoes(t) ==
  LET i == tx[t].entry
  IN  /\ tree' \in Tree /\ era' \in Nat
      /\ tx[t].op = "reverting"
      /\ \E e \in Entry :
           /\ audit' = Append([audit EXCEPT ![i] = [audit[i] EXCEPT !.reverted = TRUE]], e)
           /\ e.kind = "none" /\ ~e.reverted /\ e.undoes = i
      /\ tx' = [tx EXCEPT ![t] = Idle]

\* The tree a revert leaves is a tree, whatever the kind of the entry.
LEMMA RevertedTree ==
  ASSUME TypeOK, NEW t \in Tx, CommitRevert(t), tx[t].entry \in DOMAIN audit,
         audit[tx[t].entry].kind \in Kinds
  PROVE  tree' \in Tree
  <1> DEFINE e == audit[tx[t].entry]
  <1>1. tree \in Tree /\ e \in Entry
    BY LenProperties, ElementOfSeq DEF TypeOK
  <1>2. e.before \in Tree /\ e.kind \in Kinds
    BY <1>1, EntryFields
  <1>3. tree' = CASE e.kind = "full_tree" -> RestoreTree(tree, tx[t].seen, e.before)
                  [] e.kind = "person_created" -> ApplyPersonCreatedRevert(e)
                  [] e.kind = "person_updated" -> ApplyPersonFieldRevert(e)
                  [] e.kind = "relationship_field" -> ApplyRelationshipFieldRevert(e)
    BY DEF CommitRevert
  <1> HIDE DEF e
  <1>4. RestoreTree(tree, tx[t].seen, e.before) \in Tree
    BY <1>1, <1>2, RestoreIsTree
  <1>5. ApplyPersonCreatedRevert(e) \in Tree
    BY <1>1, StateWritten DEF ApplyPersonCreatedRevert, Stored
  <1>6. ApplyPersonFieldRevert(e) \in Tree
    <2>1. CASE e.person \in Stored(tree)
      <3>1. e.person \in Person /\ e.before.rows[e.person].val \in Value
        BY <1>2, <2>1, TreeParts, RowFields DEF Stored
      <3> QED BY <1>1, <2>1, <3>1, ValueWritten DEF ApplyPersonFieldRevert
    <2>2. CASE e.person \notin Stored(tree)
      BY <1>1, <2>2 DEF ApplyPersonFieldRevert
    <2> QED BY <2>1, <2>2
  <1>7. ApplyRelationshipFieldRevert(e) \in Tree
    <2> DEFINE back == UNION {{[g EXCEPT !.label = b.label] :
                                 b \in {h \in e.before.groups : h.key = g.key}} : g \in Target(e)}
    <2>1. Target(e) \subseteq Group /\ e.before.groups \subseteq Group /\ tree.groups \subseteq Group
      BY <1>1, <1>2, TreeParts DEF Target
    <2>2. \A g \in Target(e), b \in e.before.groups : [g EXCEPT !.label = b.label] \in Group
      BY <2>1, GroupFields
    <2>3. (tree.groups \ Target(e)) \cup back \in SUBSET Group
      BY <2>1, <2>2
    <2>4. ApplyRelationshipFieldRevert(e) = [tree EXCEPT !.groups = (tree.groups \ Target(e)) \cup back]
      BY DEF ApplyRelationshipFieldRevert
    <2> QED BY <1>1, <2>3, <2>4, GroupsWritten
  <1> QED
    BY <1>2, <1>3, <1>4, <1>5, <1>6, <1>7 DEF Kinds

\* Every revert that commits is such a step.
LEMMA RevertStep ==
  ASSUME TypeOK, ClaimsAreSound, NEW t \in Tx, CommitRevert(t)
  PROVE  Undoes(t) /\ tx[t].entry \in DOMAIN audit
  <1> DEFINE i == tx[t].entry
             u == [audit[i] EXCEPT !.action = "REVERT_SNAPSHOT", !.kind = "none",
                                   !.before = EmptyTree, !.reverted = FALSE, !.undoes = i]
  <1>1. tx[t].op = "reverting"
    BY DEF CommitRevert
  <1>2. i \in DOMAIN audit /\ audit[i].kind \in Kinds
    BY <1>1 DEF ClaimsAreSound
  <1>3. i \in Nat /\ era \in Nat /\ audit[i] \in Entry
    BY <1>2, LenProperties, ElementOfSeq DEF TypeOK
  <1>4. u \in Entry
    BY <1>3, EmptyTreeIsTree DEF Entry
  <1>5. u.kind = "none" /\ ~u.reverted /\ u.undoes = i
    BY <1>3 DEF Entry
  <1>6. audit' = Append([audit EXCEPT ![i] = [audit[i] EXCEPT !.reverted = TRUE]], u)
    BY DEF CommitRevert
  <1>7. era' \in Nat
    BY <1>3 DEF CommitRevert
  <1>8. tree' \in Tree
    BY <1>2, RevertedTree
  <1>9. tx' = [tx EXCEPT ![t] = Idle]
    BY DEF CommitRevert, End
  <1> HIDE DEF u
  <1> QED
    BY <1>1, <1>2, <1>4, <1>5, <1>6, <1>7, <1>8, <1>9 DEF Undoes

\* A step of the system is quiet, claims, commits an edit or undoes an entry.
LEMMA Steps ==
  ASSUME TypeOK, ClaimsAreSound, Next
  PROVE  \E t \in Tx : \/ Quiet(t) \/ ClaimRevert(t) \/ Commits(t)
                       \/ Undoes(t) /\ tx[t].entry \in DOMAIN audit
  <1>1. PICK t \in Tx : Edit(t) \/ Revert(t) \/ Rollback(t)
    BY DEF Next
  <1>2. CASE Edit(t)
    BY <1>2, QuietSteps, CommitSteps DEF Edit
  <1>3. CASE Revert(t)
    BY <1>3, QuietSteps, RevertStep DEF Revert
  <1>4. CASE Rollback(t)
    BY <1>4, QuietSteps
  <1> QED
    BY <1>1, <1>2, <1>3, <1>4

----------------------------------------------------------------------------
(* The inductive invariant *)

\* Marking an entry and appending another keeps the log a log.
LEMMA UndoneAudit ==
  ASSUME audit \in Seq(Entry), NEW i \in DOMAIN audit, NEW e \in Entry,
         audit' = Append([audit EXCEPT ![i] = [audit[i] EXCEPT !.reverted = TRUE]], e)
  PROVE  /\ audit' \in Seq(Entry) /\ Len(audit) \in Nat
         /\ DOMAIN audit = 1 .. Len(audit) /\ DOMAIN audit' = 1 .. (Len(audit) + 1)
         /\ \A k \in DOMAIN audit : /\ audit'[k].kind = audit[k].kind
                                    /\ k # i => audit'[k] = audit[k]
  <1> DEFINE m == [audit[i] EXCEPT !.reverted = TRUE]
  <1>1. i \in 1 .. Len(audit) /\ audit[i] \in Entry
    BY LenProperties, ElementOfSeq
  <1>2. m \in Entry /\ m.kind = audit[i].kind
    BY <1>1 DEF Entry
  <1> HIDE DEF m
  <1> DEFINE r == Append([audit EXCEPT ![i] = m], e)
  <1>3. audit' = r
    BY DEF m
  <1>4. /\ r \in Seq(Entry) /\ Len(audit) \in Nat
        /\ DOMAIN audit = 1 .. Len(audit) /\ DOMAIN r = 1 .. (Len(audit) + 1)
        /\ \A k \in 1 .. Len(audit) : r[k] = IF k = i THEN m ELSE audit[k]
    BY <1>1, <1>2, LedgerProofs!MarkedAndAppended
  <1> HIDE DEF r
  <1>5. ASSUME NEW k \in DOMAIN audit
        PROVE  audit'[k].kind = audit[k].kind /\ (k # i => audit'[k] = audit[k])
    <2>1. k \in 1 .. Len(audit) /\ audit'[k] = IF k = i THEN m ELSE audit[k]
      BY <1>3, <1>4
    <2> QED BY <1>2, <2>1
  <1> QED
    BY <1>3, <1>4, <1>5

\* One step keeps the types.
LEMMA TypeStep == TypeOK /\ ClaimsAreSound /\ [Next]_vars => TypeOK'
  <1> SUFFICES ASSUME TypeOK, ClaimsAreSound, [Next]_vars PROVE TypeOK'
    OBVIOUS
  <1>0. /\ tree \in Tree /\ era \in Nat /\ audit \in Seq(Entry) /\ tx \in [Tx -> Transaction]
        /\ Idle \in Transaction
    BY IdleIsTransaction DEF TypeOK
  <1>1. CASE UNCHANGED vars
    BY <1>1 DEF vars, TypeOK
  <1>2. ASSUME NEW t \in Tx, Quiet(t) PROVE TypeOK'
    BY <1>0, <1>2 DEF Quiet, TypeOK
  <1>3. ASSUME NEW t \in Tx, ClaimRevert(t) PROVE TypeOK'
    <2>1. [tx[t] EXCEPT !.op = "reverting", !.seen = Live(tree)] \in Transaction
      BY <1>0 DEF Transaction, Ops, Live
    <2>2. tx' = [tx EXCEPT ![t] = [tx[t] EXCEPT !.op = "reverting", !.seen = Live(tree)]]
      BY <1>3 DEF ClaimRevert
    <2>3. UNCHANGED <<tree, era, audit>>
      BY <1>3 DEF ClaimRevert
    <2> QED BY <1>0, <2>1, <2>2, <2>3 DEF TypeOK
  <1>4. ASSUME NEW t \in Tx, Commits(t) PROVE TypeOK'
    <2>1. audit' \in Seq(Entry)
      BY <1>0, <1>4, LedgerProofs!Appended DEF Commits
    <2> QED BY <1>0, <1>4, <2>1 DEF Commits, TypeOK
  <1>5. ASSUME NEW t \in Tx, Undoes(t), tx[t].entry \in DOMAIN audit PROVE TypeOK'
    <2>1. audit' \in Seq(Entry)
      BY <1>0, <1>5, UndoneAudit DEF Undoes
    <2> QED BY <1>0, <1>5, <2>1 DEF Undoes, TypeOK
  <1> QED
    BY <1>1, <1>2, <1>3, <1>4, <1>5, Steps

\* One step keeps the claims sound: only ClaimRevert starts a restore, and it
\* finds the entry neither reverted nor claimed.
LEMMA ClaimsStep == TypeOK /\ ClaimsAreSound /\ [Next]_vars => ClaimsAreSound'
  <1> SUFFICES ASSUME TypeOK, ClaimsAreSound, [Next]_vars PROVE ClaimsAreSound'
    OBVIOUS
  <1>0. /\ audit \in Seq(Entry) /\ tx \in [Tx -> Transaction] /\ Idle \in Transaction
        /\ Idle.op = "idle"
    BY IdleIsTransaction DEF TypeOK, Idle
  <1>1. CASE UNCHANGED vars
    BY <1>1 DEF vars, ClaimsAreSound
  <1>2. ASSUME NEW t \in Tx, Quiet(t) PROVE ClaimsAreSound'
    BY <1>0, <1>2 DEF Quiet, ClaimsAreSound, Revertible
  <1>3. ASSUME NEW t \in Tx, ClaimRevert(t) PROVE ClaimsAreSound'
    <2>1. PICK x \in Transaction : /\ tx' = [tx EXCEPT ![t] = x]
                                   /\ x.op = "reverting" /\ x.entry = tx[t].entry
      <3>1. [tx[t] EXCEPT !.op = "reverting", !.seen = Live(tree)] \in Transaction
        BY <1>0 DEF Transaction, Ops, Live
      <3>2. tx[t] \in Transaction
        BY <1>0
      <3> QED BY <1>3, <3>1, <3>2 DEF ClaimRevert, Transaction
    <2>2. /\ tx[t].op = "revert" /\ ~audit[tx[t].entry].reverted /\ audit' = audit
          /\ \A u \in Tx : tx[u].op = "reverting" => tx[u].entry # tx[t].entry
      BY <1>3 DEF ClaimRevert
    <2> QED BY <1>0, <2>1, <2>2 DEF ClaimsAreSound
  <1>4. ASSUME NEW t \in Tx, Commits(t) PROVE ClaimsAreSound'
    <2>1. /\ Len(audit) \in Nat
          /\ DOMAIN audit = 1 .. Len(audit) /\ DOMAIN audit' = 1 .. (Len(audit) + 1)
          /\ \A k \in DOMAIN audit : audit'[k] = audit[k]
      BY <1>0, <1>4, LedgerProofs!Appended DEF Commits
    <2>2. \A u \in Tx : tx'[u].op \in {"revert", "reverting"} => tx'[u] = tx[u]
      BY <1>0, <1>4 DEF Commits
    <2> QED BY <2>1, <2>2 DEF ClaimsAreSound
  <1>5. ASSUME NEW t \in Tx, Undoes(t), tx[t].entry \in DOMAIN audit PROVE ClaimsAreSound'
    <2>1. /\ Len(audit) \in Nat
          /\ DOMAIN audit = 1 .. Len(audit) /\ DOMAIN audit' = 1 .. (Len(audit) + 1)
          /\ \A k \in DOMAIN audit : /\ audit'[k].kind = audit[k].kind
                                     /\ k # tx[t].entry => audit'[k] = audit[k]
      BY <1>0, <1>5, UndoneAudit DEF Undoes
    <2>2. \A u \in Tx : tx'[u].op \in {"revert", "reverting"} => u # t /\ tx'[u] = tx[u]
      BY <1>0, <1>5 DEF Undoes
    <2>3. \A u \in Tx : tx'[u].op = "reverting" => tx[u].entry # tx[t].entry
      BY <1>5, <2>2 DEF Undoes, ClaimsAreSound
    <2> QED BY <2>1, <2>2, <2>3 DEF ClaimsAreSound
  <1> QED
    BY <1>1, <1>2, <1>3, <1>4, <1>5, Steps

\* The initial state: no entry, no open transaction.
LEMMA InitInvariant == Init => TypeOK /\ ClaimsAreSound
  BY AuditRevertAssumption, IdleIsTransaction, EmptySeq DEF Init, TypeOK, ClaimsAreSound, Idle

\* The variables keep their types.
THEOREM TypeCorrect == Spec => []TypeOK
  BY InitInvariant, TypeStep, ClaimsStep, PTL DEF Spec

\* Two transactions never restore the same entry, and none restores an entry
\* that is already reverted (the conditional UPDATE of revert_audit_entry).
THEOREM ClaimsSound == Spec => []ClaimsAreSound
  BY InitInvariant, TypeStep, ClaimsStep, PTL DEF Spec

----------------------------------------------------------------------------
(* Refinement *)

\* What the ledger sees of an entry, and of a log.
View == [e \in Entry |-> [revertible |-> e.kind \in Kinds, reverted |-> e.reverted,
                          undoes |-> e.undoes]]

LEMMA LogIsView ==
  ASSUME NEW a \in Seq(Entry)
  PROVE  LedgerProofs!Mapped(View, a)
           = [i \in DOMAIN a |-> [revertible |-> a[i].kind \in Kinds, reverted |-> a[i].reverted,
                                  undoes |-> a[i].undoes]]
  <1>1. \A k \in DOMAIN a : a[k] \in Entry
    BY LenProperties, ElementOfSeq
  <1> QED
    BY <1>1 DEF LedgerProofs!Mapped, View

LEMMA ViewType == View \in [Entry -> LedgerProofs!LogEntry]
  BY EntryFields DEF View, LedgerProofs!LogEntry

\* A marked entry is seen as marked, and as it was otherwise.
LEMMA ViewOfMark ==
  ASSUME NEW e \in Entry
  PROVE  LET m == [e EXCEPT !.reverted = TRUE]
         IN  /\ m \in Entry /\ View[m].reverted
             /\ View[m].revertible = View[e].revertible /\ View[m].undoes = View[e].undoes
  <1> DEFINE m == [e EXCEPT !.reverted = TRUE]
  <1>1. m \in Entry /\ m.kind = e.kind /\ m.reverted = TRUE /\ m.undoes = e.undoes
    BY DEF Entry
  <1> HIDE DEF m
  <1>2. /\ View[m].reverted
        /\ View[m].revertible = View[e].revertible /\ View[m].undoes = View[e].undoes
    BY Zenon, <1>1 DEF View
  <1> QED BY <1>1, <1>2 DEF m

\* Every step of the system is a step of the ledger or leaves it alone.
LEMMA LedgerStep ==
  TypeOK /\ TypeOK' /\ ClaimsAreSound /\ [Next]_vars => [Ledger!LedgerNext]_log
  <1> SUFFICES ASSUME TypeOK, TypeOK', ClaimsAreSound, [Next]_vars, audit' # audit
               PROVE  Ledger!LedgerNext
    BY DEF log
  <1>0. /\ audit \in Seq(Entry) /\ View \in [Entry -> LedgerProofs!LogEntry]
        /\ log = LedgerProofs!Mapped(View, audit) /\ log' = LedgerProofs!Mapped(View, audit')
    BY LogIsView, ViewType DEF TypeOK, log
  <1>1. PICK t \in Tx : Commits(t) \/ (Undoes(t) /\ tx[t].entry \in DOMAIN audit)
    BY Steps DEF vars, Quiet, ClaimRevert
  <1>2. CASE Commits(t)
    <2>1. PICK e \in Entry : audit' = Append(audit, e) /\ ~e.reverted /\ e.undoes = 0
      BY <1>2 DEF Commits
    <2>2. log' = Append(log, View[e])
      BY <1>0, <2>1, LedgerProofs!MappedAppend
    <2> DEFINE r == e.kind \in Kinds
    <2>3. r \in BOOLEAN /\ View[e] = [revertible |-> r, reverted |-> FALSE, undoes |-> 0]
      <3>1. e.reverted = FALSE
        BY <2>1, EntryFields
      <3>2. r \in BOOLEAN
        OBVIOUS
      <3>3. View[e] = [revertible |-> r, reverted |-> FALSE, undoes |-> 0]
        BY Zenon, <2>1, <3>1 DEF View
      <3> QED BY <3>2, <3>3
    <2> HIDE DEF r
    <2>4. Ledger!Record
      BY <2>2, <2>3 DEF Ledger!Record
    <2> QED BY <2>4 DEF Ledger!LedgerNext
  <1>3. CASE Undoes(t) /\ tx[t].entry \in DOMAIN audit
    <2> DEFINE i == tx[t].entry
               m == [audit[i] EXCEPT !.reverted = TRUE]
               marked == [audit EXCEPT ![i] = m]
    <2>1. PICK e \in Entry : /\ audit' = Append(marked, e)
                             /\ e.kind = "none" /\ ~e.reverted /\ e.undoes = i
      BY <1>3 DEF Undoes
    <2>2. i \in DOMAIN audit /\ audit[i] \in Entry
      BY <1>0, <1>3, LenProperties, ElementOfSeq
    <2>3. /\ m \in Entry /\ View[m].reverted
          /\ View[m].revertible = View[audit[i]].revertible
          /\ View[m].undoes = View[audit[i]].undoes
      BY <2>2, ViewOfMark
    <2>6. audit[i].kind \in Kinds /\ ~audit[i].reverted
      BY <1>3 DEF Undoes, ClaimsAreSound
    <2>7. marked = LedgerProofs!Replaced(audit, i, m)
      BY DEF LedgerProofs!Replaced
    <2> HIDE DEF m, i, marked
    <2>4. log' = Append(LedgerProofs!Marked(log, i), View[e])
      BY SMTT(20), <1>0, <2>1, <2>2, <2>3, <2>7, LedgerProofs!MappedUndo
    <2>5. View[e] = [revertible |-> FALSE, reverted |-> FALSE, undoes |-> i]
      <3>1. (e.kind \in Kinds) = FALSE /\ e.reverted = FALSE
        BY <2>1, EntryFields DEF Kinds
      <3> QED BY <2>1, <3>1 DEF View
    <2>8. i \in DOMAIN log /\ log[i].revertible /\ ~log[i].reverted
      BY <2>2, <2>6 DEF log
    <2> QED BY <2>4, <2>5, <2>8 DEF Ledger!LedgerNext, Ledger!Undo, LedgerProofs!Marked
  <1> QED
    BY <1>1, <1>2, <1>3

\* The audit log, the two-step reverts and their rollbacks implement the
\* ledger of undos.
THEOREM LedgerImplemented == Spec => ImplementsLedger
  <1>1. Init => Ledger!LedgerInit
    BY DEF Init, log, Ledger!LedgerInit
  <1> QED
    BY <1>1, InitInvariant, TypeStep, ClaimsStep, LedgerStep, PTL
    DEF Spec, ImplementsLedger, Ledger!LedgerSpec

\* An entry is marked reverted when, and only when, exactly one REVERT entry
\* names it, whoever raced for it.
THEOREM EntriesUndoneOnce == Spec => []UndoneOnce
  <1>1. Ledger!LedgerSpec => []Ledger!UndoneOnce
    BY LedgerProofs!LedgerUndoneOnce
    DEF Ledger!LedgerSpec, LedgerProofs!LedgerSpec, Ledger!UndoneOnce, LedgerProofs!UndoneOnce,
        Ledger!LedgerInit, LedgerProofs!LedgerInit, Ledger!LedgerNext, LedgerProofs!LedgerNext,
        Ledger!Record, LedgerProofs!Record, Ledger!Undo, LedgerProofs!Undo
  <1> QED
    BY <1>1, LedgerImplemented, PTL DEF ImplementsLedger, UndoneOnce
----------------------------------------------------------------------------
(* What snapshots know, and why deletions can be undone *)

\* A person of a snapshot still has a row, a clone exactly if it was one.
Known(t, b) == \A p \in Live(b) : p \in Stored(t) /\ b.rows[p].cloned = t.rows[p].cloned

SnapshotsKnown ==
  /\ \A i \in DOMAIN audit : Known(tree, audit[i].before)
  /\ \A t \in Tx : Known(tree, tx[t].before)

\* A deletion that found the person live was recorded.
DeletedFirst(p) == \E i \in DOMAIN audit :
  audit[i].action = "DELETE_PERSON" /\ audit[i].person = p /\ p \in Live(audit[i].before)

Explained(p) == Revoked(p) \/ DeletedFirst(p)

\* A person that is deleted, or that a deletion found deleted when it began,
\* was once found live by a deletion, unless a revert removed the person.
DeletionsExplained ==
  /\ \A p \in Person : tree.rows[p].st = "deleted" => Explained(p)
  /\ \A t \in Tx : \A p \in Person :
       tx[t].op = "delete_person" /\ tx[t].person = p /\ p \notin Live(tx[t].before) => Explained(p)

\* No step takes a person's row away, or turns it into a clone.
RowsKept == \A p \in Stored(tree) :
  p \in Stored(tree') /\ tree'.rows[p].cloned = tree.rows[p].cloned

\* No step but a mark changes an entry.
LogKept == \A i \in DOMAIN audit :
  /\ i \in DOMAIN audit'
  /\ audit'[i].action = audit[i].action /\ audit'[i].kind = audit[i].kind
  /\ audit'[i].person = audit[i].person /\ audit'[i].before = audit[i].before
  /\ audit[i].reverted => audit'[i].reverted

LEMMA KnownStays ==
  ASSUME RowsKept, NEW b, Known(tree, b)
  PROVE  Known(tree', b)
  BY DEF RowsKept, Known

LEMMA ExplainedStays ==
  ASSUME LogKept, NEW p
  PROVE  /\ Revoked(p) => Revoked(p)'
         /\ Explained(p) => Explained(p)'
         /\ DeletedTwice(p) => DeletedTwice(p)'
  <1>1. Revoked(p) => Revoked(p)'
    BY DEF LogKept, Revoked
  <1>2. DeletedFirst(p) => DeletedFirst(p)'
    BY DEF LogKept, DeletedFirst
  <1>3. DeletedTwice(p) => DeletedTwice(p)'
    <2> SUFFICES ASSUME NEW i \in DOMAIN audit, NEW j \in DOMAIN audit,
                        audit[i].action = "DELETE_PERSON", audit[i].person = p,
                        audit[j].action = "DELETE_PERSON", audit[j].person = p,
                        p \in Live(audit[i].before), p \notin Live(audit[j].before)
                 PROVE  DeletedTwice(p)'
      BY DEF DeletedTwice
    <2> QED BY DEF LogKept, DeletedTwice
  <1> QED
    BY <1>1, <1>2, <1>3 DEF Explained

\* What the snapshot functions return is known.
LEMMA SnapshotsAreKnown ==
  ASSUME NEW t \in Tree
  PROVE  /\ Known(t, EmptyTree) /\ Known(t, Snapshot(t))
         /\ \A p \in Person : Known(t, OnlyPerson(t, p))
         /\ \A k : Known(t, OnlyGroup(t, k))
         /\ \A p \in Person : p \in Live(Snapshot(t)) <=> p \in Live(t)
  <1>1. Known(t, EmptyTree)
    BY NoRowFields DEF Known
  <1>2. \A p \in Person : LiveRows(t)[p] = IF p \in Live(t) THEN t.rows[p] ELSE NoRow
    BY DEF LiveRows
  <1>3. Snapshot(t).rows = LiveRows(t)
    BY DEF Snapshot
  <1>4. \A p \in Person : p \in Live(Snapshot(t)) <=> p \in Live(t)
    BY <1>2, <1>3, NoRowFields DEF Live
  <1>5. Known(t, Snapshot(t))
    BY <1>2, <1>3, <1>4 DEF Known, Live, Stored
  <1>6. ASSUME NEW p \in Person PROVE Known(t, OnlyPerson(t, p))
    <2> DEFINE b == OnlyPerson(t, p)
    <2>1. \A q \in Person : b.rows[q] = IF q = p THEN t.rows[q] ELSE NoRow
      BY EmptyTreeIsTree DEF OnlyPerson, EmptyTree
    <2> HIDE DEF b
    <2>2. Known(t, b)
      BY <2>1, NoRowFields DEF Known, Live, Stored
    <2> QED BY <2>2 DEF b
  <1>7. ASSUME NEW k PROVE Known(t, OnlyGroup(t, k))
    <2>1. OnlyGroup(t, k).rows = EmptyTree.rows
      BY DEF OnlyGroup, EmptyTree
    <2>2. Live(OnlyGroup(t, k)) = {}
      BY <2>1, NoRowFields DEF Live
    <2> QED BY <2>2 DEF Known
  <1> QED
    BY <1>1, <1>4, <1>5, <1>6, <1>7

\* A transaction that opens, claims or gives up: the snapshot it holds is
\* known, and a deletion of a person who is deleted already is explained.
Opens(t) ==
  /\ UNCHANGED <<tree, era, audit>>
  /\ \A u \in Tx \ {t} : tx'[u] = tx[u]
  /\ tx'[t].before = tx[t].before \/ Known(tree, tx'[t].before)
  /\ tx'[t].op = "delete_person" =>
       /\ tx'[t].person \in Person
       /\ tx'[t].person \notin Live(tx'[t].before) => tree.rows[tx'[t].person].st = "deleted"

LEMMA OpenSteps ==
  ASSUME TypeOK, NEW t \in Tx,
         \/ BeginUpdatePerson(t) \/ BeginDeletePerson(t) \/ BeginUpdateFamilyGroup(t)
         \/ BeginDeleteFamilyGroup(t) \/ BeginRemoveMember(t) \/ CountParents(t)
         \/ BeginRevert(t) \/ ClaimRevert(t) \/ Rollback(t)
  PROVE  Opens(t)
  <1>0. tree \in Tree /\ tx \in [Tx -> Transaction] /\ tx[t] \in Transaction
    BY DEF TypeOK
  <1>1. CASE BeginUpdatePerson(t)
    <2> PICK p \in Stored(tree) :
          Begin(t, [Idle EXCEPT !.op = "update_person", !.person = p,
                                !.before = OnlyPerson(tree, p)])
      BY <1>1 DEF BeginUpdatePerson
    <2>1. Known(tree, OnlyPerson(tree, p))
      BY <1>0, SnapshotsAreKnown DEF Stored
    <2>2. tx'[t].before = OnlyPerson(tree, p) /\ tx'[t].op = "update_person"
      BY <1>0 DEF Begin, Idle
    <2> QED BY <1>0, <2>1, <2>2 DEF Opens, Begin
  <1>2. CASE BeginDeletePerson(t)
    <2> PICK p \in Stored(tree) :
          Begin(t, [Idle EXCEPT !.op = "delete_person", !.person = p, !.before = Snapshot(tree)])
      BY <1>2 DEF BeginDeletePerson
    <2>1. /\ p \in Person /\ Known(tree, Snapshot(tree))
          /\ p \notin Live(Snapshot(tree)) => tree.rows[p].st = "deleted"
      <3>1. p \in Person /\ tree.rows[p].st \in {"live", "deleted"}
        BY <1>0, TreeParts, RowFields DEF Stored
      <3> QED BY <1>0, <3>1, SnapshotsAreKnown DEF Live
    <2>2. tx'[t].before = Snapshot(tree) /\ tx'[t].person = p
      BY <1>0 DEF Begin, Idle
    <2> QED BY <1>0, <2>1, <2>2 DEF Opens, Begin
  <1>3. CASE BeginUpdateFamilyGroup(t)
    <2> PICK g \in tree.groups :
          Begin(t, [Idle EXCEPT !.op = "update_family_group", !.key = g.key, !.era = era,
                                !.before = OnlyGroup(tree, g.key)])
      BY <1>3 DEF BeginUpdateFamilyGroup
    <2>1. Known(tree, OnlyGroup(tree, g.key))
      BY <1>0, SnapshotsAreKnown
    <2>2. tx'[t].before = OnlyGroup(tree, g.key) /\ tx'[t].op = "update_family_group"
      BY <1>0 DEF Begin, Idle
    <2> QED BY <1>0, <2>1, <2>2 DEF Opens, Begin
  <1>4. CASE BeginDeleteFamilyGroup(t)
    <2>1. tx'[t].before = Snapshot(tree) /\ tx'[t].op = "delete_family_group"
      BY <1>0, <1>4 DEF BeginDeleteFamilyGroup, Begin, Idle
    <2> QED BY <1>0, <1>4, <2>1, SnapshotsAreKnown DEF Opens, BeginDeleteFamilyGroup, Begin
  <1>5. CASE BeginRemoveMember(t)
    <2>1. tx'[t].before = Snapshot(tree) /\ tx'[t].op = "remove_family_group_member"
      BY <1>0, <1>5 DEF BeginRemoveMember, Begin, Idle
    <2> QED BY <1>0, <1>5, <2>1, SnapshotsAreKnown DEF Opens, BeginRemoveMember, Begin
  <1>6. CASE BeginRevert(t)
    <2>1. tx'[t].before = EmptyTree /\ tx'[t].op = "revert"
      BY <1>0, <1>6 DEF BeginRevert, Begin, Idle
    <2> QED BY <1>0, <1>6, <2>1, SnapshotsAreKnown DEF Opens, BeginRevert, Begin
  <1>7. CASE ClaimRevert(t)
    <2>1. tx'[t].before = tx[t].before /\ tx'[t].op = "reverting"
      BY <1>0, <1>7 DEF ClaimRevert, Transaction
    <2> QED BY <1>0, <1>7, <2>1 DEF Opens, ClaimRevert
  <1>8. CASE Rollback(t)
    <2>1. tx'[t].before = EmptyTree /\ tx'[t].op = "idle"
      BY <1>0, <1>8 DEF Rollback, End, Idle
    <2> QED BY <1>0, <1>8, <2>1, SnapshotsAreKnown DEF Opens, Rollback, End
  <1>9. CASE CountParents(t)
    <2>1. tx'[t].before = tx[t].before /\ tx'[t].op # "delete_person"
      BY <1>0, <1>9 DEF CountParents, Transaction
    <2> QED BY <1>0, <1>9, <2>1 DEF Opens, CountParents
  <1> QED
    BY <1>1, <1>2, <1>3, <1>4, <1>5, <1>6, <1>7, <1>8, <1>9

\* A transaction that commits an edit: it logs its snapshot, or none.
Records(t) ==
  /\ \E e \in Entry : audit' = Append(audit, e) /\ e.before \in {tx[t].before, EmptyTree}
  /\ tx' = tx \/ tx' = [tx EXCEPT ![t] = Idle]

\* An edit that is no deletion deletes nobody.
LEMMA EditRows ==
  ASSUME TypeOK, NEW t \in Tx,
         \/ CreatePerson(t) \/ CommitUpdatePerson(t) \/ CommitUpdateFamilyGroup(t)
         \/ CommitDeleteFamilyGroup(t) \/ CommitRemoveMember(t)
  PROVE  /\ RowsKept /\ Records(t)
         /\ \A p \in Person : tree'.rows[p].st = "deleted" => tree.rows[p].st = "deleted"
  <1>0. /\ tree \in Tree /\ audit \in Seq(Entry) /\ tx[t] \in Transaction
        /\ Idle \in Transaction /\ Idle.before = EmptyTree
        /\ tree.rows \in [Person -> Row] /\ \A p \in Person : tree.rows[p] \in Row
    BY IdleIsTransaction, TreeParts DEF TypeOK, Idle
  <1>1. CASE CreatePerson(t)
    <2>1. PICK p \in Person \ Stored(tree), v \in Value :
            /\ tree' = [tree EXCEPT !.rows[p] = [st |-> "live", cloned |-> FALSE, val |-> v]]
            /\ audit' = Recorded("CREATE_PERSON", "person_created", [Idle EXCEPT !.person = p])
            /\ UNCHANGED <<era, tx>>
      BY <1>1 DEF CreatePerson
    <2> DEFINE x == [Idle EXCEPT !.person = p]
    <2>2. x \in Transaction /\ x.before = EmptyTree
      BY <1>0 DEF Transaction
    <2>3. audit' = Recorded("CREATE_PERSON", "person_created", x)
      BY <2>1
    <2> HIDE DEF x
    <2>4. Records(t)
      <3>1. \E e \in Entry : audit' = Append(audit, e) /\ e.before = EmptyTree
        BY <1>0, <2>2, <2>3, RecordedIsEntry DEF Kinds
      <3>2. tx' = tx
        BY <2>1
      <3> QED BY <3>1, <3>2 DEF Records
    <2> DEFINE r == [st |-> "live", cloned |-> FALSE, val |-> v]
    <2>5. r.st = "live" /\ \A q \in Person : tree'.rows[q] = IF q = p THEN r ELSE tree.rows[q]
      BY <1>0, <2>1 DEF Tree
    <2> HIDE DEF r
    <2> QED BY <2>1, <2>4, <2>5 DEF RowsKept, Stored
  <1>2. CASE CommitUpdatePerson(t)
    <2> PICK v \in Value : /\ tx[t].person \in Live(tree)
                           /\ tree' = [tree EXCEPT !.rows[tx[t].person].val = v]
      BY <1>2 DEF CommitUpdatePerson
    <2>1. audit' = Recorded("UPDATE_PERSON", "person_updated", tx[t]) /\ End(t)
      BY <1>2 DEF CommitUpdatePerson
    <2>2. Records(t)
      BY SMTT(20), <1>0, <2>1, RecordedIsEntry DEF Records, Kinds, End
    <2>3. \A q \in Person : tree'.rows[q].st = tree.rows[q].st
                            /\ tree'.rows[q].cloned = tree.rows[q].cloned
      BY <1>0 DEF Tree, Row, Live
    <2> QED BY <2>2, <2>3 DEF RowsKept, Stored
  <1>3. CASE CommitUpdateFamilyGroup(t)
    <2>1. tree'.rows = tree.rows
      BY <1>0, <1>3 DEF CommitUpdateFamilyGroup, Tree
    <2>2. audit' = Recorded("UPDATE_RELATIONSHIP", "relationship_field", tx[t]) /\ End(t)
      BY <1>3 DEF CommitUpdateFamilyGroup
    <2>3. Records(t)
      BY SMTT(20), <1>0, <2>2, RecordedIsEntry DEF Records, Kinds, End
    <2> QED BY <2>1, <2>3 DEF RowsKept, Stored
  <1>4. CASE CommitDeleteFamilyGroup(t)
    <2>1. tree'.rows = tree.rows
      BY <1>0, <1>4 DEF CommitDeleteFamilyGroup, Tree
    <2>2. audit' = Recorded("REMOVE_RELATIONSHIP", "full_tree", tx[t]) /\ End(t)
      BY <1>4 DEF CommitDeleteFamilyGroup
    <2>3. Records(t)
      BY SMTT(20), <1>0, <2>2, RecordedIsEntry DEF Records, Kinds, End
    <2> QED BY <2>1, <2>3 DEF RowsKept, Stored
  <1>5. CASE CommitRemoveMember(t)
    <2>1. tree'.rows = tree.rows
      BY <1>0, <1>5 DEF CommitRemoveMember, Tree
    <2>2. audit' = Recorded("REMOVE_RELATIONSHIP", "full_tree", tx[t]) /\ End(t)
      BY <1>5 DEF CommitRemoveMember
    <2>3. Records(t)
      BY <1>0, <2>2, RecordedIsEntry DEF Records, Kinds, End
    <2> QED BY <2>1, <2>3 DEF RowsKept, Stored
  <1> QED
    BY <1>1, <1>2, <1>3, <1>4, <1>5

\* A deletion deletes its person, and logs it with what it found.
LEMMA DeleteRows ==
  ASSUME TypeOK, NEW t \in Tx, CommitDeletePerson(t)
  PROVE  /\ RowsKept /\ Records(t)
         /\ \A p \in Person : tree'.rows[p].st = "deleted" =>
              tree.rows[p].st = "deleted" \/ p = tx[t].person
         /\ \E e \in Entry : /\ audit' = Append(audit, e)
                             /\ e.action = "DELETE_PERSON" /\ e.kind = "full_tree"
                             /\ e.person = tx[t].person /\ e.before = tx[t].before
                             /\ ~e.reverted
  <1>0. /\ tree \in Tree /\ audit \in Seq(Entry) /\ tx[t] \in Transaction
        /\ tree.rows \in [Person -> Row] /\ \A p \in Person : tree.rows[p] \in Row
    BY TreeParts DEF TypeOK
  <1>1. audit' = Recorded("DELETE_PERSON", "full_tree", tx[t]) /\ End(t)
        /\ tree' = [tree EXCEPT !.rows[tx[t].person].st = "deleted"]
    BY DEF CommitDeletePerson
  <1>2. \E e \in Entry : /\ audit' = Append(audit, e)
                         /\ e.action = "DELETE_PERSON" /\ e.kind = "full_tree"
                         /\ e.person = tx[t].person /\ e.before = tx[t].before
                         /\ ~e.reverted
    BY <1>0, <1>1, RecordedIsEntry DEF Kinds
  <1>3. \A q \in Person : /\ tree'.rows[q].cloned = tree.rows[q].cloned
                          /\ tree'.rows[q].st = IF q = tx[t].person THEN "deleted"
                                                ELSE tree.rows[q].st
    BY <1>0, <1>1 DEF Tree, Row
  <1>4. RowsKept
    BY <1>3 DEF RowsKept, Stored
  <1>5. Records(t)
    BY <1>1, <1>2 DEF Records, End
  <1> QED
    BY <1>2, <1>3, <1>4, <1>5

\* apply_revert, when the snapshot is known: its persons are back with what
\* they were, of the others those that were seen are gone.
LEMMA RestoredRows ==
  ASSUME NEW t \in Tree, NEW b \in Tree, NEW seen, Known(t, b)
  PROVE  LET z == RestoreTree(t, seen, b)
         IN  /\ \A p \in Stored(t) : p \in Stored(z) /\ z.rows[p].cloned = t.rows[p].cloned
             /\ \A p \in Live(b) : z.rows[p] = b.rows[p]
             /\ \A p \in Person \ Live(b) :
                  LiveRows(z)[p] = IF p \in seen THEN NoRow ELSE LiveRows(t)[p]
             /\ z.groups = Inhabited(b.groups)
  <1> DEFINE z == RestoreTree(t, seen, b)
  <1>0. \A p \in Person : t.rows[p] \in Row /\ b.rows[p] \in Row
    BY TreeParts
  <1>1. z.groups = Inhabited(b.groups) /\ \A p \in Person : z.rows[p] = RestoreRow(t, seen, b, p)
    BY DEF RestoreTree
  <1>2. /\ \A p \in Person : LiveRows(z)[p] = IF z.rows[p].st = "live" THEN z.rows[p] ELSE NoRow
        /\ \A p \in Person : LiveRows(t)[p] = IF t.rows[p].st = "live" THEN t.rows[p] ELSE NoRow
    BY DEF LiveRows, Live
  <1> HIDE DEF z
  <1>3. ASSUME NEW p \in Live(b)
        PROVE  z.rows[p] = b.rows[p] /\ p \in Stored(z) /\ b.rows[p].cloned = t.rows[p].cloned
    <2>1. /\ p \in Person /\ p \in Stored(t) /\ b.rows[p].cloned = t.rows[p].cloned
          /\ b.rows[p].st = "live" /\ b.rows[p].val \in Value
      BY <1>0, RowFields DEF Live, Known
    <2> DEFINE w == [t.rows[p] EXCEPT !.st = "live", !.val = b.rows[p].val]
    <2>2. w.st = "live" /\ w.val = b.rows[p].val /\ w.cloned = t.rows[p].cloned /\ w \in Row
      BY <1>0, <2>1 DEF Row
    <2>3. z.rows[p] = w
      BY <1>1, <2>1 DEF RestoreRow
    <2>4. \A x, y \in Row : x.st = y.st /\ x.cloned = y.cloned /\ x.val = y.val => x = y
      BY DEF Row
    <2> HIDE DEF w
    <2>5. w = b.rows[p]
      BY <1>0, <2>1, <2>2, <2>4
    <2> QED BY <2>1, <2>3, <2>5 DEF Stored
  <1>4. ASSUME NEW p \in Person \ Live(b)
        PROVE  /\ z.rows[p].cloned = t.rows[p].cloned
               /\ p \in Stored(t) => p \in Stored(z)
               /\ LiveRows(z)[p] = IF p \in seen THEN NoRow ELSE LiveRows(t)[p]
    <2> DEFINE w == [t.rows[p] EXCEPT !.st = "deleted"]
    <2>1. w.st = "deleted" /\ w.cloned = t.rows[p].cloned
      BY <1>0 DEF Row
    <2>2. z.rows[p] = IF p \in seen /\ p \in Stored(t) THEN w ELSE t.rows[p]
      BY <1>1 DEF RestoreRow
    <2> HIDE DEF w
    <2>3. CASE p \in seen /\ p \in Stored(t)
      BY <1>2, <2>1, <2>2, <2>3 DEF Stored
    <2>4. CASE ~(p \in seen /\ p \in Stored(t))
      BY <1>2, <2>2, <2>4 DEF Stored
    <2> QED BY <2>3, <2>4
  <1>5. \A p \in Stored(t) : p \in Stored(z) /\ z.rows[p].cloned = t.rows[p].cloned
    BY <1>3, <1>4 DEF Stored
  <1> QED
    BY <1>1, <1>3, <1>4, <1>5 DEF z

\* What a revert does: it restores by the kind of the entry it claimed.
LEMMA RevertRows ==
  ASSUME TypeOK, ClaimsAreSound, SnapshotsKnown, NEW t \in Tx, CommitRevert(t)
  PROVE  LET e == audit[tx[t].entry]
         IN  /\ RowsKept
             /\ e.kind = "full_tree" =>
                  /\ tree' = RestoreTree(tree, tx[t].seen, e.before)
                  /\ \A p \in Live(e.before) : tree'.rows[p].st = "live"
             /\ e.kind # "full_tree" =>
                  \A p \in Person : tree'.rows[p].st = "deleted" =>
                    \/ tree.rows[p].st = "deleted"
                    \/ e.kind = "person_created" /\ e.person = p
  <1> DEFINE e == audit[tx[t].entry]
  <1>0. /\ tree \in Tree /\ e \in Entry /\ e.before \in Tree /\ e.kind \in Kinds
        /\ Known(tree, e.before)
        /\ tree.rows \in [Person -> Row] /\ \A p \in Person : tree.rows[p] \in Row
    <2>1. tx[t].entry \in DOMAIN audit /\ e.kind \in Kinds /\ tree \in Tree
      BY DEF CommitRevert, ClaimsAreSound, TypeOK
    <2>2. e \in Entry
      BY <2>1, LenProperties, ElementOfSeq DEF TypeOK
    <2> QED BY <2>1, <2>2, EntryFields, TreeParts DEF SnapshotsKnown
  <1>1. tree' = CASE e.kind = "full_tree" -> RestoreTree(tree, tx[t].seen, e.before)
                  [] e.kind = "person_created" -> ApplyPersonCreatedRevert(e)
                  [] e.kind = "person_updated" -> ApplyPersonFieldRevert(e)
                  [] e.kind = "relationship_field" -> ApplyRelationshipFieldRevert(e)
    BY DEF CommitRevert
  <1> HIDE DEF e
  <1>2. CASE e.kind = "full_tree"
    <2>1. tree' = RestoreTree(tree, tx[t].seen, e.before)
      BY <1>1, <1>2
    <2>2. RowsKept /\ \A p \in Live(e.before) : tree'.rows[p] = e.before.rows[p]
      BY <1>0, <2>1, RestoredRows DEF RowsKept
    <2> QED BY <1>2, <2>1, <2>2 DEF Live, e
  <1>3. CASE e.kind = "person_created"
    <2>1. tree' = ApplyPersonCreatedRevert(e)
      BY <1>1, <1>3
    <2>2. \A p \in Person : /\ tree'.rows[p].cloned = tree.rows[p].cloned
                            /\ \/ tree'.rows[p].st = tree.rows[p].st
                               \/ p = e.person /\ tree'.rows[p].st = "deleted"
      <3>1. CASE e.person \in Stored(tree)
        BY <1>0, <2>1, <3>1 DEF ApplyPersonCreatedRevert, Tree, Row
      <3>2. CASE e.person \notin Stored(tree)
        BY <2>1, <3>2 DEF ApplyPersonCreatedRevert
      <3> QED BY <3>1, <3>2
    <2>3. RowsKept
      BY <2>2 DEF RowsKept, Stored
    <2> QED BY <1>3, <2>2, <2>3 DEF e
  <1>4. CASE e.kind = "person_updated"
    <2>1. tree' = ApplyPersonFieldRevert(e)
      BY <1>1, <1>4
    <2>2. \A p \in Person : /\ tree'.rows[p].cloned = tree.rows[p].cloned
                            /\ tree'.rows[p].st = tree.rows[p].st
      <3>1. CASE e.person \in Stored(tree)
        BY <1>0, <2>1, <3>1 DEF ApplyPersonFieldRevert, Tree, Row
      <3>2. CASE e.person \notin Stored(tree)
        BY <2>1, <3>2 DEF ApplyPersonFieldRevert
      <3> QED BY <3>1, <3>2
    <2>3. RowsKept
      BY <2>2 DEF RowsKept, Stored
    <2> QED BY <1>4, <2>2, <2>3 DEF e
  <1>5. CASE e.kind = "relationship_field"
    <2>1. tree' = ApplyRelationshipFieldRevert(e)
      BY <1>1, <1>5
    <2>2. tree'.rows = tree.rows
      BY <1>0, <2>1 DEF ApplyRelationshipFieldRevert, Tree
    <2>3. RowsKept
      BY <2>2 DEF RowsKept, Stored
    <2> QED BY <1>5, <2>2, <2>3 DEF e
  <1> QED
    BY <1>0, <1>2, <1>3, <1>4, <1>5 DEF Kinds

\* What a revert does to the log: it marks its entry, and logs no snapshot.
LEMMA RevertLog ==
  ASSUME TypeOK, ClaimsAreSound, NEW t \in Tx, CommitRevert(t)
  PROVE  LET i == tx[t].entry
         IN  /\ i \in DOMAIN audit /\ audit[i].kind \in Kinds
             /\ Len(audit) \in Nat
             /\ DOMAIN audit = 1 .. Len(audit) /\ DOMAIN audit' = 1 .. (Len(audit) + 1)
             /\ \A k \in DOMAIN audit : k # i => audit'[k] = audit[k]
             /\ audit'[i] = [audit[i] EXCEPT !.reverted = TRUE]
             /\ audit'[Len(audit) + 1].before = EmptyTree
             /\ audit'[Len(audit) + 1].undoes = i /\ Len(audit') = Len(audit) + 1
  <1> DEFINE i == tx[t].entry
             m == [audit[i] EXCEPT !.reverted = TRUE]
             u == [audit[i] EXCEPT !.action = "REVERT_SNAPSHOT", !.kind = "none",
                                   !.before = EmptyTree, !.reverted = FALSE, !.undoes = i]
             r == Append([audit EXCEPT ![i] = m], u)
  <1>1. i \in DOMAIN audit /\ audit[i].kind \in Kinds /\ audit \in Seq(Entry)
    BY DEF CommitRevert, ClaimsAreSound, TypeOK
  <1>2. i \in 1 .. Len(audit) /\ audit[i] \in Entry /\ i \in Nat
    BY <1>1, LenProperties, ElementOfSeq
  <1>3. m \in Entry
    BY <1>2 DEF Entry
  <1>4. u \in Entry /\ u.before = EmptyTree /\ u.undoes = i
    BY <1>2, EmptyTreeIsTree DEF Entry
  <1>5. audit' = r
    BY DEF CommitRevert
  <1>6. /\ Len(audit) \in Nat /\ Len(r) = Len(audit) + 1
        /\ DOMAIN audit = 1 .. Len(audit) /\ DOMAIN r = 1 .. (Len(audit) + 1)
        /\ \A k \in 1 .. Len(audit) : r[k] = IF k = i THEN m ELSE audit[k]
        /\ r[Len(audit) + 1] = u
    <2> HIDE DEF i, m, u
    <2> QED BY <1>1, <1>2, <1>3, <1>4, LedgerProofs!MarkedAndAppended
  <1> HIDE DEF r, m, u
  <1>7. audit'[i] = m /\ audit'[Len(audit) + 1] = u
    BY <1>2, <1>5, <1>6
  <1> QED
    BY <1>1, <1>4, <1>5, <1>6, <1>7 DEF m

\* A mark changes nothing else of an entry.
LEMMA MarkKeeps ==
  ASSUME NEW e \in Entry
  PROVE  LET m == [e EXCEPT !.reverted = TRUE]
         IN  /\ m.action = e.action /\ m.kind = e.kind /\ m.person = e.person
             /\ m.before = e.before /\ m.reverted = TRUE
  BY DEF Entry

LEMMA RevertKeepsLog ==
  ASSUME TypeOK, ClaimsAreSound, NEW t \in Tx, CommitRevert(t)
  PROVE  LogKept /\ audit'[tx[t].entry].reverted
  <1> DEFINE i == tx[t].entry
             m == [audit[i] EXCEPT !.reverted = TRUE]
  <1>1. i \in DOMAIN audit /\ audit[i] \in Entry
    BY RevertLog, ElementOfSeq DEF TypeOK
  <1>2. /\ m.action = audit[i].action /\ m.kind = audit[i].kind /\ m.person = audit[i].person
        /\ m.before = audit[i].before /\ m.reverted = TRUE
    BY <1>1, MarkKeeps
  <1>3. /\ DOMAIN audit = 1 .. Len(audit) /\ DOMAIN audit' = 1 .. (Len(audit) + 1)
        /\ Len(audit) \in Nat /\ audit'[i] = m
        /\ \A k \in DOMAIN audit : k # i => audit'[k] = audit[k]
    BY RevertLog
  <1> HIDE DEF m, i
  <1>4. LogKept
    BY <1>1, <1>2, <1>3 DEF LogKept
  <1> QED
    BY <1>2, <1>3, <1>4 DEF i

LEMMA RecordsKeepLog ==
  ASSUME TypeOK, NEW e \in Entry, audit' = Append(audit, e)
  PROVE  /\ LogKept /\ Len(audit) \in Nat
         /\ DOMAIN audit = 1 .. Len(audit) /\ DOMAIN audit' = 1 .. (Len(audit) + 1)
         /\ audit'[Len(audit) + 1] = e /\ \A k \in DOMAIN audit : audit'[k] = audit[k]
  <1>1. /\ Len(audit) \in Nat /\ audit'[Len(audit) + 1] = e
        /\ DOMAIN audit = 1 .. Len(audit) /\ DOMAIN audit' = 1 .. (Len(audit) + 1)
        /\ \A k \in DOMAIN audit : audit'[k] = audit[k]
    BY LedgerProofs!Appended DEF TypeOK
  <1> QED
    BY <1>1 DEF LogKept

----------------------------------------------------------------------------
(* The two invariants hold after a step *)

\* One step of the system, with the transaction that takes it.
Takes(t) ==
  \/ Opens(t)
  \/ /\ RowsKept /\ Records(t)
     /\ \A p \in Person : tree'.rows[p].st = "deleted" => tree.rows[p].st = "deleted"
  \/ CommitDeletePerson(t)
  \/ CommitRevert(t)

LEMMA StepsTaken ==
  ASSUME TypeOK, Next
  PROVE  \E t \in Tx : Takes(t)
  <1>1. PICK t \in Tx : Edit(t) \/ Revert(t) \/ Rollback(t)
    BY DEF Next
  <1> QED
    BY <1>1, OpenSteps, EditRows DEF Edit, Revert, Takes

LEMMA KnownStep == TypeOK /\ ClaimsAreSound /\ SnapshotsKnown /\ [Next]_vars => SnapshotsKnown'
  <1> SUFFICES ASSUME TypeOK, ClaimsAreSound, SnapshotsKnown, [Next]_vars PROVE SnapshotsKnown'
    OBVIOUS
  <1>0. tree \in Tree /\ tx \in [Tx -> Transaction] /\ Idle.before = EmptyTree
    BY DEF TypeOK, Idle
  <1>1. CASE UNCHANGED vars
    BY <1>1 DEF vars, SnapshotsKnown
  <1>2. ASSUME NEW t \in Tx, Opens(t) PROVE SnapshotsKnown'
    BY <1>2 DEF Opens, SnapshotsKnown
  <1>3. ASSUME NEW t \in Tx, RowsKept, Records(t) PROVE SnapshotsKnown'
    <2>0. tree' \in Tree
      BY <1>0, TypeStep DEF TypeOK
    <2>1. PICK e \in Entry : audit' = Append(audit, e) /\ e.before \in {tx[t].before, EmptyTree}
      BY <1>3 DEF Records
    <2>2. Known(tree', e.before)
      BY <1>3, <2>0, <2>1, KnownStays, SnapshotsAreKnown DEF SnapshotsKnown
    <2>3. \A i \in DOMAIN audit' : Known(tree', audit'[i].before)
      BY <1>3, <2>1, <2>2, RecordsKeepLog, KnownStays DEF SnapshotsKnown
    <2>4. \A u \in Tx : tx'[u] = tx[u] \/ tx'[u] = Idle
      BY <1>0, <1>3 DEF Records
    <2>5. \A u \in Tx : Known(tree', tx'[u].before)
      BY <1>0, <1>3, <2>0, <2>4, KnownStays, SnapshotsAreKnown DEF SnapshotsKnown
    <2> QED BY <2>3, <2>5 DEF SnapshotsKnown
  <1>4. ASSUME NEW t \in Tx, CommitDeletePerson(t) PROVE SnapshotsKnown'
    BY <1>3, <1>4, DeleteRows
  <1>5. ASSUME NEW t \in Tx, CommitRevert(t) PROVE SnapshotsKnown'
    <2>0. tree' \in Tree
      BY <1>0, TypeStep DEF TypeOK
    <2>1. RowsKept
      BY <1>5, RevertRows
    <2>2. \A i \in DOMAIN audit : audit'[i].before = audit[i].before
      BY <1>5, RevertKeepsLog DEF LogKept
    <2>3. \A i \in DOMAIN audit' : i \in DOMAIN audit \/ audit'[i].before = EmptyTree
      <3>1. /\ Len(audit) \in Nat /\ DOMAIN audit = 1 .. Len(audit)
            /\ DOMAIN audit' = 1 .. (Len(audit) + 1)
            /\ audit'[Len(audit) + 1].before = EmptyTree
        BY <1>5, RevertLog
      <3> QED BY <3>1
    <2>4. \A i \in DOMAIN audit' : Known(tree', audit'[i].before)
      BY <2>0, <2>1, <2>2, <2>3, KnownStays, SnapshotsAreKnown DEF SnapshotsKnown
    <2>5. \A u \in Tx : tx'[u] = tx[u] \/ tx'[u] = Idle
      BY <1>0, <1>5 DEF CommitRevert, End
    <2>6. \A u \in Tx : Known(tree', tx'[u].before)
      BY <1>0, <2>0, <2>1, <2>5, KnownStays, SnapshotsAreKnown DEF SnapshotsKnown
    <2> QED BY <2>4, <2>6 DEF SnapshotsKnown
  <1> QED
    BY <1>1, <1>2, <1>3, <1>4, <1>5, StepsTaken DEF Takes

LEMMA ExplainedStep ==
  ASSUME TypeOK, ClaimsAreSound, SnapshotsKnown, DeletionsExplained, [Next]_vars
  PROVE  DeletionsExplained'
  <1>0. tree \in Tree /\ tx \in [Tx -> Transaction] /\ Idle.op = "idle"
    BY DEF TypeOK, Idle
  <1>1. ASSUME LogKept, \A u \in Tx : tx'[u] = tx[u] \/ tx'[u] = Idle,
               \A p \in Person : tree'.rows[p].st = "deleted" =>
                 tree.rows[p].st = "deleted" \/ Explained(p)'
        PROVE  DeletionsExplained'
    <2>1. \A p \in Person : tree'.rows[p].st = "deleted" => Explained(p)'
      BY <1>1, ExplainedStays DEF DeletionsExplained
    <2>2. ASSUME NEW u \in Tx, NEW p \in Person, tx'[u].op = "delete_person",
                 tx'[u].person = p, p \notin Live(tx'[u].before)
          PROVE  Explained(p)'
      <3>1. tx'[u] = tx[u]
        BY <1>0, <1>1, <2>2
      <3>2. Explained(p)
        BY <2>2, <3>1 DEF DeletionsExplained
      <3> QED BY <1>1, <3>2, ExplainedStays
    <2> QED BY <2>1, <2>2 DEF DeletionsExplained
  <1>2. CASE UNCHANGED vars
    BY <1>2 DEF vars, DeletionsExplained, Explained, Revoked, DeletedFirst
  <1>3. ASSUME NEW t \in Tx, Opens(t) PROVE DeletionsExplained'
    <2>1. UNCHANGED <<tree, audit>>
      BY <1>3 DEF Opens
    <2>2. \A p \in Person : tree.rows[p].st = "deleted" => Explained(p)
      BY DEF DeletionsExplained
    <2>3. \A p : Explained(p) => Explained(p)'
      BY <2>1 DEF Explained, Revoked, DeletedFirst
    <2>4. ASSUME NEW u \in Tx, NEW p \in Person, tx'[u].op = "delete_person",
                 tx'[u].person = p, p \notin Live(tx'[u].before)
          PROVE  Explained(p)
      BY <1>3, <2>2, <2>4 DEF Opens, DeletionsExplained
    <2> QED BY <2>1, <2>2, <2>3, <2>4 DEF DeletionsExplained
  <1>4. ASSUME NEW t \in Tx, RowsKept, Records(t),
               \A p \in Person : tree'.rows[p].st = "deleted" => tree.rows[p].st = "deleted"
        PROVE  DeletionsExplained'
    <2>1. LogKept
      BY <1>4, RecordsKeepLog DEF Records
    <2>2. \A u \in Tx : tx'[u] = tx[u] \/ tx'[u] = Idle
      BY <1>0, <1>4 DEF Records
    <2> QED BY <1>1, <1>4, <2>1, <2>2
  <1>5. ASSUME NEW t \in Tx, CommitDeletePerson(t) PROVE DeletionsExplained'
    <2>1. PICK e \in Entry : /\ audit' = Append(audit, e)
                             /\ e.action = "DELETE_PERSON" /\ e.person = tx[t].person
                             /\ e.before = tx[t].before
      BY <1>5, DeleteRows
    <2>2. /\ LogKept /\ Len(audit) \in Nat /\ DOMAIN audit' = 1 .. (Len(audit) + 1)
          /\ audit'[Len(audit) + 1] = e
      BY <2>1, RecordsKeepLog
    <2>3. \A u \in Tx : tx'[u] = tx[u] \/ tx'[u] = Idle
      BY <1>0, <1>5 DEF CommitDeletePerson, End
    <2>4. ASSUME NEW p \in Person, p = tx[t].person PROVE Explained(p)'
      <3>1. CASE p \in Live(tx[t].before)
        <4>1. DeletedFirst(p)'
          BY <2>1, <2>2, <2>4, <3>1 DEF DeletedFirst
        <4> QED BY <4>1 DEF Explained
      <3>2. CASE p \notin Live(tx[t].before)
        <4>1. Explained(p)
          BY <1>5, <2>4, <3>2 DEF CommitDeletePerson, DeletionsExplained
        <4> QED BY <2>2, <4>1, ExplainedStays
      <3> QED BY <3>1, <3>2
    <2>5. \A p \in Person : tree'.rows[p].st = "deleted" =>
            tree.rows[p].st = "deleted" \/ p = tx[t].person
      BY <1>5, DeleteRows
    <2> QED BY <1>1, <2>2, <2>3, <2>4, <2>5
  <1>6. ASSUME NEW t \in Tx, CommitRevert(t) PROVE DeletionsExplained'
    <2> DEFINE i == tx[t].entry
    <2>1. /\ LogKept /\ i \in DOMAIN audit /\ i \in DOMAIN audit' /\ audit'[i].reverted
          /\ audit'[i].kind = audit[i].kind /\ audit'[i].person = audit[i].person
          /\ audit'[i].before = audit[i].before
      BY <1>6, RevertKeepsLog, RevertLog DEF LogKept
    <2>2. \A u \in Tx : tx'[u] = tx[u] \/ tx'[u] = Idle
      BY <1>0, <1>6 DEF CommitRevert, End
    <2>3. ASSUME NEW p \in Person, tree'.rows[p].st = "deleted"
          PROVE  tree.rows[p].st = "deleted" \/ Explained(p)'
      <3>1. CASE audit[i].kind = "full_tree"
        <4>1. p \notin Live(audit[i].before)
          BY <1>6, <2>3, <3>1, RevertRows
        <4>2. Revoked(p)'
          BY <2>1, <3>1, <4>1 DEF Revoked
        <4> QED BY <4>2 DEF Explained
      <3>2. CASE audit[i].kind # "full_tree"
        <4>1. \/ tree.rows[p].st = "deleted"
              \/ audit[i].kind = "person_created" /\ audit[i].person = p
          BY <1>6, <2>3, <3>2, RevertRows
        <4>2. audit[i].kind = "person_created" /\ audit[i].person = p => Revoked(p)'
          BY <2>1 DEF Revoked
        <4> QED BY <4>1, <4>2 DEF Explained
      <3> QED BY <3>1, <3>2
    <2> QED BY <1>1, <2>1, <2>2, <2>3
  <1> QED
    BY <1>2, <1>3, <1>4, <1>5, <1>6, StepsTaken DEF Takes

----------------------------------------------------------------------------
(* Deletions are recoverable, and a revert restores its snapshot *)

Recoverable(p) == OpenFor(p) \/ Revoked(p) \/ DeletedTwice(p)

\* An entry that is only added to keeps the others open.
LEMMA OpenForStays ==
  ASSUME \A i \in DOMAIN audit : i \in DOMAIN audit' /\ audit'[i] = audit[i], NEW p, OpenFor(p)
  PROVE  OpenFor(p)'
  BY DEF OpenFor, Revertible

LEMMA RecoverableStep ==
  ASSUME TypeOK, ClaimsAreSound, SnapshotsKnown, DeletionsExplained, DeletionsAreRecoverable,
         [Next]_vars
  PROVE  DeletionsAreRecoverable'
  <1> SUFFICES ASSUME NEW p \in Person, tree'.rows[p].st = "deleted" PROVE Recoverable(p)'
    BY DEF DeletionsAreRecoverable, Recoverable
  <1>0. tree.rows[p].st = "deleted" => Recoverable(p)
    BY DEF DeletionsAreRecoverable, Recoverable
  <1>1. ASSUME LogKept PROVE Revoked(p) \/ DeletedTwice(p) => Recoverable(p)'
    BY <1>1, ExplainedStays DEF Recoverable
  <1>2. CASE UNCHANGED vars
    BY <1>0, <1>2 DEF vars, Recoverable, OpenFor, Revoked, DeletedTwice, Revertible
  <1>3. ASSUME NEW t \in Tx, Opens(t) PROVE Recoverable(p)'
    BY <1>0, <1>3 DEF Opens, Recoverable, OpenFor, Revoked, DeletedTwice, Revertible
  <1>4. ASSUME NEW t \in Tx, Records(t), tree.rows[p].st = "deleted" PROVE Recoverable(p)'
    <2>1. /\ LogKept /\ Len(audit) \in Nat /\ DOMAIN audit = 1 .. Len(audit)
          /\ DOMAIN audit' = 1 .. (Len(audit) + 1)
          /\ \A k \in DOMAIN audit : audit'[k] = audit[k]
      BY <1>4, RecordsKeepLog DEF Records
    <2>2. OpenFor(p) => OpenFor(p)'
      BY <2>1, OpenForStays
    <2> QED BY <1>0, <1>1, <1>4, <2>1, <2>2 DEF Recoverable
  <1>5. ASSUME NEW t \in Tx, CommitDeletePerson(t) PROVE Recoverable(p)'
    <2>1. PICK e \in Entry : /\ audit' = Append(audit, e)
                             /\ e.action = "DELETE_PERSON" /\ e.kind = "full_tree"
                             /\ e.person = tx[t].person /\ e.before = tx[t].before
                             /\ ~e.reverted
      BY <1>5, DeleteRows
    <2>2. /\ LogKept /\ Len(audit) \in Nat /\ DOMAIN audit = 1 .. Len(audit)
          /\ DOMAIN audit' = 1 .. (Len(audit) + 1)
          /\ audit'[Len(audit) + 1] = e /\ \A k \in DOMAIN audit : audit'[k] = audit[k]
      BY <2>1, RecordsKeepLog
    <2>3. CASE p = tx[t].person /\ p \in Live(tx[t].before)
      <3>1. OpenFor(p)'
        BY <2>1, <2>2, <2>3 DEF OpenFor, Revertible, Kinds
      <3> QED BY <3>1 DEF Recoverable
    <2>4. CASE p = tx[t].person /\ p \notin Live(tx[t].before)
      <3>1. Explained(p)
        BY <1>5, <2>4 DEF CommitDeletePerson, DeletionsExplained
      <3>2. CASE Revoked(p)
        BY <1>1, <2>2, <3>2
      <3>3. CASE DeletedFirst(p)
        <4>1. DeletedTwice(p)'
          BY <2>1, <2>2, <2>4, <3>3 DEF DeletedFirst, DeletedTwice
        <4> QED BY <4>1 DEF Recoverable
      <3> QED BY <3>1, <3>2, <3>3 DEF Explained
    <2>5. CASE p # tx[t].person
      <3>1. tree.rows[p].st = "deleted" /\ Records(t)
        BY <1>5, <2>5, DeleteRows
      <3> QED BY <1>4, <3>1
    <2> QED BY <2>3, <2>4, <2>5
  <1>6. ASSUME NEW t \in Tx, CommitRevert(t) PROVE Recoverable(p)'
    <2> DEFINE i == tx[t].entry
    <2>1. /\ LogKept /\ i \in DOMAIN audit /\ i \in DOMAIN audit' /\ audit'[i].reverted
          /\ audit'[i].kind = audit[i].kind /\ audit'[i].person = audit[i].person
          /\ audit'[i].before = audit[i].before
          /\ \A k \in DOMAIN audit : k # i => audit'[k] = audit[k]
      BY <1>6, RevertKeepsLog, RevertLog DEF LogKept
    <2>2. CASE audit[i].kind = "full_tree"
      <3>1. p \notin Live(audit[i].before)
        BY <1>6, <2>2, RevertRows
      <3>2. Revoked(p)'
        BY <2>1, <2>2, <3>1 DEF Revoked
      <3> QED BY <3>2 DEF Recoverable
    <2>3. CASE audit[i].kind # "full_tree"
      <3>1. CASE audit[i].kind = "person_created" /\ audit[i].person = p
        <4>1. Revoked(p)'
          BY <2>1, <3>1 DEF Revoked
        <4> QED BY <4>1 DEF Recoverable
      <3>2. CASE tree.rows[p].st = "deleted"
        <4>1. OpenFor(p) => OpenFor(p)'
          BY <2>1, <2>3 DEF OpenFor, Revertible, LogKept
        <4> QED BY <1>0, <1>1, <2>1, <3>2, <4>1 DEF Recoverable
      <3> QED BY <1>6, <2>3, <3>1, <3>2, RevertRows
    <2> QED BY <2>2, <2>3
  <1> QED
    BY <1>2, <1>3, <1>4, <1>5, <1>6, StepsTaken DEF Takes

IInv == TypeOK /\ ClaimsAreSound /\ SnapshotsKnown /\ DeletionsExplained /\ DeletionsAreRecoverable

LEMMA Invariant == Spec => []IInv
  <1>1. Init => IInv
    <2> SUFFICES ASSUME Init PROVE IInv
      OBVIOUS
    <2>1. \A t \in Tx : tx[t].op = "idle" /\ tx[t].before = EmptyTree
      BY DEF Init, Idle
    <2>2. audit = << >> /\ DOMAIN audit = {} /\ \A p \in Person : tree.rows[p].st # "deleted"
      BY AuditRevertAssumption DEF Init
    <2>3. tree \in Tree
      BY AuditRevertAssumption DEF Init
    <2>4. SnapshotsKnown
      BY <2>1, <2>2, <2>3, SnapshotsAreKnown DEF SnapshotsKnown
    <2>5. DeletionsExplained /\ DeletionsAreRecoverable
      BY <2>1, <2>2 DEF DeletionsExplained, DeletionsAreRecoverable
    <2> QED BY <2>4, <2>5, InitInvariant DEF IInv
  <1>2. IInv /\ [Next]_vars => IInv'
    BY TypeStep, ClaimsStep, KnownStep, ExplainedStep, RecoverableStep DEF IInv
  <1> QED
    BY <1>1, <1>2, PTL DEF Spec

\* What the audit log is for: however edits, deletions and reverts overlap, a
\* soft-deleted person can be brought back by an entry that is still open,
\* unless a revert removed the person or the deletion was repeated.
THEOREM DeletionsRecoverable == Spec => []DeletionsAreRecoverable
  <1>1. IInv => DeletionsAreRecoverable
    BY DEF IInv
  <1> QED
    BY <1>1, Invariant, PTL

\* The transaction that restores entry i is the one that claimed it.
LEMMA RestoresStep ==
  ASSUME IInv, [Next]_vars, NEW t \in Tx, NEW i \in DOMAIN audit, Reverts(i),
         audit[i].kind = "full_tree", tx[t].op = "reverting", tx[t].entry = i
  PROVE  /\ LiveRows(tree') = [p \in Person |->
              IF p \in Live(audit[i].before) THEN audit[i].before.rows[p]
              ELSE IF p \in tx[t].seen THEN NoRow ELSE LiveRows(tree)[p]]
         /\ tree'.groups = Inhabited(audit[i].before.groups)
  <1>0. TypeOK /\ ClaimsAreSound /\ SnapshotsKnown /\ Len(audit) \in Nat /\ i # 0
        /\ tree \in Tree /\ audit[i] \in Entry
    <2>1. DOMAIN audit = 1 .. Len(audit) /\ Len(audit) \in Nat
      BY LenProperties DEF IInv, TypeOK
    <2> QED BY <2>1, ElementOfSeq DEF IInv, TypeOK
  <1>1. CommitRevert(t)
    <2>1. ASSUME NEW u \in Tx, Commits(u) PROVE FALSE
      <3>1. PICK e \in Entry : audit' = Append(audit, e) /\ e.undoes = 0
        BY <2>1 DEF Commits
      <3>2. Len(audit') = Len(audit) + 1 /\ audit'[Len(audit) + 1] = e
        BY <1>0, <3>1, LedgerProofs!Appended DEF TypeOK
      <3> QED BY <1>0, <3>1, <3>2 DEF Reverts
    <2>2. ASSUME NEW u \in Tx, CommitRevert(u) PROVE u = t
      <3>1. audit'[Len(audit) + 1].undoes = tx[u].entry /\ Len(audit') = Len(audit) + 1
        BY <1>0, <2>2, RevertLog
      <3>2. tx[u].entry = i /\ tx[u].op = "reverting"
        BY <2>2, <3>1 DEF Reverts, CommitRevert
      <3> QED BY <1>0, <3>2 DEF ClaimsAreSound
    <2>3. ASSUME UNCHANGED audit PROVE FALSE
      BY <1>0, <2>3 DEF Reverts
    <2>4. PICK u \in Tx : Edit(u) \/ Revert(u) \/ Rollback(u)
      BY <2>3 DEF Next, vars
    <2>5. CommitRevert(u)
      BY <1>0, <2>1, <2>3, <2>4, OpenSteps, CommitSteps DEF Edit, Revert, Opens
    <2> QED BY <2>2, <2>5
  <1>2. /\ tree' = RestoreTree(tree, tx[t].seen, audit[i].before)
        /\ audit[i].before \in Tree /\ Known(tree, audit[i].before)
    BY <1>0, <1>1, RevertRows, EntryFields DEF SnapshotsKnown
  <1> DEFINE b == audit[i].before
  <1>3. /\ \A p \in Live(b) : tree'.rows[p] = b.rows[p]
        /\ \A p \in Person \ Live(b) :
             LiveRows(tree')[p] = IF p \in tx[t].seen THEN NoRow ELSE LiveRows(tree)[p]
        /\ tree'.groups = Inhabited(b.groups)
    BY <1>0, <1>2, RestoredRows
  <1> HIDE DEF b
  <1>4. \A p \in Live(b) : LiveRows(tree')[p] = b.rows[p]
    <2>1. \A p \in Live(b) : p \in Person /\ b.rows[p].st = "live"
      BY DEF Live
    <2> QED BY <1>3, <2>1 DEF LiveRows, Live
  <1>5. LiveRows(tree') = [p \in Person |-> LiveRows(tree')[p]]
    BY DEF LiveRows
  <1> QED
    BY <1>3, <1>4, <1>5 DEF b

\* A full-tree revert gives back its snapshot, whatever was committed since
\* it was taken, and removes who was there when it looked.
THEOREM SnapshotRestored == Spec => RestoresSnapshot
  <1>1. IInv /\ [Next]_vars =>
          [\A t \in Tx : \A i \in DOMAIN audit :
             (Reverts(i) /\ audit[i].kind = "full_tree" /\ tx[t].op = "reverting" /\ tx[t].entry = i)
             => /\ LiveRows(tree') = [p \in Person |->
                     IF p \in Live(audit[i].before) THEN audit[i].before.rows[p]
                     ELSE IF p \in tx[t].seen THEN NoRow ELSE LiveRows(tree)[p]]
                /\ tree'.groups = Inhabited(audit[i].before.groups)]_vars
    BY RestoresStep
  <1> QED
    BY <1>1, Invariant, PTL DEF Spec, RestoresSnapshot
=============================================================================
