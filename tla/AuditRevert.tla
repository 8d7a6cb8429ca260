---------------------------- MODULE AuditRevert ----------------------------
(***************************************************************************)
(* One directly edited tree, its audit log, and the Super-Admin revert of  *)
(* any revertible entry (tree_snapshot.py, and the handlers that record    *)
(* snapshots).  Every handler runs in a database transaction of its own at *)
(* READ COMMITTED: it reads the state it snapshots in one step and writes  *)
(* in a later one, and other transactions may commit in between.  Row      *)
(* locks are held from the first write to the commit, so the writes and    *)
(* the commit of a transaction are one step.                               *)
(***************************************************************************)
EXTENDS TreeStore, Naturals, Sequences

CONSTANTS
  Tx,         \* database transactions that can be open at once
  NoPerson, NoKey,
  Start,      \* the tree before its first audited operation
  MaxLog      \* bound on the audit log's length

ASSUME AuditRevertAssumption ==
  /\ NoPerson \notin Person /\ NoKey \notin Key
  /\ MaxLog \in Nat
  /\ Start \in Tree
  /\ \A p \in Person : Start.rows[p].st # "deleted"
  /\ \A g \in Start.groups : g.parents # {} /\ Members(g) \subseteq Stored(Start)
  /\ \A g, h \in Start.groups : g.key = h.key => g = h

VARIABLES
  tree,   \* the tree's rows
  era,    \* how often the tree's groups were wiped and inserted under new uuids
  audit,  \* audit_logs, oldest first
  tx      \* the open transactions

vars == <<tree, era, audit, tx>>

Kinds == {"full_tree", "person_created", "person_updated", "relationship_field"}

\* kind is metadata.snapshot_kind ("none" for REVERT entries); before is the
\* snapshot, of one row for the surgical kinds; <<era, key>> is the uuid of
\* the family group the entry is about; undoes is metadata.reverted_entry_id.
Entry == [action : {"CREATE_PERSON", "UPDATE_PERSON", "DELETE_PERSON",
                    "UPDATE_RELATIONSHIP", "REMOVE_RELATIONSHIP", "REVERT_SNAPSHOT"},
          kind : Kinds \cup {"none"}, person : Person \cup {NoPerson},
          key : Key \cup {NoKey}, era : Nat, before : Tree,
          reverted : BOOLEAN, undoes : Nat]

Ops == {"update_person", "delete_person", "update_family_group",
        "delete_family_group", "remove_family_group_member", "member_removed",
        "last_parent_removed", "revert", "reverting"}

Idle == [op |-> "idle", person |-> NoPerson, key |-> NoKey, era |-> 0,
         before |-> EmptyTree, entry |-> 0, seen |-> {}]

Transaction == [op : Ops \cup {"idle"}, person : Person \cup {NoPerson},
                key : Key \cup {NoKey}, era : Nat, before : Tree,
                entry : Nat, seen : SUBSET Person]

TypeOK ==
  /\ tree \in Tree
  /\ era \in Nat
  /\ audit \in Seq(Entry)
  /\ tx \in [Tx -> Transaction]

----------------------------------------------------------------------------
\* snapshot_person_fields and snapshot_family_group_fields: one row each.
OnlyPerson(t, p) == [EmptyTree EXCEPT !.rows[p] = t.rows[p]]

OnlyGroup(t, k) == [EmptyTree EXCEPT !.groups = {g \in t.groups : g.key = k}]

\* is_revertible.
Revertible(e) == ~e.reverted /\ e.kind \in Kinds

\* record_revertible_action for the transaction x.
Recorded(action, kind, x) ==
  Append(audit, [action |-> action, kind |-> kind, person |-> x.person, key |-> x.key,
                 era |-> x.era, before |-> x.before, reverted |-> FALSE, undoes |-> 0])

\* A handler must leave room in the bounded log for its own entry.
LogHasRoom == Len(audit) < MaxLog

Begin(t, x) ==
  /\ tx[t].op = "idle"
  /\ LogHasRoom
  /\ tx' = [tx EXCEPT ![t] = x]
  /\ UNCHANGED <<tree, era, audit>>

End(t) == tx' = [tx EXCEPT ![t] = Idle]

----------------------------------------------------------------------------
\* create_person: one INSERT and its entry.
CreatePerson(t) == \E p \in Person \ Stored(tree), v \in Value :
  /\ tx[t].op = "idle"
  /\ LogHasRoom
  /\ tree' = [tree EXCEPT !.rows[p] = [st |-> "live", cloned |-> FALSE, val |-> v]]
  /\ audit' = Recorded("CREATE_PERSON", "person_created", [Idle EXCEPT !.person = p])
  /\ UNCHANGED <<era, tx>>

BeginUpdatePerson(t) == \E p \in Stored(tree) :
  Begin(t, [Idle EXCEPT !.op = "update_person", !.person = p,
                        !.before = OnlyPerson(tree, p)])

CommitUpdatePerson(t) == \E v \in Value :
  /\ tx[t].op = "update_person"
  /\ LogHasRoom
  /\ tx[t].person \in Live(tree)   \* otherwise 404, see Rollback
  /\ tree' = [tree EXCEPT !.rows[tx[t].person].val = v]
  /\ audit' = Recorded("UPDATE_PERSON", "person_updated", tx[t])
  /\ End(t)
  /\ UNCHANGED era

\* delete_person snapshots the tree first; it records an entry even when the
\* person is already gone.
BeginDeletePerson(t) == \E p \in Stored(tree) :
  Begin(t, [Idle EXCEPT !.op = "delete_person", !.person = p, !.before = Snapshot(tree)])

\* Mutant: the snapshot is taken after the person is deleted.
CommitDeletePersonLateSnapshot(t) ==
  LET without == [tree EXCEPT !.rows[tx[t].person].st = "deleted"]
  IN /\ tx[t].op = "delete_person"
     /\ LogHasRoom
     /\ tree' = without
     /\ audit' = Recorded("DELETE_PERSON", "full_tree",
                          [tx[t] EXCEPT !.before = Snapshot(without)])
     /\ End(t)
     /\ UNCHANGED era

CommitDeletePerson(t) ==
  /\ tx[t].op = "delete_person"
  /\ LogHasRoom
  /\ tree' = [tree EXCEPT !.rows[tx[t].person].st = "deleted"]
  /\ audit' = Recorded("DELETE_PERSON", "full_tree", tx[t])
  /\ End(t)
  /\ UNCHANGED era

\* The group a transaction is about, if the row with that uuid still exists.
Target(x) == {g \in tree.groups : g.key = x.key /\ x.era = era}

BeginUpdateFamilyGroup(t) == \E g \in tree.groups :
  Begin(t, [Idle EXCEPT !.op = "update_family_group", !.key = g.key, !.era = era,
                        !.before = OnlyGroup(tree, g.key)])

CommitUpdateFamilyGroup(t) == \E l \in Label :
  /\ tx[t].op = "update_family_group"
  /\ LogHasRoom
  /\ tree' = [tree EXCEPT !.groups = (@ \ Target(tx[t]))
                 \cup {[g EXCEPT !.label = l] : g \in Target(tx[t])}]
  /\ audit' = Recorded("UPDATE_RELATIONSHIP", "relationship_field", tx[t])
  /\ End(t)
  /\ UNCHANGED era

BeginDeleteFamilyGroup(t) == \E g \in tree.groups :
  Begin(t, [Idle EXCEPT !.op = "delete_family_group", !.key = g.key, !.era = era,
                        !.before = Snapshot(tree)])

CommitDeleteFamilyGroup(t) ==
  /\ tx[t].op = "delete_family_group"
  /\ LogHasRoom
  /\ tree' = [tree EXCEPT !.groups = @ \ Target(tx[t])]
  /\ audit' = Recorded("REMOVE_RELATIONSHIP", "full_tree", tx[t])
  /\ End(t)
  /\ UNCHANGED era

BeginRemoveMember(t) == \E g \in tree.groups : \E p \in Members(g) :
  Begin(t, [Idle EXCEPT !.op = "remove_family_group_member", !.key = g.key, !.era = era,
                        !.person = p, !.before = Snapshot(tree)])

\* The DELETE of the member row, and the COUNT of the parents left, which
\* sees its own DELETE and, of the others, those that have committed.
CountParents(t) ==
  /\ tx[t].op = "remove_family_group_member"
  /\ tx' = [tx EXCEPT ![t].op =
              IF \A g \in Target(tx[t]) : g.parents \subseteq {tx[t].person}
              THEN "last_parent_removed" ELSE "member_removed"]
  /\ UNCHANGED <<tree, era, audit>>

\* The last parent takes the group with it: so each of two parents who go at
\* once finds the other there, and the group stays without a parent.
CommitRemoveMember(t) ==
  LET without == {[g EXCEPT !.parents = @ \ {tx[t].person}, !.children = @ \ {tx[t].person}] :
                    g \in Target(tx[t])}
  IN /\ tx[t].op \in {"member_removed", "last_parent_removed"}
     /\ LogHasRoom
     /\ tree' = [tree EXCEPT !.groups = (@ \ Target(tx[t]))
                    \cup IF tx[t].op = "member_removed" THEN without ELSE {}]
     /\ audit' = Recorded("REMOVE_RELATIONSHIP", "full_tree", tx[t])
     /\ End(t)
     /\ UNCHANGED era

----------------------------------------------------------------------------
\* Mutant: the entry is loaded and not tested.
BeginRevertUntested(t) == \E i \in DOMAIN audit :
  Begin(t, [Idle EXCEPT !.op = "revert", !.entry = i])

\* revert_audit_log_entry: the entry is loaded and tested first.
BeginRevert(t) == \E i \in DOMAIN audit :
  /\ Revertible(audit[i])
  /\ Begin(t, [Idle EXCEPT !.op = "revert", !.entry = i])

\* Mutant: the claim does not wait for a claim that has not committed.
ClaimRevertWithoutLock(t) ==
  /\ tx[t].op = "revert"
  /\ ~audit[tx[t].entry].reverted
  /\ tx' = [tx EXCEPT ![t].op = "reverting", ![t].seen = Live(tree)]
  /\ UNCHANGED <<tree, era, audit>>

\* Mutant: the claim trusts the reverted_at that was loaded before it.
ClaimRevertUnconditional(t) ==
  /\ tx[t].op = "revert"
  /\ \A u \in Tx : tx[u].op = "reverting" => tx[u].entry # tx[t].entry
  /\ tx' = [tx EXCEPT ![t].op = "reverting", ![t].seen = Live(tree)]
  /\ UNCHANGED <<tree, era, audit>>

\* The conditional UPDATE that claims the entry: it waits for a claim of the
\* same entry that has not committed, and finds no row once reverted_at is set.
ClaimRevert(t) ==
  /\ tx[t].op = "revert"
  /\ ~audit[tx[t].entry].reverted
  /\ \A u \in Tx : tx[u].op = "reverting" => tx[u].entry # tx[t].entry
  /\ tx' = [tx EXCEPT ![t].op = "reverting", ![t].seen = Live(tree)]
  /\ UNCHANGED <<tree, era, audit>>

\* The four restore functions.
ApplyPersonCreatedRevert(e) ==
  IF e.person \in Stored(tree) THEN [tree EXCEPT !.rows[e.person].st = "deleted"] ELSE tree

ApplyPersonFieldRevert(e) ==
  IF e.person \in Stored(tree)
  THEN [tree EXCEPT !.rows[e.person].val = e.before.rows[e.person].val] ELSE tree

\* Mutant: the column gets the snapshot where it should get its field.
ApplyRelationshipFieldRevertWhole(e) ==
  [tree EXCEPT !.groups = (@ \ Target(e))
     \cup UNION {{[g EXCEPT !.label = b] : b \in {h \in e.before.groups : h.key = g.key}}
                   : g \in Target(e)}]

ApplyRelationshipFieldRevert(e) ==
  [tree EXCEPT !.groups = (@ \ Target(e))
     \cup UNION {{[g EXCEPT !.label = b.label] : b \in {h \in e.before.groups : h.key = g.key}}
                   : g \in Target(e)}]

CommitRevert(t) ==
  LET i == tx[t].entry  e == audit[tx[t].entry]
  IN /\ tx[t].op = "reverting"
     /\ LogHasRoom
     /\ tree' = CASE e.kind = "full_tree" -> RestoreTree(tree, tx[t].seen, e.before)
                  [] e.kind = "person_created" -> ApplyPersonCreatedRevert(e)
                  [] e.kind = "person_updated" -> ApplyPersonFieldRevert(e)
                  [] e.kind = "relationship_field" -> ApplyRelationshipFieldRevert(e)
     /\ era' = IF e.kind = "full_tree" THEN era + 1 ELSE era
     /\ audit' = Append([audit EXCEPT ![i].reverted = TRUE],
                        [e EXCEPT !.action = "REVERT_SNAPSHOT", !.kind = "none",
                                  !.before = EmptyTree, !.reverted = FALSE, !.undoes = i])
     /\ End(t)

\* A 404 or 409, an error or a lost connection: nothing the transaction wrote stays.
Rollback(t) ==
  /\ tx[t].op # "idle"
  /\ End(t)
  /\ UNCHANGED <<tree, era, audit>>

----------------------------------------------------------------------------
Edit(t) ==
  \/ CreatePerson(t)
  \/ BeginUpdatePerson(t) \/ CommitUpdatePerson(t)
  \/ BeginDeletePerson(t) \/ CommitDeletePerson(t)
  \/ BeginUpdateFamilyGroup(t) \/ CommitUpdateFamilyGroup(t)
  \/ BeginDeleteFamilyGroup(t) \/ CommitDeleteFamilyGroup(t)
  \/ BeginRemoveMember(t) \/ CountParents(t) \/ CommitRemoveMember(t)

Revert(t) == BeginRevert(t) \/ ClaimRevert(t) \/ CommitRevert(t)

Next == \E t \in Tx : Edit(t) \/ Revert(t) \/ Rollback(t)

Init ==
  /\ tree = Start
  /\ era = 0
  /\ audit = << >>
  /\ tx = [t \in Tx |-> Idle]

Spec == Init /\ [][Next]_vars

----------------------------------------------------------------------------
(* Properties *)

\* The audit log as the ledger of undos: what of an entry the claim and the
\* revert read and write.
log == [i \in DOMAIN audit |-> [revertible |-> audit[i].kind \in Kinds,
                               reverted |-> audit[i].reverted,
                               undoes |-> audit[i].undoes]]

Ledger == INSTANCE RevertLedger

\* The handlers, the two-step revert and its rollbacks implement the ledger:
\* entries are only appended, and whoever races for an entry (two admins, or
\* one admin twice) at most one of them restores it (the conditional claim of
\* revert_audit_entry).
ImplementsLedger == Ledger!LedgerSpec

\* An entry is marked reverted when, and only when, exactly one REVERT entry
\* names it.
UndoneOnce == Ledger!UndoneOnce

\* What the claim is for: the transactions that are restoring something hold
\* different entries, none of them reverted yet, and all of them restorable.
ClaimsAreSound ==
  /\ \A t \in Tx : tx[t].op \in {"revert", "reverting"} =>
       tx[t].entry \in DOMAIN audit /\ audit[tx[t].entry].kind \in Kinds
  /\ \A t \in Tx : tx[t].op = "reverting" => ~audit[tx[t].entry].reverted
  /\ \A t, u \in Tx :
       tx[t].op = "reverting" /\ tx[u].op = "reverting" /\ tx[t].entry = tx[u].entry => t = u

\* The safety net of the module's docstring: a soft-deleted person can be
\* brought back by an entry still open, unless a revert is what removed the
\* person (of its creation, or to a time before it), or the person was deleted
\* again by a request that began while an earlier one had deleted the person.
OpenFor(p) == \E i \in DOMAIN audit :
  Revertible(audit[i]) /\ audit[i].kind = "full_tree" /\ p \in Live(audit[i].before)

Revoked(p) == \E i \in DOMAIN audit :
  /\ audit[i].reverted
  /\ \/ audit[i].kind = "person_created" /\ audit[i].person = p
     \/ audit[i].kind = "full_tree" /\ p \notin Live(audit[i].before)

DeletedTwice(p) == \E i, j \in DOMAIN audit :
  /\ audit[i].action = "DELETE_PERSON" /\ audit[i].person = p
  /\ audit[j].action = "DELETE_PERSON" /\ audit[j].person = p
  /\ p \in Live(audit[i].before) /\ p \notin Live(audit[j].before)

DeletionsAreRecoverable == \A p \in Person :
  tree.rows[p].st = "deleted" => OpenFor(p) \/ Revoked(p) \/ DeletedTwice(p)

\* The step in which a revert of entry i commits.
Reverts(i) == Len(audit') > Len(audit) /\ audit'[Len(audit')].undoes = i

\* A full-tree revert gives back every person and every group of its snapshot,
\* with their values, whatever was committed meanwhile, and removes every
\* person that was there when it looked and not in the snapshot (apply_revert).
RestoresSnapshot == [][\A t \in Tx : \A i \in DOMAIN audit :
  (Reverts(i) /\ audit[i].kind = "full_tree" /\ tx[t].op = "reverting" /\ tx[t].entry = i)
  => /\ LiveRows(tree') = [p \in Person |->
          IF p \in Live(audit[i].before) THEN audit[i].before.rows[p]
          ELSE IF p \in tx[t].seen THEN NoRow ELSE LiveRows(tree)[p]]
     /\ tree'.groups = Inhabited(audit[i].before.groups)]_vars

\* "restoring just that one row" (tree_snapshot.py:15-18): a revert of a group
\* edit gives the group, if the tree still has it, its former fields.
RevertedFieldIsRestored == [][\A i \in DOMAIN audit :
  (Reverts(i) /\ audit[i].kind = "relationship_field")
  => \A g \in tree'.groups, b \in audit[i].before.groups :
       g.key = b.key => g.label = b.label]_vars
=============================================================================
