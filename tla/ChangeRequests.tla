--------------------------- MODULE ChangeRequests ---------------------------
(***************************************************************************)
(* Proposals to a globally shared tree (change_requests.py): an editor     *)
(* clones the tree into a draft, edits the draft and submits it; the owner *)
(* approves it (the draft is merged onto the tree and deleted) or denies   *)
(* it (the draft is deleted); a Super Admin may revert an approval.        *)
(*                                                                         *)
(* Every handler is a transaction at READ COMMITTED.  It runs its checks   *)
(* in a Begin step and writes in a Commit step (in a step between, an      *)
(* approval reads the draft, and a revert claims its entry and reads who   *)
(* is alive); other transactions commit in between, and nothing but the    *)
(* claim and the constraints of the database is checked again.             *)
(***************************************************************************)
EXTENDS TreeStore, Naturals, Sequences

CONSTANTS
  Editor,     \* members of the tree with role EDITOR
  Draft,      \* ids of draft trees, each used once
  Req,        \* ids of tree_change_requests rows
  Tx,         \* database transactions that can be open at once
  NoEditor, NoDraft, NoReq,
  Start,      \* the original tree when it was shared
  MaxEdits,   \* bound on committed person and group edits
  MaxLog      \* bound on the audit log's length

ASSUME ChangeRequestsAssumption ==
  /\ NoEditor \notin Editor /\ NoDraft \notin Draft /\ NoReq \notin Req
  /\ MaxEdits \in Nat /\ MaxLog \in Nat
  /\ Start \in Tree
  /\ \A p \in Person : ~Start.rows[p].cloned
  /\ \A g \in Start.groups : Members(g) # {} /\ Members(g) \subseteq Stored(Start)

VARIABLES
  tree,    \* the rows of the original tree
  drafts,  \* family_trees rows with draft_of_tree_id set, and their contents
  reqs,    \* tree_change_requests
  audit,   \* the APPROVE_CHANGE entries of audit_logs and the reverts of them
  born,    \* person ids ever given to a new person (a uuid is not reused)
  edits,   \* how many edits were committed
  tx       \* the open transactions

vars == <<tree, drafts, reqs, audit, born, edits, tx>>

\* "deleted" is is_deleted (delete_tree); "gone" is a deleted row.
DraftRow == [st : {"unborn", "live", "deleted", "gone"}, owner : Editor \cup {NoEditor},
             rows : Tree]

\* from is the draft the request was submitted for, kept after draft_tree_id
\* is cleared (it appears only in properties).
ReqRow == [status : {"none", "PENDING", "APPROVED", "DENIED"}, requester : Editor \cup {NoEditor},
           draft : Draft \cup {NoDraft}, from : Draft \cup {NoDraft}, reverted : BOOLEAN]

Entry == [action : {"APPROVE_CHANGE", "REVERT_CHANGE"}, req : Req, before : Tree,
          reverted : BOOLEAN, undoes : Nat]

Idle == [op |-> "idle", user |-> NoEditor, draft |-> NoDraft, req |-> NoReq,
         read |-> EmptyTree, before |-> EmptyTree, entry |-> 0]

Transaction ==
  [op : {"idle", "create_draft", "submit", "edit_draft", "edit_original",
         "approve", "merge", "deny", "revert_request", "revert_entry",
         "reverting_request", "reverting_entry"},
   user : Editor \cup {NoEditor}, draft : Draft \cup {NoDraft}, req : Req \cup {NoReq},
   read : Tree, before : Tree, entry : Nat]

TypeOK ==
  /\ tree \in Tree
  /\ drafts \in [Draft -> DraftRow]
  /\ reqs \in [Req -> ReqRow]
  /\ audit \in Seq(Entry)
  /\ born \subseteq Person
  /\ edits \in Nat
  /\ tx \in [Tx -> Transaction]

----------------------------------------------------------------------------
Begin(t, x) ==
  /\ tx[t].op = "idle"
  /\ tx' = [tx EXCEPT ![t] = x]
  /\ UNCHANGED <<tree, drafts, reqs, audit, born, edits>>

End(t) == tx' = [tx EXCEPT ![t] = Idle]

Exists(d) == drafts[d].st \in {"live", "deleted"}

Deleted(d) == [drafts EXCEPT ![d] = [st |-> "gone", owner |-> NoEditor, rows |-> EmptyTree]]

Submitted(d) == \E r \in Req : reqs[r].draft = d

PendingOf(u) == {r \in Req : reqs[r].status = "PENDING" /\ reqs[r].requester = u}

\* create_draft.  An unposted draft of the same editor is returned instead of
\* a new one, and a pending request refuses a new one.
BeginCreateDraft(t) == \E u \in Editor :
  /\ ~\E d \in Draft : drafts[d].st = "live" /\ drafts[d].owner = u /\ ~Submitted(d)
  /\ PendingOf(u) = {}
  /\ Begin(t, [Idle EXCEPT !.op = "create_draft", !.user = u])

CommitCreateDraft(t) == \E d \in Draft :
  /\ tx[t].op = "create_draft"
  /\ drafts[d].st = "unborn"
  /\ drafts' = [drafts EXCEPT ![d] = [st |-> "live", owner |-> tx[t].user,
                                      rows |-> CloneTree(tree)]]
  /\ End(t)
  /\ UNCHANGED <<tree, reqs, audit, born, edits>>

\* delete_tree on a draft, by its owner: a soft delete.
DeleteDraft(d) ==
  /\ drafts[d].st = "live"
  /\ drafts' = [drafts EXCEPT ![d].st = "deleted"]
  /\ UNCHANGED <<tree, reqs, audit, born, edits, tx>>

----------------------------------------------------------------------------
\* submit_change_request.
BeginSubmit(t) == \E d \in Draft :
  /\ drafts[d].st = "live"
  /\ ~Submitted(d)
  /\ Begin(t, [Idle EXCEPT !.op = "submit", !.user = drafts[d].owner, !.draft = d])

\* What the INSERT may not break: the foreign key of draft_tree_id, and the
\* partial unique index uq_tree_change_requests_pending.
\* Mutant: draft_tree_id is not a foreign key.
ForeignKeyIgnored(x) == TRUE

ForeignKeyHolds(x) == Exists(x.draft)

\* Mutant: the index of migration 0040 is missing.
PendingIndexMissing(x) == TRUE

PendingIndexHolds(x) == PendingOf(x.user) = {}

CommitSubmit(t) == \E r \in Req :
  /\ tx[t].op = "submit"
  /\ reqs[r].status = "none"
  /\ ForeignKeyHolds(tx[t])
  /\ PendingIndexHolds(tx[t])
  /\ reqs' = [reqs EXCEPT ![r] = [status |-> "PENDING", requester |-> tx[t].user,
                                  draft |-> tx[t].draft, from |-> tx[t].draft,
                                  reverted |-> FALSE]]
  /\ End(t)
  /\ UNCHANGED <<tree, drafts, audit, born, edits>>

----------------------------------------------------------------------------
\* The edits of a tree the person and family-group handlers make, as sets of
\* resulting trees; fresh holds the ids a new person can get.
WithNewPerson(s, fresh) ==
  {[s EXCEPT !.rows[p] = [st |-> "live", cloned |-> FALSE, val |-> v]] :
     p \in fresh, v \in Value}

WithUpdate(s) == {[s EXCEPT !.rows[p].val = v] : p \in Live(s), v \in Value}

WithoutPerson(s) == {[s EXCEPT !.rows[p].st = "deleted"] : p \in Live(s)}

WithoutGroup(s) == {[s EXCEPT !.groups = @ \ {g}] : g \in s.groups}

\* A live person joins a group as a child.
WithChild(s) ==
  UNION {{[s EXCEPT !.groups = (@ \ {g}) \cup {[g EXCEPT !.children = @ \cup {p}]}] :
            p \in Live(s) \ Members(g)} : g \in s.groups}

Edited(s, fresh) == WithNewPerson(s, fresh) \cup WithUpdate(s) \cup WithoutPerson(s)
                    \cup WithoutGroup(s) \cup WithChild(s)

\* require_direct_edit_allowed: a draft awaiting review is closed to its
\* owner, but not to a user without a tree_members row (NoEditor); the shared
\* tree is open to its OWNER only, and to such a user.
BeginEditDraft(t) == \E d \in Draft : \E u \in {drafts[d].owner, NoEditor} :
  /\ Exists(d)
  /\ u # NoEditor => ~\E r \in Req : reqs[r].draft = d /\ reqs[r].status = "PENDING"
  /\ Begin(t, [Idle EXCEPT !.op = "edit_draft", !.draft = d])

CommitEditDraft(t) ==
  /\ tx[t].op = "edit_draft"
  /\ edits < MaxEdits
  /\ Exists(tx[t].draft)
  /\ \E s \in Edited(drafts[tx[t].draft].rows, Person \ born) :
       /\ drafts' = [drafts EXCEPT ![tx[t].draft].rows = s]
       /\ born' = born \cup (Stored(s) \ Stored(drafts[tx[t].draft].rows))
  /\ edits' = edits + 1
  /\ End(t)
  /\ UNCHANGED <<tree, reqs, audit>>

BeginEditOriginal(t) == Begin(t, [Idle EXCEPT !.op = "edit_original"])

CommitEditOriginal(t) ==
  /\ tx[t].op = "edit_original"
  /\ edits < MaxEdits
  /\ \E s \in Edited(tree, Person \ born) :
       /\ tree' = s
       /\ born' = born \cup Stored(s)
  /\ edits' = edits + 1
  /\ End(t)
  /\ UNCHANGED <<drafts, reqs, audit>>

----------------------------------------------------------------------------
\* resolve_change_request: the owner's role and the status are read once.
BeginResolve(t) == \E r \in Req, op \in {"approve", "deny"} :
  /\ reqs[r].status = "PENDING"
  /\ Begin(t, [Idle EXCEPT !.op = op, !.req = r, !.draft = reqs[r].draft])

\* The snapshot of the tree, and the first SELECT of _apply_change_request.
ReadDraft(t) ==
  /\ tx[t].op = "approve"
  /\ tx' = [tx EXCEPT ![t].op = "merge", ![t].before = Snapshot(tree),
                      ![t].read = [rows |-> LiveRows(drafts[tx[t].draft].rows), groups |-> {}]]
  /\ UNCHANGED <<tree, drafts, reqs, audit, born, edits>>

\* The final UPDATE names the request by id only; draft_tree_id, which it
\* clears, is also what ON DELETE SET NULL cleared with the draft's row.
Resolved(r, status) == [reqs EXCEPT ![r].status = status, ![r].draft = NoDraft]

CommitApprove(t) ==
  /\ tx[t].op = "merge"
  /\ Len(audit) < MaxLog
  /\ tree' = MergeTree(tree, drafts[tx[t].draft].rows, tx[t].read)
  /\ drafts' = Deleted(tx[t].draft)
  /\ reqs' = Resolved(tx[t].req, "APPROVED")
  /\ audit' = Append(audit, [action |-> "APPROVE_CHANGE", req |-> tx[t].req,
                             before |-> tx[t].before, reverted |-> FALSE, undoes |-> 0])
  /\ End(t)
  /\ UNCHANGED <<born, edits>>

\* Mutant: a denial leaves the draft's rows in place.
CommitDenyKeepsDraft(t) ==
  /\ tx[t].op = "deny"
  /\ reqs' = Resolved(tx[t].req, "DENIED")
  /\ End(t)
  /\ UNCHANGED <<tree, drafts, audit, born, edits>>

CommitDeny(t) ==
  /\ tx[t].op = "deny"
  /\ drafts' = Deleted(tx[t].draft)
  /\ reqs' = Resolved(tx[t].req, "DENIED")
  /\ End(t)
  /\ UNCHANGED <<tree, audit, born, edits>>

----------------------------------------------------------------------------
\* The newest APPROVE_CHANGE entry of a request, found first in the listing.
ApprovalsOf(r) == {i \in DOMAIN audit : audit[i].action = "APPROVE_CHANGE" /\ audit[i].req = r}

NewestApproval(i) == \A j \in ApprovalsOf(audit[i].req) : j <= i

Revertible(e) == e.action = "APPROVE_CHANGE" /\ ~e.reverted

\* revert_change_request, and revert_audit_log_entry on the same entries.
BeginRevertRequest(t) == \E r \in Req : \E i \in ApprovalsOf(r) :
  /\ reqs[r].status = "APPROVED" /\ ~reqs[r].reverted
  /\ NewestApproval(i)
  /\ Revertible(audit[i])
  /\ Begin(t, [Idle EXCEPT !.op = "revert_request", !.req = r, !.entry = i])

BeginRevertEntry(t) == \E i \in DOMAIN audit :
  /\ Revertible(audit[i])
  /\ Begin(t, [Idle EXCEPT !.op = "revert_entry", !.req = audit[i].req, !.entry = i])

Reverting == {"reverting_request", "reverting_entry"}

\* Mutant: the UPDATE of the audit entry has no reverted_at IS NULL.
UnclaimedUnchecked(x) == \A u \in Tx : tx[u].op \in Reverting => tx[u].entry # x.entry

\* The conditional UPDATE that claims the entry waits for a claim that has not
\* committed, and finds no row once reverted_at is set.
Unclaimed(x) ==
  /\ ~audit[x.entry].reverted
  /\ \A u \in Tx : tx[u].op \in Reverting => tx[u].entry # x.entry

\* current_ids of apply_revert: who is alive when it starts.
Seen == [rows |-> LiveRows(tree), groups |-> {}]

\* revert_audit_entry claims the entry, and apply_revert looks at the tree.
ClaimRevert(t) ==
  /\ tx[t].op \in {"revert_request", "revert_entry"}
  /\ Unclaimed(tx[t])
  /\ tx' = [tx EXCEPT ![t].op = IF @ = "revert_request" THEN "reverting_request"
                                                       ELSE "reverting_entry",
                      ![t].read = Seen]
  /\ UNCHANGED <<tree, drafts, reqs, audit, born, edits>>

\* Only revert_change_request marks the request.
CommitRevert(t) ==
  /\ tx[t].op \in Reverting
  /\ Len(audit) < MaxLog
  /\ tree' = RestoreTree(tree, Live(tx[t].read), audit[tx[t].entry].before)
  /\ reqs' = [reqs EXCEPT ![tx[t].req].reverted = @ \/ tx[t].op = "reverting_request"]
  /\ audit' = Append([audit EXCEPT ![tx[t].entry].reverted = TRUE],
                     [action |-> "REVERT_CHANGE", req |-> tx[t].req, before |-> EmptyTree,
                      reverted |-> FALSE, undoes |-> tx[t].entry])
  /\ End(t)
  /\ UNCHANGED <<drafts, born, edits>>

\* A 4xx or constraint error, or a lost connection.
Rollback(t) ==
  /\ tx[t].op # "idle"
  /\ End(t)
  /\ UNCHANGED <<tree, drafts, reqs, audit, born, edits>>

----------------------------------------------------------------------------
Propose(t) == \/ BeginCreateDraft(t) \/ CommitCreateDraft(t)
              \/ BeginSubmit(t) \/ CommitSubmit(t)

Edit(t) == \/ BeginEditDraft(t) \/ CommitEditDraft(t)
           \/ BeginEditOriginal(t) \/ CommitEditOriginal(t)

Resolve(t) == BeginResolve(t) \/ ReadDraft(t) \/ CommitApprove(t) \/ CommitDeny(t)

Revert(t) == BeginRevertRequest(t) \/ BeginRevertEntry(t) \/ ClaimRevert(t) \/ CommitRevert(t)

Init ==
  /\ tree = Start
  /\ drafts = [d \in Draft |-> [st |-> "unborn", owner |-> NoEditor, rows |-> EmptyTree]]
  /\ reqs = [r \in Req |-> [status |-> "none", requester |-> NoEditor, draft |-> NoDraft,
                            from |-> NoDraft, reverted |-> FALSE]]
  /\ audit = << >>
  /\ born = Stored(Start)
  /\ edits = 0
  /\ tx = [t \in Tx |-> Idle]

Next == \/ \E t \in Tx : Propose(t) \/ Edit(t) \/ Resolve(t) \/ Revert(t) \/ Rollback(t)
        \/ \E d \in Draft : DeleteDraft(d)

Spec == Init /\ [][Next]_vars

----------------------------------------------------------------------------
(* Properties *)

\* An editor never has two proposals awaiting review, though two concurrent
\* calls can leave the editor with two unposted drafts.
OnePendingPerRequester == \A q, r \in Req :
  (reqs[q].status = "PENDING" /\ reqs[r].status = "PENDING"
   /\ reqs[q].requester = reqs[r].requester) => q = r

\* A proposal under review has a draft to review, its requester's own, and no
\* other request was ever made for that draft.
PendingHasItsDraft == \A r \in Req : reqs[r].status = "PENDING" =>
  /\ reqs[r].draft # NoDraft
  /\ Exists(reqs[r].draft)
  /\ drafts[reqs[r].draft].owner = reqs[r].requester
  /\ \A q \in Req \ {r} : reqs[q].from # reqs[r].from

\* Once a proposal is decided nothing of its draft is left, so it can be
\* neither edited, nor submitted, nor applied again.
DecidedDraftIsGone == \A r \in Req : reqs[r].status \in {"APPROVED", "DENIED"} =>
  reqs[r].draft = NoDraft /\ drafts[reqs[r].from].st = "gone"

\* No family group has a member from another tree: what a member row of the
\* original names is a person of the original, what one of a draft names is a
\* person of the draft or of the original it was cloned from.
NoForeignMembers ==
  /\ \A g \in tree.groups : Members(g) \subseteq Stored(tree)
  /\ \A d \in Draft : \A g \in drafts[d].rows.groups :
       Members(g) \subseteq Stored(drafts[d].rows) \cup Stored(tree)

log == [i \in DOMAIN audit |-> [revertible |-> audit[i].action = "APPROVE_CHANGE",
                               reverted |-> audit[i].reverted,
                               undoes |-> audit[i].undoes]]

Ledger == INSTANCE RevertLedger

\* Whichever of the two endpoints is used, and however they race, an approval
\* is undone at most once and each undo is recorded.
ImplementsLedger == Ledger!LedgerSpec

\* "restore that exact snapshot, undoing the approval", change_requests.py:13-17:
\* a revert gives the tree the persons and values it had when the approval
\* looked at it, whichever of them the merge or later edits removed, and its
\* groups; of the others it removes whom it saw alive.  (A person created or
\* adopted after the revert looked, and committed before it, stays.)
RevertRestoresApproved == [][\A t \in Tx : \A i \in DOMAIN audit :
  (/\ Len(audit') > Len(audit) /\ audit'[Len(audit')].undoes = i
   /\ tx[t].op \in Reverting /\ tx[t].entry = i)
  => /\ LiveRows(tree') = [p \in Person |->
          IF p \in Live(audit[i].before) THEN audit[i].before.rows[p]
          ELSE IF p \in Live(tx[t].read) THEN NoRow ELSE LiveRows(tree)[p]]
     /\ tree'.groups = Inhabited(audit[i].before.groups)]_vars

\* "denies (the draft is discarded)", change_requests.py:10: a proposal that
\* ends up denied was not merged onto the tree.
DeniedIsNotApplied == \A r \in Req : reqs[r].status = "DENIED" => ApprovalsOf(r) = {}
=============================================================================
