------------------------ MODULE ChangeRequestsProofs ------------------------
(***************************************************************************)
(* For every set of editors, drafts, requests and transactions: an editor  *)
(* has one proposal under review at most, a proposal under review keeps    *)
(* its draft, a decided one has none, and an approval is undone at most    *)
(* once.  What the checks of a Begin step found may no longer be true when *)
(* its Commit step writes; the invariant says what still is.  That two     *)
(* reverts of one entry do not both go on, it owes to the claim alone.     *)
(***************************************************************************)
EXTENDS ChangeRequests, SequenceTheorems, TLAPS

\* The lemmas on logs and the theorems about the ledger, for this log.
LedgerProofs == INSTANCE RevertLedgerProofs

----------------------------------------------------------------------------
\* The functions on trees return trees.

\* A tree is its rows and its groups.
LEMMA TreeParts ==
  ASSUME NEW t \in Tree
  PROVE  /\ t = [rows |-> t.rows, groups |-> t.groups]
         /\ t.rows \in [Person -> Row] /\ t.groups \subseteq Group
         /\ \A p \in Person : t.rows[p] \in Row
  BY DEF Tree

\* Writing a row, its state or its value leaves a tree.
LEMMA RowWritten ==
  ASSUME NEW t \in Tree, NEW p \in Person, NEW r \in Row
  PROVE  [t EXCEPT !.rows[p] = r] \in Tree
  BY DEF Tree

LEMMA RowFields ==
  ASSUME NEW r \in Row
  PROVE  /\ \A s \in {"absent", "live", "deleted"} : [r EXCEPT !.st = s] \in Row
         /\ \A v \in Value : [r EXCEPT !.val = v] \in Row
         /\ \A b \in BOOLEAN : [r EXCEPT !.cloned = b] \in Row
         /\ r.st \in {"absent", "live", "deleted"} /\ r.val \in Value /\ r.cloned \in BOOLEAN
  BY DEF Row

LEMMA StateWritten ==
  ASSUME NEW t \in Tree, NEW p \in Person, NEW s \in {"absent", "live", "deleted"}
  PROVE  [t EXCEPT !.rows[p].st = s] \in Tree
  <1>1. t.rows[p] \in Row
    BY TreeParts
  <1>2. [t.rows[p] EXCEPT !.st = s] \in Row
    BY <1>1, RowFields
  <1>3. [t EXCEPT !.rows[p].st = s] = [t EXCEPT !.rows[p] = [t.rows[p] EXCEPT !.st = s]]
    OBVIOUS
  <1> QED
    BY <1>2, <1>3, RowWritten

LEMMA ValueWritten ==
  ASSUME NEW t \in Tree, NEW p \in Person, NEW v \in Value
  PROVE  [t EXCEPT !.rows[p].val = v] \in Tree
  <1>1. t.rows[p] \in Row
    BY TreeParts
  <1>2. [t.rows[p] EXCEPT !.val = v] \in Row
    BY <1>1, RowFields
  <1>3. [t EXCEPT !.rows[p].val = v] = [t EXCEPT !.rows[p] = [t.rows[p] EXCEPT !.val = v]]
    OBVIOUS
  <1> QED
    BY <1>2, <1>3, RowWritten

\* Writing the groups leaves a tree.
LEMMA GroupsWritten ==
  ASSUME NEW t \in Tree, NEW gs \in SUBSET Group
  PROVE  [t EXCEPT !.groups = gs] \in Tree
  BY DEF Tree

\* A row with no person behind it, and a tree of such rows.
LEMMA EmptyTreeIsTree == NoRow \in Row /\ EmptyTree \in Tree
  <1>1. (CHOOSE v \in Value : TRUE) \in Value
    BY TreeStoreAssumption
  <1>2. NoRow \in Row
    BY <1>1 DEF NoRow, Row
  <1> QED
    BY <1>2 DEF EmptyTree, Tree

LEMMA NoRowFields ==
  NoRow.st = "absent" /\ ~NoRow.cloned /\ Live(EmptyTree) = {} /\ Stored(EmptyTree) = {}
  BY DEF NoRow, Live, Stored, EmptyTree

\* A snapshot is a tree.
LEMMA SnapshotIsTree ==
  ASSUME NEW t \in Tree
  PROVE  Snapshot(t) \in Tree /\ LiveRows(t) \in [Person -> Row]
  <1>1. LiveRows(t) \in [Person -> Row]
    BY TreeParts, EmptyTreeIsTree DEF LiveRows
  <1> QED
    BY <1>1, TreeParts DEF Snapshot, Tree

\* Restoring a snapshot leaves a tree.
LEMMA RestoreIsTree ==
  ASSUME NEW t \in Tree, NEW snap \in Tree, NEW seen
  PROVE  RestoreTree(t, seen, snap) \in Tree
  <1>1. ASSUME NEW p \in Person
        PROVE  RestoreRow(t, seen, snap, p) \in Row
    <2>1. t.rows[p] \in Row /\ snap.rows[p] \in Row
      BY TreeParts
    <2>2. snap.rows[p].val \in Value
      BY <2>1, RowFields
    <2>3. [t.rows[p] EXCEPT !.st = "deleted"] \in Row
      BY <2>1, RowFields
    <2>4. [t.rows[p] EXCEPT !.st = "live", !.val = snap.rows[p].val] \in Row
      BY <2>1, <2>2 DEF Row
    <2> QED
      BY <2>1, <2>3, <2>4 DEF RestoreRow
  <1>2. Inhabited(snap.groups) \subseteq Group
    BY TreeParts DEF Inhabited
  <1> QED
    BY <1>1, <1>2 DEF RestoreTree, Tree

\* The copy a draft starts from is a tree.
LEMMA CloneIsTree ==
  ASSUME NEW t \in Tree
  PROVE  CloneTree(t) \in Tree
  <1>1. \A p \in Person : [t.rows[p] EXCEPT !.cloned = TRUE] \in Row
    BY TreeParts, RowFields
  <1>2. Inhabited(t.groups) \subseteq Group
    BY TreeParts DEF Inhabited
  <1> QED
    BY <1>1, <1>2, EmptyTreeIsTree DEF CloneTree, Tree

\* Merging a draft onto a tree leaves a tree.
LEMMA MergeIsTree ==
  ASSUME NEW t \in Tree, NEW draft \in Tree, NEW read \in Tree
  PROVE  MergeTree(t, draft, read) \in Tree
  <1>1. ASSUME NEW p \in Person
        PROVE  MergeRow(t, draft, read, p) \in Row
    <2>1. t.rows[p] \in Row /\ draft.rows[p] \in Row /\ read.rows[p].val \in Value
      BY TreeParts, RowFields
    <2>2. /\ [t.rows[p] EXCEPT !.val = read.rows[p].val] \in Row
          /\ [t.rows[p] EXCEPT !.st = "deleted"] \in Row
          /\ [draft.rows[p] EXCEPT !.cloned = FALSE] \in Row
      BY <2>1, RowFields
    <2> QED
      BY <2>1, <2>2 DEF MergeRow
  <1>2. \A gone : \A g \in Group : MergeGroup(g, gone) \in Group
    BY DEF MergeGroup, Group
  <1>3. {MergeGroup(g, Cascaded(draft, read)) : g \in Inhabited(draft.groups)} \subseteq Group
    BY <1>2, TreeParts DEF Inhabited
  <1> QED
    BY <1>1, <1>3 DEF MergeTree, Tree

----------------------------------------------------------------------------

\* A request and its draft, by the request's status.
NoDraftUnsubmitted == \A r \in Req : reqs[r].status = "none" => reqs[r].from = NoDraft

PendingIsBound == \A r \in Req : reqs[r].status = "PENDING" =>
  /\ reqs[r].draft \in Draft /\ reqs[r].from = reqs[r].draft
  /\ Exists(reqs[r].draft)
  /\ drafts[reqs[r].draft].owner = reqs[r].requester

DecidedIsUnbound == \A r \in Req : reqs[r].status \in {"APPROVED", "DENIED"} =>
  /\ reqs[r].from \in Draft /\ reqs[r].draft = NoDraft
  /\ drafts[reqs[r].from].st = "gone"

OneRequestPerDraft == \A q, r \in Req :
  reqs[r].from \in Draft /\ reqs[q].from = reqs[r].from => q = r

RequestsSound == /\ NoDraftUnsubmitted /\ PendingIsBound /\ DecidedIsUnbound
                 /\ OneRequestPerDraft /\ OnePendingPerRequester

\* What a transaction x may still rely on of what its Begin step saw: the
\* draft exists and is its user's, unless it is gone; the request it decides
\* was made for its draft; the entry it reverts is an approval.
Sound(x) ==
  /\ x.op = "submit" =>
       /\ x.draft \in Draft /\ drafts[x.draft].st # "unborn"
       /\ Exists(x.draft) => drafts[x.draft].owner = x.user
  /\ x.op = "edit_draft" => x.draft \in Draft
  /\ x.op \in {"approve", "merge", "deny"} =>
       x.req \in Req /\ x.draft \in Draft /\ reqs[x.req].from = x.draft
  /\ x.op \in {"revert_request", "revert_entry"} \cup Reverting =>
       x.req \in Req /\ x.entry \in DOMAIN audit /\ audit[x.entry].action = "APPROVE_CHANGE"

TransactionsSound == \A t \in Tx : Sound(tx[t])

IInv == TypeOK /\ RequestsSound /\ TransactionsSound

\* The entry a revert has claimed is not marked yet, and no other claimed it.
ClaimsApart ==
  /\ \A t \in Tx : tx[t].op \in Reverting => ~audit[tx[t].entry].reverted
  /\ \A t, u \in Tx :
       (tx[t].op \in Reverting /\ tx[u].op \in Reverting /\ tx[t].entry = tx[u].entry) => t = u

----------------------------------------------------------------------------
(* The types of what the steps write *)

LEMMA IdleIsTransaction == Idle \in Transaction /\ Idle.op = "idle"
  BY EmptyTreeIsTree DEF Idle, Transaction

\* Every edit of a tree leaves a tree.
LEMMA EditedIsTree ==
  ASSUME NEW s \in Tree, NEW fresh \in SUBSET Person, NEW z \in Edited(s, fresh)
  PROVE  z \in Tree
  <1>0. s.groups \subseteq Group /\ Live(s) \subseteq Person
    BY TreeParts DEF Live
  <1>1. CASE z \in WithNewPerson(s, fresh)
    <2>1. PICK p \in fresh, v \in Value :
            z = [s EXCEPT !.rows[p] = [st |-> "live", cloned |-> FALSE, val |-> v]]
      BY <1>1 DEF WithNewPerson
    <2>2. [st |-> "live", cloned |-> FALSE, val |-> v] \in Row
      BY DEF Row
    <2> QED BY <2>1, <2>2, RowWritten
  <1>2. CASE z \in WithUpdate(s)
    BY <1>0, <1>2, ValueWritten DEF WithUpdate
  <1>3. CASE z \in WithoutPerson(s)
    BY ZenonT(30), <1>0, <1>3, StateWritten DEF WithoutPerson
  <1>4. CASE z \in WithoutGroup(s)
    <2>1. PICK g \in s.groups : z = [s EXCEPT !.groups = s.groups \ {g}]
      BY <1>4 DEF WithoutGroup
    <2>2. s.groups \ {g} \in SUBSET Group
      BY <1>0
    <2> QED BY <2>1, <2>2, GroupsWritten
  <1>5. CASE z \in WithChild(s)
    <2>1. PICK g \in s.groups, p \in Live(s) :
            z = [s EXCEPT !.groups = (s.groups \ {g}) \cup {[g EXCEPT !.children = @ \cup {p}]}]
      BY <1>5 DEF WithChild
    <2>2. [g EXCEPT !.children = @ \cup {p}] \in Group
      BY <1>0 DEF Group
    <2>3. (s.groups \ {g}) \cup {[g EXCEPT !.children = @ \cup {p}]} \in SUBSET Group
      BY <1>0, <2>2
    <2> QED BY <2>1, <2>3, GroupsWritten
  <1> QED
    BY <1>1, <1>2, <1>3, <1>4, <1>5 DEF Edited

\* The rows a draft's table holds.
LEMMA DraftFields ==
  ASSUME NEW x \in DraftRow
  PROVE  /\ x.st \in {"unborn", "live", "deleted", "gone"} /\ x.owner \in Editor \cup {NoEditor}
         /\ x.rows \in Tree
         /\ \A s \in Tree : [x EXCEPT !.rows = s] \in DraftRow
         /\ [x EXCEPT !.st = "deleted"] \in DraftRow
  BY DEF DraftRow

LEMMA GoneIsDraft == [st |-> "gone", owner |-> NoEditor, rows |-> EmptyTree] \in DraftRow
  BY EmptyTreeIsTree DEF DraftRow

----------------------------------------------------------------------------
(* The steps that only open, advance or give up a transaction *)

Quiet(t) ==
  /\ UNCHANGED <<tree, drafts, reqs, audit, born, edits>>
  /\ \E x \in Transaction : Sound(x) /\ tx' = [tx EXCEPT ![t] = x]

LEMMA BeginIsQuiet ==
  ASSUME NEW t, NEW x \in Transaction, Begin(t, x), Sound(x)
  PROVE  Quiet(t)
  BY DEF Begin, Quiet

\* What the claim of an entry leaves in its transaction.
Claims(t, x) ==
  /\ x.op \in Reverting /\ x.entry = tx[t].entry /\ x.req = tx[t].req
  /\ x.before = tx[t].before /\ x.read = Seen
  /\ tx' = [tx EXCEPT ![t] = x]
  /\ UNCHANGED <<tree, drafts, reqs, audit, born, edits>>

LEMMA ClaimIsClaim ==
  ASSUME TypeOK, NEW t \in Tx, ClaimRevert(t)
  PROVE  \E x \in Transaction : Claims(t, x)
  <1> DEFINE op == IF tx[t].op = "revert_request" THEN "reverting_request" ELSE "reverting_entry"
             x == [tx[t] EXCEPT !.op = op, !.read = Seen]
  <1>1. Seen \in Tree
    BY SnapshotIsTree DEF Seen, TypeOK, Tree
  <1>2. tx[t] \in Transaction
    BY DEF TypeOK
  <1>3. tx' = [tx EXCEPT ![t].op = op, ![t].read = Seen]
    BY DEF ClaimRevert
  <1>4. op \in Reverting /\ op \in {"reverting_request", "reverting_entry"}
    BY DEF Reverting
  <1> HIDE DEF op
  <1>5. tx' = [tx EXCEPT ![t] = x]
    BY <1>3
  <1>6. /\ x \in Transaction /\ x.op = op /\ x.entry = tx[t].entry /\ x.req = tx[t].req
        /\ x.before = tx[t].before /\ x.read = Seen
    BY <1>1, <1>2, <1>4 DEF Transaction
  <1> HIDE DEF x
  <1> QED
    BY <1>4, <1>5, <1>6 DEF Claims, ClaimRevert

\* Every Begin step finds what its transaction will rely on.
LEMMA QuietSteps ==
  ASSUME IInv, NEW t \in Tx,
         \/ BeginCreateDraft(t) \/ BeginSubmit(t) \/ BeginEditDraft(t) \/ BeginEditOriginal(t)
         \/ BeginResolve(t) \/ ReadDraft(t) \/ BeginRevertRequest(t) \/ BeginRevertEntry(t)
         \/ ClaimRevert(t) \/ Rollback(t)
  PROVE  Quiet(t)
  <1>0. /\ drafts \in [Draft -> DraftRow] /\ reqs \in [Req -> ReqRow]
        /\ audit \in Seq(Entry) /\ tree \in Tree /\ tx \in [Tx -> Transaction]
        /\ Idle \in Transaction
        /\ DOMAIN audit = 1 .. Len(audit) /\ Len(audit) \in Nat
    BY IdleIsTransaction, LenProperties DEF IInv, TypeOK
  <1>1. CASE BeginCreateDraft(t)
    <2> PICK u \in Editor : Begin(t, [Idle EXCEPT !.op = "create_draft", !.user = u])
      BY <1>1 DEF BeginCreateDraft
    <2> DEFINE x == [Idle EXCEPT !.op = "create_draft", !.user = u]
    <2>1. x \in Transaction /\ x.op = "create_draft"
      BY <1>0 DEF Transaction
    <2> HIDE DEF x
    <2>2. Sound(x)
      BY <2>1 DEF Sound, Reverting
    <2> QED BY <2>1, <2>2, BeginIsQuiet DEF x
  <1>2. CASE BeginSubmit(t)
    <2> PICK d \in Draft :
          /\ drafts[d].st = "live"
          /\ Begin(t, [Idle EXCEPT !.op = "submit", !.user = drafts[d].owner, !.draft = d])
      BY <1>2 DEF BeginSubmit
    <2> DEFINE x == [Idle EXCEPT !.op = "submit", !.user = drafts[d].owner, !.draft = d]
    <2>0. drafts[d].owner \in Editor \cup {NoEditor}
      BY <1>0, DraftFields
    <2>1. x \in Transaction /\ x.op = "submit" /\ x.draft = d /\ x.user = drafts[d].owner
      BY <1>0, <2>0 DEF Transaction
    <2> HIDE DEF x
    <2>2. Sound(x)
      BY <2>1 DEF Sound, Reverting
    <2> QED BY <2>1, <2>2, BeginIsQuiet DEF x
  <1>3. CASE BeginEditDraft(t)
    <2> PICK d \in Draft : Begin(t, [Idle EXCEPT !.op = "edit_draft", !.draft = d])
      BY <1>3 DEF BeginEditDraft
    <2> DEFINE x == [Idle EXCEPT !.op = "edit_draft", !.draft = d]
    <2>1. x \in Transaction /\ x.op = "edit_draft" /\ x.draft = d
      BY <1>0 DEF Transaction
    <2> HIDE DEF x
    <2>2. Sound(x)
      BY <2>1 DEF Sound, Reverting
    <2> QED BY <2>1, <2>2, BeginIsQuiet DEF x
  <1>4. CASE BeginEditOriginal(t)
    <2> DEFINE x == [Idle EXCEPT !.op = "edit_original"]
    <2>1. x \in Transaction /\ x.op = "edit_original"
      BY <1>0 DEF Transaction
    <2> HIDE DEF x
    <2>2. Sound(x)
      BY <2>1 DEF Sound, Reverting
    <2> QED BY <1>4, <2>1, <2>2, BeginIsQuiet DEF x, BeginEditOriginal
  <1>5. CASE BeginResolve(t)
    <2> PICK r \in Req, op \in {"approve", "deny"} :
          /\ reqs[r].status = "PENDING"
          /\ Begin(t, [Idle EXCEPT !.op = op, !.req = r, !.draft = reqs[r].draft])
      BY <1>5 DEF BeginResolve
    <2> DEFINE x == [Idle EXCEPT !.op = op, !.req = r, !.draft = reqs[r].draft]
    <2>0. reqs[r].draft \in Draft /\ reqs[r].from = reqs[r].draft
      BY DEF IInv, RequestsSound, PendingIsBound
    <2>1. x \in Transaction /\ x.op = op /\ x.req = r /\ x.draft = reqs[r].draft
      BY <1>0, <2>0 DEF Transaction
    <2> HIDE DEF x
    <2>2. Sound(x)
      BY <2>0, <2>1 DEF Sound, Reverting
    <2> QED BY <2>1, <2>2, BeginIsQuiet DEF x
  <1>6. CASE ReadDraft(t)
    <2> DEFINE read == [rows |-> LiveRows(drafts[tx[t].draft].rows), groups |-> {}]
               x == [tx[t] EXCEPT !.op = "merge", !.before = Snapshot(tree), !.read = read]
    <2>1. tx[t].op = "approve" /\ tx[t] \in Transaction /\ Sound(tx[t])
      BY <1>0, <1>6 DEF ReadDraft, IInv, TransactionsSound
    <2>2. drafts[tx[t].draft].rows \in Tree
      BY <1>0, <2>1, DraftFields DEF Sound
    <2>3. read \in Tree /\ Snapshot(tree) \in Tree
      BY <1>0, <2>2, SnapshotIsTree DEF Tree
    <2> HIDE DEF read
    <2>4. x \in Transaction /\ x.op = "merge" /\ x.req = tx[t].req /\ x.draft = tx[t].draft
      BY <2>1, <2>3 DEF Transaction
    <2>5. /\ tx' = [tx EXCEPT ![t] = x]
          /\ UNCHANGED <<tree, drafts, reqs, audit, born, edits>>
      BY <1>6 DEF ReadDraft, read
    <2> HIDE DEF x
    <2>6. Sound(x)
      BY <2>1, <2>4 DEF Sound, Reverting
    <2> QED BY <2>4, <2>5, <2>6 DEF Quiet
  <1>7. CASE BeginRevertRequest(t)
    <2> PICK r \in Req : \E j \in ApprovalsOf(r) :
          Begin(t, [Idle EXCEPT !.op = "revert_request", !.req = r, !.entry = j])
      BY <1>7 DEF BeginRevertRequest
    <2> PICK i \in ApprovalsOf(r) :
          Begin(t, [Idle EXCEPT !.op = "revert_request", !.req = r, !.entry = i])
      OBVIOUS
    <2> DEFINE x == [Idle EXCEPT !.op = "revert_request", !.req = r, !.entry = i]
    <2>0. i \in DOMAIN audit /\ i \in Nat /\ audit[i].action = "APPROVE_CHANGE"
      BY <1>0 DEF ApprovalsOf
    <2>1. x \in Transaction /\ x.op = "revert_request" /\ x.req = r /\ x.entry = i
      BY <1>0, <2>0 DEF Transaction
    <2> HIDE DEF x
    <2>2. Sound(x)
      BY <2>0, <2>1 DEF Sound, Reverting
    <2> QED BY <2>1, <2>2, BeginIsQuiet DEF x
  <1>8. CASE BeginRevertEntry(t)
    <2> PICK i \in DOMAIN audit :
          /\ Revertible(audit[i])
          /\ Begin(t, [Idle EXCEPT !.op = "revert_entry", !.req = audit[i].req, !.entry = i])
      BY <1>8 DEF BeginRevertEntry
    <2> DEFINE x == [Idle EXCEPT !.op = "revert_entry", !.req = audit[i].req, !.entry = i]
    <2>3. audit[i] \in Entry
      BY <1>0, ElementOfSeq
    <2>0. i \in Nat /\ audit[i].req \in Req /\ audit[i].action = "APPROVE_CHANGE"
      BY <1>0, <2>3 DEF Revertible, Entry
    <2>1. x \in Transaction /\ x.op = "revert_entry" /\ x.req = audit[i].req /\ x.entry = i
      BY <1>0, <2>0 DEF Transaction
    <2> HIDE DEF x
    <2>2. Sound(x)
      BY <2>0, <2>1 DEF Sound, Reverting
    <2> QED BY <2>1, <2>2, BeginIsQuiet DEF x
  <1>9. CASE Rollback(t)
    BY <1>0, <1>9, IdleIsTransaction DEF Rollback, End, Quiet, Sound, Reverting
  <1>10. CASE ClaimRevert(t)
    <2>1. PICK x \in Transaction : Claims(t, x)
      BY <1>10, ClaimIsClaim DEF IInv
    <2>2. tx[t].op \in {"revert_request", "revert_entry"} /\ Sound(tx[t])
      BY <1>10 DEF ClaimRevert, IInv, TransactionsSound
    <2>3. Sound(x)
      BY <2>1, <2>2 DEF Claims, Sound, Reverting
    <2> QED BY <2>1, <2>3 DEF Claims, Quiet
  <1> QED
    BY <1>1, <1>2, <1>3, <1>4, <1>5, <1>6, <1>7, <1>8, <1>9, <1>10

----------------------------------------------------------------------------
(* The steps that write *)

\* Drafts come to be once, stay their owner's, and are gone for good.
DraftsKept == \A d \in Draft :
  /\ Exists(d) => drafts'[d].st # "unborn"
  /\ drafts[d].st = "gone" => drafts'[d].st = "gone"
  /\ drafts[d].st # "unborn" /\ drafts'[d].st \in {"live", "deleted"} =>
       drafts'[d].owner = drafts[d].owner

\* A request is made for one draft, and an entry keeps its action.
RequestsKept == \A r \in Req : reqs[r].from \in Draft => reqs'[r].from = reqs[r].from

EntriesKept == \A i \in DOMAIN audit : i \in DOMAIN audit' /\ audit'[i].action = audit[i].action

\* So what a transaction relies on stays true until it ends.
LEMMA TransactionsStaySound ==
  ASSUME TypeOK, TransactionsSound, DraftsKept, RequestsKept, EntriesKept,
         tx' = tx \/ \E t \in Tx : tx' = [tx EXCEPT ![t] = Idle]
  PROVE  TransactionsSound'
  <1> SUFFICES ASSUME NEW u \in Tx PROVE Sound(tx[u])'
    BY DEF TransactionsSound
  <1>1. tx'[u] = tx[u] \/ tx'[u] = Idle
    BY DEF TypeOK
  <1>2. CASE tx'[u] = Idle
    BY <1>2, IdleIsTransaction DEF Sound, Reverting
  <1>3. CASE tx'[u] = tx[u]
    <2>0. Sound(tx[u])
      BY DEF TransactionsSound
    <2>1. ASSUME tx[u].op = "submit"
          PROVE  /\ tx[u].draft \in Draft /\ drafts'[tx[u].draft].st # "unborn"
                 /\ drafts'[tx[u].draft].st \in {"live", "deleted"} =>
                      drafts'[tx[u].draft].owner = tx[u].user
      BY <2>0, <2>1, DraftFields DEF Sound, DraftsKept, Exists, TypeOK
    <2>2. ASSUME tx[u].op \in {"approve", "merge", "deny"}
          PROVE  tx[u].req \in Req /\ tx[u].draft \in Draft
                 /\ reqs'[tx[u].req].from = tx[u].draft
      BY <2>0, <2>2 DEF Sound, RequestsKept
    <2>3. ASSUME tx[u].op \in {"revert_request", "revert_entry"} \cup Reverting
          PROVE  /\ tx[u].req \in Req /\ tx[u].entry \in DOMAIN audit'
                 /\ audit'[tx[u].entry].action = "APPROVE_CHANGE"
      BY <2>0, <2>3 DEF Sound, EntriesKept
    <2>4. tx[u].op = "edit_draft" => tx[u].draft \in Draft
      BY <2>0 DEF Sound
    <2> QED BY <1>3, <2>1, <2>2, <2>3, <2>4 DEF Sound, Exists
  <1> QED
    BY <1>1, <1>2, <1>3

\* The invariant holds after a quiet step.
LEMMA QuietStep ==
  ASSUME IInv, NEW t \in Tx, Quiet(t)
  PROVE  IInv'
  <1> PICK x \in Transaction : Sound(x) /\ tx' = [tx EXCEPT ![t] = x]
    BY DEF Quiet
  <1>1. UNCHANGED <<tree, drafts, reqs, audit, born, edits>>
    BY DEF Quiet
  <1>2. TypeOK'
    BY <1>1 DEF IInv, TypeOK
  <1>3. RequestsSound'
    BY <1>1 DEF IInv, RequestsSound, NoDraftUnsubmitted, PendingIsBound, DecidedIsUnbound,
                OneRequestPerDraft, OnePendingPerRequester, Exists
  <1>4. TransactionsSound'
    <2> SUFFICES ASSUME NEW u \in Tx PROVE Sound(tx[u])'
      BY DEF TransactionsSound
    <2>1. Sound(tx[u]) /\ tx'[u] = IF u = t THEN x ELSE tx[u]
      BY DEF IInv, TypeOK, TransactionsSound
    <2> QED BY <1>1, <2>1 DEF Sound, Exists
  <1> QED
    BY <1>2, <1>3, <1>4 DEF IInv

\* An edit, the creation and the deletion of a draft, and an edit of the
\* original leave the requests and the log alone.
LEMMA DraftStep ==
  ASSUME IInv,
         \/ \E t \in Tx : CommitCreateDraft(t) \/ CommitEditDraft(t) \/ CommitEditOriginal(t)
         \/ \E d \in Draft : DeleteDraft(d)
  PROVE  IInv'
  <1>0. /\ tree \in Tree /\ drafts \in [Draft -> DraftRow] /\ reqs \in [Req -> ReqRow]
        /\ audit \in Seq(Entry) /\ born \subseteq Person /\ edits \in Nat
        /\ tx \in [Tx -> Transaction] /\ Idle \in Transaction
    BY IdleIsTransaction DEF IInv, TypeOK
  <1>1. /\ reqs' = reqs /\ audit' = audit
        /\ tx' = tx \/ \E t \in Tx : tx' = [tx EXCEPT ![t] = Idle]
    BY DEF CommitCreateDraft, CommitEditDraft, CommitEditOriginal, DeleteDraft, End
  <1> DEFINE Kept ==
        /\ tree' \in Tree /\ drafts' \in [Draft -> DraftRow] /\ born' \subseteq Person
        /\ edits' \in Nat
        /\ \A d \in Draft :
             /\ Exists(d) => /\ drafts'[d].st \in {"live", "deleted"}
                            /\ drafts'[d].owner = drafts[d].owner
             /\ drafts[d].st = "gone" => drafts'[d].st = "gone"
  <1>2. Kept
    <2>1. ASSUME NEW t \in Tx, CommitCreateDraft(t) PROVE Kept
      <3> PICK d \in Draft :
            /\ drafts[d].st = "unborn"
            /\ drafts' = [drafts EXCEPT ![d] = [st |-> "live", owner |-> tx[t].user,
                                               rows |-> CloneTree(tree)]]
        BY <2>1 DEF CommitCreateDraft
      <3> DEFINE row == [st |-> "live", owner |-> tx[t].user, rows |-> CloneTree(tree)]
      <3>1. row \in DraftRow
        BY <1>0, CloneIsTree DEF DraftRow, Transaction
      <3> HIDE DEF row
      <3>2. drafts' = [drafts EXCEPT ![d] = row]
        BY DEF row
      <3> QED BY <1>0, <2>1, <3>1, <3>2 DEF CommitCreateDraft, Exists
    <2>2. ASSUME NEW t \in Tx, CommitEditDraft(t) PROVE Kept
      <3> DEFINE d == tx[t].draft
      <3>1. d \in Draft /\ Exists(d)
        BY <2>2 DEF CommitEditDraft, IInv, TransactionsSound, Sound
      <3>2. PICK s \in Edited(drafts[d].rows, Person \ born) :
              /\ drafts' = [drafts EXCEPT ![d].rows = s]
              /\ born' = born \cup (Stored(s) \ Stored(drafts[d].rows))
        BY <2>2 DEF CommitEditDraft
      <3>3. drafts[d] \in DraftRow /\ drafts[d].rows \in Tree
        BY <1>0, <3>1, DraftFields
      <3>4. s \in Tree /\ Person \ born \in SUBSET Person
        BY <3>3, EditedIsTree
      <3> DEFINE row == [drafts[d] EXCEPT !.rows = s]
      <3>5. row \in DraftRow /\ row.st = drafts[d].st /\ row.owner = drafts[d].owner
        BY <3>3, <3>4 DEF DraftRow
      <3>6. drafts' = [drafts EXCEPT ![d] = row]
        BY <3>2
      <3> HIDE DEF row, d
      <3>7. /\ drafts' \in [Draft -> DraftRow]
            /\ \A c \in Draft : /\ drafts'[c].st = drafts[c].st
                                /\ drafts'[c].owner = drafts[c].owner
        BY <1>0, <3>1, <3>5, <3>6
      <3>8. born' \subseteq Person /\ tree' = tree /\ edits' = edits + 1
        BY <1>0, <2>2, <3>2 DEF CommitEditDraft, Stored
      <3> QED BY <1>0, <3>7, <3>8 DEF Exists
    <2>3. ASSUME NEW t \in Tx, CommitEditOriginal(t) PROVE Kept
      <3>1. PICK s \in Edited(tree, Person \ born) : tree' = s /\ born' = born \cup Stored(s)
        BY <2>3 DEF CommitEditOriginal
      <3>2. s \in Tree /\ born' \subseteq Person
        BY <1>0, <3>1, EditedIsTree DEF Stored
      <3> QED BY <1>0, <2>3, <3>1, <3>2 DEF CommitEditOriginal, Exists
    <2>4. CASE \E d \in Draft : DeleteDraft(d)
      <3> PICK d \in Draft : DeleteDraft(d)
        BY <2>4
      <3> DEFINE row == [drafts[d] EXCEPT !.st = "deleted"]
      <3>1. row \in DraftRow /\ row.st = "deleted" /\ row.owner = drafts[d].owner
        BY <1>0 DEF DraftRow
      <3>2. drafts' = [drafts EXCEPT ![d] = row] /\ drafts[d].st = "live"
        BY DEF DeleteDraft
      <3> HIDE DEF row
      <3> QED BY <1>0, <3>1, <3>2 DEF DeleteDraft, Exists
    <2> QED BY <2>1, <2>2, <2>3, <2>4
  <1>3. TypeOK'
    BY <1>0, <1>1, <1>2 DEF TypeOK
  <1>4. RequestsSound'
    <2>1. PendingIsBound'
      BY <1>1, <1>2 DEF IInv, RequestsSound, PendingIsBound, Exists
    <2>2. DecidedIsUnbound'
      BY <1>1, <1>2 DEF IInv, RequestsSound, DecidedIsUnbound
    <2>3. NoDraftUnsubmitted' /\ OneRequestPerDraft' /\ OnePendingPerRequester'
      BY <1>1 DEF IInv, RequestsSound, NoDraftUnsubmitted, OneRequestPerDraft,
                  OnePendingPerRequester
    <2> QED BY <2>1, <2>2, <2>3 DEF RequestsSound
  <1>5. TransactionsSound'
    <2>1. DraftsKept
      BY <1>0, <1>2, DraftFields DEF DraftsKept, Exists
    <2>2. RequestsKept /\ EntriesKept
      BY <1>1 DEF RequestsKept, EntriesKept
    <2> QED BY <1>1, <2>1, <2>2, TransactionsStaySound DEF IInv
  <1> QED
    BY <1>3, <1>4, <1>5 DEF IInv

\* A submission: the foreign key vouches for the draft, the partial index for
\* the requester, and between them for there being one request per draft.
LEMMA SubmitStep ==
  ASSUME IInv, NEW t \in Tx, CommitSubmit(t)
  PROVE  IInv'
  <1> DEFINE d == tx[t].draft
             u == tx[t].user
             new == [status |-> "PENDING", requester |-> u, draft |-> d, from |-> d,
                     reverted |-> FALSE]
  <1>0. /\ reqs \in [Req -> ReqRow] /\ tx \in [Tx -> Transaction] /\ Idle \in Transaction
        /\ drafts \in [Draft -> DraftRow] /\ NoDraft \notin Draft
    BY IdleIsTransaction, ChangeRequestsAssumption DEF IInv, TypeOK
  <1> PICK r \in Req : reqs[r].status = "none" /\ reqs' = [reqs EXCEPT ![r] = new]
    BY DEF CommitSubmit
  <1>1. /\ UNCHANGED <<tree, drafts, audit, born, edits>>
        /\ tx' = [tx EXCEPT ![t] = Idle]
    BY DEF CommitSubmit, End
  <1>2. /\ d \in Draft /\ Exists(d) /\ drafts[d].owner = u
        /\ u \in Editor \cup {NoEditor}
        /\ \A q \in Req : ~(reqs[q].status = "PENDING" /\ reqs[q].requester = u)
    BY <1>0 DEF CommitSubmit, ForeignKeyHolds, PendingIndexHolds, PendingOf, IInv,
                TransactionsSound, Sound, Transaction
  <1>3. new \in ReqRow
    BY <1>2 DEF ReqRow
  <1>4. /\ new.status = "PENDING" /\ new.requester = u /\ new.draft = d /\ new.from = d
    OBVIOUS
  <1> HIDE DEF new, d, u
  <1>5. \A q \in Req : reqs'[q] = IF q = r THEN new ELSE reqs[q]
    BY <1>0
  <1>6. \A q \in Req : reqs[q].status \in {"none", "PENDING", "APPROVED", "DENIED"}
    BY <1>0 DEF ReqRow
  <1>7. \A q \in Req : reqs[q].from # d
    <2> SUFFICES ASSUME NEW q \in Req PROVE reqs[q].from # d
      OBVIOUS
    <2>1. CASE reqs[q].status = "none"
      BY <1>0, <1>2, <2>1 DEF IInv, RequestsSound, NoDraftUnsubmitted
    <2>2. CASE reqs[q].status = "PENDING"
      BY <1>2, <2>2 DEF IInv, RequestsSound, PendingIsBound
    <2>3. CASE reqs[q].status \in {"APPROVED", "DENIED"}
      BY <1>2, <2>3 DEF IInv, RequestsSound, DecidedIsUnbound, Exists
    <2> QED BY <1>6, <2>1, <2>2, <2>3
  <1>8. TypeOK'
    BY <1>0, <1>1, <1>3 DEF IInv, TypeOK
  <1>9. RequestsSound'
    <2>1. NoDraftUnsubmitted'
      BY <1>4, <1>5 DEF IInv, RequestsSound, NoDraftUnsubmitted
    <2>2. PendingIsBound'
      BY <1>1, <1>2, <1>4, <1>5 DEF IInv, RequestsSound, PendingIsBound, Exists
    <2>3. DecidedIsUnbound'
      BY <1>1, <1>4, <1>5 DEF IInv, RequestsSound, DecidedIsUnbound
    <2>4. OneRequestPerDraft'
      BY <1>4, <1>5, <1>7 DEF IInv, RequestsSound, OneRequestPerDraft
    <2>5. OnePendingPerRequester'
      BY <1>2, <1>4, <1>5 DEF IInv, RequestsSound, OnePendingPerRequester
    <2> QED BY <2>1, <2>2, <2>3, <2>4, <2>5 DEF RequestsSound
  <1>10. TransactionsSound'
    <2>1. DraftsKept /\ EntriesKept
      BY <1>1 DEF DraftsKept, EntriesKept, Exists
    <2>2. RequestsKept
      BY <1>0, <1>5 DEF RequestsKept, IInv, RequestsSound, NoDraftUnsubmitted
    <2> QED BY <1>1, <2>1, <2>2, TransactionsStaySound DEF IInv
  <1> QED
    BY <1>8, <1>9, <1>10 DEF IInv

\* What a decision writes: the request's row, and the draft's.
Decides(t, status) ==
  /\ tx[t].op \in {"merge", "deny"}
  /\ drafts' = Deleted(tx[t].draft)
  /\ reqs' = Resolved(tx[t].req, status)
  /\ tree' \in Tree
  /\ audit' = audit \/ \E e \in Entry :
       audit' = Append(audit, e) /\ ~e.reverted /\ e.undoes = 0 /\ e.action = "APPROVE_CHANGE"
  /\ End(t)
  /\ UNCHANGED <<born, edits>>

LEMMA DecisionsDecide ==
  ASSUME IInv, NEW t \in Tx, CommitApprove(t) \/ CommitDeny(t)
  PROVE  Decides(t, "APPROVED") \/ Decides(t, "DENIED")
  <1>0. tree \in Tree /\ tx[t] \in Transaction /\ drafts \in [Draft -> DraftRow]
    BY DEF IInv, TypeOK
  <1>1. CASE CommitApprove(t)
    <2> DEFINE e == [action |-> "APPROVE_CHANGE", req |-> tx[t].req, before |-> tx[t].before,
                     reverted |-> FALSE, undoes |-> 0]
    <2>1. tx[t].op = "merge" /\ tx[t].draft \in Draft /\ tx[t].req \in Req
      BY <1>1 DEF CommitApprove, IInv, TransactionsSound, Sound
    <2>2. drafts[tx[t].draft].rows \in Tree /\ tx[t].read \in Tree /\ tx[t].before \in Tree
      BY <1>0, <2>1, DraftFields DEF Transaction
    <2>3. tree' \in Tree
      BY <1>0, <1>1, <2>2, MergeIsTree DEF CommitApprove
    <2>4. e \in Entry /\ ~e.reverted /\ e.undoes = 0 /\ e.action = "APPROVE_CHANGE"
      BY <2>1, <2>2 DEF Entry
    <2>5. audit' = Append(audit, e)
      BY <1>1 DEF CommitApprove
    <2> HIDE DEF e
    <2> QED BY <1>1, <2>1, <2>3, <2>4, <2>5 DEF CommitApprove, Decides
  <1>2. CASE CommitDeny(t)
    BY <1>0, <1>2 DEF CommitDeny, Decides
  <1> QED
    BY <1>1, <1>2

\* A decision, the first or a later one: the draft goes, and no request but
\* the one decided was made for it.
LEMMA DecideStep ==
  ASSUME IInv, NEW t \in Tx, NEW status \in {"APPROVED", "DENIED"}, Decides(t, status)
  PROVE  IInv'
  <1> DEFINE d == tx[t].draft
             r == tx[t].req
             none == [st |-> "gone", owner |-> NoEditor, rows |-> EmptyTree]
             row == [reqs[r] EXCEPT !.status = status, !.draft = NoDraft]
  <1>0. /\ reqs \in [Req -> ReqRow] /\ tx \in [Tx -> Transaction] /\ Idle \in Transaction
        /\ drafts \in [Draft -> DraftRow] /\ NoDraft \notin Draft /\ audit \in Seq(Entry)
    BY IdleIsTransaction, ChangeRequestsAssumption DEF IInv, TypeOK
  <1>1. r \in Req /\ d \in Draft /\ reqs[r].from = d
    BY DEF Decides, IInv, TransactionsSound, Sound
  <1>2. none \in DraftRow /\ none.st = "gone"
    BY GoneIsDraft
  <1>3. /\ row \in ReqRow /\ row.status = status /\ row.draft = NoDraft
        /\ row.from = d /\ row.requester = reqs[r].requester
    <2>1. reqs[r] \in ReqRow
      BY <1>0, <1>1
    <2> QED BY <1>1, <2>1 DEF ReqRow
  <1>4. drafts' = [drafts EXCEPT ![d] = none] /\ reqs' = [reqs EXCEPT ![r] = row]
    BY DEF Decides, Deleted, Resolved
  <1>5. tx' = [tx EXCEPT ![t] = Idle] /\ tree' \in Tree /\ UNCHANGED <<born, edits>>
    BY DEF Decides, End
  <1>6. audit' \in Seq(Entry) /\ EntriesKept
    <2>1. CASE audit' = audit
      BY <1>0, <2>1 DEF EntriesKept
    <2>2. CASE audit' # audit
      <3> PICK e \in Entry : audit' = Append(audit, e)
        BY <2>2 DEF Decides
      <3> QED BY <1>0, LedgerProofs!Appended DEF EntriesKept
    <2> QED BY <2>1, <2>2
  <1> HIDE DEF none, row, d, r
  <1>7. /\ \A c \in Draft : drafts'[c] = IF c = d THEN none ELSE drafts[c]
        /\ \A q \in Req : reqs'[q] = IF q = r THEN row ELSE reqs[q]
    BY <1>0, <1>4
  <1>8. \A q \in Req : reqs[q].from = d => q = r
    BY <1>1 DEF IInv, RequestsSound, OneRequestPerDraft
  <1>9. TypeOK'
    BY <1>0, <1>2, <1>3, <1>4, <1>5, <1>6 DEF IInv, TypeOK
  <1>10. RequestsSound'
    <2>1. NoDraftUnsubmitted'
      BY <1>3, <1>7 DEF IInv, RequestsSound, NoDraftUnsubmitted
    <2>2. PendingIsBound'
      <3> SUFFICES ASSUME NEW q \in Req, reqs'[q].status = "PENDING"
                   PROVE  /\ reqs'[q].draft \in Draft /\ reqs'[q].from = reqs'[q].draft
                          /\ drafts'[reqs'[q].draft].st \in {"live", "deleted"}
                          /\ drafts'[reqs'[q].draft].owner = reqs'[q].requester
        BY DEF PendingIsBound, Exists
      <3>1. q # r /\ reqs'[q] = reqs[q]
        BY <1>3, <1>7
      <3>2. /\ reqs[q].draft \in Draft /\ reqs[q].from = reqs[q].draft
            /\ Exists(reqs[q].draft) /\ drafts[reqs[q].draft].owner = reqs[q].requester
        BY <3>1 DEF IInv, RequestsSound, PendingIsBound
      <3>3. reqs[q].draft # d
        BY <1>8, <3>1, <3>2
      <3> QED BY <1>7, <3>1, <3>2, <3>3 DEF Exists
    <2>3. DecidedIsUnbound'
      <3> SUFFICES ASSUME NEW q \in Req, reqs'[q].status \in {"APPROVED", "DENIED"}
                   PROVE  /\ reqs'[q].from \in Draft /\ reqs'[q].draft = NoDraft
                          /\ drafts'[reqs'[q].from].st = "gone"
        BY DEF DecidedIsUnbound
      <3>1. CASE q = r
        BY <1>1, <1>2, <1>3, <1>7, <3>1
      <3>2. CASE q # r
        BY <1>2, <1>7, <3>2 DEF IInv, RequestsSound, DecidedIsUnbound
      <3> QED BY <3>1, <3>2
    <2>4. OneRequestPerDraft'
      BY <1>1, <1>3, <1>7 DEF IInv, RequestsSound, OneRequestPerDraft
    <2>5. OnePendingPerRequester'
      BY <1>3, <1>7 DEF IInv, RequestsSound, OnePendingPerRequester
    <2> QED BY <2>1, <2>2, <2>3, <2>4, <2>5 DEF RequestsSound
  <1>11. TransactionsSound'
    <2>1. DraftsKept
      BY <1>2, <1>7 DEF DraftsKept, Exists
    <2>2. RequestsKept
      BY <1>1, <1>3, <1>7 DEF RequestsKept
    <2> QED BY <1>5, <1>6, <2>1, <2>2, TransactionsStaySound DEF IInv
  <1> QED
    BY <1>9, <1>10, <1>11 DEF IInv

\* What the claim of an entry and the revert that follows do to the log: the
\* entry, an approval nobody undid, is marked, and one that names it appended.
UndoesEntry(t) ==
  LET i == tx[t].entry
      m == [audit[i] EXCEPT !.reverted = TRUE]
  IN  /\ i \in DOMAIN audit /\ audit[i] \in Entry /\ m \in Entry
      /\ audit[i].action = "APPROVE_CHANGE" /\ ~audit[i].reverted
      /\ m.action = audit[i].action /\ m.reverted = TRUE /\ m.undoes = audit[i].undoes
      /\ \E e \in Entry :
           /\ audit' = Append(LedgerProofs!Replaced(audit, i, m), e)
           /\ e.action = "REVERT_CHANGE" /\ ~e.reverted /\ e.undoes = i

LEMMA RevertsUndo ==
  ASSUME IInv, ClaimsApart, NEW t \in Tx, CommitRevert(t)
  PROVE  UndoesEntry(t)
  <1> DEFINE i == tx[t].entry
             m == [audit[i] EXCEPT !.reverted = TRUE]
             e == [action |-> "REVERT_CHANGE", req |-> tx[t].req, before |-> EmptyTree,
                   reverted |-> FALSE, undoes |-> i]
  <1>1. /\ i \in DOMAIN audit /\ audit[i].action = "APPROVE_CHANGE" /\ tx[t].req \in Req
        /\ ~audit[i].reverted
    BY DEF CommitRevert, ClaimsApart, IInv, TransactionsSound, Sound
  <1>2. audit[i] \in Entry /\ i \in Nat
    BY <1>1, LenProperties, ElementOfSeq DEF IInv, TypeOK
  <1>3. /\ m \in Entry /\ m.action = audit[i].action /\ m.reverted = TRUE
        /\ m.undoes = audit[i].undoes
    BY <1>2 DEF Entry
  <1>4. e \in Entry /\ e.action = "REVERT_CHANGE" /\ ~e.reverted /\ e.undoes = i
    BY <1>1, <1>2, EmptyTreeIsTree DEF Entry
  <1>5. audit' = Append(LedgerProofs!Replaced(audit, i, m), e)
    BY DEF CommitRevert, LedgerProofs!Replaced
  <1> HIDE DEF e
  <1> QED
    BY <1>1, <1>2, <1>3, <1>4, <1>5 DEF UndoesEntry

\* A revert leaves drafts alone, and of a request changes only the mark.
LEMMA RevertStep ==
  ASSUME IInv, ClaimsApart, NEW t \in Tx, CommitRevert(t)
  PROVE  IInv'
  <1> DEFINE r == tx[t].req
             row == [reqs[r] EXCEPT !.reverted = @ \/ tx[t].op = "reverting_request"]
  <1>0. /\ tree \in Tree /\ reqs \in [Req -> ReqRow] /\ tx \in [Tx -> Transaction]
        /\ audit \in Seq(Entry) /\ Idle \in Transaction /\ UndoesEntry(t)
    BY IdleIsTransaction, RevertsUndo DEF IInv, TypeOK
  <1>1. r \in Req /\ tx[t].entry \in DOMAIN audit
    BY DEF CommitRevert, IInv, TransactionsSound, Sound
  <1>2. /\ row \in ReqRow /\ row.status = reqs[r].status /\ row.draft = reqs[r].draft
        /\ row.from = reqs[r].from /\ row.requester = reqs[r].requester
    <2>1. reqs[r] \in ReqRow
      BY <1>0, <1>1
    <2> QED BY <2>1 DEF ReqRow
  <1>3. reqs' = [reqs EXCEPT ![r] = row]
    BY DEF CommitRevert
  <1>4. /\ tx' = [tx EXCEPT ![t] = Idle] /\ UNCHANGED <<drafts, born, edits>>
        /\ tree' = RestoreTree(tree, Live(tx[t].read), audit[tx[t].entry].before)
    BY DEF CommitRevert, End
  <1> HIDE DEF row, r
  <1>5. \A q \in Req : /\ reqs'[q].status = reqs[q].status /\ reqs'[q].draft = reqs[q].draft
                       /\ reqs'[q].from = reqs[q].from /\ reqs'[q].requester = reqs[q].requester
    BY <1>0, <1>1, <1>2, <1>3
  <1>6. tree' \in Tree
    <2>1. audit[tx[t].entry].before \in Tree
      BY <1>0 DEF UndoesEntry, Entry
    <2> QED BY <1>0, <1>4, <2>1, RestoreIsTree
  <1>7. audit' \in Seq(Entry) /\ EntriesKept
    <2> DEFINE i == tx[t].entry
               m == [audit[i] EXCEPT !.reverted = TRUE]
    <2>1. m \in Entry /\ m.action = audit[i].action
      BY <1>0 DEF UndoesEntry
    <2>2. PICK e \in Entry : audit' = Append([audit EXCEPT ![i] = m], e)
      BY <1>0 DEF UndoesEntry, LedgerProofs!Replaced
    <2>3. i \in 1 .. Len(audit)
      BY <1>0, <1>1, LenProperties
    <2> HIDE DEF i, m
    <2> DEFINE s == Append([audit EXCEPT ![i] = m], e)
    <2>4. /\ s \in Seq(Entry) /\ DOMAIN audit = 1 .. Len(audit) /\ Len(audit) \in Nat
          /\ DOMAIN s = 1 .. (Len(audit) + 1)
          /\ \A k \in 1 .. Len(audit) : s[k] = IF k = i THEN m ELSE audit[k]
      BY <1>0, <2>1, <2>3, LedgerProofs!MarkedAndAppended
    <2>5. audit' = s
      BY <2>2
    <2> HIDE DEF s
    <2> QED BY <2>1, <2>4, <2>5 DEF EntriesKept
  <1>8. TypeOK'
    BY <1>0, <1>2, <1>3, <1>4, <1>6, <1>7 DEF IInv, TypeOK
  <1>9. RequestsSound'
    <2>1. PendingIsBound'
      BY <1>4, <1>5 DEF IInv, RequestsSound, PendingIsBound, Exists
    <2>2. DecidedIsUnbound'
      BY <1>4, <1>5 DEF IInv, RequestsSound, DecidedIsUnbound
    <2>3. NoDraftUnsubmitted' /\ OneRequestPerDraft' /\ OnePendingPerRequester'
      BY <1>5 DEF IInv, RequestsSound, NoDraftUnsubmitted, OneRequestPerDraft,
                  OnePendingPerRequester
    <2> QED BY <2>1, <2>2, <2>3 DEF RequestsSound
  <1>10. TransactionsSound'
    <2>1. DraftsKept
      BY <1>4 DEF DraftsKept, Exists
    <2>2. RequestsKept
      BY <1>5 DEF RequestsKept
    <2> QED BY <1>4, <1>7, <2>1, <2>2, TransactionsStaySound DEF IInv
  <1> QED
    BY <1>8, <1>9, <1>10 DEF IInv

----------------------------------------------------------------------------
(* The invariant and what follows from it *)

LEMMA InitInvariant == Init => IInv
  <1> SUFFICES ASSUME Init PROVE IInv
    OBVIOUS
  <1>0. [st |-> "unborn", owner |-> NoEditor, rows |-> EmptyTree] \in DraftRow
    BY EmptyTreeIsTree DEF DraftRow
  <1>1. [status |-> "none", requester |-> NoEditor, draft |-> NoDraft, from |-> NoDraft,
         reverted |-> FALSE] \in ReqRow
    BY DEF ReqRow
  <1>2. TypeOK
    BY <1>0, <1>1, IdleIsTransaction, ChangeRequestsAssumption, EmptySeq
    DEF Init, TypeOK, Stored
  <1>3. RequestsSound
    BY ChangeRequestsAssumption
    DEF Init, RequestsSound, NoDraftUnsubmitted, PendingIsBound, DecidedIsUnbound,
        OneRequestPerDraft, OnePendingPerRequester
  <1>4. TransactionsSound
    BY IdleIsTransaction DEF Init, TransactionsSound, Sound, Reverting
  <1> QED
    BY <1>2, <1>3, <1>4 DEF IInv

\* One case per kind of step.
LEMMA NextInvariant == IInv /\ ClaimsApart /\ [Next]_vars => IInv'
  <1> SUFFICES ASSUME IInv, ClaimsApart, [Next]_vars PROVE IInv'
    OBVIOUS
  <1>1. CASE UNCHANGED vars
    BY <1>1 DEF vars, IInv, TypeOK, RequestsSound, NoDraftUnsubmitted, PendingIsBound,
                DecidedIsUnbound, OneRequestPerDraft, OnePendingPerRequester, Exists,
                TransactionsSound, Sound
  <1>2. ASSUME NEW t \in Tx, Propose(t) PROVE IInv'
    BY <1>2, QuietSteps, QuietStep, DraftStep, SubmitStep DEF Propose
  <1>3. ASSUME NEW t \in Tx, Edit(t) PROVE IInv'
    BY <1>3, QuietSteps, QuietStep, DraftStep DEF Edit
  <1>4. ASSUME NEW t \in Tx, Resolve(t) PROVE IInv'
    BY <1>4, QuietSteps, QuietStep, DecisionsDecide, DecideStep DEF Resolve
  <1>5. ASSUME NEW t \in Tx, Revert(t) PROVE IInv'
    BY <1>5, QuietSteps, QuietStep, RevertStep DEF Revert
  <1>6. ASSUME NEW t \in Tx, Rollback(t) PROVE IInv'
    BY <1>6, QuietSteps, QuietStep
  <1>7. ASSUME NEW d \in Draft, DeleteDraft(d) PROVE IInv'
    BY <1>7, DraftStep
  <1> QED
    BY <1>1, <1>2, <1>3, <1>4, <1>5, <1>6, <1>7 DEF Next

\* A step that claims nothing, and marks no entry another transaction has
\* claimed, keeps the claims apart.
LEMMA ClaimsKept ==
  ASSUME ClaimsApart,
         \A u \in Tx : tx'[u] = tx[u] \/ tx'[u].op \notin Reverting,
         \A u \in Tx : tx'[u].op \in Reverting =>
           audit'[tx[u].entry].reverted = audit[tx[u].entry].reverted
  PROVE  ClaimsApart'
  BY DEF ClaimsApart

\* Only a claim turns a transaction into one that is undoing an entry.
LEMMA OnlyClaimsClaim ==
  ASSUME IInv, [Next]_vars, ~\E t \in Tx : ClaimRevert(t), NEW u \in Tx
  PROVE  tx'[u] = tx[u] \/ tx'[u].op \notin Reverting
  <1>0. tx \in [Tx -> Transaction] /\ Idle.op = "idle"
    BY IdleIsTransaction DEF IInv, TypeOK
  <1>1. CASE UNCHANGED vars
    BY <1>1 DEF vars
  <1>2. ASSUME NEW t \in Tx, NEW x, Begin(t, x), x.op \notin Reverting
        PROVE  tx'[u] = tx[u] \/ tx'[u].op \notin Reverting
    BY <1>0, <1>2 DEF Begin
  <1>3. ASSUME NEW t \in Tx, End(t)
        PROVE  tx'[u] = tx[u] \/ tx'[u].op \notin Reverting
    BY <1>0, <1>3 DEF End, Reverting
  <1>4. ASSUME NEW t \in Tx, Propose(t)
        PROVE  tx'[u] = tx[u] \/ tx'[u].op \notin Reverting
    <2>1. CASE BeginCreateDraft(t)
      BY <1>2, <2>1 DEF BeginCreateDraft, Idle, Reverting
    <2>2. CASE BeginSubmit(t)
      BY <1>2, <2>2 DEF BeginSubmit, Idle, Reverting
    <2>3. CASE CommitCreateDraft(t) \/ CommitSubmit(t)
      BY <1>3, <2>3 DEF CommitCreateDraft, CommitSubmit
    <2> QED BY <1>4, <2>1, <2>2, <2>3 DEF Propose
  <1>5. ASSUME NEW t \in Tx, Edit(t)
        PROVE  tx'[u] = tx[u] \/ tx'[u].op \notin Reverting
    <2>1. CASE BeginEditDraft(t)
      BY <1>2, <2>1 DEF BeginEditDraft, Idle, Reverting
    <2>2. CASE BeginEditOriginal(t)
      BY <1>2, <2>2 DEF BeginEditOriginal, Idle, Reverting
    <2>3. CASE CommitEditDraft(t) \/ CommitEditOriginal(t)
      BY <1>3, <2>3 DEF CommitEditDraft, CommitEditOriginal
    <2> QED BY <1>5, <2>1, <2>2, <2>3 DEF Edit
  <1>6. ASSUME NEW t \in Tx, Resolve(t)
        PROVE  tx'[u] = tx[u] \/ tx'[u].op \notin Reverting
    <2>1. CASE BeginResolve(t)
      <3> PICK r \in Req, op \in {"approve", "deny"} :
            Begin(t, [Idle EXCEPT !.op = op, !.req = r, !.draft = reqs[r].draft])
        BY <2>1 DEF BeginResolve
      <3>1. [Idle EXCEPT !.op = op, !.req = r, !.draft = reqs[r].draft].op = op
        BY DEF Idle
      <3> QED BY <1>2, <3>1 DEF Reverting
    <2>2. CASE ReadDraft(t)
      <3>1. tx'[t].op = "merge" /\ \A w \in Tx \ {t} : tx'[w] = tx[w]
        BY <1>0, <2>2 DEF ReadDraft, Transaction
      <3> QED BY <3>1 DEF Reverting
    <2>3. CASE CommitApprove(t) \/ CommitDeny(t)
      BY <1>3, <2>3 DEF CommitApprove, CommitDeny
    <2> QED BY <1>6, <2>1, <2>2, <2>3 DEF Resolve
  <1>7. ASSUME NEW t \in Tx, Revert(t)
        PROVE  tx'[u] = tx[u] \/ tx'[u].op \notin Reverting
    <2>1. CASE BeginRevertRequest(t)
      BY <1>2, <2>1 DEF BeginRevertRequest, Idle, Reverting
    <2>2. CASE BeginRevertEntry(t)
      BY <1>2, <2>2 DEF BeginRevertEntry, Idle, Reverting
    <2>3. CASE CommitRevert(t)
      BY <1>3, <2>3 DEF CommitRevert
    <2> QED BY <1>7, <2>1, <2>2, <2>3 DEF Revert
  <1>8. ASSUME NEW t \in Tx, Rollback(t)
        PROVE  tx'[u] = tx[u] \/ tx'[u].op \notin Reverting
    BY <1>3, <1>8 DEF Rollback
  <1>9. ASSUME NEW d \in Draft, DeleteDraft(d)
        PROVE  tx'[u] = tx[u] \/ tx'[u].op \notin Reverting
    BY <1>9 DEF DeleteDraft
  <1> QED
    BY <1>1, <1>4, <1>5, <1>6, <1>7, <1>8, <1>9 DEF Next

\* Only an approval and a revert write to the log.
LEMMA LogWriters ==
  ASSUME [Next]_vars
  PROVE  UNCHANGED audit \/ \E t \in Tx : CommitApprove(t) \/ CommitRevert(t)
  BY DEF Next, vars, Propose, Edit, Resolve, Revert, Rollback, Begin, BeginCreateDraft,
         CommitCreateDraft, DeleteDraft, BeginSubmit, CommitSubmit, BeginEditDraft,
         CommitEditDraft, BeginEditOriginal, CommitEditOriginal, BeginResolve, ReadDraft,
         CommitDeny, BeginRevertRequest, BeginRevertEntry, ClaimRevert

\* What a revert's commit leaves in the log: its own entry marked, and one
\* that names it appended.
LEMMA RevertLog ==
  ASSUME IInv, ClaimsApart, NEW t \in Tx, CommitRevert(t)
  PROVE  /\ Len(audit') = Len(audit) + 1 /\ audit'[Len(audit')].undoes = tx[t].entry
         /\ \A k \in DOMAIN audit \ {tx[t].entry} : audit'[k] = audit[k]
  <1> DEFINE j == tx[t].entry
             m == [audit[j] EXCEPT !.reverted = TRUE]
  <1>0. audit \in Seq(Entry) /\ Len(audit) \in Nat /\ DOMAIN audit = 1 .. Len(audit)
    BY LenProperties DEF IInv, TypeOK
  <1>1. j \in DOMAIN audit /\ m \in Entry
    BY RevertsUndo DEF UndoesEntry
  <1>2. PICK e \in Entry : e.undoes = j /\ audit' = Append([audit EXCEPT ![j] = m], e)
    BY RevertsUndo DEF UndoesEntry, LedgerProofs!Replaced
  <1> HIDE DEF j, m
  <1> DEFINE s == Append([audit EXCEPT ![j] = m], e)
  <1>3. /\ Len(s) = Len(audit) + 1 /\ s[Len(audit) + 1] = e
        /\ \A k \in 1 .. Len(audit) : s[k] = IF k = j THEN m ELSE audit[k]
    BY <1>0, <1>1, LedgerProofs!MarkedAndAppended
  <1>4. audit' = s
    BY <1>2
  <1> HIDE DEF s
  <1> QED
    BY <1>0, <1>2, <1>3, <1>4 DEF j

\* The claim waits for the one that is open and finds no row once that one
\* has committed, so claims stay apart.
LEMMA ClaimsStayApart == IInv /\ ClaimsApart /\ [Next]_vars => ClaimsApart'
  <1> SUFFICES ASSUME IInv, ClaimsApart, [Next]_vars PROVE ClaimsApart'
    OBVIOUS
  <1>0. /\ audit \in Seq(Entry) /\ tx \in [Tx -> Transaction] /\ Idle.op = "idle"
        /\ \A u \in Tx : tx[u].op \in Reverting => tx[u].entry \in DOMAIN audit
    BY IdleIsTransaction DEF IInv, TypeOK, TransactionsSound, Sound
  <1>1. ASSUME NEW t \in Tx, ClaimRevert(t) PROVE ClaimsApart'
    <2>1. PICK x \in Transaction : Claims(t, x)
      BY <1>1, ClaimIsClaim DEF IInv
    <2>2. /\ ~audit[x.entry].reverted
          /\ \A u \in Tx : tx[u].op \in Reverting => tx[u].entry # x.entry
      BY <1>1, <2>1 DEF Claims, ClaimRevert, Unclaimed
    <2>3. audit' = audit /\ \A u \in Tx : tx'[u] = IF u = t THEN x ELSE tx[u]
      BY <1>0, <2>1 DEF Claims
    <2> QED BY <2>2, <2>3 DEF ClaimsApart
  <1>2. CASE ~\E t \in Tx : ClaimRevert(t)
    <2>1. \A u \in Tx : tx'[u] = tx[u] \/ tx'[u].op \notin Reverting
      BY <1>2, OnlyClaimsClaim
    <2>2. CASE UNCHANGED audit
      BY <2>1, <2>2, ClaimsKept
    <2>3. ASSUME NEW t \in Tx, CommitApprove(t) PROVE ClaimsApart'
      <3>1. Decides(t, "APPROVED") \/ Decides(t, "DENIED")
        BY <2>3, DecisionsDecide
      <3>2. audit' = audit \/ \E e \in Entry : audit' = Append(audit, e)
        BY <3>1 DEF Decides
      <3>3. \A k \in DOMAIN audit : audit'[k] = audit[k]
        BY <1>0, <3>2, LedgerProofs!Appended
      <3> QED BY <1>0, <2>1, <3>3, ClaimsKept
    <2>4. ASSUME NEW t \in Tx, CommitRevert(t) PROVE ClaimsApart'
      <3>1. \A k \in DOMAIN audit \ {tx[t].entry} : audit'[k] = audit[k]
        BY <2>4, RevertLog
      <3>2. tx'[t].op \notin Reverting /\ tx[t].op \in Reverting
        BY <1>0, <2>4 DEF CommitRevert, End, Reverting
      <3>3. \A u \in Tx : tx'[u].op \in Reverting => tx[u].entry # tx[t].entry
        BY <2>1, <3>2 DEF ClaimsApart
      <3> QED BY <1>0, <2>1, <3>1, <3>3, ClaimsKept
    <2> QED BY <2>2, <2>3, <2>4, LogWriters
  <1> QED
    BY <1>1, <1>2

LEMMA InitClaims == Init => ClaimsApart
  BY IdleIsTransaction DEF Init, ClaimsApart, Reverting

\* The inductive invariant holds in every state.
LEMMA Invariant == Spec => [](IInv /\ ClaimsApart)
  BY InitInvariant, InitClaims, NextInvariant, ClaimsStayApart, PTL DEF Spec

\* The variables keep their types.
THEOREM TypeCorrect == Spec => []TypeOK
  <1>1. IInv => TypeOK
    BY DEF IInv
  <1> QED
    BY <1>1, Invariant, PTL

\* However the calls of an editor race, one proposal at most awaits review
\* (the partial unique index of migration 0040).
THEOREM OnePending == Spec => []OnePendingPerRequester
  <1>1. IInv => OnePendingPerRequester
    BY DEF IInv, RequestsSound
  <1> QED
    BY <1>1, Invariant, PTL

\* What the owner reviews is there: no deletion, decision or second
\* submission takes the draft from a proposal under review.
THEOREM PendingHasDraft == Spec => []PendingHasItsDraft
  <1>1. IInv => PendingHasItsDraft
    BY ChangeRequestsAssumption
    DEF IInv, RequestsSound, PendingIsBound, OneRequestPerDraft, PendingHasItsDraft
  <1> QED
    BY <1>1, Invariant, PTL

\* Nothing is left of the draft of a decided proposal, even when two admins
\* decided it at once.
THEOREM DecidedDraftGone == Spec => []DecidedDraftIsGone
  <1>1. IInv => DecidedDraftIsGone
    BY DEF IInv, RequestsSound, DecidedIsUnbound, DecidedDraftIsGone
  <1> QED
    BY <1>1, Invariant, PTL

----------------------------------------------------------------------------
(* Refinement of the ledger of undos *)

\* What the ledger sees of an entry.
View == [e \in Entry |-> [revertible |-> e.action = "APPROVE_CHANGE", reverted |-> e.reverted,
                          undoes |-> e.undoes]]

LEMMA LogIsView ==
  ASSUME NEW a \in Seq(Entry)
  PROVE  LedgerProofs!Mapped(View, a)
           = [i \in DOMAIN a |-> [revertible |-> a[i].action = "APPROVE_CHANGE",
                                  reverted |-> a[i].reverted, undoes |-> a[i].undoes]]
  <1>1. \A k \in DOMAIN a : a[k] \in Entry
    BY LenProperties, ElementOfSeq
  <1> QED
    BY <1>1 DEF LedgerProofs!Mapped, View

LEMMA ViewType == View \in [Entry -> LedgerProofs!LogEntry]
  BY DEF View, LedgerProofs!LogEntry, Entry

\* A decision records, a revert undoes, and nothing else touches the log.
LEMMA LedgerStep ==
  IInv /\ ClaimsApart /\ IInv' /\ [Next]_vars => [Ledger!LedgerNext]_log
  <1> SUFFICES ASSUME IInv, ClaimsApart, IInv', [Next]_vars, audit' # audit
               PROVE  Ledger!LedgerNext
    BY DEF log
  <1>0. /\ audit \in Seq(Entry) /\ View \in [Entry -> LedgerProofs!LogEntry]
        /\ log = LedgerProofs!Mapped(View, audit) /\ log' = LedgerProofs!Mapped(View, audit')
    BY LogIsView, ViewType DEF IInv, TypeOK, log
  <1>1. PICK t \in Tx : CommitApprove(t) \/ CommitRevert(t)
    BY LogWriters
  <1>2. CASE CommitApprove(t)
    <2>1. Decides(t, "APPROVED") \/ Decides(t, "DENIED")
      BY <1>2, DecisionsDecide
    <2>2. PICK e \in Entry : /\ audit' = Append(audit, e) /\ ~e.reverted /\ e.undoes = 0
                             /\ e.action = "APPROVE_CHANGE"
      BY <2>1 DEF Decides
    <2>3. log' = Append(log, View[e])
      BY <1>0, <2>2, LedgerProofs!MappedAppend
    <2>4. View[e] = [revertible |-> TRUE, reverted |-> FALSE, undoes |-> 0]
      <3>1. e.reverted = FALSE /\ (e.action = "APPROVE_CHANGE") = TRUE
        BY <2>2 DEF Entry
      <3> QED BY Zenon, <2>2, <3>1 DEF View
    <2>5. Ledger!Record
      BY <2>3, <2>4 DEF Ledger!Record
    <2> QED BY <2>5 DEF Ledger!LedgerNext
  <1>3. CASE CommitRevert(t)
    <2> DEFINE i == tx[t].entry
               m == [audit[i] EXCEPT !.reverted = TRUE]
    <2>1. UndoesEntry(t)
      BY <1>3, RevertsUndo
    <2>2. /\ i \in DOMAIN audit /\ audit[i] \in Entry /\ m \in Entry
          /\ audit[i].action = "APPROVE_CHANGE" /\ ~audit[i].reverted
          /\ m.action = audit[i].action /\ m.reverted = TRUE /\ m.undoes = audit[i].undoes
      BY <2>1 DEF UndoesEntry
    <2>3. PICK e \in Entry : /\ audit' = Append(LedgerProofs!Replaced(audit, i, m), e)
                             /\ e.action = "REVERT_CHANGE" /\ ~e.reverted /\ e.undoes = i
      BY <2>1 DEF UndoesEntry
    <2> HIDE DEF m, i
    <2>4. /\ View[m].reverted /\ View[m].revertible = View[audit[i]].revertible
          /\ View[m].undoes = View[audit[i]].undoes
      BY Zenon, <2>2 DEF View
    <2>5. log' = Append(LedgerProofs!Marked(log, i), View[e])
      BY <1>0, <2>2, <2>3, <2>4, LedgerProofs!MappedUndo
    <2>6. View[e] = [revertible |-> FALSE, reverted |-> FALSE, undoes |-> i]
      <3>1. e.reverted = FALSE /\ (e.action = "APPROVE_CHANGE") = FALSE
        BY <2>3 DEF Entry
      <3> QED BY Zenon, <2>3, <3>1 DEF View
    <2>7. i \in DOMAIN log /\ log[i].revertible /\ ~log[i].reverted
      BY <2>2 DEF log
    <2> QED BY <2>5, <2>6, <2>7 DEF Ledger!LedgerNext, Ledger!Undo, LedgerProofs!Marked
  <1> QED
    BY <1>1, <1>2, <1>3

\* Approvals and the two endpoints that revert them implement the ledger.
THEOREM LedgerImplemented == Spec => ImplementsLedger
  <1>1. Init => Ledger!LedgerInit
    BY DEF Init, log, Ledger!LedgerInit
  <1> QED
    BY <1>1, Invariant, LedgerStep, PTL DEF Spec, ImplementsLedger, Ledger!LedgerSpec

\* So an approval is marked reverted when, and only when, exactly one revert
\* names it, whichever endpoint made it.
THEOREM ApprovalsUndoneOnce == Spec => []Ledger!UndoneOnce
  <1>1. Ledger!LedgerSpec => []Ledger!UndoneOnce
    BY LedgerProofs!LedgerUndoneOnce
    DEF Ledger!LedgerSpec, LedgerProofs!LedgerSpec, Ledger!UndoneOnce, LedgerProofs!UndoneOnce,
        Ledger!LedgerInit, LedgerProofs!LedgerInit, Ledger!LedgerNext, LedgerProofs!LedgerNext,
        Ledger!Record, LedgerProofs!Record, Ledger!Undo, LedgerProofs!Undo
  <1> QED
    BY <1>1, LedgerImplemented, PTL DEF ImplementsLedger

----------------------------------------------------------------------------
(* The rows: members, clones and snapshots *)

\* The original holds no clones, and no member that is not its own.
Original(t) ==
  /\ \A p \in Person : ~t.rows[p].cloned
  /\ \A g \in t.groups : Members(g) \subseteq Stored(t)

\* What a draft holds of the persons the original has known.
DraftOf(s, known) ==
  /\ \A g \in s.groups : Members(g) \subseteq Stored(s) \cup known
  /\ \A p \in Stored(s) : s.rows[p].cloned => p \in known

\* A snapshot has a row for each person that was live, and no other.
SnapshotOf(b, known) ==
  /\ \A p \in Person : \/ b.rows[p] = NoRow
                       \/ b.rows[p].st = "live" /\ ~b.rows[p].cloned /\ p \in known
  /\ \A g \in b.groups : Members(g) \subseteq known

ReadOf(r, known) == \A p \in Live(r) : r.rows[p].cloned => p \in known

RowsSound ==
  /\ Original(tree)
  /\ \A d \in Draft : DraftOf(drafts[d].rows, Stored(tree))
  /\ \A i \in DOMAIN audit : SnapshotOf(audit[i].before, Stored(tree))
  /\ \A t \in Tx : SnapshotOf(tx[t].before, Stored(tree)) /\ ReadOf(tx[t].read, Stored(tree))

\* The empty tree has no group and no row.
LEMMA EmptyIsSound ==
  ASSUME NEW known
  PROVE  DraftOf(EmptyTree, known) /\ SnapshotOf(EmptyTree, known) /\ ReadOf(EmptyTree, known)
  BY NoRowFields DEF DraftOf, SnapshotOf, ReadOf, EmptyTree, Live, Stored

\* The original forgets nobody: more known persons harm no draft or snapshot.
LEMMA KnownGrows ==
  ASSUME NEW known, NEW more, known \subseteq more, NEW s
  PROVE  /\ DraftOf(s, known) => DraftOf(s, more)
         /\ SnapshotOf(s, known) => SnapshotOf(s, more)
         /\ ReadOf(s, known) => ReadOf(s, more)
  BY DEF DraftOf, SnapshotOf, ReadOf

\* An edit of one row keeps the other rows.
LEMMA EditedRows ==
  ASSUME NEW s \in Tree, NEW fresh \in SUBSET Person, NEW z \in Edited(s, fresh)
  PROVE  /\ Stored(s) \subseteq Stored(z)
         /\ \A p \in Person : z.rows[p].cloned => s.rows[p].cloned
         /\ \A p \in Stored(z) : z.rows[p].cloned => p \in Stored(s)
         /\ \A g \in z.groups : \E h \in s.groups : Members(g) \subseteq Members(h) \cup Stored(s)
  <1>0. /\ s.rows \in [Person -> Row] /\ \A p \in Person : s.rows[p] \in Row
        /\ \A p \in Person : s.rows[p].st \in {"absent", "live", "deleted"}
    BY TreeParts, RowFields
  <1>2. CASE z \in WithNewPerson(s, fresh)
    <2>1. PICK p \in fresh, v \in Value :
            z = [s EXCEPT !.rows[p] = [st |-> "live", cloned |-> FALSE, val |-> v]]
      BY <1>2 DEF WithNewPerson
    <2> DEFINE r == [st |-> "live", cloned |-> FALSE, val |-> v]
    <2>2. p \in Person /\ z.groups = s.groups
          /\ \A q \in Person : z.rows[q] = IF q = p THEN r ELSE s.rows[q]
      BY <1>0, <2>1 DEF Tree
    <2>3. r.st = "live" /\ r.cloned = FALSE
      OBVIOUS
    <2> HIDE DEF r
    <2> QED BY <2>2, <2>3 DEF Stored
  <1>3. CASE z \in WithUpdate(s)
    <2>1. PICK p \in Live(s), v \in Value : z = [s EXCEPT !.rows[p].val = v]
      BY <1>3 DEF WithUpdate
    <2>2. p \in Person /\ z.groups = s.groups
          /\ \A q \in Person : z.rows[q].st = s.rows[q].st /\ z.rows[q].cloned = s.rows[q].cloned
      BY <1>0, <2>1 DEF Tree, Row, Live
    <2> QED BY <2>2 DEF Stored
  <1>4. CASE z \in WithoutPerson(s)
    <2>1. PICK p \in Live(s) : z = [s EXCEPT !.rows[p].st = "deleted"]
      BY <1>4 DEF WithoutPerson
    <2>2. p \in Person /\ s.rows[p].st = "live" /\ z.groups = s.groups
          /\ \A q \in Person : /\ z.rows[q].st = IF q = p THEN "deleted" ELSE s.rows[q].st
                              /\ z.rows[q].cloned = s.rows[q].cloned
      BY <1>0, <2>1 DEF Tree, Row, Live
    <2> QED BY <2>2 DEF Stored
  <1>5. CASE z \in WithoutGroup(s)
    <2>1. z.rows = s.rows /\ z.groups \subseteq s.groups
      BY <1>5 DEF WithoutGroup, Tree
    <2> QED BY <2>1 DEF Stored
  <1>6. CASE z \in WithChild(s)
    <2>1. PICK g \in s.groups, p \in Live(s) :
            z = [s EXCEPT !.groups = (s.groups \ {g}) \cup {[g EXCEPT !.children = @ \cup {p}]}]
      BY <1>6 DEF WithChild
    <2> DEFINE h == [g EXCEPT !.children = @ \cup {p}]
    <2>2. z.rows = s.rows /\ z.groups = (s.groups \ {g}) \cup {h}
      BY <2>1 DEF Tree
    <2>3. Members(h) \subseteq Members(g) \cup Stored(s)
      <3>1. g \in Group
        BY TreeParts
      <3>2. h.parents = g.parents /\ h.children = g.children \cup {p}
        BY <3>1 DEF Group
      <3> QED BY <3>2 DEF Members, Live, Stored
    <2> HIDE DEF h
    <2> QED BY <2>2, <2>3 DEF Stored
  <1> QED
    BY <1>2, <1>3, <1>4, <1>5, <1>6 DEF Edited

LEMMA EditedOriginal ==
  ASSUME NEW s \in Tree, NEW fresh \in SUBSET Person, NEW z \in Edited(s, fresh), Original(s)
  PROVE  Original(z) /\ Stored(s) \subseteq Stored(z)
  BY EditedRows DEF Original

LEMMA EditedDraft ==
  ASSUME NEW s \in Tree, NEW fresh \in SUBSET Person, NEW z \in Edited(s, fresh), NEW known,
         DraftOf(s, known)
  PROVE  DraftOf(z, known)
  <1>1. \A p \in Stored(z) : z.rows[p].cloned => p \in known
    BY EditedRows DEF DraftOf, Stored
  <1>2. \A g \in z.groups : Members(g) \subseteq Stored(z) \cup known
    BY EditedRows DEF DraftOf
  <1> QED
    BY <1>1, <1>2 DEF DraftOf

LEMMA CloneIsDraft ==
  ASSUME NEW t \in Tree, Original(t)
  PROVE  DraftOf(CloneTree(t), Stored(t))
  <1> DEFINE c == CloneTree(t)
  <1>1. c.groups \subseteq t.groups
    BY DEF CloneTree, Inhabited
  <1>2. \A p \in Person : p \notin Live(t) => c.rows[p] = NoRow
    BY DEF CloneTree
  <1> HIDE DEF c
  <1>3. \A p \in Stored(c) : p \in Stored(t)
    BY <1>2, NoRowFields DEF Stored, Live
  <1> QED
    BY <1>1, <1>3 DEF DraftOf, Original, c

LEMMA SnapshotIsSnapshot ==
  ASSUME NEW t \in Tree, Original(t)
  PROVE  SnapshotOf(Snapshot(t), Stored(t))
  <1> DEFINE b == Snapshot(t)
  <1>1. b.groups = t.groups /\ \A p \in Person : b.rows[p] = IF p \in Live(t) THEN t.rows[p] ELSE NoRow
    BY DEF Snapshot, LiveRows
  <1> HIDE DEF b
  <1>2. \A p \in Person : \/ b.rows[p] = NoRow
                          \/ b.rows[p].st = "live" /\ ~b.rows[p].cloned /\ p \in Stored(t)
    BY <1>1 DEF Original, Live, Stored
  <1> QED
    BY <1>1, <1>2 DEF SnapshotOf, Original, b

LEMMA ReadIsRead ==
  ASSUME NEW s \in Tree, NEW known, DraftOf(s, known)
  PROVE  ReadOf([rows |-> LiveRows(s), groups |-> {}], known)
  <1> DEFINE r == [rows |-> LiveRows(s), groups |-> {}]
  <1>1. \A p \in Person : r.rows[p] = IF p \in Live(s) THEN s.rows[p] ELSE NoRow
    BY DEF LiveRows
  <1> HIDE DEF r
  <1>2. \A p \in Live(r) : p \in Stored(s) /\ r.rows[p] = s.rows[p]
    BY <1>1, NoRowFields DEF Live, Stored
  <1>3. ReadOf(r, known)
    BY <1>2 DEF ReadOf, DraftOf
  <1> QED
    BY <1>3 DEF r

\* Who is alive in the original is no clone.
LEMMA SeenIsRead ==
  ASSUME tree \in Tree, Original(tree)
  PROVE  ReadOf(Seen, Stored(tree))
  <1>1. \A p \in Person : Seen.rows[p] = IF p \in Live(tree) THEN tree.rows[p] ELSE NoRow
    BY DEF Seen, LiveRows
  <1> QED
    BY <1>1, NoRowFields DEF ReadOf, Original, Live

\* The merged tree has no clones, no row of it is lost, and what its groups
\* name it has: an adopted person, or one the original knew.
LEMMA MergedOriginal ==
  ASSUME NEW t \in Tree, NEW draft \in Tree, NEW read \in Tree,
         Original(t), DraftOf(draft, Stored(t)), ReadOf(read, Stored(t))
  PROVE  /\ Original(MergeTree(t, draft, read))
         /\ Stored(t) \subseteq Stored(MergeTree(t, draft, read))
  <1> DEFINE m == MergeTree(t, draft, read)
  <1>0. /\ \A p \in Person : t.rows[p] \in Row /\ draft.rows[p] \in Row /\ read.rows[p] \in Row
        /\ \A g \in draft.groups : g \in Group
    BY TreeParts
  <1>1. \A p \in Person : m.rows[p] = MergeRow(t, draft, read, p)
    BY DEF MergeTree
  <1>2. m.groups = {MergeGroup(g, Cascaded(draft, read)) : g \in Inhabited(draft.groups)}
    BY DEF MergeTree
  <1> HIDE DEF m
  <1>3. ASSUME NEW p \in Person
        PROVE  /\ ~m.rows[p].cloned
               /\ p \in Stored(t) => p \in Stored(m)
               /\ p \in Stored(draft) /\ p \in Live(read) => p \in Stored(m)
    <2>1. /\ \A v \in Value : LET w == [t.rows[p] EXCEPT !.val = v]
                             IN w.cloned = t.rows[p].cloned /\ w.st = t.rows[p].st
          /\ LET w == [t.rows[p] EXCEPT !.st = "deleted"]
             IN w.cloned = t.rows[p].cloned /\ w.st = "deleted"
          /\ LET w == [draft.rows[p] EXCEPT !.cloned = FALSE]
             IN w.cloned = FALSE /\ w.st = draft.rows[p].st
      BY <1>0 DEF Row
    <2>2. read.rows[p].val \in Value /\ ~t.rows[p].cloned /\ read.rows[p].cloned \in BOOLEAN
      BY <1>0, RowFields DEF Original
    <2>3. CASE p \in Matched(read)
      <3>1. p \in Stored(t)
        BY <2>3 DEF Matched, ReadOf
      <3>2. m.rows[p] = [t.rows[p] EXCEPT !.val = read.rows[p].val]
        BY <1>1, <2>3, <3>1 DEF MergeRow
      <3> QED BY <2>1, <2>2, <3>1, <3>2 DEF Stored
    <2>4. CASE p \in Adopted(read) /\ p \notin Matched(read)
      <3>1. CASE p \in Stored(draft)
        <4>1. m.rows[p] = [draft.rows[p] EXCEPT !.cloned = FALSE]
          BY <1>1, <2>4, <3>1 DEF MergeRow
        <4> QED BY <2>1, <3>1, <4>1 DEF Stored
      <3>2. CASE p \notin Stored(draft)
        <4>1. m.rows[p] = t.rows[p]
          BY <1>1, <2>4, <3>2 DEF MergeRow
        <4> QED BY <2>2, <3>2, <4>1 DEF Stored
      <3> QED BY <3>1, <3>2
    <2>5. CASE p \notin Adopted(read) /\ p \notin Matched(read)
      <3>1. p \notin Live(read)
        BY <2>2, <2>5 DEF Adopted, Matched
      <3>2. m.rows[p] = IF p \in Live(t) THEN [t.rows[p] EXCEPT !.st = "deleted"] ELSE t.rows[p]
        BY <1>1, <2>5 DEF MergeRow
      <3> QED BY <2>1, <2>2, <3>1, <3>2 DEF Stored
    <2> QED BY <2>3, <2>4, <2>5
  <1>4. Stored(t) \subseteq Stored(m)
    BY <1>3 DEF Stored
  <1>5. ASSUME NEW g \in m.groups
        PROVE  Members(g) \subseteq Stored(m)
    <2>1. PICK h \in draft.groups : g = MergeGroup(h, Cascaded(draft, read))
      BY <1>2, <1>5 DEF Inhabited
    <2>2. Members(g) = Members(h) \ Cascaded(draft, read)
      BY <1>0, <2>1 DEF MergeGroup, Members, Group
    <2>3. Members(h) \subseteq Stored(draft) \cup Stored(t)
      BY DEF DraftOf
    <2>4. \A p \in Stored(draft) : p \in Person /\ (p \in Live(read) \/ p \in Cascaded(draft, read))
      BY DEF Cascaded, Stored
    <2> QED BY <1>3, <1>4, <2>2, <2>3, <2>4
  <1>6. Original(m)
    BY <1>3, <1>5 DEF Original
  <1> QED
    BY <1>4, <1>6 DEF m

\* The live rows once the snapshot b is restored on t: b's persons are back,
\* of the others those in seen are gone.
Restored(t, seen, b) ==
  [p \in Person |-> IF p \in Live(b) THEN b.rows[p]
                    ELSE IF p \in seen THEN NoRow ELSE LiveRows(t)[p]]

\* A restore gives the tree its snapshot, and still forgets nobody.
LEMMA RestoredOriginal ==
  ASSUME NEW t \in Tree, NEW b \in Tree, NEW seen, Original(t), SnapshotOf(b, Stored(t))
  PROVE  LET z == RestoreTree(t, seen, b)
         IN  /\ Original(z) /\ Stored(t) \subseteq Stored(z)
             /\ LiveRows(z) = Restored(t, seen, b) /\ z.groups = Inhabited(b.groups)
  <1> DEFINE z == RestoreTree(t, seen, b)
  <1>0. /\ b.rows \in [Person -> Row]
        /\ \A p \in Person : t.rows[p] \in Row /\ b.rows[p] \in Row
    BY TreeParts
  <1>1. /\ \A p \in Person : z.rows[p] = RestoreRow(t, seen, b, p)
        /\ z.groups = Inhabited(b.groups) /\ z \in Tree
    BY RestoreIsTree DEF RestoreTree
  <1> HIDE DEF z
  <1>2. ASSUME NEW p \in Person
        PROVE  /\ ~z.rows[p].cloned
               /\ p \in Stored(t) => p \in Stored(z)
               /\ LiveRows(z)[p] = Restored(t, seen, b)[p]
    <2>1. LET w == [t.rows[p] EXCEPT !.st = "deleted"]
          IN w.cloned = t.rows[p].cloned /\ w.st = "deleted"
      BY <1>0 DEF Row
    <2>2. b.rows[p].val \in Value /\ ~t.rows[p].cloned /\ t.rows[p].cloned \in BOOLEAN
      BY <1>0, RowFields DEF Original
    <2>3. /\ LiveRows(z)[p] = IF z.rows[p].st = "live" THEN z.rows[p] ELSE NoRow
          /\ LiveRows(t)[p] = IF t.rows[p].st = "live" THEN t.rows[p] ELSE NoRow
          /\ Restored(t, seen, b)[p] = IF p \in Live(b) THEN b.rows[p]
                                       ELSE IF p \in seen THEN NoRow ELSE LiveRows(t)[p]
      BY DEF LiveRows, Live, Restored
    <2>4. CASE p \in Live(b)
      <3>1. b.rows[p].st = "live" /\ ~b.rows[p].cloned /\ p \in Stored(t)
        BY <2>4, NoRowFields DEF SnapshotOf, Live
      <3>2. z.rows[p] = [t.rows[p] EXCEPT !.st = "live", !.val = b.rows[p].val]
        BY <1>1, <2>4, <3>1 DEF RestoreRow
      <3> DEFINE w == [t.rows[p] EXCEPT !.st = "live", !.val = b.rows[p].val]
      <3>3a. /\ w.cloned = t.rows[p].cloned /\ w.st = "live"
             /\ w.val = b.rows[p].val /\ w \in Row
        BY <1>0, <2>2 DEF Row
      <3>3b. z.rows[p] = w
        BY <3>2
      <3> HIDE DEF w
      <3>3. /\ z.rows[p].cloned = t.rows[p].cloned /\ z.rows[p].st = "live"
            /\ z.rows[p].val = b.rows[p].val /\ z.rows[p] \in Row
        BY <3>3a, <3>3b
      <3>4. \A x, y \in Row : x.st = y.st /\ x.cloned = y.cloned /\ x.val = y.val => x = y
        BY DEF Row
      <3>5. b.rows[p].cloned \in BOOLEAN
        BY <1>0, RowFields
      <3>6. z.rows[p] = b.rows[p]
        BY <1>0, <2>2, <3>1, <3>3, <3>4, <3>5
      <3> QED BY <2>2, <2>3, <2>4, <3>3, <3>6 DEF Stored
    <2>5. CASE p \notin Live(b)
      <3>1. z.rows[p] = IF p \in seen \cap Stored(t) THEN [t.rows[p] EXCEPT !.st = "deleted"]
                                                    ELSE t.rows[p]
        BY <1>1, <2>5 DEF RestoreRow
      <3> QED BY <2>1, <2>2, <2>3, <2>5, <3>1 DEF Stored
    <2> QED BY <2>4, <2>5
  <1>3. Stored(t) \subseteq Stored(z)
    BY <1>2 DEF Stored
  <1>4. \A g \in z.groups : Members(g) \subseteq Stored(z)
    BY <1>1, <1>3 DEF SnapshotOf, Inhabited
  <1>5. LiveRows(z) = Restored(t, seen, b)
    <2>1. /\ LiveRows(z) = [p \in Person |-> LiveRows(z)[p]]
          /\ Restored(t, seen, b) = [p \in Person |-> Restored(t, seen, b)[p]]
      BY DEF LiveRows, Restored
    <2> QED BY <1>2, <2>1
  <1>6. Original(z)
    BY <1>2, <1>4 DEF Original
  <1> QED
    BY <1>1, <1>3, <1>5, <1>6 DEF z

----------------------------------------------------------------------------
(* The invariant on the rows holds in every state *)

LEMMA InitRows == Init => RowsSound
  <1> SUFFICES ASSUME Init PROVE RowsSound
    OBVIOUS
  <1>1. Original(tree)
    BY ChangeRequestsAssumption DEF Init, Original
  <1>2. \A d \in Draft : DraftOf(drafts[d].rows, Stored(tree))
    BY EmptyIsSound DEF Init
  <1>3. \A t \in Tx : SnapshotOf(tx[t].before, Stored(tree)) /\ ReadOf(tx[t].read, Stored(tree))
    BY EmptyIsSound DEF Init, Idle
  <1>4. DOMAIN audit = {}
    BY DEF Init
  <1> QED
    BY <1>1, <1>2, <1>3, <1>4 DEF RowsSound

\* A step keeps the rows sound when the original forgets nobody and each
\* draft, entry and transaction is as it was, or newly sound.
LEMMA RowsStep ==
  ASSUME RowsSound, Original(tree)', Stored(tree) \subseteq Stored(tree'),
         \A d \in Draft : \/ drafts'[d].rows = drafts[d].rows
                          \/ DraftOf(drafts'[d].rows, Stored(tree')),
         \A i \in DOMAIN audit' : \/ i \in DOMAIN audit /\ audit'[i].before = audit[i].before
                                  \/ SnapshotOf(audit'[i].before, Stored(tree')),
         \A u \in Tx : \/ tx'[u].before = tx[u].before /\ tx'[u].read = tx[u].read
                       \/ /\ SnapshotOf(tx'[u].before, Stored(tree'))
                          /\ ReadOf(tx'[u].read, Stored(tree'))
  PROVE  RowsSound'
  <1>1. \A d \in Draft : DraftOf(drafts'[d].rows, Stored(tree'))
    BY KnownGrows DEF RowsSound
  <1>2. \A i \in DOMAIN audit' : SnapshotOf(audit'[i].before, Stored(tree'))
    BY KnownGrows DEF RowsSound
  <1>3. \A u \in Tx : /\ SnapshotOf(tx'[u].before, Stored(tree'))
                      /\ ReadOf(tx'[u].read, Stored(tree'))
    BY KnownGrows DEF RowsSound
  <1> QED
    BY <1>1, <1>2, <1>3 DEF RowsSound

\* A transaction that begins or ends has read nothing.
LEMMA EndedTransaction ==
  ASSUME IInv, NEW t \in Tx, End(t), NEW u \in Tx
  PROVE  \/ tx'[u].before = tx[u].before /\ tx'[u].read = tx[u].read
         \/ /\ SnapshotOf(tx'[u].before, Stored(tree'))
            /\ ReadOf(tx'[u].read, Stored(tree'))
  <1>1. tx'[u] = tx[u] \/ tx'[u] = Idle
    BY DEF End, IInv, TypeOK
  <1>2. Idle.before = EmptyTree /\ Idle.read = EmptyTree
    BY DEF Idle
  <1> QED
    BY <1>1, <1>2, EmptyIsSound

LEMMA Begun ==
  ASSUME tx \in [Tx -> Transaction], NEW t \in Tx, NEW x, Begin(t, x),
         x.before = EmptyTree, x.read = EmptyTree
  PROVE  /\ tx'[t].before = EmptyTree /\ tx'[t].read = EmptyTree
         /\ \A u \in Tx \ {t} : tx'[u] = tx[u]
  BY DEF Begin

LEMMA QuietRows ==
  ASSUME IInv, RowsSound, NEW t \in Tx,
         \/ BeginCreateDraft(t) \/ BeginSubmit(t) \/ BeginEditDraft(t) \/ BeginEditOriginal(t)
         \/ BeginResolve(t) \/ ReadDraft(t) \/ BeginRevertRequest(t) \/ BeginRevertEntry(t)
         \/ ClaimRevert(t) \/ Rollback(t)
  PROVE  RowsSound'
  <1>0. tx \in [Tx -> Transaction] /\ Original(tree) /\ tree \in Tree
    BY DEF IInv, TypeOK, RowsSound
  <1>1. UNCHANGED <<tree, drafts, reqs, audit, born, edits>>
    BY QuietSteps DEF Quiet
  <1>2. CASE ~ReadDraft(t) /\ ~ClaimRevert(t)
    <2>1. CASE Rollback(t)
      BY <1>0, <1>1, <2>1, EndedTransaction, RowsStep DEF Rollback
    <2>2. CASE ~Rollback(t)
      <3>1. tx'[t].before = EmptyTree /\ tx'[t].read = EmptyTree
            /\ \A u \in Tx \ {t} : tx'[u] = tx[u]
        <4>1. CASE BeginCreateDraft(t)
          <5> DEFINE x(u) == [Idle EXCEPT !.op = "create_draft", !.user = u]
          <5>1. PICK u \in Editor : Begin(t, x(u))
            BY <4>1 DEF BeginCreateDraft
          <5>2. x(u).before = EmptyTree /\ x(u).read = EmptyTree
            BY DEF Idle
          <5> HIDE DEF x
          <5> QED BY <1>0, <5>1, <5>2, Begun
        <4>2. CASE BeginSubmit(t)
          <5> DEFINE x(d) == [Idle EXCEPT !.op = "submit", !.user = drafts[d].owner, !.draft = d]
          <5>1. PICK d \in Draft : Begin(t, x(d))
            BY <4>2 DEF BeginSubmit
          <5>2. x(d).before = EmptyTree /\ x(d).read = EmptyTree
            BY DEF Idle
          <5> HIDE DEF x
          <5> QED BY <1>0, <5>1, <5>2, Begun
        <4>3. CASE BeginEditDraft(t)
          <5> DEFINE x(d) == [Idle EXCEPT !.op = "edit_draft", !.draft = d]
          <5>1. PICK d \in Draft : Begin(t, x(d))
            BY <4>3 DEF BeginEditDraft
          <5>2. x(d).before = EmptyTree /\ x(d).read = EmptyTree
            BY DEF Idle
          <5> HIDE DEF x
          <5> QED BY <1>0, <5>1, <5>2, Begun
        <4>4. CASE BeginEditOriginal(t)
          <5> DEFINE x == [Idle EXCEPT !.op = "edit_original"]
          <5>1. Begin(t, x) /\ x.before = EmptyTree /\ x.read = EmptyTree
            BY <4>4 DEF BeginEditOriginal, Idle
          <5> HIDE DEF x
          <5> QED BY <1>0, <5>1, Begun
        <4>5. CASE BeginResolve(t)
          <5> DEFINE x(r, op) == [Idle EXCEPT !.op = op, !.req = r, !.draft = reqs[r].draft]
          <5>1. PICK r \in Req, op \in {"approve", "deny"} : Begin(t, x(r, op))
            BY <4>5 DEF BeginResolve
          <5>2. x(r, op).before = EmptyTree /\ x(r, op).read = EmptyTree
            BY DEF Idle
          <5> HIDE DEF x
          <5> QED BY <1>0, <5>1, <5>2, Begun
        <4>6. CASE BeginRevertRequest(t)
          <5> DEFINE x(r, i) == [Idle EXCEPT !.op = "revert_request", !.req = r, !.entry = i]
          <5>1. PICK r \in Req, i \in DOMAIN audit : Begin(t, x(r, i))
            BY <4>6 DEF BeginRevertRequest, ApprovalsOf
          <5>2. x(r, i).before = EmptyTree /\ x(r, i).read = EmptyTree
            BY DEF Idle
          <5> HIDE DEF x
          <5> QED BY <1>0, <5>1, <5>2, Begun
        <4>7. CASE BeginRevertEntry(t)
          <5> DEFINE x(i) == [Idle EXCEPT !.op = "revert_entry", !.req = audit[i].req, !.entry = i]
          <5>1. PICK i \in DOMAIN audit : Begin(t, x(i))
            BY <4>7 DEF BeginRevertEntry
          <5>2. x(i).before = EmptyTree /\ x(i).read = EmptyTree
            BY DEF Idle
          <5> HIDE DEF x
          <5> QED BY <1>0, <5>1, <5>2, Begun
        <4> QED
          BY <1>2, <2>2, <4>1, <4>2, <4>3, <4>4, <4>5, <4>6, <4>7
      <3> QED BY <1>0, <1>1, <3>1, EmptyIsSound, RowsStep
    <2> QED BY <2>1, <2>2
  <1>3. CASE ReadDraft(t)
    <2> DEFINE s == drafts[tx[t].draft].rows
               r == [rows |-> LiveRows(s), groups |-> {}]
               b == Snapshot(tree)
    <2>1. tx[t].draft \in Draft
      BY <1>3 DEF ReadDraft, IInv, TransactionsSound, Sound
    <2>2. s \in Tree /\ DraftOf(s, Stored(tree))
      BY <2>1, DraftFields DEF IInv, TypeOK, RowsSound
    <2>3. ReadOf(r, Stored(tree)) /\ SnapshotOf(b, Stored(tree))
      BY <1>0, <2>2, ReadIsRead, SnapshotIsSnapshot
    <2>4. tx' = [tx EXCEPT ![t].op = "merge", ![t].before = b, ![t].read = r]
      BY <1>3 DEF ReadDraft
    <2> HIDE DEF r, b
    <2>5. tx'[t].before = b /\ tx'[t].read = r /\ \A u \in Tx \ {t} : tx'[u] = tx[u]
      BY <1>0, <2>4 DEF Transaction
    <2> QED BY <1>0, <1>1, <2>3, <2>5, RowsStep
  <1>4. CASE ClaimRevert(t)
    <2>1. PICK x \in Transaction : Claims(t, x)
      BY <1>4, ClaimIsClaim DEF IInv
    <2>2. ReadOf(Seen, Stored(tree))
      BY <1>0, SeenIsRead
    <2>3. SnapshotOf(tx[t].before, Stored(tree))
      BY DEF RowsSound
    <2>4. \A u \in Tx : tx'[u] = IF u = t THEN x ELSE tx[u]
      BY <1>0, <2>1 DEF Claims
    <2> QED BY <1>0, <1>1, <2>1, <2>2, <2>3, <2>4, RowsStep DEF Claims
  <1> QED
    BY <1>2, <1>3, <1>4

\* The drafts: a new one is a clone, an edited one stays a draft, a deleted
\* one keeps its rows.
LEMMA DraftRows ==
  ASSUME IInv, RowsSound,
         \/ \E t \in Tx : CommitCreateDraft(t) \/ CommitEditDraft(t)
         \/ \E d \in Draft : DeleteDraft(d)
  PROVE  RowsSound'
  <1>0. tree \in Tree /\ drafts \in [Draft -> DraftRow] /\ Original(tree)
    BY DEF IInv, TypeOK, RowsSound
  <1>1. ASSUME NEW t \in Tx, CommitCreateDraft(t)
        PROVE  RowsSound'
    <2> PICK d \in Draft :
          drafts' = [drafts EXCEPT ![d] = [st |-> "live", owner |-> tx[t].user,
                                           rows |-> CloneTree(tree)]]
      BY <1>1 DEF CommitCreateDraft
    <2>1. End(t) /\ UNCHANGED <<tree, audit>>
      BY <1>1 DEF CommitCreateDraft
    <2>2. \A e \in Draft : \/ drafts'[e].rows = drafts[e].rows
                           \/ drafts'[e].rows = CloneTree(tree)
      BY <1>0
    <2>3. DraftOf(CloneTree(tree), Stored(tree'))
      BY <1>0, <2>1, CloneIsDraft
    <2> QED BY <1>0, <2>1, <2>2, <2>3, EndedTransaction, RowsStep
  <1>2. ASSUME NEW t \in Tx, CommitEditDraft(t)
        PROVE  RowsSound'
    <2> DEFINE s == drafts[tx[t].draft].rows
    <2>1. tx[t].draft \in Draft
      BY <1>2 DEF CommitEditDraft, IInv, TransactionsSound, Sound
    <2>2. s \in Tree /\ DraftOf(s, Stored(tree))
      BY <2>1, DraftFields DEF IInv, TypeOK, RowsSound
    <2> PICK z \in Edited(s, Person \ born) :
          drafts' = [drafts EXCEPT ![tx[t].draft].rows = z]
      BY <1>2 DEF CommitEditDraft
    <2>3. End(t) /\ UNCHANGED <<tree, audit>>
      BY <1>2 DEF CommitEditDraft
    <2>4. DraftOf(z, Stored(tree'))
      BY <2>2, <2>3, EditedDraft
    <2>5. \A e \in Draft : drafts'[e].rows = drafts[e].rows \/ drafts'[e].rows = z
      BY <1>0 DEF DraftRow
    <2> QED BY <1>0, <2>3, <2>4, <2>5, EndedTransaction, RowsStep
  <1>3. ASSUME NEW d \in Draft, DeleteDraft(d)
        PROVE  RowsSound'
    <2>1. UNCHANGED <<tree, audit, tx>> /\ \A e \in Draft : drafts'[e].rows = drafts[e].rows
      BY <1>0, <1>3 DEF DeleteDraft, DraftRow
    <2> QED BY <1>0, <2>1, RowsStep
  <1> QED
    BY <1>1, <1>2, <1>3

LEMMA OriginalRows ==
  ASSUME IInv, RowsSound, NEW t \in Tx, CommitEditOriginal(t)
  PROVE  RowsSound'
  <1>1. tree \in Tree /\ Original(tree)
    BY DEF IInv, TypeOK, RowsSound
  <1>2. tree' \in Edited(tree, Person \ born) /\ End(t) /\ UNCHANGED <<drafts, audit>>
    BY DEF CommitEditOriginal
  <1>3. Original(tree') /\ Stored(tree) \subseteq Stored(tree')
    BY <1>1, <1>2, EditedOriginal
  <1> QED
    BY <1>2, <1>3, EndedTransaction, RowsStep

\* A request that was submitted leaves the rows alone.
LEMMA SubmitRows ==
  ASSUME IInv, RowsSound, NEW t \in Tx, CommitSubmit(t)
  PROVE  RowsSound'
  <1>1. End(t) /\ UNCHANGED <<tree, drafts, audit>>
    BY DEF CommitSubmit
  <1> QED
    BY <1>1, EndedTransaction, RowsStep DEF RowsSound

\* A decision deletes the draft; an approval merged it and logs the snapshot.
LEMMA DecideRows ==
  ASSUME IInv, RowsSound, NEW t \in Tx, CommitApprove(t) \/ CommitDeny(t)
  PROVE  RowsSound'
  <1>0. /\ tree \in Tree /\ Original(tree) /\ drafts \in [Draft -> DraftRow]
        /\ tx[t] \in Transaction /\ tx[t].draft \in Draft /\ audit \in Seq(Entry)
    BY DEF CommitApprove, CommitDeny, IInv, TypeOK, TransactionsSound, Sound, RowsSound
  <1>1. End(t) /\ drafts' = Deleted(tx[t].draft)
    BY DEF CommitApprove, CommitDeny
  <1>2. \A e \in Draft : drafts'[e].rows = drafts[e].rows \/ drafts'[e].rows = EmptyTree
    BY <1>0, <1>1 DEF Deleted
  <1>3. CASE CommitDeny(t)
    <2>1. UNCHANGED <<tree, audit>>
      BY <1>3 DEF CommitDeny
    <2> QED BY <1>0, <1>1, <1>2, <2>1, EmptyIsSound, EndedTransaction, RowsStep
  <1>4. CASE CommitApprove(t)
    <2> DEFINE e == [action |-> "APPROVE_CHANGE", req |-> tx[t].req, before |-> tx[t].before,
                     reverted |-> FALSE, undoes |-> 0]
    <2>1. /\ tree' = MergeTree(tree, drafts[tx[t].draft].rows, tx[t].read)
          /\ audit' = Append(audit, e)
      BY <1>4 DEF CommitApprove
    <2>2. Original(tree') /\ Stored(tree) \subseteq Stored(tree')
      <3>1. /\ drafts[tx[t].draft].rows \in Tree /\ tx[t].read \in Tree
            /\ DraftOf(drafts[tx[t].draft].rows, Stored(tree))
            /\ ReadOf(tx[t].read, Stored(tree))
        BY <1>0, DraftFields DEF Transaction, RowsSound
      <3> QED BY <1>0, <2>1, <3>1, MergedOriginal
    <2>3. e.before = tx[t].before /\ SnapshotOf(tx[t].before, Stored(tree))
      BY DEF RowsSound
    <2>4. e \in Entry
      <3>1. tx[t].req \in Req
        BY <1>4 DEF CommitApprove, IInv, TransactionsSound, Sound
      <3> QED BY <1>0, <3>1 DEF Entry, Transaction
    <2> HIDE DEF e
    <2>5. \A i \in DOMAIN audit' : \/ i \in DOMAIN audit /\ audit'[i].before = audit[i].before
                                   \/ SnapshotOf(audit'[i].before, Stored(tree'))
      <3>1. SnapshotOf(e.before, Stored(tree'))
        BY <2>2, <2>3, KnownGrows
      <3>2. /\ DOMAIN audit' = 1 .. (Len(audit) + 1) /\ DOMAIN audit = 1 .. Len(audit)
            /\ Len(audit) \in Nat /\ audit'[Len(audit) + 1] = e
            /\ \A i \in 1 .. Len(audit) : audit'[i] = audit[i]
        BY <1>0, <2>1, <2>4, LedgerProofs!Appended
      <3> QED BY <3>1, <3>2
    <2> QED BY <1>1, <1>2, <2>2, <2>5, EmptyIsSound, EndedTransaction, RowsStep
  <1> QED
    BY <1>3, <1>4

\* A revert restores the tree from an entry it had logged.
LEMMA RevertRows ==
  ASSUME IInv, RowsSound, NEW t \in Tx, CommitRevert(t)
  PROVE  /\ RowsSound'
         /\ LiveRows(tree') = Restored(tree, Live(tx[t].read), audit[tx[t].entry].before)
         /\ tree'.groups = Inhabited(audit[tx[t].entry].before.groups)
  <1> DEFINE i == tx[t].entry
             b == audit[i].before
             m == [audit[i] EXCEPT !.reverted = TRUE]
             e == [action |-> "REVERT_CHANGE", req |-> tx[t].req, before |-> EmptyTree,
                   reverted |-> FALSE, undoes |-> i]
  <1>0. /\ tree \in Tree /\ Original(tree) /\ audit \in Seq(Entry)
        /\ i \in DOMAIN audit /\ tx[t].req \in Req
    BY DEF CommitRevert, IInv, TypeOK, TransactionsSound, Sound, RowsSound
  <1>1. audit[i] \in Entry /\ i \in 1 .. Len(audit) /\ i \in Nat
    BY <1>0, LenProperties, ElementOfSeq
  <1>2. b \in Tree /\ SnapshotOf(b, Stored(tree))
    BY <1>0, <1>1 DEF Entry, RowsSound
  <1>3. /\ tree' = RestoreTree(tree, Live(tx[t].read), b) /\ End(t) /\ UNCHANGED drafts
        /\ audit' = Append(LedgerProofs!Replaced(audit, i, m), e)
    BY DEF CommitRevert, LedgerProofs!Replaced
  <1>4. /\ Original(tree') /\ Stored(tree) \subseteq Stored(tree')
        /\ LiveRows(tree') = Restored(tree, Live(tx[t].read), b)
        /\ tree'.groups = Inhabited(b.groups)
    BY <1>0, <1>2, <1>3, RestoredOriginal
  <1>5. m \in Entry /\ m.before = b
    BY <1>1 DEF Entry
  <1>6. e \in Entry /\ e.before = EmptyTree
    BY <1>0, <1>1, EmptyTreeIsTree DEF Entry
  <1> HIDE DEF m, e
  <1>7. \A k \in DOMAIN audit' : \/ k \in DOMAIN audit /\ audit'[k].before = audit[k].before
                                 \/ SnapshotOf(audit'[k].before, Stored(tree'))
    <2> DEFINE s == Append([audit EXCEPT ![i] = m], e)
    <2>1. /\ DOMAIN audit = 1 .. Len(audit) /\ Len(audit) \in Nat
          /\ DOMAIN s = 1 .. (Len(audit) + 1) /\ s[Len(audit) + 1] = e
          /\ \A k \in 1 .. Len(audit) : s[k] = IF k = i THEN m ELSE audit[k]
      <3> HIDE DEF i
      <3> QED BY <1>0, <1>1, <1>5, <1>6, LedgerProofs!MarkedAndAppended
    <2>2. audit' = s
      BY <1>3 DEF LedgerProofs!Replaced
    <2> HIDE DEF s, i, b
    <2>3. \A k \in 1 .. Len(audit) : s[k].before = audit[k].before
      BY <1>5, <2>1 DEF b
    <2>4. SnapshotOf(s[Len(audit) + 1].before, Stored(tree'))
      BY <1>6, <2>1, EmptyIsSound
    <2> QED BY <2>1, <2>2, <2>3, <2>4
  <1>8. RowsSound'
    BY <1>3, <1>4, <1>7, EndedTransaction, RowsStep
  <1> QED
    BY <1>4, <1>8

LEMMA NextRows == IInv /\ RowsSound /\ [Next]_vars => RowsSound'
  <1> SUFFICES ASSUME IInv, RowsSound, [Next]_vars PROVE RowsSound'
    OBVIOUS
  <1>1. CASE UNCHANGED vars
    BY <1>1 DEF vars, RowsSound
  <1>2. ASSUME NEW t \in Tx, Propose(t) PROVE RowsSound'
    BY <1>2, QuietRows, DraftRows, SubmitRows DEF Propose
  <1>3. ASSUME NEW t \in Tx, Edit(t) PROVE RowsSound'
    BY <1>3, QuietRows, DraftRows, OriginalRows DEF Edit
  <1>4. ASSUME NEW t \in Tx, Resolve(t) PROVE RowsSound'
    BY <1>4, QuietRows, DecideRows DEF Resolve
  <1>5. ASSUME NEW t \in Tx, Revert(t) PROVE RowsSound'
    BY <1>5, QuietRows, RevertRows DEF Revert
  <1>6. ASSUME NEW t \in Tx, Rollback(t) PROVE RowsSound'
    BY <1>6, QuietRows
  <1>7. ASSUME NEW d \in Draft, DeleteDraft(d) PROVE RowsSound'
    BY <1>7, DraftRows
  <1> QED
    BY <1>1, <1>2, <1>3, <1>4, <1>5, <1>6, <1>7 DEF Next

LEMMA RowsInvariant == Spec => [](IInv /\ ClaimsApart /\ RowsSound)
  <1>1. IInv /\ ClaimsApart /\ RowsSound /\ [Next]_vars => RowsSound'
    BY NextRows
  <1> QED
    BY <1>1, Invariant, InitRows, PTL DEF Spec

\* No edit, merge or revert, in any order and overlap, puts a person of
\* another tree into a family group.
THEOREM NoForeignMembersEver == Spec => []NoForeignMembers
  <1>1. RowsSound => NoForeignMembers
    BY DEF RowsSound, Original, DraftOf, NoForeignMembers
  <1> QED
    BY <1>1, RowsInvariant, PTL

\* Only a revert writes an entry that undoes one; it names the entry whose
\* snapshot it restored, and that entry is its own claim.
LEMMA RevertRestoresStep ==
  ASSUME IInv, ClaimsApart, RowsSound, [Next]_vars, NEW t \in Tx, NEW i \in DOMAIN audit,
         Len(audit') > Len(audit), audit'[Len(audit')].undoes = i,
         tx[t].op \in Reverting, tx[t].entry = i
  PROVE  /\ LiveRows(tree') = Restored(tree, Live(tx[t].read), audit[i].before)
         /\ tree'.groups = Inhabited(audit[i].before.groups)
  <1>0. /\ audit \in Seq(Entry) /\ Len(audit) \in Nat /\ DOMAIN audit = 1 .. Len(audit)
    BY LenProperties DEF IInv, TypeOK
  <1>1. ASSUME UNCHANGED audit PROVE FALSE
    BY <1>0, <1>1
  <1>2. ASSUME NEW u \in Tx, CommitApprove(u) PROVE FALSE
    <2>1. PICK e \in Entry : audit' = Append(audit, e) /\ e.undoes = 0
      <3>1. Decides(u, "APPROVED") \/ Decides(u, "DENIED")
        BY <1>2, DecisionsDecide
      <3> QED BY <1>1, <3>1 DEF Decides
    <2>2. Len(audit') = Len(audit) + 1 /\ audit'[Len(audit) + 1] = e
      BY <1>0, <2>1, LedgerProofs!Appended
    <2> QED BY <1>0, <2>1, <2>2
  <1>3. PICK u \in Tx : CommitRevert(u)
    BY <1>1, <1>2, LogWriters
  <1>4. tx[u].entry = i /\ tx[u].op \in Reverting
    BY <1>3, RevertLog DEF CommitRevert
  <1>5. u = t
    BY <1>4 DEF ClaimsApart
  <1> QED
    BY <1>3, <1>5, RevertRows

\* A revert gives the tree the persons, values and groups it had when the
\* approval looked at it, and removes whom it saw of the others.
THEOREM RevertRestores == Spec => RevertRestoresApproved
  <1>1. IInv /\ ClaimsApart /\ RowsSound /\ [Next]_vars =>
          [\A t \in Tx : \A i \in DOMAIN audit :
             (/\ Len(audit') > Len(audit) /\ audit'[Len(audit')].undoes = i
              /\ tx[t].op \in Reverting /\ tx[t].entry = i)
             => /\ LiveRows(tree') = [p \in Person |->
                     IF p \in Live(audit[i].before) THEN audit[i].before.rows[p]
                     ELSE IF p \in Live(tx[t].read) THEN NoRow ELSE LiveRows(tree)[p]]
                /\ tree'.groups = Inhabited(audit[i].before.groups)]_vars
    BY RevertRestoresStep DEF Restored
  <1> QED
    BY <1>1, RowsInvariant, PTL DEF Spec, RevertRestoresApproved
=============================================================================
