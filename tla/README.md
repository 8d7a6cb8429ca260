# Our Family Roots: a verification project

TLA+ models of Our Family Roots, a multi-tenant web application in which members
of a family edit a shared family tree: FastAPI handlers over PostgreSQL, refresh
tokens in Redis, Celery for background jobs (`src/backend/src`), and a React
client (`src/frontend/src`). The models of the backend are about what the
handlers do to shared rows when requests interleave, roll back and arrive late.
Those of the client are about what one tab does while answers are on their way
(sessions, caches, polling) and about the algorithms that put a tree on the
screen. TLC checks them on small instances and TLAPS proves the central results
for all sizes.

## 1. The system

Every HTTP request runs in one database transaction at READ COMMITTED
(`infrastructure/database/session.py`): a statement sees what had committed
when the statement began, row locks last until the commit, and an exception
rolls everything back. There is no optimistic version column, and almost no
`SELECT ... FOR UPDATE`: a handler that tests something with a SELECT and then
writes relies on a constraint or a conditional UPDATE to be safe, or is not.

| Component | State | Operations | What makes it hard, what makes it correct |
|---|---|---|---|
| Tree rows (`models/person.py`, `persons.py`, part of `collaboration.py`) | persons (soft-deleted), family groups and members (hard-deleted) | create, update, delete a person; update, delete a group; remove a member; add relationships | member rows may name soft-deleted persons; a group keeps a parent, unless two parents are removed at once |
| Audit log and revert (`tree_snapshot.py`, `revert_audit_log_entry`) | `audit_logs` with JSON snapshots, `reverted_at` | every revertible edit records an entry; a Super Admin reverts one | stale snapshots, reverts racing with edits and with each other; undone at most once, restores what was recorded, nothing is lost for good |
| Change requests (`change_requests.py`) | draft trees (`family_trees.draft_of_tree_id`), `tree_change_requests` | start a draft, edit it, submit, approve, deny, revert | check-then-act everywhere; one proposal at a time, a draft under review exists, a decided one is gone, the merge leaves no dangling members |
| Direct-edit guard (`api/deps.py`) | none | `require_direct_edit_allowed` before every edit handler | checked once, at the start of the request |
| Genealogy service (`domain/genealogy`, `application/genealogy`, link handlers of `persons.py`) | a graph loaded per request | add parent, both parents, spouse, child, sibling, with re-linking; ancestors, paths | a link validated on a graph that is out of date at the commit; no circles, one family of origin, two parents, no orphan groups |
| Members and invitations (`application/collaboration/service.py`) | `tree_members`, `invitations` | change role, remove, invite, accept, revoke | stale role checks; exactly one owner, no self-promotion |
| Permission groups, user groups, global access | groups, links to trees and users, and `tree_members` | link, unlink, add, remove | two sources of one row; access follows entitlement |
| Authentication (`application/auth/service.py`, `redis.py`) | users' counters and tokens, Redis refresh tokens | login, verify, refresh, logout, reset | two stores without a common transaction; lockout, single session, reset ends old sessions |
| Namespaces (`namespaces.py`, `namespace_invitations.py`) | tenants, user moves | create, deactivate, delete, invite, accept | deletion races with arrivals |
| Discovery and merge requests (`discovery.py`) | access and merge requests | request, approve, merge | writes `tree_members` too |
| Client session (`api/client.ts`, `auth.store.ts`, `main.tsx`, guards) | access token, profile, the queue of calls that wait for a refresh | send, refresh, retry, boot, sign in and out, redirect | many calls fail together, answers come after a sign-out; one refresh, no lost wakeup, no call or spinner that hangs |
| Tree page (`FamilyTreePage.tsx`, its dialogs, `keys.ts`) | the React Query cache | some fifteen dialogs, each one or two requests and then a refetch or an invalidation | handlers that outlive the page they started on, loads on their way; what is shown follows one's own edits |
| Canvas views (`features/tree/canvas`, `canvas.store.ts`) | expanded persons, focus, mode | expand, collapse, focus, change view, refetch | two sets that must agree, many walks of one graph, refetches that overtake each other; whom a chart draws it places, but for named exceptions, and who was added is shown |
| Family tree layout (`algorithms/familyTree.ts`) | rows, places, cursors of rows | one synchronous call | loops to a fixed point on graphs with circles, remarriages; ends, least rows, where cards may overlap (the comments say nowhere, and are wrong) |
| AI import (`aiTreeImport/`, `ai_tree_import.py`, `ai_import_tasks.py`) | the hook's state and interval, a row, a Celery task | upload, confirm, poll, extract, finalize | late polls, a panel left while its interval runs, a second call while the first is served, a task that overtakes the commit that queued it or dies; one tree for a job, its outcome kept |
| Media, subscriptions, broadcast | objects in S3, rows, Celery tasks | upload, confirm, process, expire | retries and redelivery |
| Import/export, search, notifications, admin and other pages, deployment | | | conversion, reads or presentation: not modelled |

Interactions: the edit handlers and the change-request handlers share the
tree's rows and the audit log; the guard reads the change requests and the
global-access links; approval and revert both rewrite the whole tree; all of
them run through the one-transaction-per-request session. In the client, every
page calls the API through the interceptors of the session; the tree page holds
the graph query, the canvas draws what it holds, and the layout gives it places.

`PROJECT.json` lists the components with their status and the hazards of the
code, each at the line where it bites.

## 2. The modules

| Module | Models | Uses |
|---|---|---|
| `TreeStore` | the rows of a tree, and the functions on them: snapshot, restore, clone, merge | |
| `RevertLedger` | the abstract promise of the audit log: entries are appended, an entry is undone at most once, each undo leaves an entry naming it | |
| `AuditRevert` | a directly edited tree, its audit log, the edit handlers and the revert | `TreeStore`, implements `RevertLedger` |
| `ChangeRequests` | drafts, requests, review, and the revert of approvals | `TreeStore`, implements `RevertLedger` |
| `Genealogy` | the family groups of a tree and the requests that link persons through them, each validated on a graph it loaded | |
| `CallLedger` | the abstract promise of the API client to its callers: at most one retry, one outcome, nothing pending for ever | |
| `ClientSession` | one tab's session and the session endpoints | implements `CallLedger` |
| `TreePage` | the dialogs of the tree page over the query cache | |
| `TreeCanvas` | who is drawn in each view, and who has a place | |
| `FamilyLayout` | `familyTreeLayout` | |
| `AiTreeImport` | an import job from the hook to the tree, and the task | |
| `MCAuditRevert`, `MCChangeRequests`, `MCGenealogy`, `MCTreePage`, `MCFamilyLayout`, `MCTreeCanvas` | the instances TLC checks | |
| `RevertLedgerProofs`, `AuditRevertProofs`, `ChangeRequestsProofs`, `GenealogyProofs`, `ClientSessionProofs`, `TreePageProofs`, `FamilyLayoutProofs`, `AiTreeImportProofs` | lemmas and proofs, each about the module it is named after; `TreePageProofs` also about `TreeCanvas`, the canvas of that page | |

### How state corresponds to the code

A *person* is named by the id it has, or would have, in the original tree. A
clone in a draft stands at the same name with `cloned = TRUE` (a row with
`origin_person_id`); a person born in a draft has `cloned = FALSE`, and is
adopted under its own id. So `canon_map` and `id_map` of the code are the
identity on names. All editable columns of a person are one `Value`, all of a
group's one `Label`: nothing the code decides depends on them one by one.

A *family group* keeps its `key` when it is copied or restored. The uuid, which
changes whenever groups are deleted and inserted again, is `<<era, key>>` in
`AuditRevert`, where `era` counts those rewrites; in `ChangeRequests` nothing
refers to a group across a rewrite, so uuids are left out.

A *transaction* is `tx[t]`: what the handler has read so far. `Begin...` steps
do the checks and the reads that are used later, `Commit...` steps the writes
and the commit. Since row locks are held from the first write, the writes and
the commit of one transaction are one step; reads are not, which is where every
race of the code lives. A revert is three steps: its checks (`Begin...`), the claim with the
SELECT of the live persons (`ClaimRevert`), and the writes (`CommitRevert`), so persons
may be created, adopted or deleted between the last two; likewise the removal of a member deletes
its row, counts the parents left (`CountParents`) and commits. `Rollback` is any
4xx answer, constraint violation, deadlock victim or lost connection. Four places
abstract this further:

* the SELECTs of persons and of groups inside one `snapshot_tree`, and inside
  one clone, are one read;
* two restores of the same tree are serialized by the person rows both update
  (two that have no person in common could keep both sets of groups; listed
  under hazards);
* `revert_audit_entry` claims the entry and reads the live persons in the step
  `ClaimRevert`, and the `op` of that transaction (`Reverting`) stands for the row
  lock it then holds;
* the statements that write within a merge or a restore are one step, so a group
  inserted between the DELETE of the groups and the commit is not interleaved: the
  exact groups that `RestoresSnapshot` and `RevertRestoresApproved` promise are those
  of reverts that no other revert, merge or new group overlaps in their writes.

In `Genealogy` the two tables are `status` (a group id is unused, live or
deleted, and never used again, as a uuid) and the PARENT and CHILD rows of each
group. A request is two steps: the first loads the graph, runs the validators
and puts what it will delete, create and insert into `tx[t]`; `Commit` applies
that, if the unique constraint on (group, person) and the foreign key to the
group allow it, and `Rollback` is everything else. Re-linking (`add_both_parents`,
and `add_child` with `force`) deletes the child's rows first and validates on
what is then left (`Without`); the locks those deletions take are `Locked`. The
reads of one request are one read. `current` is a history variable: the open
requests whose graph no commit has changed since. All persons are live, and
the limit of 100 generations of a graph walk is `MaxDepth`.

| Action | Code |
|---|---|
| `CreatePerson`, `Begin/CommitUpdatePerson`, `Begin/CommitDeletePerson` | `persons.py` |
| `Begin/CommitUpdateFamilyGroup`, `...DeleteFamilyGroup`, `BeginRemoveMember`, `CountParents`, `CommitRemoveMember` | `collaboration.py` |
| `BeginRevert`, `ClaimRevert`, `CommitRevert`, `Apply...Revert` | `revert_audit_log_entry`, `tree_snapshot.py` |
| `Begin/CommitCreateDraft`, `DeleteDraft`, `Begin/CommitSubmit` | `create_draft`, `delete_tree`, `submit_change_request` and the constraints of migration 0040 |
| `Begin/CommitEditDraft`, `Begin/CommitEditOriginal` | `require_direct_edit_allowed`, then an edit handler; a user without a row in `tree_members` passes, as in the code |
| `BeginResolve`, `ReadDraft`, `CommitApprove`, `CommitDeny` | `resolve_change_request`, `_apply_change_request` |
| `BeginRevertRequest`, `BeginRevertEntry`, `ClaimRevert`, `CommitRevert` | `revert_change_request`, `revert_audit_log_entry`, `revert_audit_entry`, `apply_revert` |
| `AddParent`, `AddBothParents`, `AddChild`, `AddSpouse`, `AddSibling` | the handlers of `persons.py`, `domain/genealogy/services.py` with `validators.py` and `graph.py`, `_delete_orphaned_family_groups` |
| `DeleteFamilyGroup`, `RemoveMember` (of `Genealogy`) | `collaboration.py` |
| `Commit` (of `Genealogy`) | `application/genealogy/service.py:_apply` and the constraints of `models/person.py` |

In `ChangeRequests` the audit log holds only approvals and their reverts: other
entries do not take part in what the module says.

In the modules of the client *the code between two awaits is one action*. A
request is answered by the server in one step and its answer runs the rest of
the handler in a later one; in between anything else may happen.

* `ClientSession`: a call's `st` is where its promise is; `retry` is the
  `_retry` mark of its config, `sent` the token in its header. A token is a user
  and a number; tokens expire in the order they were issued. `doc` is the
  document: `leaving` lasts from the assignment to `location.href` until the new
  document boots, and the old one still runs then. `ended` is a history variable.
* `TreePage`: of the contents of a query only matters whether they reflect the
  user's newest write (`data`, and what a load on its way will bring, `load`).
  `stale` is the mark of an invalidation. The rules of React Query that decide
  the order (`Fetched`, `Marked`, `Mounted`, `Settle`, `Forget`) are those of the
  library, as the calls in `src/` use it, and are marked external. A dialog is a
  `Handler`: what its requests write and what it refreshes when they are done.
  `excused` records the cases in which the code is known to refresh less than it
  wrote. When a load is restarted, the calls that await it go on with the newer load
  in some versions of the library and with what the query holds in others (and in all
  of them when it is overtaken twice): any subset of them wakes. `Proposals` is wider
  than the page, which passes `handleProposeChanges` down but gives it no button.
* `TreeCanvas`: `graph` is what the query holds, `load` the answer on its way to it,
  `live` what the server does; `adding` are the calls of `handleAdded` that await a
  load, several at once, and `Overtake` is what a newer load does to them. `missed`
  is a history variable. `Drawn` is whom a view draws and `Placed` whom a chart about
  a person (`Chart`) has a place for, each by its own walk; whom the family layouts
  place is the business of `FamilyLayout`. The depths of those walks (4, 8, 7 for the
  wedges that are a degree wide, 100) are constants. A call of `handleAdded` that ends
  when another tree is open writes persons of the old tree into `expanded`; those are
  no `Person` of the graph shown, so the model has the write without them, or none
  (then `Heal`, which wants the set empty, need not fire). Persons and groups are
  numbers, their places in the lists of the graph, which is the order the loops of
  the code go through them; `Loop` and `Repeat` stand for those loops.
* `FamilyLayout`: a place is counted in cards. `stack` holds the calls of
  `placeFG` under way. Subtree widths only propose a place: any of `Slot`. Sorts
  by birth year are left open, except that of the unions of a person.
* `AiTreeImport`: `mount` counts the panels: leaving the tab of the admin page
  unmounts one, and the next one starts anew. `timers` are the live intervals,
  `pollTimer` the ref of each panel, `owner` the panel whose closures a job runs in;
  the hook has no cleanup, so what a panel left behind goes on, and sets state that
  nobody shows (`Mine`). `polls` are the answers on their way. The row, the task, the
  tree and the calls of `finalize_job` (`finalize`, in steps: load, claim, create,
  delete) are the server's, and go on when the tab gives up on an answer
  (`FinalizeAnswered`). `overdue` and `overtook` are history variables.

| Action | Code |
|---|---|
| `Send`, `Deliver`, `RefreshGranted`, `RefreshFailed`, `AfterProfile` | the interceptors of `api/client.ts` |
| `BootRefresh`, `BootProfile`, `Load` | `initAuth`, `main.tsx` |
| `SubmitSignIn`, `SignInAnswered`, `StoreLogin`; `ClickSignOut`, `SignedOut`, `CloseDeletionSent`, `SignInAgain` | `LoginPage`, `AppShell`, `SettingsPage`, `NamespaceInvitationAcceptPage` |
| `AnswerRefresh`, `AnswerSignIn`, `AnswerSignOut`, `Deactivate`, `Expire` | `api/v1/auth.py`, `application/auth/service.py`, `deactivate_user` |
| `Redirect`, `Navigate` | the guards and the router |
| `Submit`, `Serve`, `Fail`, `NextStep`, then `Added`, `Invalidate`, `RefetchOne` or `NavigateTo` | the dialogs of the tree page, the audit log and the review of proposals |
| `Go`, `ToggleActivity`, `Settle`, `Forget` | the route, the activity log, the queries |
| `Fetch`, `Add`, `Overtake`, `Arrive`, `Resume`, `OtherEdits` (of `TreeCanvas`) | the graph query and `handleAdded` |
| `Heal`, `ExpandAll`, `CollapseAll`, `Reveal`, `SetFocus`, `SetMode`, `Leave`, `Return` | `TreeCanvas.tsx`, `useExpandCollapse.ts`, `TreeControls.tsx`, `canvas.store.ts` |
| `Search`, `Searched`, `Pull`, `PulledAll`, `Promote`, `Stable` | `computeGenerations` |
| `PlaceRoot`, `RootsPlaced`, `NextPerson`, `PlaceUnion`, `PlacePerson`, `Return`, `Compact` | the placement of `familyTreeLayout`, one step for each turn of a loop |
| `PickFile`, `Ticket`, `Confirmed`, `NotConfirmed`, `Tick`, `Timeout`, `PollAnswered`, `Reset`, `Leave`, `ClickCreate`, `FinalizeAnswered` | `useAiTreeImportJob`, `AiTreeImportPanel`, the tabs of `AdminPage` |
| `StartConfirm`, `CommitConfirm`, `AnswerPoll`, `LoadJob`, `ClaimJob`, `CreateTree`, `DeleteJob` | `api/v1/ai_tree_import.py` |
| `RunTask`, `EndTask`, `LoseTask` | the Celery task |

The runs of `TreePage`, `TreeCanvas` and `AiTreeImport` leave out `TypeOK` and
spend their time on the properties; for all three it is proved.

## 3. What is checked

| Run | Instance | Shows |
|---|---|---|
| `audit_revert` | 3 persons (parent and child in one union, one to be created), 2 values, 2 labels, 2 transactions, log of 3 | `TypeOK`, `UndoneOnce`, `ClaimsAreSound`, `DeletionsAreRecoverable`, `RestoresSnapshot`, and `ImplementsLedger` |
| `change_requests` | the same tree, 1 editor, 2 drafts, 2 requests, 2 transactions, 3 committed edits of either tree, log of 3 | `TypeOK`, `OnePendingPerRequester`, `PendingHasItsDraft`, `DecidedDraftIsGone`, `NoForeignMembers`, `RevertRestoresApproved`, and `ImplementsLedger` |
| `field_revert` (violation) | 1 transaction, log of 4 | a surgical group revert is a silent no-op after a full-tree revert |
| `denied_applied` (violation) | as `change_requests`, with fewer edits | approve and deny both commit: merged, yet DENIED |
| `genealogy_links` | 4 persons, 3 family groups, 3 requests of which the first may overlap, 4 commits | `TypeOK`, `OneRolePerGroup`, `DeletedGroupsAreEmpty`, `CleanCommitsKeepTwoParents`, `CheckedLinksKeepAncestry`, `OnlyAddParentDoublesOrigin`, `RelinkLeavesNoOrphan` |
| `circular_ancestry` (violation) | 4 persons, 3 family groups, requests one at a time | `add_child` with a second parent who descends from the child makes a circle |
| `client_session` | 2 calls, 1 account, 2 tokens | `TypeOK`, `QueuedIsServed`, `OneRefreshAtATime`, `SignOutIsFinal`, `SpinnerEnds`, and `ImplementsCallLedger` |
| `tree_page` | the graph and the activity log of the live tree, 2 dialogs | `OwnEditsAreShown`, `EditsReachTheCanvas`, `HandlersEnd` |
| `ai_import` | 2 jobs of one tab, 2 panels, 2 calls of `finalize_job` | `HookFollowsItsJob`, `OneTreePerJob`, `OutcomeIsKept`, `ImportEnds` |
| `family_layout` | 4 persons, all graphs of 2 groups, all acyclic ones of 3 with a remarriage, lineages with birth years, two graphs of 3 and 5 groups | `TypeOK`, `PlacementIsSound`, `RowsAreLeast`, `LayoutEnds` |
| `family_overlap` (violation) | 3 persons, one of them in two marriages | two cards of a row share a place |
| `tree_canvas` | 7 graphs of 5 persons and 4 groups, two persons added and deleted | `DrawnArePlaced`, `DescendantsAreDrawn`, `OwnAddIsShown` |

Why the bounds suffice. Every race of this code is between two requests, so two
transactions produce it, and a transaction slot is reused. A log of three holds
an edit, the revert of it and one more entry, so also two reverts of one edit
and a revert under a racing edit. One union with a parent and a child, and a
person not yet created, give each function its cases: a person restored,
removed, adopted, matched or missing, a group emptied, kept or lost. Two drafts
of one editor are what the check-then-act of `create_draft` and the unique index
of pending requests are about; other editors only add more of the same rows. One
committed edit between the clone and the merge is enough to make the draft
differ from the tree, in each direction; three (a person is created, joins a family and is deleted
again) leave a member row that names a row of the draft. `MCChangeRequests` allows
more than one edit only while there is one draft and two entries in the log, and
lets the last transactions of a behaviour follow each other; everything before them
overlaps at will, so also edits and merges between the two steps of a revert.

For links, three groups make a chain of four generations, so that a descendant
is found only by a walk over several groups, and four persons are a child with
three parents, one too many. Two commits set up a case and the third is the one
that may go wrong. A race needs two open requests, and a group emptied, deleted
and joined meanwhile needs three commits; `MCSpec` lets requests overlap while
at most one has committed, which is the case where one sets up what the next two
race on, and lets the later ones follow each other.

For the client, two calls are the one that leads a refresh and one that waits
for it, and the same two meet again after the second token; the account is an
administrator, so that maintenance does not end every trace. Two jobs are the
one a user gave up and the one after it, in the same panel or in the next; two calls of
`finalize_job` are the one whose answer was lost and the one pressed after it. Two dialogs that overlap are the most
a user can have at work with one open; the two queries are one the page always
observes and one only a dialog does. `MCTreePage` lets two dialogs overlap only
while the activity log was not opened. In the graphs of the layout two groups
are enough for every shape of circle, couple and family of origin; the third is
what a remarriage needs to put a spouse of a spouse beside a card that is
placed. Two larger graphs have what is left: a spouse who is met in a later
marriage before the walk comes to the union she was a child's mother in, and a
group that overtaking requests gave a third parent. `MaxRow` is above what four persons and the birth years can need, so a
loop that reaches it has no end; `Slot` has a proposal at the margin and one to
the right of it. The seven graphs of the canvas are marriages between
descendants, two families of origin near and far, a line longer than the depths
of the charts, and a circle; the depths are 1, 2, 1 and 3 for 4, 8, 7 and 100. Two persons
come and go, so that the refetches of two additions overlap; `MCTreeCanvas` lets the
first of them do so only on a canvas not yet turned to another view or person.

The properties of links come in two kinds. The invariants hold however requests
overlap, because a constraint of the tables enforces them. The action properties
say what validation achieves, and so speak of a *clean* commit, one whose graph
was still current; overlapping requests break each of the conclusions (a third
parent, a circle, a second family of origin), which the hazards list.

Most properties of the client name the exceptions the code has.
`OwnEditsAreShown` and `EditsReachTheCanvas` except the queries of `excused`: a
request that failed after an earlier one had written, the handlers that navigate
or refetch a single query (decisions on a proposal, which rewrite the tree, leave
its graph as it was until it is stale), and a load that was on its way when the
query was invalidated. `HookFollowsItsJob` speaks of the panels whose answers came
within the interval: a later one sets the hook's state for a job that was given up.
A panel that was left while extracting goes on polling; the property says that this
interval is the one of its own ref, and no business of the panel shown.
`PlacementIsSound` says where a layout may leave a person out or put one card on
another, and `DrawnArePlaced` whom a chart draws without a place.
`OwnAddIsShown` excepts an addition whose refetch failed or was overtaken, and a page
that is left. `OutcomeIsKept` excepts the task that commits before `confirm_upload`
does. Each exception is a condition on the state or a history variable, so that
anything beyond it is a violation.

Deadlock checking is off where the program, or its bounds, may stop: the bounded
logs, drafts, commits and tokens run out, jobs are used up, and a layout returns.
It is on for `tree_page` and `tree_canvas`, whose users can always do something.

Fairness. The backend modules assume none: a client may always fail to send its
next request, and all they state is safety. In the client
* a request ends, if only in an error, and the tab runs what its answer wakes
  (`ClientSession`, `TreePage`, `AiTreeImport`, `TreeCanvas!Arrive`): browsers and
  the gateway time requests out, and the event loop runs every settled promise.
  Nothing assumes that a request succeeds;
* an interval keeps firing, so its time limit is reached (`AiTreeImport!Timeout`);
  no fairness is assumed of the worker;
* a document that is left is replaced (`ClientSession!Load`);
* the layout is one synchronous call, so its next step is taken (`FamilyLayout`).

Refinement. `ClientSession` implements `CallLedger`, with the liveness of the
ledger: a call that waits for a refresh and one whose page is left both end. The
mapping forgets everything but how far a call has come (`LedgerState`).

The four findings are disagreements between a docstring or comment and the
code, quoted in `PROJECT.json`. Each is a sequence of ordinary requests; none needs a
failure.

## 4. What is proved

TLAPS checks, for every set of persons, values, groups, transactions, calls, jobs
and dialogs, every graph of a tree, and every bound on the logs, commits and
tokens:

| Theorem | Says |
|---|---|
| `RevertLedgerProofs!LedgerTypeCorrect`, `LedgerUndoneOnce` | the abstract ledger undoes no entry twice |
| `AuditRevertProofs!TypeCorrect`, `ClaimsSound` | `Spec => []TypeOK`, `Spec => []ClaimsAreSound` |
| `AuditRevertProofs!LedgerImplemented`, `EntriesUndoneOnce` | `Spec => ImplementsLedger`: the handlers refine the ledger; `Spec => []UndoneOnce` |
| `AuditRevertProofs!DeletionsRecoverable` | `Spec => []DeletionsAreRecoverable` |
| `AuditRevertProofs!SnapshotRestored` | `Spec => RestoresSnapshot` |
| `ChangeRequestsProofs!TypeCorrect`, `OnePending`, `PendingHasDraft`, `DecidedDraftGone` | `Spec => []` of `TypeOK`, `OnePendingPerRequester`, `PendingHasItsDraft`, `DecidedDraftIsGone` |
| `ChangeRequestsProofs!LedgerImplemented`, `ApprovalsUndoneOnce` | `Spec => ImplementsLedger`, and so no approval is undone twice |
| `ChangeRequestsProofs!NoForeignMembersEver`, `RevertRestores` | `Spec => []NoForeignMembers`, `Spec => RevertRestoresApproved` |
| `GenealogyProofs!TypeCorrect`, `RolesApart`, `NoRowOutlivesItsGroup` | `Spec => []` of `TypeOK`, `OneRolePerGroup`, `DeletedGroupsAreEmpty` |
| `GenealogyProofs!TwoParentsUnlessOvertaken`, `OriginsStaySingle`, `NoOrphanLeft` | `Spec =>` `CleanCommitsKeepTwoParents`, `OnlyAddParentDoublesOrigin`, `RelinkLeavesNoOrphan` |
| `GenealogyProofs!AncestryKept` | `Spec => CheckedLinksKeepAncestry`, where the walk is deep enough |
| `ClientSessionProofs!TypeCorrect`, `RefreshQueueIsSafe`, `OneRefresh`, `SignOutFinal` | `Spec => []` of `TypeOK`, `QueuedIsServed /\ OneRefreshAtATime`, `SignOutIsFinal` |
| `ClientSessionProofs!CallsFollowLedger` | every step maps to a step of `CallLedger` or to none |
| `TreePageProofs!TypeCorrect`, `EditsAreFollowed` | `Spec => []` of `TypeOK`, `OwnEditsAreShown` |
| `TreePageProofs!NoWakeUpIsLost` | `handleAdded` waits only for a load that is under way |
| `TreePageProofs!CanvasTypesHold`, `EverybodyDrawnHasAPlace`, `FamilyChartIsComplete` | `CanvasSpec => []` of `CanvasTypeOK`, `DrawnArePlaced`, `DescendantsAreDrawn` |
| `AiTreeImportProofs!NoImportIsAbandoned` | "Uploading" is shown only with an upload that has a next step, "Extracting" only with an interval |
| `AiTreeImportProofs!TypeCorrect`, `OneTree`, `OutcomeKept`, `HookFollows` | `Spec => []` of `TypeOK`, `OneTreePerJob`, `OutcomeIsKept`, `HookFollowsItsJob` |
| `FamilyLayoutProofs!TypeCorrect`, `PlacesAreSound` | `Spec => []` of `TypeOK`, `PlacementIsSound` |
| `FamilyLayoutProofs!LeastRows` | `Spec => RowsAreLeast` |
| `FamilyLayoutProofs!EveryStepProgresses` | each step descends in a measure of phase, rows, groups and calls |
| `FamilyLayoutProofs!RowsFitTheGraph` | the loops give up only where no rows fit; the rows used have children below parents |

### Assumptions

Each is a named `ASSUME` that TLC evaluates on every run. `TreeStoreAssumption`,
`AuditRevertAssumption`, `ChangeRequestsAssumption`: the sets are not empty, the
"no value" constants are outside their sets, the bounds are numbers, and the
starting tree is one the handlers could have made (nobody deleted yet, no clone in
an original, no group without members or with members that have no row). In
`Genealogy`: finitely many persons, the depth and the bound on commits are
numbers, the "none" markers are outside their sets. In `ClientSession` and
`AiTreeImport`: the markers again. In `TreePage`: a query belongs to a tree. In
`TreeCanvas`: the graphs are graphs of the persons and groups, and the depths are
in the order the code has them (what is drawn is no deeper than what is placed). In
`FamilyLayout`: persons and groups are finitely many, the graphs are graphs of
them, and the bound on rows leaves a row for each person below the last birth
year.

One theorem has a hypothesis of its own; those of the canvas hold for walks of any
depth. `AncestryKept` asks that a tree has at
most `MaxDepth + 1` persons: the walk of the validator gives up after 100
generations, so in a lineage longer than that the code could let a circle pass,
and no theorem can say otherwise. A tree of at most 101 persons has no such
lineage, and neither has the instance of the run.

### The arguments

**Reverts.** `TypeOK /\ ClaimsAreSound` is inductive. `UndoneOnce` is not
inductive alone: nothing in it stops the commit of a revert whose entry another
transaction reverted after the claim. `ClaimsAreSound` is what closes that gap:
a claimed entry is restorable, unreverted, and claimed by one transaction. The
steps fall into four kinds (lemma `Steps`): steps that leave the audit log
alone and take no claim, the claim, commits that append one entry that undoes
nothing, and the commit of a revert, which marks its entry and appends one that
names it. Each kind has one lemma that says what it leaves, and the type proof,
the claim proof and the refinement each go over the four kinds. The ledger sees
the log through `log`, a view of the audit log entry by entry; `ViewOfAppend`
and `ViewOfMark` say that appending and marking commute with the view, so the
third kind is `Record` and the fourth is `Undo`. `UndoneOnce` is then proved
once, of the ledger, and carried over.

`DeletionsAreRecoverable` looks for an entry that can bring a deleted person back,
and an entry can only do so while the person it names has a row. `SnapshotsKnown`
says that every snapshot, in the log or in a transaction, is of persons that still
have one (no step takes a row away, `RowsKept`). `DeletionsExplained` says that
whoever is deleted was once found live by a deletion that recorded it, or was
removed by a revert; it has to speak of open transactions too, because a deletion
reads the person one step before it writes. `RestoresSnapshot` follows from the
same two facts.

**Change requests.** What a `Begin` step checked may be false when its `Commit`
step writes, so each invariant needs what is still true then. `RequestsSound` ties
a request's status to its draft: under review, the draft exists, belongs to the
requester and is no other request's; decided, the draft is gone.
`TransactionsSound` says what an open transaction may still rely on: the draft it
submits is its user's unless it is gone, the request it decides was made for the
draft it holds, the entry it reverts is an approval. `ClaimsApart` is what the claim
of a revert gives: a claimed entry is not reverted, and one transaction claims it; so
the commit of a revert, which tests nothing again, undoes an entry that is open. Everything else its checks
found may have been taken back, and then a constraint of the tables refuses the
commit or an UPDATE finds no row: that is the guard the proof uses. `RowsSound` is about the rows: whom the log, the drafts and the
transactions name has a row in the original, because the original forgets nobody
(`KnownGrows`); that is why a merge or a restore leaves no member of another tree.
`RevertRestores` needs both: the persons of the snapshot have rows to restore, and
whom the revert saw alive it removes; of the rest it leaves what it finds.

**Links.** `OneRolePerGroup` and `DeletedGroupsAreEmpty` need no strengthening: a
request that starts writes nothing, and a commit looks at the rows through the
constraints. The action properties are about two steps, the one that finds
something on the graph and the one that writes what it planned, so each proof
carries a fact about the plans of current requests from one to the other: a commit
makes every other request overtaken, so such a fact survives it. For two parents
it is `PlansFit` (written now, the plan leaves no group with more than two; lemma
`PlanFits` names the three ways a plan can do so). For families of origin and
orphans it is `RelinksSound`. For ancestry it is `PlansApart`: some set of
persons holds the child and, but for the child, the children of all it holds, and
none of the parents proposed. The walk is a
function of the depth, and what it finds is shown by taking the least depth at
which a statement fails (`SmallestOf`), since induction over an operator is not
available to the provers; a walk over at most `MaxDepth + 1` persons stops growing
before it ends, so it finds every ancestor.

**Session.** That a queued call has a refresh to wait for says nothing of the flag
the interceptor tests, so it is not inductive: a call could queue itself while the
flag is up and nobody leads. `QueueInv` adds that the flag is up exactly while some
call leads, that there is one leader, and that what is queued is in the queue. It
holds because the flag is set before the first await, and because the queue is
served, emptied and the flag cleared without an await between. `SignOutInv` names
everything from which a session could come back (the cookie, a token, a call on
its way with one, a refresh or a sign-in under way) and says that once the session
is ended and the document it was ended in is left, none of it remains. `CallsFollowLedger` is the safety part of the refinement, initial
state and steps, from `QueueWaits`: who is in the queue has not ended.

**Tree page.** `OwnEditsAreShown` says nothing of a load on its way, which will
answer with what was there before the edit and clear the mark as it does; and it
does not say whose tree a dialog will invalidate. `PageInv` adds both: what will
be shown as current although it is behind, now or when its load is answered, is
accounted for (`CacheInv`), and a dialog wrote to the tree it was opened on unless
it decides on a draft (`JobsInv`), so invalidating that tree's queries covers
everything it wrote but the loads it cannot restart. `NoWakeUpIsLost` adds
`AwaitedIsLoading` to it: starting, marking and invalidating stop no load, an own
write makes a load late but does not end it, what ends one wakes who waits for it,
whichever tree the page is on by then, and what restarts one wakes them or leaves them
waiting for the newer load.

**Canvas.** Here the hard part is not the steps but the functions: any state is
drawn anew. The loops of the code are functions of the round (`LoopRounds`), and
what such a loop builds is shown by a rule of its own, `LoopInvariant`: a set of
good values for each round, kept by the body; it rests on the least round that
fails (`LeastOf`), since induction over an operator is not available to the
provers. A chart of ancestors draws a walk of `ShownDepth` and places one of
`LaidDepth`, and walks grow with their depth (`WalkGrows`, `AncestorWalk`,
`DescendantWalk`). A chart that bins parents by a map from child to family loses
no ancestor up to the depth it is given as long as nobody drawn has two families of origin
(`BinsHoldAncestors`), which for the ancestry fan is the last generation with wedges. For the chart of descendants the search is followed with the
set of all who ever were in its queue: its frontier, what it has met and that set stay
consistent over persons and groups in any order (`PersonMet`, `FrontierMet`,
`SearchStep`), and after `n` rounds each descendant of `n` generations was
queued, or is below one who was met as a spouse first (`FamilySound`). The mutant `MarkedFirst`
breaks exactly the step that says a group met is met with all its members. Only who
is below such a spouse may be left out, not every chart in which descendants marry.

**Import.** The server's half does not depend on the hook: `ServerSafe` says that
among all the calls of `finalize_job` for a job, wherever they stand and whatever they
loaded, one alone holds the claim, that a claim is not given back, that the tree is
made by the call that holds it, and that a task that is done before
`confirm_upload` committed is noted. The hook's half, `HookSafe`, speaks of each
panel by itself, of those that were left as of the one that is shown: one
upload, one interval, which its own ref names, and a draft that is shown is of its job;
it holds for a panel as long as no answer to it was late. What another panel left
behind cannot disturb it, because a job belongs to the panel that picked its file
(`OwnerIsPast`, `RefIsOwn`). `NoImportIsAbandoned` needs no such condition:
a late answer may clear the interval of another job, but in the same step it
takes "Extracting" away.

**Layout.** The rows are below every layering that starts at the seeded rows
(`RowsInv`). Lemma `PromotedAboveLayering` carries it over a promotion: the last
row of a couple is the row of one of them, on which a layering has both; and a
child's row is below its parents' in the layering. So the loop cannot pass a
layering, which gives both halves: it gets stuck only where there is none, and
what it ends with is the least. For the places, `LayoutInv` says how the walk
stands. `CallsInv`: the loop over the roots is the first call, and each call
follows one person at a time. `WalkInv`: whoever is left to place, of a family
that was placed, is awaited by some call, and a person with a place has all
unions placed or was met in one that is. `PlacesInv`: places are behind the cursor
of their row, and shared only next to a person who married again. The last two
hold each other up: a parent of a new union who has a place already was met in
another union, so has two, and a card moved to the left of that one is a spouse of
somebody remarried. `EveryStepProgresses` gives the loops a measure: a later phase,
or rows that only move down (`MaxRow` bounds them), or one group less to place, or
calls that wind up. And `RowsFitTheGraph` says where they come to: seeding from the
roots passes no layering, seeding from birth years not the last year, and promotion
not a layering moved below both (`MovedDown`, which is what the bound on `MaxRow`
is for), so only a graph that no rows fit is given up; and a pass that moves nobody
leaves a layering (`StableFits`). What is left to TLC is that some step can be taken
until the layout is done.

### Only model-checked

All liveness, and nothing else: `SpinnerEnds`, the promise of `CallLedger` that
nothing pends for ever (so `ImplementsCallLedger` as a whole), `EditsReachTheCanvas`,
`HandlersEnd`, `ImportEnds`, `LayoutEnds`, `OwnAddIsShown`; the provers do not
reason about fairness or about what is enabled. Of four of them the part that is
not about fairness is proved: `CallsFollowLedger` for the refinement,
`NoWakeUpIsLost` for `HandlersEnd`, `NoImportIsAbandoned` for `ImportEnds`,
`EveryStepProgresses` and `RowsFitTheGraph` for `LayoutEnds`. The four findings are counterexamples, which
only a run can show.

## 5. What is left out, and the plan

1. `TreeMembers`: roles, invitations and the owner's protection, under
   concurrent role changes, composed with `GroupAccess`, the permission-group
   grants and revocations that write the same `tree_members` rows. To state:
   who can gain ownership, and that access follows entitlement.
2. `AuthSessions`: login, lockout and its rollback, refresh tokens in Redis,
   single session with verified takeover, password reset; crashes between the
   database commit and Redis. Liveness: a reset that completes ends old sessions.
3. `Genealogy`: the kinship and lineage queries of `calculators.py` against a
   reference definition, `parent1_id`/`parent2_id` and the merge that falls back
   on them, soft-deleted members; then `ADD_RELATIONSHIP` and parentage edits as
   actions of `AuditRevert`.
4. `MediaPipeline` and `Namespaces`.
5. Proofs: the invariants of `TreeMembers`.

What follows shows in the models and has no run of its own. A third
parent of a child with two makes a second family of origin, where the validators'
docstring allows one: `OnlyAddParentDoublesOrigin` says that nothing else does.
And an approval leaves a person deleted that the owner deleted after the draft was
cloned: `MergeRow` does not touch `is_deleted`. The panel of the AI import never
clears `finalizeResult`: `Reset` after an import takes the hook back to "idle", but
`Screen` stays on "done" and its button "Import another screenshot" leads nowhere
until the tab is left. A panel that is left while "Extracting" goes on polling, up
to its time limit. A failure after the claim of `finalize_job` leaves the row in
FINALIZING for good. When two additions overlap, each refetch cancels the other, and
both persons may stay hidden until "Expand all" (`missed`). And two removals at once of
the two parents of a group each count the other, so the group stays without a parent
(`CountParents`), which the code means to rule out (`collaboration.py:1220`).

Not modelled, and why. Most of the client's lines are markup, styles and the texts
of two languages: the admin pages, the dashboard, the settings, the landing page,
the timeline, the fan and the plugin views, the forms inside the dialogs. Each of
their handlers is a request and a refetch whose ordering `TreePage` and
`ClientSession` already cover, and they keep no state that another part reads; a
model of them would restate them line by line. The share of the client that the
map covers is therefore small, and is meant to be: what the map names is the code
that decides something. The geometry of the charts (widths, angles, dragging,
export) is arithmetic without control. Search ranking, file parsing, email and push
delivery and the deployment hold no state that other requests depend on. Several
tabs of one browser share only the cookie, whose changes `ClientSession` has as the
server's; a second tab that signs in as another user is left out.
