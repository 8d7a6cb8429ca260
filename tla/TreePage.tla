-------------------------------- MODULE TreePage --------------------------------
(***************************************************************************)
(* The tree page (pages/FamilyTreePage.tsx and the dialogs it opens) over  *)
(* the React Query cache: what the tab shows after the user's own edits.   *)
(*                                                                         *)
(* A query of a tree is one Key.  All that matters of its contents is      *)
(* whether they reflect the user's newest write to it.  Every dialog has   *)
(* the same life: it sends one or two requests, and when they are answered *)
(* it refetches or invalidates some queries, while the user may have gone  *)
(* to another page or tree, or dismissed the dialog and started another.   *)
(* Handlers differ in what they write and in what they do when they are    *)
(* done, and that is what a Handler records.                               *)
(*                                                                         *)
(* Edits of other people are left out: nothing tells the tab of them.  So  *)
(* are the other pages of the application: to the queries of a tree, going *)
(* there is like going to the other tree.                                  *)
(***************************************************************************)
EXTENDS Naturals, Sequences

CONSTANTS
  Job,   \* dialogs that can be at work at once
  Key    \* the queries considered: records of a tree and what of it

Tree == {"live", "draft"}
Kind == {"graph", "relationships", "audit", "pending", "diff"}

ASSUME TreePageAssumption == Key \subseteq [tree : Tree, of : Kind]

VARIABLES
  me,        \* the owner of the live tree, or a member who may only propose
  draft,     \* the member's draft of the tree
  page,      \* the tree of the route, and whether the activity dialog is open
  cache,     \* React Query's cache
  jobs,
  excused    \* history: keys whose newest own write the page is known not to follow

vars == <<me, draft, page, cache, jobs, excused>>

Contents == {"current", "behind"}
Entry == [data : Contents \cup {"none"}, stale : BOOLEAN, load : Contents \cup {"idle", "failed"}]

\* steps: what each request still to be made writes.  then: what it does when
\* the last one is answered.
Handler == [steps : Seq(SUBSET Kind),
            then : {"added", "invalidate", "relationships", "pending", "nothing", "to live", "to draft"}]

Phase == {"unused", "sent", "answered", "refetch", "refetched"}

TypeOK ==
  /\ me \in {"owner", "author"}
  /\ draft \in {"none", "editing", "posted", "gone"}
  /\ page \in [tree : Tree, activity : BOOLEAN]
  /\ cache \in [Key -> Entry]
  /\ \A j \in Job : /\ jobs[j].handler \in Handler /\ jobs[j].phase \in Phase
                    /\ jobs[j].tree \in Tree /\ jobs[j].awaits \in Tree
                    /\ jobs[j].wrote \subseteq Key
  /\ excused \subseteq Key

----------------------------------------------------------------------------
\* React Query.

Graph(t) == [tree |-> t, of |-> "graph"]

Loaded(t, c) == Graph(t) \in Key /\ c[Graph(t)].data # "none"

\* The enabled useQuery calls of the page, of its activity dialog and of the
\* badge of pending proposals.
Observed(k, p, c) ==
  /\ k.tree = p.tree
  /\ CASE k.of = "audit" -> p.activity
       [] k.of = "pending" -> me = "owner" /\ k.tree = "live" /\ Loaded("live", c)
       [] k.of = "diff" -> k.tree = "draft" /\ Loaded("draft", c)
       [] OTHER -> TRUE

Loading(k, c) == c[k].load \in Contents

\* fetch() joins the first load of a query instead of cancelling it.
Joins(k, c) == Loading(k, c) /\ c[k].data = "none"

\* query.fetch with cancelRefetch.  The answer is what the server has when it
\* is asked.
Fetched(c, ks) ==
  [k \in Key |-> IF k \in ks /\ ~Joins(k, c) THEN [c[k] EXCEPT !.load = "current"] ELSE c[k]]

\* Observers that appear load what is missing, invalidated or aged.
Mounted(c, p, aged) ==
  LET new == {k \in Key : Observed(k, p, c) /\ ~Observed(k, page, cache)}
  IN  Fetched(c, {k \in new : ~Loading(k, c) /\ (c[k].data = "none" \/ c[k].stale \/ aged)})

\* Missing data is as good as stale, and current data may have aged anyway.
Marked(c, ks) ==
  [k \in Key |-> IF k \in ks /\ c[k].data = "behind" THEN [c[k] EXCEPT !.stale = TRUE] ELSE c[k]]

\* Mutant: refetchType "none".
MarksOnly(c, ks) == Marked(c, ks)

\* queryClient.invalidateQueries.
Invalidated(c, ks) == Fetched(Marked(c, ks), {k \in ks : Observed(k, page, c)})

\* Mutant: the predicate of invalidateTreeQueries matches the graph only.
GraphOf(t) == {k \in Key : k.tree = t /\ k.of = "graph"}

\* The keys invalidateTreeQueries(queryClient, t) matches.
KeysOf(t) == {k \in Key : k.tree = t}

\* Loads on their way that invalidating ks leaves alone: when they answer, the
\* mark is cleared all the same.
Overtaken(ks) == {k \in ks : Loading(k, cache) /\ (cache[k].data = "none" \/ ~Observed(k, page, cache))}

\* Mutant: a refetch is only heard of while the page shows its tree.
WokenOnPage(ks) ==
  [j \in Job |-> IF jobs[j].phase = "refetch" /\ jobs[j].awaits = page.tree /\ Graph(page.tree) \in ks
                 THEN [jobs[j] EXCEPT !.phase = "refetched"] ELSE jobs[j]]

\* The promise of a refetch settles when its load ends.
Woken(ks) ==
  [j \in Job |-> IF jobs[j].phase = "refetch" /\ Graph(jobs[j].awaits) \in ks
                 THEN [jobs[j] EXCEPT !.phase = "refetched"] ELSE jobs[j]]

\* Loads cancelled for newer ones.  What awaits one settles, or goes on with the
\* newer load: versions of React Query differ.  (A load restarted before
\* anything was written is not told from the first.)
Restarted(c) == {k \in Key : Loading(k, cache) /\ c[k].load # cache[k].load}

\* Only of outdated data does it matter that its last load failed.
Failed(e) == IF e.data = "behind" THEN [e EXCEPT !.load = "failed", !.stale = TRUE]
             ELSE [e EXCEPT !.load = "idle"]

\* A load ends: with an answer, which clears the mark of an invalidation
\* whenever that came, or in an error.
Settle(k) ==
  /\ Loading(k, cache)
  /\ \/ /\ k.tree = "live" \/ draft \in {"editing", "posted"}
        /\ \E aged \in BOOLEAN :
             cache' = Mounted([cache EXCEPT ![k] = [data |-> cache[k].load, stale |-> FALSE, load |-> "idle"]],
                              page, aged)
        /\ excused' = IF cache[k].load = "current" THEN excused \ {k} ELSE excused
     \/ /\ cache' = [cache EXCEPT ![k] = Failed(@)]
        /\ UNCHANGED excused
  /\ jobs' = Woken({k})
  /\ UNCHANGED <<me, draft, page>>

\* A query nothing shows is forgotten after gcTime.
Forget(k) ==
  /\ ~Observed(k, page, cache) /\ ~Loading(k, cache) /\ cache[k].data # "none"
  /\ cache' = [cache EXCEPT ![k] = [data |-> "none", stale |-> FALSE, load |-> "idle"]]
  /\ excused' = excused \ {k}
  /\ UNCHANGED <<me, draft, page, jobs>>

----------------------------------------------------------------------------
\* The page.

Show(p) == \E aged \in BOOLEAN : page' = p /\ cache' = Mounted(cache, p, aged)

\* The route has no key: going from one tree to the other keeps the page, its
\* observers and its dialogs.
Go(t) ==
  /\ page.tree # t
  /\ t = "draft" => draft \in {"editing", "posted"}
  /\ Show([page EXCEPT !.tree = t])
  /\ UNCHANGED <<me, draft, jobs, excused>>

ToggleActivity ==
  /\ Show([page EXCEPT !.activity = ~@])
  /\ UNCHANGED <<me, draft, jobs, excused>>

----------------------------------------------------------------------------
\* The handlers, named for the component they are in.

Edited == {"graph", "audit", "diff"}

Adding(n) == [steps |-> [i \in 1..n |-> Edited], then |-> "added"]

Changing(what, end) == [steps |-> <<what>>, then |-> end]

AddPersonModal == {Adding(1)}
AddRelationModal == {Adding(1), Adding(2)}      \* an existing person; a new one, linked next
AddBothParentsModal == {Adding(1)}
AddChildToUnionModal == {Adding(1), Adding(2)}  \* also the removal of the union
EditPersonModal == {Adding(1), Adding(2)}       \* a staged photo first
SelectionPanel == {Adding(1)}                   \* the deletion of the person

\* The types, dates and label of a union, and the link's own deletion.
EdgeSelectionPanel == {Adding(1), Changing(Edited, "invalidate")}
UnionDatesSection == {Changing(Edited, "invalidate")}
UnionEdge == {Changing(Edited, "invalidate")}

PersonProfileModal == {Changing({"relationships", "audit"}, "relationships")}

\* handleRemove: the server logs it.
MembersModal == {Changing({"audit"}, "nothing")}

AuditLogModal == {Changing(Kind \ {"pending"}, "invalidate")}

\* Approving rewrites the live tree; both decisions end the proposal.
Decisions == {{"audit", "pending"}, Kind \ {"diff"}}
ReviewModal == {Changing(d, "pending") : d \in Decisions}
ReviewBanner == {Changing(d, "to live") : d \in Decisions}
Post == {Changing({"pending"}, "to live")}
Propose == {Changing({}, "to draft")}   \* handleProposeChanges, which no button calls yet

MayEdit(t) == (t = "live" /\ me = "owner") \/ (t = "draft" /\ me = "author")

\* canWrite, which is true until the graph says otherwise.
CanWrite(t) == ~Loaded(t, cache) \/ MayEdit(t)

Edits(t) ==
  IF ~Loaded(t, cache) THEN AddPersonModal
  ELSE AddPersonModal \cup AddRelationModal \cup AddBothParentsModal \cup AddChildToUnionModal
       \cup EditPersonModal \cup SelectionPanel \cup EdgeSelectionPanel \cup UnionDatesSection
       \cup UnionEdge \cup PersonProfileModal

Proposals(t) ==
  CASE ~Loaded(t, cache) -> {}
    [] Loaded(t, cache) /\ me = "owner" -> IF t = "live" THEN ReviewModal ELSE ReviewBanner
    [] Loaded(t, cache) /\ me = "author" -> IF t = "live" THEN Propose ELSE Post

\* Only the owner may remove members, and a draft has no other.
Available(t) ==
  (IF CanWrite(t) THEN Edits(t) ELSE {}) \cup (IF page.activity THEN AuditLogModal ELSE {})
  \cup (IF me = "owner" /\ t = "live" THEN MembersModal ELSE {})
  \cup Proposals(t)

NotUsed == [handler |-> Adding(1), phase |-> "unused", tree |-> "live", awaits |-> "live", wrote |-> {}]

Submit(j) == \E h \in Available(page.tree) :
  /\ jobs[j].phase = "unused"
  /\ jobs' = [jobs EXCEPT ![j] = [NotUsed EXCEPT !.handler = h, !.phase = "sent", !.tree = page.tree]]
  /\ UNCHANGED <<me, draft, page, cache, excused>>

\* What a request writes and where: a decision on a draft is about the live tree.
Written(j) ==
  LET h == jobs[j].handler
      t == IF h.then = "to live" THEN "live" ELSE jobs[j].tree
  IN  {k \in Key : k.tree = t /\ k.of \in Head(h.steps)}

\* An own write makes what is cached and what is on its way older than it.
Outdated(e) == [e EXCEPT !.data = IF @ = "current" THEN "behind" ELSE @,
                         !.load = IF @ = "current" THEN "behind" ELSE @]

\* What the server does with the draft; change_requests.py and the guard of
\* direct edits refuse the rest.
DraftStep(j) == LET h == jobs[j].handler IN
  \/ h \in Propose /\ draft = "none" /\ draft' = "editing"
  \/ h \in Post /\ draft = "editing" /\ draft' = "posted"
  \/ h \in ReviewModal \cup (ReviewBanner \ Post) /\ me = "owner" /\ draft = "posted" /\ draft' = "gone"
  \/ h \in AuditLogModal \cup MembersModal /\ draft' = draft
  \/ /\ h.then \in {"added", "invalidate", "relationships"} /\ h \notin AuditLogModal
     /\ MayEdit(jobs[j].tree) /\ (jobs[j].tree = "draft" => draft = "editing")
     /\ draft' = draft

Serve(j) ==
  /\ jobs[j].phase = "sent"
  /\ DraftStep(j)
  /\ cache' = [k \in Key |-> IF k \in Written(j) THEN Outdated(cache[k]) ELSE cache[k]]
  /\ jobs' = [jobs EXCEPT ![j].phase = "answered", ![j].wrote = @ \cup Written(j)]
  /\ excused' = excused \ Written(j)
  /\ UNCHANGED <<me, page>>

\* Only what is behind, or will be, needs an excuse.
Excuse(ks) == excused' = excused \cup {k \in ks : "behind" \in {cache[k].data, cache[k].load}}

Done(j) == [jobs EXCEPT ![j] = NotUsed]

\* The request or its answer fails: the dialog shows the error, whatever the
\* server has done.
Fail(j) ==
  /\ jobs[j].phase \in {"sent", "answered"}
  /\ jobs' = Done(j)
  /\ Excuse(jobs[j].wrote)
  /\ UNCHANGED <<me, draft, page, cache>>

NextStep(j) ==
  /\ jobs[j].phase = "answered"
  /\ Len(jobs[j].handler.steps) > 1
  /\ jobs' = [jobs EXCEPT ![j].phase = "sent", ![j].handler.steps = Tail(@)]
  /\ UNCHANGED <<me, draft, page, cache, excused>>

Answered(j, then) ==
  /\ jobs[j].phase = "answered"
  /\ Len(jobs[j].handler.steps) = 1
  /\ jobs[j].handler.then = then

\* handleAdded up to its await: the graph of the tree the page is on by now
\* (a query that is not considered answers at once).
Added(j) ==
  /\ Answered(j, "added")
  /\ cache' = Fetched(cache, {Graph(page.tree)})
  /\ \E ks \in SUBSET Restarted(cache') :
       jobs' = [Woken(ks) EXCEPT ![j].awaits = page.tree,
                ![j].phase = IF Graph(page.tree) \in Key THEN "refetch" ELSE "refetched"]
  /\ UNCHANGED <<me, draft, page, excused>>

\* The rest of handleAdded, or a handler that has nothing to wait for.
Invalidate(j) ==
  /\ jobs[j].phase = "refetched" \/ Answered(j, "invalidate")
  /\ cache' = Invalidated(cache, KeysOf(jobs[j].tree))
  /\ \E ks \in SUBSET Restarted(cache') : jobs' = [Woken(ks) EXCEPT ![j] = NotUsed]
  /\ Excuse(jobs[j].wrote \cap Overtaken(KeysOf(jobs[j].tree)))
  /\ UNCHANGED <<me, draft, page>>

\* refetchRelationships and refetchPending: one query and no other; and the
\* removal of a member, which refetches none.
RefetchOne(j) == \E of \in {"relationships", "pending", "nothing"} :
  LET ks == {k \in Key : k.tree = page.tree /\ k.of = of}
  IN  /\ Answered(j, of)
      /\ cache' = Fetched(cache, ks)
      /\ jobs' = Done(j)
      /\ Excuse({k \in jobs[j].wrote : k \notin ks \/ Joins(k, cache)})
      /\ UNCHANGED <<me, draft, page>>

\* Handlers that end in a navigate() and invalidate nothing.
NavigateTo(j) == \E t \in Tree :
  /\ Answered(j, IF t = "live" THEN "to live" ELSE "to draft")
  /\ Show([page EXCEPT !.tree = t])
  /\ jobs' = Done(j)
  /\ Excuse(jobs[j].wrote)
  /\ UNCHANGED <<me, draft>>

----------------------------------------------------------------------------
Init ==
  /\ \E r \in {<<"owner", "posted">>, <<"author", "none">>} : me = r[1] /\ draft = r[2]
  /\ page = [tree |-> "live", activity |-> FALSE]
  /\ cache = [k \in Key |-> [data |-> "none", stale |-> FALSE,
                             load |-> IF k.tree = "live" /\ k.of \in {"graph", "relationships"}
                                      THEN "current" ELSE "idle"]]
  /\ jobs = [j \in Job |-> NotUsed]
  /\ excused = {}

After(j) == NextStep(j) \/ Added(j) \/ Invalidate(j) \/ RefetchOne(j) \/ NavigateTo(j)

Next ==
  \/ \E k \in Key : Settle(k) \/ Forget(k)
  \/ \E t \in Tree : Go(t)
  \/ ToggleActivity
  \/ \E j \in Job : Submit(j) \/ Serve(j) \/ Fail(j) \/ After(j)

\* Every load and every request ends, and the code after it runs.
Fairness ==
  /\ \A k \in Key : WF_vars(Settle(k))
  /\ \A j \in Job : WF_vars(Serve(j) \/ Fail(j) \/ After(j))

Spec == Init /\ [][Next]_vars /\ Fairness

----------------------------------------------------------------------------
\* A query shown after an own edit follows it (the comment of
\* invalidateTreeQueries in keys.ts): what is shown from the cache is behind
\* the user's own writes only while it is marked or being loaded, while the
\* handler that wrote is not done, or for one of the known reasons of excused:
\* a request that failed after it or an earlier one wrote, a handler that
\* refreshes less than it wrote, a load that was on its way.
OwnEditsAreShown ==
  \A k \in Key :
    cache[k].data = "behind" /\ ~cache[k].stale /\ ~Loading(k, cache) =>
      k \in excused \/ \E j \in Job : k \in jobs[j].wrote

\* An edit reaches the graph on the screen, unless the user goes away or edits
\* again, a load fails or one of the reasons of excused applies.
EditsReachTheCanvas ==
  \A t \in Tree : Graph(t) \in Key =>
    LET g == Graph(t) IN
      (Observed(g, page, cache) /\ cache[g].data = "behind")
        ~> (~Observed(g, page, cache) \/ cache[g].data = "current"
            \/ cache[g].load = "failed" \/ g \in excused \/ \E j \in Job : g \in jobs[j].wrote)

\* No dialog waits for ever: handleAdded awaits a refetch, which may be
\* cancelled or be about a tree the page has left.
HandlersEnd == \A j \in Job : (jobs[j].phase # "unused") ~> (jobs[j].phase = "unused")
===============================================================================
