----------------------------- MODULE TreePageProofs -----------------------------
(***************************************************************************)
(* What the tree page shows after the user's own edits, for any number of  *)
(* dialogs at work and any of its queries.  That what is shown follows the *)
(* edits is not inductive alone: it says nothing of a load on its way that *)
(* will answer with what was there before the edit, nor that a dialog only *)
(* invalidates the tree it was opened on.  PageInv adds both.              *)
(*                                                                         *)
(* Then what the canvas of the page draws, for every tree and in every     *)
(* view: who has a place, and which descendants a chart leaves out.        *)
(***************************************************************************)
EXTENDS TreePage, TreeCanvas, SequenceTheorems, FiniteSetTheorems, WellFoundedInduction, TLAPS

JobRecord ==
  [handler : Handler, phase : Phase, tree : Tree, awaits : Tree, wrote : SUBSET Key]

\* A dialog that waits for a refetch is one that adds, a slot not in use has
\* written nothing, and what a dialog wrote is of the tree it was opened on,
\* unless it decides on a draft.
JobSound(job) ==
  /\ job.phase = "unused" => job.wrote = {}
  /\ job.phase \in {"refetch", "refetched"} => job.handler.then = "added"
  /\ job.handler.then # "to live" => job.wrote \subseteq KeysOf(job.tree)

JobsInv ==
  /\ jobs \in [Job -> JobRecord]
  /\ \A j \in Job : JobSound(jobs[j])

\* What will be shown as if it were current although it is behind, now or when
\* the load on its way is answered, has an author who is not done, or an excuse.
Unmarked(e) == e.load = "behind" \/ (e.data = "behind" /\ ~e.stale /\ e.load # "current")
Accounted(k) == k \in excused \/ \E j \in Job : k \in jobs[j].wrote

CacheInv ==
  /\ cache \in [Key -> Entry]
  /\ \A k \in Key : Unmarked(cache[k]) => Accounted(k)

RouteInv ==
  /\ me \in {"owner", "author"}
  /\ draft \in {"none", "editing", "posted", "gone"}
  /\ page \in [tree : Tree, activity : BOOLEAN]
  /\ excused \subseteq Key

PageInv == RouteInv /\ JobsInv /\ CacheInv

----------------------------------------------------------------------------
\* The cache: loading and marking entries leaves no more of them unmarked.

LEMMA EntryFields ==
  ASSUME NEW e \in Entry
  PROVE  /\ e.data \in Contents \cup {"none"} /\ e.stale \in BOOLEAN
         /\ e.load \in Contents \cup {"idle", "failed"}
         /\ [e EXCEPT !.load = "current"] \in Entry
         /\ [e EXCEPT !.stale = TRUE] \in Entry
         /\ Outdated(e) \in Entry
         /\ Failed(e) \in Entry
BY DEF Entry, Contents, Outdated, Failed

LEMMA FetchedEntries ==
  ASSUME NEW c \in [Key -> Entry], NEW ks
  PROVE  /\ Fetched(c, ks) \in [Key -> Entry]
         /\ \A k \in Key : /\ Fetched(c, ks)[k].data = c[k].data /\ Fetched(c, ks)[k].stale = c[k].stale
                           /\ Fetched(c, ks)[k].load \in {c[k].load, "current"}
                           /\ k \in ks /\ ~Joins(k, c) => Fetched(c, ks)[k].load = "current"
                           /\ Unmarked(Fetched(c, ks)[k]) => Unmarked(c[k])
<1> DEFINE f == Fetched(c, ks)
<1>1. ASSUME NEW k \in Key
      PROVE  /\ f[k] = IF k \in ks /\ ~Joins(k, c) THEN [c[k] EXCEPT !.load = "current"] ELSE c[k]
             /\ f[k] \in Entry
  BY EntryFields DEF Fetched
<1>2. f \in [Key -> Entry]
  BY <1>1 DEF Fetched
<1>3. ASSUME NEW k \in Key
      PROVE  /\ f[k].data = c[k].data /\ f[k].stale = c[k].stale
             /\ f[k].load \in {c[k].load, "current"}
             /\ k \in ks /\ ~Joins(k, c) => f[k].load = "current"
  <2>1. c[k] \in Entry
    OBVIOUS
  <2> HIDE DEF f
  <2> QED BY <1>1, <2>1 DEF Entry
<1> HIDE DEF f
<1>4. ASSUME NEW k \in Key, Unmarked(f[k])
      PROVE  Unmarked(c[k])
  BY <1>3, <1>4 DEF Unmarked
<1> QED BY <1>2, <1>3, <1>4 DEF f

LEMMA MarkedEntries ==
  ASSUME NEW c \in [Key -> Entry], NEW ks
  PROVE  /\ Marked(c, ks) \in [Key -> Entry]
         /\ \A k \in Key : /\ Marked(c, ks)[k].data = c[k].data /\ Marked(c, ks)[k].load = c[k].load
                           /\ k \in ks /\ c[k].data = "behind" => Marked(c, ks)[k].stale
                           /\ Unmarked(Marked(c, ks)[k]) => Unmarked(c[k])
<1> DEFINE f == Marked(c, ks)
<1>1. ASSUME NEW k \in Key
      PROVE  /\ f[k] = IF k \in ks /\ c[k].data = "behind" THEN [c[k] EXCEPT !.stale = TRUE] ELSE c[k]
             /\ f[k] \in Entry
  BY EntryFields DEF Marked
<1>2. f \in [Key -> Entry]
  BY <1>1 DEF Marked
<1>3. ASSUME NEW k \in Key
      PROVE  /\ f[k].data = c[k].data /\ f[k].load = c[k].load
             /\ k \in ks /\ c[k].data = "behind" => f[k].stale
             /\ f[k].stale = c[k].stale \/ f[k].stale
  <2>1. c[k] \in Entry
    OBVIOUS
  <2> HIDE DEF f
  <2> QED BY <1>1, <2>1 DEF Entry
<1> HIDE DEF f
<1>4. ASSUME NEW k \in Key, Unmarked(f[k])
      PROVE  Unmarked(c[k])
  BY <1>3, <1>4 DEF Unmarked
<1> QED BY <1>2, <1>3, <1>4 DEF f

LEMMA MountedEntries ==
  ASSUME NEW c \in [Key -> Entry], NEW p, NEW aged
  PROVE  /\ Mounted(c, p, aged) \in [Key -> Entry]
         /\ \A k \in Key : Unmarked(Mounted(c, p, aged)[k]) => Unmarked(c[k])
<1> DEFINE new == {k \in Key : Observed(k, p, c) /\ ~Observed(k, page, cache)}
           ks == {k \in new : ~Loading(k, c) /\ (c[k].data = "none" \/ c[k].stale \/ aged)}
<1>1. Mounted(c, p, aged) = Fetched(c, ks)
  BY DEF Mounted
<1> HIDE DEF ks
<1> QED BY <1>1, FetchedEntries

\* An invalidation that a load on its way would undo is among the excuses.
LEMMA InvalidatedEntries ==
  ASSUME cache \in [Key -> Entry], NEW ks
  PROVE  /\ Invalidated(cache, ks) \in [Key -> Entry]
         /\ \A k \in Key : Unmarked(Invalidated(cache, ks)[k]) =>
              /\ Unmarked(cache[k])
              /\ k \in ks => k \in Overtaken(ks) /\ cache[k].load = "behind"
<1> DEFINE m == Marked(cache, ks)
           seen == {k \in ks : Observed(k, page, cache)}
           f == Fetched(m, seen)
<1>1. Invalidated(cache, ks) = f
  BY DEF Invalidated
<1>2. /\ m \in [Key -> Entry]
      /\ \A k \in Key : /\ m[k].data = cache[k].data /\ m[k].load = cache[k].load
                        /\ k \in ks /\ cache[k].data = "behind" => m[k].stale
                        /\ Unmarked(m[k]) => Unmarked(cache[k])
  BY MarkedEntries
<1>s. \A k : k \in seen <=> k \in ks /\ Observed(k, page, cache)
  OBVIOUS
<1> HIDE DEF m, seen
<1>3. /\ f \in [Key -> Entry]
      /\ \A k \in Key : /\ f[k].data = m[k].data /\ f[k].stale = m[k].stale
                        /\ f[k].load \in {m[k].load, "current"}
                        /\ k \in seen /\ ~Joins(k, m) => f[k].load = "current"
                        /\ Unmarked(f[k]) => Unmarked(m[k])
  BY <1>2, FetchedEntries
<1> HIDE DEF f
<1>4. ASSUME NEW k \in Key, Unmarked(f[k]), k \in ks
      PROVE  k \in Overtaken(ks) /\ cache[k].load = "behind"
  <2>1. f[k].load = "behind"
    BY <1>2, <1>3, <1>4 DEF Unmarked
  <2>2. m[k].load = "behind" /\ cache[k].load = "behind" /\ (k \notin seen \/ Joins(k, m))
    BY <1>2, <1>3, <2>1
  <2>3. Loading(k, cache)
    BY <2>2 DEF Loading, Contents
  <2>4. Joins(k, m) => cache[k].data = "none"
    BY <1>2 DEF Joins
  <2> QED BY <1>4, <1>s, <2>2, <2>3, <2>4 DEF Overtaken
<1> QED BY <1>1, <1>2, <1>3, <1>4

----------------------------------------------------------------------------
\* The dialogs.

LEMMA JobFields ==
  ASSUME NEW job \in JobRecord
  PROVE  /\ job.handler \in Handler /\ job.phase \in Phase /\ job.tree \in Tree
         /\ job.awaits \in Tree /\ job.wrote \subseteq Key
         /\ \A ph \in Phase : [job EXCEPT !.phase = ph] \in JobRecord
BY DEF JobRecord

LEMMA AddingHandler == \A n \in Nat : Adding(n) \in Handler /\ Adding(n).then = "added"
<1> SUFFICES ASSUME NEW n \in Nat PROVE Adding(n) \in Handler /\ Adding(n).then = "added"
  OBVIOUS
<1>1. Edited \in SUBSET Kind
  BY DEF Edited, Kind
<1>2. [i \in 1..n |-> Edited] \in Seq(SUBSET Kind)
  BY <1>1, SeqDef
<1> QED BY <1>2 DEF Adding, Handler

LEMMA OneStep == ASSUME NEW S, NEW x \in S PROVE <<x>> \in Seq(S)
OBVIOUS

LEMMA ChangingHandler ==
  ASSUME NEW what \in SUBSET Kind,
         NEW end \in {"added", "invalidate", "relationships", "pending", "nothing", "to live", "to draft"}
  PROVE  Changing(what, end) \in Handler
<1>1. <<what>> \in Seq(SUBSET Kind)
  BY OneStep
<1> QED BY <1>1 DEF Changing, Handler

LEMMA NotUsedJob == NotUsed \in JobRecord /\ NotUsed.wrote = {} /\ NotUsed.phase = "unused"
BY AddingHandler DEF NotUsed, JobRecord, Phase, Tree

LEMMA AvailableHandlers ==
  ASSUME me \in {"owner", "author"}
  PROVE  \A t : Available(t) \subseteq Handler
<1> SUFFICES ASSUME NEW t PROVE Available(t) \subseteq Handler
  OBVIOUS
<1>1. /\ AddPersonModal \subseteq Handler /\ AddRelationModal \subseteq Handler
      /\ AddBothParentsModal \subseteq Handler /\ AddChildToUnionModal \subseteq Handler
      /\ EditPersonModal \subseteq Handler /\ SelectionPanel \subseteq Handler
  BY AddingHandler DEF AddPersonModal, AddRelationModal, AddBothParentsModal, AddChildToUnionModal,
     EditPersonModal, SelectionPanel
<1>2. /\ EdgeSelectionPanel \subseteq Handler /\ UnionDatesSection \subseteq Handler
      /\ UnionEdge \subseteq Handler /\ PersonProfileModal \subseteq Handler
      /\ AuditLogModal \subseteq Handler /\ MembersModal \subseteq Handler
  <2>1. Edited \in SUBSET Kind /\ {"audit"} \in SUBSET Kind /\ {"relationships", "audit"} \in SUBSET Kind /\ Kind \ {"pending"} \in SUBSET Kind
    BY DEF Edited, Kind
  <2> QED BY <2>1, AddingHandler, ChangingHandler
          DEF EdgeSelectionPanel, UnionDatesSection, UnionEdge, PersonProfileModal, AuditLogModal,
              MembersModal
<1>3. /\ ReviewModal \subseteq Handler /\ ReviewBanner \subseteq Handler
      /\ Post \subseteq Handler /\ Propose \subseteq Handler
  <2>1. Decisions \subseteq SUBSET Kind /\ {"pending"} \in SUBSET Kind /\ {} \in SUBSET Kind
    BY DEF Decisions, Kind
  <2> QED BY <2>1, ChangingHandler DEF ReviewModal, ReviewBanner, Post, Propose
<1>4. Edits(t) \subseteq Handler
  BY <1>1, <1>2 DEF Edits
<1>5. Proposals(t) \subseteq Handler
  BY <1>3 DEF Proposals
<1> QED BY <1>2, <1>4, <1>5 DEF Available

\* A refetch that ends wakes dialogs, and changes nothing else of them.
LEMMA WokenJobs ==
  ASSUME jobs \in [Job -> JobRecord], NEW ks
  PROVE  /\ Woken(ks) \in [Job -> JobRecord]
         /\ \A j \in Job :
              /\ Woken(ks)[j].handler = jobs[j].handler /\ Woken(ks)[j].tree = jobs[j].tree
              /\ Woken(ks)[j].wrote = jobs[j].wrote
              /\ \/ Woken(ks)[j].phase = jobs[j].phase
                 \/ jobs[j].phase = "refetch" /\ Woken(ks)[j].phase = "refetched"
<1> DEFINE w == Woken(ks)
<1>1. ASSUME NEW j \in Job
      PROVE  /\ w[j] = IF jobs[j].phase = "refetch" /\ Graph(jobs[j].awaits) \in ks
                       THEN [jobs[j] EXCEPT !.phase = "refetched"] ELSE jobs[j]
             /\ w[j] \in JobRecord
  BY JobFields DEF Woken, Phase
<1>2. w \in [Job -> JobRecord]
  BY <1>1 DEF Woken
<1>3. ASSUME NEW j \in Job
      PROVE  /\ w[j].handler = jobs[j].handler /\ w[j].tree = jobs[j].tree /\ w[j].wrote = jobs[j].wrote
             /\ \/ w[j].phase = jobs[j].phase
                \/ jobs[j].phase = "refetch" /\ w[j].phase = "refetched"
  <2>1. jobs[j] \in JobRecord
    OBVIOUS
  <2> HIDE DEF w
  <2> QED BY <1>1, <2>1 DEF JobRecord
<1> QED BY <1>2, <1>3

----------------------------------------------------------------------------
\* The steps.

LEMMA InitPage == Init => PageInv
<1> SUFFICES ASSUME Init PROVE PageInv
  OBVIOUS
<1>1. RouteInv
  BY DEF Init, RouteInv, Tree
<1>2. JobsInv
  BY NotUsedJob DEF Init, JobsInv, JobSound
<1>3. ASSUME NEW k \in Key
      PROVE  cache[k] \in Entry /\ cache[k].load \in {"current", "idle"} /\ cache[k].data = "none"
  BY DEF Init, Entry, Contents
<1>4. CacheInv
  <2>1. cache \in [Key -> Entry]
    BY <1>3 DEF Init
  <2> QED BY <2>1, <1>3 DEF CacheInv, Unmarked
<1> QED BY <1>1, <1>2, <1>4 DEF PageInv

LEMMA SettlePage == ASSUME PageInv, NEW k \in Key, Settle(k) PROVE PageInv'
<1> USE DEF PageInv
<1>1. RouteInv'
  BY DEF Settle, RouteInv
<1>2. /\ jobs' \in [Job -> JobRecord]
      /\ \A j \in Job : /\ jobs'[j].handler = jobs[j].handler /\ jobs'[j].tree = jobs[j].tree
                        /\ jobs'[j].wrote = jobs[j].wrote
                        /\ \/ jobs'[j].phase = jobs[j].phase
                           \/ jobs[j].phase = "refetch" /\ jobs'[j].phase = "refetched"
  <2>1. jobs' = Woken({k})
    BY DEF Settle
  <2> QED BY <2>1, WokenJobs DEF JobsInv
<1>3. JobsInv'
  BY <1>2 DEF JobsInv, JobSound
<1>4. cache[k] \in Entry /\ cache[k].load \in Contents
  BY DEF Settle, Loading, CacheInv
<1>5. CASE /\ \E aged \in BOOLEAN :
                cache' = Mounted([cache EXCEPT ![k] = [data |-> cache[k].load, stale |-> FALSE, load |-> "idle"]],
                                 page, aged)
           /\ excused' = IF cache[k].load = "current" THEN excused \ {k} ELSE excused
  <2> DEFINE e == [data |-> cache[k].load, stale |-> FALSE, load |-> "idle"]
             c == [cache EXCEPT ![k] = e]
  <2>1. e \in Entry /\ (Unmarked(e) => cache[k].load = "behind")
    BY <1>4 DEF Entry, Contents, Unmarked
  <2>2. c \in [Key -> Entry] /\ c[k] = e /\ \A x \in Key : x # k => c[x] = cache[x]
    BY <2>1 DEF CacheInv
  <2>3. PICK aged \in BOOLEAN : cache' = Mounted(c, page, aged)
    BY <1>5
  <2> HIDE DEF c, e
  <2>4. cache' \in [Key -> Entry] /\ \A x \in Key : Unmarked(cache'[x]) => Unmarked(c[x])
    BY <2>2, <2>3, MountedEntries
  <2>5. ASSUME NEW x \in Key, Unmarked(cache'[x])
        PROVE  Accounted(x)'
    <3>1. Unmarked(c[x])
      BY <2>4, <2>5
    <3>2. Unmarked(cache[x]) /\ (x = k => cache[k].load = "behind")
      BY <2>1, <2>2, <3>1 DEF Unmarked
    <3>3. Accounted(x)
      BY <3>2 DEF CacheInv
    <3> QED BY <1>2, <1>5, <3>2, <3>3 DEF Accounted
  <2> QED BY <1>1, <1>3, <2>4, <2>5 DEF CacheInv
<1>6. CASE cache' = [cache EXCEPT ![k] = Failed(@)] /\ UNCHANGED excused
  <2>1. Failed(cache[k]) \in Entry /\ ~Unmarked(Failed(cache[k]))
    BY <1>4 DEF Failed, Unmarked, Entry, Contents
  <2>2. /\ cache' \in [Key -> Entry] /\ cache'[k] = Failed(cache[k])
        /\ \A x \in Key : x # k => cache'[x] = cache[x]
    BY <1>6, <2>1 DEF CacheInv
  <2>3. ASSUME NEW x \in Key, Unmarked(cache'[x])
        PROVE  Accounted(x)'
    <3>1. x # k /\ Unmarked(cache[x])
      BY <2>1, <2>2, <2>3
    <3>2. Accounted(x)
      BY <3>1 DEF CacheInv
    <3> QED BY <1>2, <1>6, <3>2 DEF Accounted
  <2> QED BY <1>1, <1>3, <2>2, <2>3 DEF CacheInv
<1> QED BY <1>5, <1>6 DEF Settle

LEMMA ForgetPage == ASSUME PageInv, NEW k \in Key, Forget(k) PROVE PageInv'
<1> USE DEF PageInv
<1>1. RouteInv' /\ JobsInv' /\ jobs' = jobs
  BY DEF Forget, RouteInv, JobsInv
<1> DEFINE e == [data |-> "none", stale |-> FALSE, load |-> "idle"]
<1>2. e \in Entry /\ ~Unmarked(e)
  BY DEF Entry, Unmarked
<1>3. cache' \in [Key -> Entry] /\ cache'[k] = e /\ \A x \in Key : x # k => cache'[x] = cache[x]
  BY <1>2 DEF CacheInv, Forget
<1> HIDE DEF e
<1>4. ASSUME NEW x \in Key, Unmarked(cache'[x])
      PROVE  Accounted(x)'
  <2>1. x # k /\ Accounted(x)
    BY <1>2, <1>3, <1>4 DEF CacheInv
  <2> QED BY <1>1, <2>1 DEF Accounted, Forget
<1> QED BY <1>1, <1>3, <1>4 DEF CacheInv

LEMMA ShownEntries ==
  ASSUME PageInv, NEW p \in [tree : Tree, activity : BOOLEAN], Show(p)
  PROVE  /\ page' = p
         /\ cache' \in [Key -> Entry]
         /\ \A k \in Key : Unmarked(cache'[k]) => Unmarked(cache[k])
<1>1. cache \in [Key -> Entry]
  BY DEF PageInv, CacheInv
<1>2. PICK aged \in BOOLEAN : cache' = Mounted(cache, p, aged)
  BY DEF Show
<1> QED BY <1>1, <1>2, MountedEntries DEF Show

LEMMA RoutePage == ASSUME PageInv, ToggleActivity \/ \E t \in Tree : Go(t) PROVE PageInv'
<1> USE DEF PageInv
<1>1. PICK p \in [tree : Tree, activity : BOOLEAN] : Show(p)
  <2>1. page \in [tree : Tree, activity : BOOLEAN]
    BY DEF RouteInv
  <2>2. CASE ToggleActivity
    <3>1. [page EXCEPT !.activity = ~@] \in [tree : Tree, activity : BOOLEAN]
      BY <2>1
    <3> QED BY <2>2, <3>1 DEF ToggleActivity
  <2>3. ASSUME NEW t \in Tree, Go(t) PROVE \E p \in [tree : Tree, activity : BOOLEAN] : Show(p)
    <3>1. [page EXCEPT !.tree = t] \in [tree : Tree, activity : BOOLEAN]
      BY <2>1
    <3> QED BY <2>3, <3>1 DEF Go
  <2> QED BY <2>2, <2>3
<1>2. page' = p /\ cache' \in [Key -> Entry] /\ \A k \in Key : Unmarked(cache'[k]) => Unmarked(cache[k])
  BY <1>1, ShownEntries
<1>3. UNCHANGED <<me, draft, jobs, excused>>
  BY DEF Go, ToggleActivity
<1>4. RouteInv' /\ JobsInv'
  BY <1>2, <1>3 DEF RouteInv, JobsInv
<1> QED BY <1>2, <1>3, <1>4 DEF CacheInv, Accounted

LEMMA SubmitPage == ASSUME PageInv, NEW j \in Job, Submit(j) PROVE PageInv'
<1> USE DEF PageInv
<1>1. PICK h \in Available(page.tree) :
        jobs' = [jobs EXCEPT ![j] = [NotUsed EXCEPT !.handler = h, !.phase = "sent", !.tree = page.tree]]
  BY DEF Submit
<1>2. h \in Handler /\ page.tree \in Tree
  BY AvailableHandlers DEF RouteInv
<1> DEFINE job == [NotUsed EXCEPT !.handler = h, !.phase = "sent", !.tree = page.tree]
<1>3. job \in JobRecord /\ job.wrote = {} /\ JobSound(job)
  <2> DEFINE t == page.tree
             n == NotUsed
  <2>1. n \in JobRecord /\ n.wrote = {} /\ h \in Handler /\ t \in Tree
    BY <1>2, NotUsedJob
  <2>2. job = [n EXCEPT !.handler = h, !.phase = "sent", !.tree = t]
    OBVIOUS
  <2> HIDE DEF job, n, t
  <2>3. job \in JobRecord
    BY <2>1, <2>2 DEF JobRecord, Phase
  <2>4. job.wrote = {} /\ job.phase = "sent"
    BY <2>1, <2>2 DEF JobRecord
  <2> QED BY <2>3, <2>4 DEF JobSound
<1> HIDE DEF job
<1>4. jobs' \in [Job -> JobRecord] /\ jobs'[j] = job /\ \A i \in Job : i # j => jobs'[i] = jobs[i]
  BY <1>1, <1>3 DEF JobsInv, job
<1>5. JobsInv' /\ RouteInv'
  BY <1>3, <1>4 DEF JobsInv, RouteInv, Submit
<1>6. jobs[j].wrote = {}
  BY DEF Submit, JobsInv, JobSound
<1>7. ASSUME NEW k \in Key, Accounted(k) PROVE Accounted(k)'
  BY <1>4, <1>6, <1>7 DEF Accounted, Submit
<1>8. cache' = cache
  BY DEF Submit
<1> QED BY <1>5, <1>7, <1>8 DEF CacheInv

LEMMA ServePage == ASSUME PageInv, NEW j \in Job, Serve(j) PROVE PageInv'
<1> USE DEF PageInv
<1>1. RouteInv'
  BY DEF Serve, DraftStep, RouteInv
<1> DEFINE job == [jobs[j] EXCEPT !.phase = "answered", !.wrote = @ \cup Written(j)]
<1>2. Written(j) \subseteq Key /\ (jobs[j].handler.then # "to live" => Written(j) \subseteq KeysOf(jobs[j].tree))
  BY DEF Written, KeysOf
<1>3. jobs[j] \in JobRecord /\ JobSound(jobs[j])
  BY DEF JobsInv
<1>4. job \in JobRecord /\ job.wrote = jobs[j].wrote \cup Written(j) /\ JobSound(job)
  <2>1. /\ job = [jobs[j] EXCEPT !.phase = "answered", !.wrote = jobs[j].wrote \cup Written(j)]
        /\ jobs[j].wrote \cup Written(j) \subseteq Key
    BY <1>2, <1>3 DEF JobRecord
  <2> DEFINE w == jobs[j].wrote \cup Written(j)
  <2>2. w \subseteq Key /\ (jobs[j].handler.then # "to live" => w \subseteq KeysOf(jobs[j].tree))
    BY <1>2, <1>3, <2>1 DEF JobSound
  <2>3. job = [jobs[j] EXCEPT !.phase = "answered", !.wrote = w]
    BY <2>1
  <2> HIDE DEF w, job
  <2> DEFINE old == jobs[j]
  <2>5. old \in JobRecord /\ job = [old EXCEPT !.phase = "answered", !.wrote = w]
    BY <1>3, <2>3
  <2> HIDE DEF old
  <2>6. job \in JobRecord
    BY <2>2, <2>5 DEF JobRecord, Phase
  <2>7. job.phase = "answered" /\ job.wrote = w /\ job.handler = old.handler /\ job.tree = old.tree
    BY <2>5 DEF JobRecord
  <2>4. /\ job \in JobRecord /\ job.phase = "answered" /\ job.wrote = w
        /\ job.handler = jobs[j].handler /\ job.tree = jobs[j].tree
    BY <2>6, <2>7 DEF old
  <2> QED BY <2>2, <2>4 DEF JobSound, w
<1>5. jobs' = [jobs EXCEPT ![j] = job]
  BY DEF Serve
<1> HIDE DEF job
<1>6. jobs' \in [Job -> JobRecord] /\ jobs'[j] = job /\ \A i \in Job : i # j => jobs'[i] = jobs[i]
  BY <1>4, <1>5 DEF JobsInv
<1>7. JobsInv'
  BY <1>4, <1>6 DEF JobsInv
<1>8. ASSUME NEW k \in Key
      PROVE  cache'[k] \in Entry /\ (k \notin Written(j) => cache'[k] = cache[k])
  <2>1. cache[k] \in Entry /\ cache'[k] = IF k \in Written(j) THEN Outdated(cache[k]) ELSE cache[k]
    BY DEF Serve, CacheInv
  <2> QED BY <2>1, EntryFields
<1>9. cache' \in [Key -> Entry]
  BY <1>8 DEF Serve
<1>10. ASSUME NEW k \in Key, Unmarked(cache'[k]) PROVE Accounted(k)'
  <2>1. CASE k \in Written(j)
    BY <1>4, <1>6, <2>1 DEF Accounted
  <2>2. CASE k \notin Written(j)
    <3>1. Accounted(k)
      BY <1>8, <1>10, <2>2 DEF CacheInv
    <3>2. excused' = excused \ Written(j)
      BY DEF Serve
    <3> QED BY <1>4, <1>6, <2>2, <3>1, <3>2 DEF Accounted
  <2> QED BY <2>1, <2>2
<1> QED BY <1>1, <1>7, <1>9, <1>10 DEF CacheInv

\* A dialog that ends gives up what it wrote: whatever of it is still unmarked
\* then has to be excused.
LEMMA DoneJobs ==
  ASSUME jobs \in [Job -> JobRecord], \A i \in Job : JobSound(jobs[i]), NEW j \in Job
  PROVE  /\ Done(j) \in [Job -> JobRecord]
         /\ \A i \in Job : JobSound(Done(j)[i]) /\ (i # j => Done(j)[i] = jobs[i])
BY NotUsedJob DEF Done, JobSound

LEMMA FailPage == ASSUME PageInv, NEW j \in Job, Fail(j) PROVE PageInv'
<1> USE DEF PageInv
<1>1. RouteInv' /\ excused \subseteq excused'
  BY DEF Fail, Excuse, RouteInv, JobsInv, JobRecord
<1>2. jobs' = Done(j) /\ UNCHANGED cache
  BY DEF Fail
<1>3. JobsInv' /\ \A i \in Job : i # j => jobs'[i] = jobs[i]
  BY <1>2, DoneJobs DEF JobsInv
<1>4. ASSUME NEW k \in Key, Unmarked(cache[k]) PROVE Accounted(k)'
  <2>1. Accounted(k)
    BY <1>4 DEF CacheInv
  <2>2. k \in jobs[j].wrote => k \in excused'
    BY <1>4 DEF Fail, Excuse, Unmarked
  <2> QED BY <1>1, <1>3, <2>1, <2>2 DEF Accounted
<1> QED BY <1>1, <1>2, <1>3, <1>4 DEF CacheInv

LEMMA NextStepPage == ASSUME PageInv, NEW j \in Job, NextStep(j) PROVE PageInv'
<1> USE DEF PageInv
<1>1. RouteInv' /\ UNCHANGED <<cache, excused>>
  BY DEF NextStep, RouteInv
<1>2. jobs[j] \in JobRecord /\ JobSound(jobs[j])
  BY DEF JobsInv
<1>3. jobs[j].handler \in Handler /\ Len(jobs[j].handler.steps) > 1
  BY <1>2 DEF JobRecord, NextStep
<1> DEFINE h == jobs[j].handler
           h2 == [h EXCEPT !.steps = Tail(h.steps)]
           job == [jobs[j] EXCEPT !.phase = "sent", !.handler = h2]
<1>4. h2 \in Handler /\ h2.then = h.then
  <2>0. h \in Handler /\ Len(h.steps) > 1
    BY <1>3
  <2> HIDE DEF h
  <2>1. h.steps \in Seq(SUBSET Kind)
    BY <2>0 DEF Handler
  <2>2. Tail(h.steps) \in Seq(SUBSET Kind)
    <3> DEFINE s == h.steps
    <3>1. s \in Seq(SUBSET Kind) /\ Len(s) > 1
      BY <2>0, <2>1
    <3> HIDE DEF s
    <3>2. s # <<>>
      BY <3>1
    <3>3. Tail(s) \in Seq(SUBSET Kind)
      BY <3>1, <3>2
    <3> QED BY <3>3 DEF s
  <2>3. h \in Handler
    BY <2>0
  <2> QED BY <2>2, <2>3 DEF Handler
<1>5. jobs' = [jobs EXCEPT ![j] = job]
  BY DEF NextStep
<1> HIDE DEF h2
<1>6. /\ job \in JobRecord /\ job.wrote = jobs[j].wrote /\ job.phase = "sent"
      /\ job.handler = h2 /\ job.tree = jobs[j].tree
  BY <1>2, <1>4 DEF JobRecord, Phase
<1> HIDE DEF job
<1>7. JobSound(job)
  BY <1>2, <1>4, <1>6 DEF JobSound
<1>8. jobs' \in [Job -> JobRecord] /\ jobs'[j] = job /\ \A i \in Job : i # j => jobs'[i] = jobs[i]
  BY <1>5, <1>6 DEF JobsInv
<1>9. JobsInv' /\ \A i \in Job : jobs'[i].wrote = jobs[i].wrote
  BY <1>6, <1>7, <1>8 DEF JobsInv
<1> QED BY <1>1, <1>9 DEF CacheInv, Accounted

LEMMA AddedPage == ASSUME PageInv, NEW j \in Job, Added(j) PROVE PageInv'
<1> USE DEF PageInv
<1>1. RouteInv' /\ UNCHANGED excused
  BY DEF Added, RouteInv
<1>2. cache' \in [Key -> Entry] /\ \A k \in Key : Unmarked(cache'[k]) => Unmarked(cache[k])
  <2>1. cache \in [Key -> Entry] /\ cache' = Fetched(cache, {Graph(page.tree)})
    BY DEF CacheInv, Added
  <2> QED BY <2>1, FetchedEntries
<1> DEFINE ph == IF Graph(page.tree) \in Key THEN "refetch" ELSE "refetched"
<1>h. PICK heard \in SUBSET Restarted(cache') :
        jobs' = [Woken(heard) EXCEPT ![j].awaits = page.tree, ![j].phase = ph]
  BY DEF Added
<1> DEFINE w == Woken(heard)
           job == [w[j] EXCEPT !.awaits = page.tree, !.phase = ph]
<1>3. /\ w \in [Job -> JobRecord]
      /\ \A i \in Job : /\ w[i].handler = jobs[i].handler /\ w[i].tree = jobs[i].tree
                        /\ w[i].wrote = jobs[i].wrote
                        /\ \/ w[i].phase = jobs[i].phase
                           \/ jobs[i].phase = "refetch" /\ w[i].phase = "refetched"
  BY WokenJobs DEF JobsInv
<1>4. jobs' = [w EXCEPT ![j] = job]
  BY <1>h
<1> HIDE DEF w
<1>5. ph \in {"refetch", "refetched"} /\ page.tree \in Tree
  BY DEF RouteInv
<1> HIDE DEF ph
<1>6. /\ job \in JobRecord /\ job.phase = ph /\ job.handler = w[j].handler
      /\ job.tree = w[j].tree /\ job.wrote = w[j].wrote
  BY ZenonT(30), <1>3, <1>5 DEF JobRecord, Phase
<1> HIDE DEF job
<1>7. jobs' \in [Job -> JobRecord] /\ jobs'[j] = job /\ \A i \in Job : i # j => jobs'[i] = w[i]
  BY <1>3, <1>4, <1>6
<1>8. jobs[j].handler.then = "added"
  BY DEF Added, Answered
<1>9. ASSUME NEW i \in Job PROVE JobSound(jobs'[i]) /\ jobs'[i].wrote = jobs[i].wrote
  <2>1. JobSound(jobs[i])
    BY DEF JobsInv
  <2>2. CASE i = j
    BY <1>3, <1>5, <1>6, <1>7, <1>8, <2>1, <2>2 DEF JobSound
  <2>3. CASE i # j
    BY <1>3, <1>7, <2>1, <2>3 DEF JobSound
  <2> QED BY <2>2, <2>3
<1> QED BY <1>1, <1>2, <1>7, <1>9 DEF CacheInv, Accounted, JobsInv

LEMMA InvalidatePage == ASSUME PageInv, NEW j \in Job, Invalidate(j) PROVE PageInv'
<1> USE DEF PageInv
<1> DEFINE ks == KeysOf(jobs[j].tree)
<1>1. /\ RouteInv' /\ excused \subseteq excused'
      /\ \A k \in Key : k \in jobs[j].wrote /\ k \in Overtaken(ks) /\ cache[k].load = "behind" => k \in excused'
  BY DEF Invalidate, Excuse, RouteInv, JobsInv, JobRecord
<1>2. jobs[j].wrote \subseteq ks
  <2>1. jobs[j].handler.then # "to live" /\ JobSound(jobs[j])
    BY DEF Invalidate, Answered, JobsInv, JobSound
  <2> QED BY <2>1 DEF JobSound
<1>3. /\ cache' \in [Key -> Entry]
      /\ \A k \in Key : Unmarked(cache'[k]) =>
           /\ Unmarked(cache[k])
           /\ k \in ks => k \in Overtaken(ks) /\ cache[k].load = "behind"
  <2>1. cache \in [Key -> Entry] /\ cache' = Invalidated(cache, ks)
    BY DEF CacheInv, Invalidate
  <2> HIDE DEF ks
  <2> QED BY <2>1, InvalidatedEntries
<1>h. PICK heard \in SUBSET Restarted(cache') : jobs' = [Woken(heard) EXCEPT ![j] = NotUsed]
  BY DEF Invalidate
<1> DEFINE w == Woken(heard)
<1>4. /\ w \in [Job -> JobRecord]
      /\ \A i \in Job : /\ w[i].handler = jobs[i].handler /\ w[i].tree = jobs[i].tree
                        /\ w[i].wrote = jobs[i].wrote
                        /\ \/ w[i].phase = jobs[i].phase
                           \/ jobs[i].phase = "refetch" /\ w[i].phase = "refetched"
  BY WokenJobs DEF JobsInv
<1>5. jobs' = [w EXCEPT ![j] = NotUsed]
  BY <1>h
<1> HIDE DEF w, ks
<1>6. jobs' \in [Job -> JobRecord] /\ jobs'[j] = NotUsed /\ \A i \in Job : i # j => jobs'[i] = w[i]
  BY <1>4, <1>5, NotUsedJob
<1>7. JobsInv'
  <2>1. JobSound(NotUsed)
    BY NotUsedJob DEF JobSound
  <2>2. ASSUME NEW i \in Job, i # j PROVE JobSound(jobs'[i])
    <3>1. JobSound(jobs[i]) /\ jobs'[i] = w[i]
      BY <1>6, <2>2 DEF JobsInv
    <3> QED BY <1>4, <3>1 DEF JobSound
  <2> QED BY <1>6, <2>1, <2>2 DEF JobsInv
<1>8. ASSUME NEW k \in Key, Unmarked(cache'[k]) PROVE Accounted(k)'
  <2>1. Accounted(k) /\ (k \in jobs[j].wrote => k \in excused')
    BY <1>1, <1>2, <1>3, <1>8 DEF CacheInv
  <2> QED BY <1>1, <1>4, <1>6, <2>1 DEF Accounted
<1> QED BY <1>1, <1>3, <1>7, <1>8 DEF CacheInv

LEMMA RefetchOnePage == ASSUME PageInv, NEW j \in Job, RefetchOne(j) PROVE PageInv'
<1> USE DEF PageInv
<1>1. PICK ks \in SUBSET Key :
        /\ cache' = Fetched(cache, ks)
        /\ jobs' = Done(j)
        /\ Excuse({k \in jobs[j].wrote : k \notin ks \/ Joins(k, cache)})
  <2>1. PICK of \in {"relationships", "pending", "nothing"} :
          /\ cache' = Fetched(cache, {k \in Key : k.tree = page.tree /\ k.of = of})
          /\ jobs' = Done(j)
          /\ Excuse({k \in jobs[j].wrote : k \notin {x \in Key : x.tree = page.tree /\ x.of = of} \/ Joins(k, cache)})
    BY DEF RefetchOne
  <2> DEFINE ks == {k \in Key : k.tree = page.tree /\ k.of = of}
  <2>2. ks \in SUBSET Key
    OBVIOUS
  <2> WITNESS ks \in SUBSET Key
  <2> QED BY <2>1
<1>2. RouteInv' /\ excused \subseteq excused'
  BY <1>1 DEF RefetchOne, Excuse, RouteInv, JobsInv, JobRecord
<1>3. /\ cache' \in [Key -> Entry]
      /\ \A k \in Key : /\ k \in ks /\ ~Joins(k, cache) => cache'[k].load = "current"
                        /\ Unmarked(cache'[k]) => Unmarked(cache[k])
  <2>1. cache \in [Key -> Entry]
    BY DEF CacheInv
  <2> QED BY <1>1, <2>1, FetchedEntries
<1>4. JobsInv' /\ \A i \in Job : i # j => jobs'[i] = jobs[i]
  BY <1>1, DoneJobs DEF JobsInv
<1>5. ASSUME NEW k \in Key, Unmarked(cache'[k]) PROVE Accounted(k)'
  <2>1. Accounted(k) /\ Unmarked(cache[k])
    BY <1>3, <1>5 DEF CacheInv
  <2>2. k \in ks => Joins(k, cache)
    BY <1>3, <1>5 DEF Unmarked
  <2>3. k \in jobs[j].wrote => k \in excused'
    BY <1>1, <2>1, <2>2 DEF Excuse, Unmarked
  <2> QED BY <1>2, <1>4, <2>1, <2>3 DEF Accounted
<1> QED BY <1>2, <1>3, <1>4, <1>5 DEF CacheInv

LEMMA NavigateToPage == ASSUME PageInv, NEW j \in Job, NavigateTo(j) PROVE PageInv'
<1> USE DEF PageInv
<1>1. PICK t \in Tree : Show([page EXCEPT !.tree = t]) /\ jobs' = Done(j) /\ Excuse(jobs[j].wrote)
  BY DEF NavigateTo
<1>2. [page EXCEPT !.tree = t] \in [tree : Tree, activity : BOOLEAN]
  BY DEF RouteInv
<1>3. /\ page' \in [tree : Tree, activity : BOOLEAN]
      /\ cache' \in [Key -> Entry]
      /\ \A k \in Key : Unmarked(cache'[k]) => Unmarked(cache[k])
  BY <1>1, <1>2, ShownEntries
<1>4. RouteInv' /\ excused \subseteq excused'
  BY <1>1, <1>3 DEF NavigateTo, Excuse, RouteInv, JobsInv, JobRecord
<1>5. JobsInv' /\ \A i \in Job : i # j => jobs'[i] = jobs[i]
  BY <1>1, DoneJobs DEF JobsInv
<1>6. ASSUME NEW k \in Key, Unmarked(cache'[k]) PROVE Accounted(k)'
  <2>1. Accounted(k) /\ Unmarked(cache[k])
    BY <1>3, <1>6 DEF CacheInv
  <2>2. k \in jobs[j].wrote => k \in excused'
    BY <1>1, <2>1 DEF Excuse, Unmarked
  <2> QED BY <1>4, <1>5, <2>1, <2>2 DEF Accounted
<1> QED BY <1>3, <1>4, <1>5, <1>6 DEF CacheInv

----------------------------------------------------------------------------
LEMMA PageSteps == PageInv /\ [Next]_vars => PageInv'
<1> SUFFICES ASSUME PageInv, [Next]_vars PROVE PageInv'
  OBVIOUS
<1>1. CASE UNCHANGED vars
  BY <1>1 DEF vars, PageInv, RouteInv, JobsInv, CacheInv, Accounted
<1>2. ASSUME NEW k \in Key, Settle(k) \/ Forget(k) PROVE PageInv'
  BY <1>2, SettlePage, ForgetPage
<1>3. ASSUME NEW j \in Job, Submit(j) \/ Serve(j) \/ Fail(j) \/ After(j) PROVE PageInv'
  BY <1>3, SubmitPage, ServePage, FailPage, NextStepPage, AddedPage, InvalidatePage, RefetchOnePage,
     NavigateToPage DEF After
<1> QED BY <1>1, <1>2, <1>3, RoutePage DEF Next

\* At every step, the dialogs that are not done and the reasons of excused
\* account for each query that would be shown behind an own write (PageInv).
THEOREM PageInvariant == Spec => []PageInv
<1>1. Init => PageInv
  BY InitPage
<1>2. PageInv /\ [Next]_vars => PageInv'
  BY PageSteps
<1> QED BY <1>1, <1>2, PTL DEF Spec

\* Route, draft, cache and dialogs always have their types.
THEOREM TypeCorrect == Spec => []TypeOK
<1>1. PageInv => TypeOK
  BY JobFields DEF PageInv, RouteInv, JobsInv, CacheInv, TypeOK
<1> QED BY <1>1, PageInvariant, PTL

\* For any number of dialogs at work and any of the queries, what is shown from
\* the cache is behind the user's own writes only while it is marked or being
\* loaded, while the dialog that wrote is not done, or for a reason of excused.
THEOREM EditsAreFollowed == Spec => []OwnEditsAreShown
<1>1. PageInv => OwnEditsAreShown
  <2> SUFFICES ASSUME PageInv, NEW k \in Key,
                      cache[k].data = "behind", ~cache[k].stale, ~Loading(k, cache)
               PROVE  Accounted(k)
    BY DEF OwnEditsAreShown, Accounted
  <2>1. Unmarked(cache[k])
    BY DEF Unmarked, Loading, Contents
  <2> QED BY <2>1 DEF PageInv, CacheInv
<1> QED BY <1>1, PageInvariant, PTL

----------------------------------------------------------------------------
\* That no dialog waits for ever is left to TLC, but what fairness could not
\* repair is proved: a dialog waits only for a load that is under way.

AwaitedIsLoading ==
  \A j \in Job : jobs[j].phase = "refetch" =>
    Graph(jobs[j].awaits) \in Key /\ Loading(Graph(jobs[j].awaits), cache)

\* Starting loads stops none.
LEMMA FetchedLoads ==
  ASSUME NEW c \in [Key -> Entry], NEW ks
  PROVE  \A k \in Key : Loading(k, c) \/ k \in ks => Loading(k, Fetched(c, ks))
<1> DEFINE f == Fetched(c, ks)
<1>1. ASSUME NEW k \in Key
      PROVE  f[k].load \in {c[k].load, "current"} /\ (k \in ks /\ ~Joins(k, c) => f[k].load = "current")
  BY FetchedEntries
<1> HIDE DEF f
<1>2. ASSUME NEW k \in Key, Loading(k, c) \/ k \in ks PROVE Loading(k, f)
  BY <1>1, <1>2 DEF Loading, Joins, Contents
<1> QED BY <1>2 DEF f

LEMMA MountedLoads ==
  ASSUME NEW c \in [Key -> Entry], NEW p, NEW aged
  PROVE  \A k \in Key : Loading(k, c) => Loading(k, Mounted(c, p, aged))
<1> DEFINE new == {k \in Key : Observed(k, p, c) /\ ~Observed(k, page, cache)}
           ks == {k \in new : ~Loading(k, c) /\ (c[k].data = "none" \/ c[k].stale \/ aged)}
<1>1. Mounted(c, p, aged) = Fetched(c, ks)
  BY DEF Mounted
<1> HIDE DEF ks
<1> QED BY <1>1, FetchedLoads

LEMMA InvalidatedLoads ==
  ASSUME cache \in [Key -> Entry], NEW ks
  PROVE  \A k \in Key : Loading(k, cache) => Loading(k, Invalidated(cache, ks))
<1> DEFINE m == Marked(cache, ks)
           seen == {k \in ks : Observed(k, page, cache)}
<1>1. Invalidated(cache, ks) = Fetched(m, seen)
  BY DEF Invalidated
<1>2. m \in [Key -> Entry] /\ \A k \in Key : m[k].load = cache[k].load
  BY MarkedEntries
<1> HIDE DEF m, seen
<1>3. \A k \in Key : Loading(k, m) => Loading(k, Fetched(m, seen))
  BY <1>2, FetchedLoads
<1> QED BY <1>1, <1>2, <1>3 DEF Loading

\* A dialog that is not woken goes on waiting for what it waited for.
LEMMA NotWoken ==
  ASSUME jobs \in [Job -> JobRecord], NEW ks, NEW j \in Job, Woken(ks)[j].phase = "refetch"
  PROVE  /\ jobs[j].phase = "refetch" /\ Woken(ks)[j].awaits = jobs[j].awaits
         /\ Graph(jobs[j].awaits) \notin ks
<1> DEFINE w == Woken(ks)[j]
<1>1. w = IF jobs[j].phase = "refetch" /\ Graph(jobs[j].awaits) \in ks
          THEN [jobs[j] EXCEPT !.phase = "refetched"] ELSE jobs[j]
  BY DEF Woken
<1>2. jobs[j] \in JobRecord /\ w.phase = "refetch"
  OBVIOUS
<1> HIDE DEF w
<1>3. ~(jobs[j].phase = "refetch" /\ Graph(jobs[j].awaits) \in ks)
  <2> SUFFICES ASSUME w = [jobs[j] EXCEPT !.phase = "refetched"] PROVE FALSE
    BY <1>1
  <2> QED BY <1>2 DEF JobRecord
<1>4. w = jobs[j]
  BY <1>1, <1>3
<1> QED BY <1>2, <1>3, <1>4 DEF w

LEMMA SettleAwaited ==
  ASSUME PageInv, AwaitedIsLoading, NEW k \in Key, Settle(k)
  PROVE  AwaitedIsLoading'
<1> SUFFICES ASSUME NEW j \in Job, jobs'[j].phase = "refetch"
             PROVE  Graph(jobs'[j].awaits) \in Key /\ Loading(Graph(jobs'[j].awaits), cache')
  BY DEF AwaitedIsLoading
<1>1. cache \in [Key -> Entry] /\ jobs \in [Job -> JobRecord] /\ jobs' = Woken({k})
  BY DEF PageInv, CacheInv, JobsInv, Settle
<1>2. /\ jobs[j].phase = "refetch" /\ jobs'[j].awaits = jobs[j].awaits
      /\ Graph(jobs[j].awaits) # k
  BY <1>1, NotWoken
<1> DEFINE g == Graph(jobs[j].awaits)
<1>3. g \in Key /\ Loading(g, cache) /\ g # k
  BY <1>2 DEF AwaitedIsLoading
<1> HIDE DEF g
<1>4. Loading(g, cache')
  <2>1. CASE \E aged \in BOOLEAN :
               cache' = Mounted([cache EXCEPT ![k] = [data |-> cache[k].load, stale |-> FALSE, load |-> "idle"]],
                                page, aged)
    <3> DEFINE e == [data |-> cache[k].load, stale |-> FALSE, load |-> "idle"]
               c == [cache EXCEPT ![k] = e]
    <3>1. e \in Entry
      BY DEF Entry, Contents, Settle, Loading
    <3>2. c \in [Key -> Entry] /\ c[g] = cache[g]
      BY <1>1, <1>3, <3>1
    <3>3. PICK aged \in BOOLEAN : cache' = Mounted(c, page, aged)
      BY <2>1
    <3> HIDE DEF c
    <3> QED BY <1>3, <3>2, <3>3, MountedLoads DEF Loading
  <2>2. CASE cache' = [cache EXCEPT ![k] = Failed(@)]
    BY <1>1, <1>3, <2>2 DEF Loading
  <2> QED BY <2>1, <2>2 DEF Settle
<1> QED BY <1>2, <1>3, <1>4 DEF g

\* What every other step leaves: a dialog that waits was waiting before, for the
\* same graph, or has just started its load.
LEMMA OtherAwaited ==
  ASSUME PageInv, AwaitedIsLoading,
         \A k \in Key : Loading(k, cache) /\ (\E i \in Job : k = Graph(jobs[i].awaits) /\ jobs[i].phase = "refetch")
                          => Loading(k, cache'),
         NEW j \in Job, jobs'[j].phase = "refetch",
         jobs[j].phase = "refetch" /\ jobs'[j].awaits = jobs[j].awaits
  PROVE  Graph(jobs'[j].awaits) \in Key /\ Loading(Graph(jobs'[j].awaits), cache')
BY DEF AwaitedIsLoading

LEMMA DialogAwaited ==
  ASSUME PageInv, AwaitedIsLoading, NEW i \in Job, Submit(i) \/ Serve(i) \/ Fail(i) \/ NextStep(i)
  PROVE  AwaitedIsLoading'
<1> SUFFICES ASSUME NEW j \in Job, jobs'[j].phase = "refetch"
             PROVE  Graph(jobs'[j].awaits) \in Key /\ Loading(Graph(jobs'[j].awaits), cache')
  BY DEF AwaitedIsLoading
<1>1. cache \in [Key -> Entry] /\ jobs \in [Job -> JobRecord] /\ jobs[i] \in JobRecord
  BY DEF PageInv, CacheInv, JobsInv
<1>2. ASSUME NEW k \in Key, Loading(k, cache) PROVE Loading(k, cache')
  <2>1. CASE Serve(i)
    <3>1. cache[k] \in Entry /\ cache'[k] = IF k \in Written(i) THEN Outdated(cache[k]) ELSE cache[k]
      BY <1>1, <2>1 DEF Serve
    <3>2. Outdated(cache[k]).load \in Contents
      BY <1>2, <3>1 DEF Outdated, Loading, Contents, Entry
    <3> QED BY <1>2, <3>1, <3>2 DEF Loading
  <2>2. CASE ~Serve(i)
    <3>1. cache' = cache
      BY <2>2 DEF Submit, Fail, NextStep
    <3> QED BY <1>2, <3>1
  <2> QED BY <2>1, <2>2
<1>3. jobs'[i].phase # "refetch" /\ \A x \in Job : x # i => jobs'[x] = jobs[x]
  <2>0. \A job \in JobRecord : \A h, t : [job EXCEPT !.handler = h, !.phase = "sent", !.tree = t].phase = "sent"
    BY DEF JobRecord
  <2>1. CASE Submit(i)
    <3>1. PICK h : jobs' = [jobs EXCEPT ![i] = [NotUsed EXCEPT !.handler = h, !.phase = "sent", !.tree = page.tree]]
      BY <2>1 DEF Submit
    <3> DEFINE n == NotUsed
               t == page.tree
    <3>2. n \in JobRecord
      BY NotUsedJob
    <3>3. jobs' = [jobs EXCEPT ![i] = [n EXCEPT !.handler = h, !.phase = "sent", !.tree = t]]
      BY <3>1
    <3> HIDE DEF n, t
    <3> QED BY <1>1, <2>0, <3>2, <3>3
  <2>2. CASE Serve(i)
    <3>1. \A job \in JobRecord : \A w : [job EXCEPT !.phase = "answered", !.wrote = w].phase = "answered"
      BY DEF JobRecord
    <3> QED BY <1>1, <2>2, <3>1 DEF Serve
  <2>3. CASE Fail(i)
    BY <1>1, <2>3, NotUsedJob DEF Fail, Done
  <2>4. CASE NextStep(i)
    <3>1. \A job \in JobRecord : \A h : [job EXCEPT !.phase = "sent", !.handler = h].phase = "sent"
      BY DEF JobRecord
    <3> DEFINE h == [jobs[i].handler EXCEPT !.steps = Tail(@)]
    <3>2. jobs' = [jobs EXCEPT ![i] = [jobs[i] EXCEPT !.phase = "sent", !.handler = h]]
      BY <2>4 DEF NextStep
    <3> HIDE DEF h
    <3> QED BY <1>1, <3>1, <3>2
  <2> QED BY <2>1, <2>2, <2>3, <2>4
<1> QED BY <1>2, <1>3, OtherAwaited

LEMMA EndAwaited ==
  ASSUME PageInv, AwaitedIsLoading, NEW i \in Job, RefetchOne(i) \/ NavigateTo(i)
  PROVE  AwaitedIsLoading'
<1> SUFFICES ASSUME NEW j \in Job, jobs'[j].phase = "refetch"
             PROVE  Graph(jobs'[j].awaits) \in Key /\ Loading(Graph(jobs'[j].awaits), cache')
  BY DEF AwaitedIsLoading
<1>1. cache \in [Key -> Entry] /\ jobs \in [Job -> JobRecord]
  BY DEF PageInv, CacheInv, JobsInv
<1>2. \A k \in Key : Loading(k, cache) => Loading(k, cache')
  <2>1. CASE RefetchOne(i)
    <3>1. \E ks : cache' = Fetched(cache, ks)
      <4>1. PICK of \in {"relationships", "pending", "nothing"} :
              cache' = Fetched(cache, {k \in Key : k.tree = page.tree /\ k.of = of})
        BY <2>1 DEF RefetchOne
      <4> QED BY <4>1
    <3> QED BY <1>1, <3>1, FetchedLoads
  <2>2. CASE NavigateTo(i)
    <3>1. \E p, aged : cache' = Mounted(cache, p, aged)
      <4>1. PICK t \in Tree : Show([page EXCEPT !.tree = t])
        BY <2>2 DEF NavigateTo
      <4> QED BY <4>1 DEF Show
    <3> QED BY <1>1, <3>1, MountedLoads
  <2> QED BY <2>1, <2>2
<1>3. jobs' = Done(i)
  BY DEF RefetchOne, NavigateTo
<1>4. jobs'[i].phase = "unused" /\ \A x \in Job : x # i => jobs'[x] = jobs[x]
  BY <1>1, <1>3, NotUsedJob DEF Done
<1> QED BY <1>2, <1>4, OtherAwaited

LEMMA RefreshAwaited ==
  ASSUME PageInv, AwaitedIsLoading, NEW i \in Job, Added(i) \/ Invalidate(i)
  PROVE  AwaitedIsLoading'
<1> SUFFICES ASSUME NEW j \in Job, jobs'[j].phase = "refetch"
             PROVE  Graph(jobs'[j].awaits) \in Key /\ Loading(Graph(jobs'[j].awaits), cache')
  BY DEF AwaitedIsLoading
<1>1. cache \in [Key -> Entry] /\ jobs \in [Job -> JobRecord]
  BY DEF PageInv, CacheInv, JobsInv
<1>2. \A k \in Key : Loading(k, cache) => Loading(k, cache')
  BY <1>1, FetchedLoads, InvalidatedLoads DEF Added, Invalidate
<1>3. ASSUME NEW ks, jobs'[j] = Woken(ks)[j]
      PROVE  Graph(jobs'[j].awaits) \in Key /\ Loading(Graph(jobs'[j].awaits), cache')
  <2>1. jobs[j].phase = "refetch" /\ jobs'[j].awaits = jobs[j].awaits
    BY <1>1, <1>3, NotWoken
  <2> QED BY <1>2, <2>1, OtherAwaited
<1>4. CASE Invalidate(i)
  <2>1. PICK heard \in SUBSET Restarted(cache') : jobs' = [Woken(heard) EXCEPT ![i] = NotUsed]
    BY <1>4 DEF Invalidate
  <2>2. Woken(heard) \in [Job -> JobRecord]
    BY <1>1, WokenJobs
  <2>3. j # i /\ jobs'[j] = Woken(heard)[j]
    BY <2>1, <2>2, NotUsedJob
  <2> QED BY <1>3, <2>3
<1>5. CASE Added(i)
  <2> DEFINE ph == IF Graph(page.tree) \in Key THEN "refetch" ELSE "refetched"
  <2>1. PICK heard \in SUBSET Restarted(cache') :
          jobs' = [Woken(heard) EXCEPT ![i].awaits = page.tree, ![i].phase = ph]
    BY <1>5 DEF Added
  <2> DEFINE w == Woken(heard)
             job == [w[i] EXCEPT !.awaits = page.tree, !.phase = ph]
  <2>2. jobs' = [w EXCEPT ![i] = job]
    BY <2>1
  <2> HIDE DEF ph
  <2>3. w \in [Job -> JobRecord]
    BY <1>1, WokenJobs
  <2>4. CASE j # i
    <3>1. jobs'[j] = Woken(heard)[j]
      BY <2>2, <2>3, <2>4
    <3> QED BY <1>3, <3>1
  <2>5. CASE j = i
    <3> HIDE DEF w
    <3>1. w[i] \in JobRecord
      BY <2>3
    <3>2. job.phase = ph /\ job.awaits = page.tree
      BY <3>1 DEF JobRecord
    <3> HIDE DEF job
    <3>3. jobs'[j] = job
      BY <2>2, <2>3, <2>5
    <3>4. Graph(page.tree) \in Key
      BY <3>2, <3>3 DEF ph
    <3>5. Loading(Graph(page.tree), cache')
      BY <1>1, <1>5, <3>4, FetchedLoads DEF Added
    <3> QED BY <3>2, <3>3, <3>4, <3>5
  <2> QED BY <2>4, <2>5
<1> QED BY <1>4, <1>5

LEMMA AwaitedSteps == PageInv /\ AwaitedIsLoading /\ [Next]_vars => AwaitedIsLoading'
<1> SUFFICES ASSUME PageInv, AwaitedIsLoading, [Next]_vars PROVE AwaitedIsLoading'
  OBVIOUS
<1>1. CASE UNCHANGED vars
  BY <1>1 DEF vars, AwaitedIsLoading
<1>2. ASSUME NEW k \in Key, Forget(k) PROVE AwaitedIsLoading'
  <2>1. /\ jobs' = jobs /\ ~Loading(k, cache)
        /\ \A x \in Key : x # k => cache'[x] = cache[x]
    BY <1>2 DEF Forget, PageInv, CacheInv
  <2> QED BY <2>1 DEF AwaitedIsLoading, Loading
<1>3. ASSUME ToggleActivity \/ \E t \in Tree : Go(t) PROVE AwaitedIsLoading'
  <2>1. cache \in [Key -> Entry] /\ jobs' = jobs
    BY <1>3 DEF PageInv, CacheInv, ToggleActivity, Go
  <2>2. \E p, aged : cache' = Mounted(cache, p, aged)
    BY <1>3 DEF ToggleActivity, Go, Show
  <2>3. \A k \in Key : Loading(k, cache) => Loading(k, cache')
    BY <2>1, <2>2, MountedLoads
  <2> QED BY <2>1, <2>3 DEF AwaitedIsLoading
<1>4. ASSUME NEW j \in Job, Submit(j) \/ Serve(j) \/ Fail(j) \/ After(j) PROVE AwaitedIsLoading'
  BY <1>4, DialogAwaited, EndAwaited, RefreshAwaited DEF After
<1> QED BY <1>1, <1>2, <1>3, <1>4, SettleAwaited DEF Next

\* For any number of dialogs and any of the queries, a dialog whose handleAdded
\* has not come back from its await waits for a load that is under way: it is
\* woken by every end of that load, also when the page has gone to another tree,
\* a restart wakes it or leaves it waiting for the newer load, and a query waited
\* for is not forgotten.
THEOREM NoWakeUpIsLost == Spec => []AwaitedIsLoading
<1>1. Init => AwaitedIsLoading
  BY NotUsedJob DEF Init, AwaitedIsLoading
<1>2. PageInv /\ AwaitedIsLoading /\ [Next]_vars => AwaitedIsLoading'
  BY AwaitedSteps
<1> QED BY <1>1, <1>2, PageInvariant, PTL DEF Spec

----------------------------------------------------------------------------
\* The canvas.  Its loops are functions of the round, which the prover knows
\* nothing of: first what a loop is.

\* The least element of a set of numbers, for the inductions below.
LEMMA LeastOf ==
  ASSUME NEW S \in SUBSET Nat, S # {}
  PROVE  \E m \in S : \A k \in S : m <= k
<1>1. PICK m \in S : \A k \in S : <<k, m>> \notin OpToRel(<, Nat)
  BY NatLessThanWellFounded, WFMin
<1>2. ASSUME NEW k \in S PROVE m <= k
  <2>1. m \in Nat /\ k \in Nat /\ ~(k < m)
    BY <1>1 DEF OpToRel
  <2> QED BY <2>1
<1> QED BY <1>2

\* The function of Loop: what the loop has built after each round.
IsLoop(body, start, n, after) ==
  after = [i \in 0..n |-> IF i = 0 THEN start ELSE body[i][after[i - 1]]]

LEMMA LoopExists ==
  ASSUME NEW body, NEW start, NEW n \in Nat
  PROVE  \E after : IsLoop(body, start, n, after)
<1> DEFINE bad == {m \in Nat : ~\E after : IsLoop(body, start, m, after)}
<1>1. SUFFICES ASSUME bad # {} PROVE FALSE
  OBVIOUS
<1>2. PICK m \in bad : \A k \in bad : m <= k
  BY <1>1, LeastOf
<1>3. m \in Nat /\ ~\E after : IsLoop(body, start, m, after)
  OBVIOUS
<1>4. CASE m = 0
  <2> DEFINE once == [i \in 0..0 |-> start]
  <2>1. once = [i \in 0..0 |-> IF i = 0 THEN start ELSE body[i][once[i - 1]]]
    OBVIOUS
  <2>2. IsLoop(body, start, 0, once)
    BY <2>1 DEF IsLoop
  <2> QED BY <1>3, <1>4, <2>2
<1>5. CASE m # 0
  <2>1. m - 1 \in Nat /\ m - 1 \notin bad
    BY <1>2, <1>3, <1>5
  <2>2. PICK before : IsLoop(body, start, m - 1, before)
    BY <2>1
  <2> DEFINE last == body[m][before[m - 1]]
             longer == [i \in 0..m |-> IF i = m THEN last ELSE before[i]]
  <2>3. \A i \in 0..(m - 1) : before[i] = IF i = 0 THEN start ELSE body[i][before[i - 1]]
    BY <1>3, <2>2 DEF IsLoop
  <2>4. ASSUME NEW i \in 0..m
        PROVE  longer[i] = IF i = 0 THEN start ELSE body[i][longer[i - 1]]
    <3>1. CASE i = m
      BY <1>3, <1>5, <3>1
    <3>2. CASE i # m
      <4>1. i \in 0..(m - 1) /\ longer[i] = before[i]
        BY <1>3, <3>2
      <4>2. i # 0 => longer[i - 1] = before[i - 1]
        BY <1>3, <3>2
      <4> QED BY <2>3, <4>1, <4>2
    <3> QED BY <3>1, <3>2
  <2>5. longer = [i \in 0..m |-> IF i = 0 THEN start ELSE body[i][longer[i - 1]]]
    <3> HIDE DEF last
    <3> QED BY <2>4
  <2> HIDE DEF longer
  <2>6. IsLoop(body, start, m, longer)
    BY <2>5 DEF IsLoop
  <2> QED BY <1>3, <2>6
<1> QED BY <1>4, <1>5

LEMMA LoopIs ==
  ASSUME NEW body, NEW start, NEW n \in Nat
  PROVE  \E after : /\ Loop(body, start, n) = after[n]
                    /\ \A i \in 0..n : after[i] = IF i = 0 THEN start ELSE body[i][after[i - 1]]
<1> DEFINE after == CHOOSE h : IsLoop(body, start, n, h)
<1>1. IsLoop(body, start, n, after)
  BY LoopExists
<1>2. Loop(body, start, n) = after[n]
  BY DEF Loop, IsLoop
<1> HIDE DEF after
<1>3. \A i \in 0..n : after[i] = IF i = 0 THEN start ELSE body[i][after[i - 1]]
  BY <1>1 DEF IsLoop
<1> QED BY <1>2, <1>3

\* The equations of a loop.
LEMMA LoopRounds ==
  ASSUME NEW body, NEW start, NEW n \in Nat
  PROVE  /\ Loop(body, start, 0) = start
         /\ Loop(body, start, n + 1) = body[n + 1][Loop(body, start, n)]
<1>1. Loop(body, start, 0) = start
  BY LoopIs
<1>2. Loop(body, start, n + 1) = body[n + 1][Loop(body, start, n)]
  <2>1. PICK f : /\ Loop(body, start, n) = f[n]
                 /\ \A i \in 0..n : f[i] = IF i = 0 THEN start ELSE body[i][f[i - 1]]
    BY LoopIs
  <2>2. n + 1 \in Nat
    OBVIOUS
  <2>3. PICK h : /\ Loop(body, start, n + 1) = h[n + 1]
                 /\ \A i \in 0..(n + 1) : h[i] = IF i = 0 THEN start ELSE body[i][h[i - 1]]
    BY <2>2, LoopIs
  <2> DEFINE bad == {i \in 0..n : f[i] # h[i]}
  <2>4. bad = {}
    <3>1. SUFFICES ASSUME bad # {} PROVE FALSE
      OBVIOUS
    <3>2. PICK m \in bad : \A k \in bad : m <= k
      <4>1. bad \in SUBSET Nat
        OBVIOUS
      <4> HIDE DEF bad
      <4> QED BY <3>1, <4>1, LeastOf
    <3>3. m \in 0..n /\ m \in 0..(n + 1) /\ f[m] # h[m]
      OBVIOUS
    <3>4. m # 0
      BY <2>1, <2>3, <3>3
    <3>5. m - 1 \in 0..n /\ f[m - 1] = h[m - 1]
      BY <3>2, <3>3, <3>4
    <3> QED BY <2>1, <2>3, <3>3, <3>4, <3>5
  <2>5. f[n] = h[n]
    BY <2>4
  <2>6. h[n + 1] = body[n + 1][h[n]]
    <3>1. n + 1 \in 0..(n + 1) /\ n + 1 # 0 /\ (n + 1) - 1 = n
      OBVIOUS
    <3> QED BY <2>3, <3>1
  <2> QED BY <2>1, <2>3, <2>5, <2>6
<1> QED BY <1>1, <1>2

\* What holds before a loop and is kept by each round, said of the round, holds
\* after every round.
LEMMA LoopInvariant ==
  ASSUME NEW body, NEW start, NEW n \in Nat, NEW Inv,
         start \in Inv[0],
         \A i \in 1..n : \A s \in Inv[i - 1] : body[i][s] \in Inv[i]
  PROVE  \A i \in 0..n : Loop(body, start, i) \in Inv[i]
<1> DEFINE bad == {i \in 0..n : Loop(body, start, i) \notin Inv[i]}
<1>1. SUFFICES ASSUME bad # {} PROVE FALSE
  OBVIOUS
<1>2. PICK m \in bad : \A k \in bad : m <= k
  <2>1. bad \in SUBSET Nat
    OBVIOUS
  <2> HIDE DEF bad
  <2> QED BY <1>1, <2>1, LeastOf
<1>3. m \in 0..n /\ Loop(body, start, m) \notin Inv[m]
  OBVIOUS
<1>4. m # 0
  BY <1>3, LoopRounds
<1>5. m - 1 \in Nat /\ m - 1 \in 0..n /\ m \in 1..n /\ (m - 1) + 1 = m /\ m - 1 \notin bad
  BY <1>2, <1>3, <1>4
<1>6. Loop(body, start, m - 1) \in Inv[m - 1]
  BY <1>5
<1>7. Loop(body, start, m) = body[m][Loop(body, start, m - 1)]
  <2>1. Loop(body, start, (m - 1) + 1) = body[(m - 1) + 1][Loop(body, start, m - 1)]
    BY <1>5, LoopRounds
  <2> QED BY <1>5, <2>1
<1> QED BY <1>3, <1>5, <1>6, <1>7

\* A loop whose body is the same in every round.
LEMMA WalkRounds ==
  ASSUME NEW D, NEW f \in [D -> D], NEW x \in D, NEW n \in Nat
  PROVE  /\ Repeat(f, x, n) \in D
         /\ Repeat(f, x, 0) = x
         /\ Repeat(f, x, n + 1) = f[Repeat(f, x, n)]
<1> DEFINE body == [i \in Nat |-> f]
           Inv == [i \in Nat |-> D]
<1>1. \A i \in 1..n : \A s \in Inv[i - 1] : body[i][s] \in Inv[i]
  OBVIOUS
<1>2. x \in Inv[0]
  OBVIOUS
<1>3. n \in 0..n /\ Inv[n] = D /\ body[n + 1] = f
  OBVIOUS
<1> HIDE DEF body, Inv
<1>4. Loop(body, x, n) \in D
  BY <1>1, <1>2, <1>3, LoopInvariant
<1>5. Loop(body, x, 0) = x /\ Loop(body, x, n + 1) = f[Loop(body, x, n)]
  BY <1>3, LoopRounds
<1> QED BY <1>4, <1>5 DEF body, Repeat

\* A walk that only adds reaches at least as much in more rounds.
LEMMA WalkGrows ==
  ASSUME NEW D, NEW f \in [D -> D], \A S \in D : S \subseteq f[S], NEW x \in D,
         NEW m \in Nat, NEW n \in Nat, m <= n
  PROVE  Repeat(f, x, m) \subseteq Repeat(f, x, n)
<1> DEFINE walk(k) == Repeat(f, x, k)
           bad == {k \in Nat : m <= k /\ ~(walk(m) \subseteq walk(k))}
<1>1. SUFFICES ASSUME bad # {} PROVE FALSE
  OBVIOUS
<1>2. PICK k \in bad : \A l \in bad : k <= l
  <2>1. bad \in SUBSET Nat
    OBVIOUS
  <2> HIDE DEF bad
  <2> QED BY <1>1, <2>1, LeastOf
<1>3. k \in Nat /\ m <= k /\ ~(walk(m) \subseteq walk(k))
  OBVIOUS
<1>4. k # m
  BY <1>3
<1>5. k - 1 \in Nat /\ m <= k - 1 /\ (k - 1) + 1 = k /\ k - 1 \notin bad
  BY <1>2, <1>3, <1>4
<1>6. walk(m) \subseteq walk(k - 1)
  BY <1>5
<1>7. walk(k - 1) \in D /\ walk((k - 1) + 1) = f[walk(k - 1)]
  BY <1>5, WalkRounds
<1>8. walk(k) = f[walk(k - 1)]
  BY <1>5, <1>7
<1> HIDE DEF walk
<1> QED BY <1>3, <1>6, <1>7, <1>8

----------------------------------------------------------------------------
\* Who is related to whom, within so many generations.

\* Relatives are persons of the graph.
LEMMA Relatives ==
  ASSUME graph \subseteq Person
  PROVE  /\ \A g : Parents(g) \subseteq graph /\ Children(g) \subseteq graph
         /\ \A S : AllParents(S) \subseteq Person /\ AllChildren(S) \subseteq Person
         /\ \A q : BinParents(q) \subseteq Person
BY DEF Parents, Children, AllParents, AllChildren, BinParents

LEMMA AncestorWalk ==
  ASSUME graph \subseteq Person, NEW p \in Person, NEW n \in Nat
  PROVE  /\ Ancestors(p, n) \in SUBSET Person
         /\ Ancestors(p, 0) = {p}
         /\ Ancestors(p, n + 1) = Ancestors(p, n) \cup AllParents(Ancestors(p, n))
         /\ \A m \in Nat : m <= n => Ancestors(p, m) \subseteq Ancestors(p, n)
<1> DEFINE f == [S \in SUBSET Person |-> S \cup AllParents(S)]
           D == SUBSET Person
<1>1. f \in [D -> D] /\ {p} \in D
  BY Relatives
<1>2. \A S \in D : f[S] = S \cup AllParents(S) /\ S \subseteq f[S]
  OBVIOUS
<1>3. \A m : Ancestors(p, m) = Repeat(f, {p}, m)
  BY DEF Ancestors
<1> HIDE DEF f, D
<1>4. /\ Ancestors(p, n) \in SUBSET Person
      /\ Ancestors(p, 0) = {p}
      /\ Ancestors(p, n + 1) = f[Ancestors(p, n)]
  <2>1. Repeat(f, {p}, n) \in D
    BY <1>1, WalkRounds
  <2>2. Repeat(f, {p}, 0) = {p}
    BY <1>1, WalkRounds
  <2>3. Repeat(f, {p}, n + 1) = f[Repeat(f, {p}, n)]
    BY <1>1, WalkRounds
  <2> QED BY <1>3, <2>1, <2>2, <2>3 DEF D
<1>5. ASSUME NEW m \in Nat, m <= n PROVE Ancestors(p, m) \subseteq Ancestors(p, n)
  <2>1. Repeat(f, {p}, m) \subseteq Repeat(f, {p}, n)
    BY <1>1, <1>2, <1>5, WalkGrows
  <2> QED BY <1>3, <2>1
<1> QED BY <1>2, <1>4, <1>5 DEF D

LEMMA DescendantWalk ==
  ASSUME graph \subseteq Person, NEW p \in Person, NEW n \in Nat
  PROVE  /\ Descendants(p, n) \in SUBSET Person
         /\ Descendants(p, 0) = {p}
         /\ Descendants(p, n + 1) = Descendants(p, n) \cup AllChildren(Descendants(p, n))
         /\ \A m \in Nat : m <= n => Descendants(p, m) \subseteq Descendants(p, n)
<1> DEFINE f == [S \in SUBSET Person |-> S \cup AllChildren(S)]
           D == SUBSET Person
<1>1. f \in [D -> D] /\ {p} \in D
  BY Relatives
<1>2. \A S \in D : f[S] = S \cup AllChildren(S) /\ S \subseteq f[S]
  OBVIOUS
<1>3. \A m : Descendants(p, m) = Repeat(f, {p}, m)
  BY DEF Descendants
<1> HIDE DEF f, D
<1>4. /\ Descendants(p, n) \in SUBSET Person
      /\ Descendants(p, 0) = {p}
      /\ Descendants(p, n + 1) = f[Descendants(p, n)]
  <2>1. Repeat(f, {p}, n) \in D
    BY <1>1, WalkRounds
  <2>2. Repeat(f, {p}, 0) = {p}
    BY <1>1, WalkRounds
  <2>3. Repeat(f, {p}, n + 1) = f[Repeat(f, {p}, n)]
    BY <1>1, WalkRounds
  <2> QED BY <1>3, <2>1, <2>2, <2>3 DEF D
<1>5. ASSUME NEW m \in Nat, m <= n PROVE Descendants(p, m) \subseteq Descendants(p, n)
  <2>1. Repeat(f, {p}, m) \subseteq Repeat(f, {p}, n)
    BY <1>1, <1>2, <1>5, WalkGrows
  <2> QED BY <1>3, <2>1
<1> QED BY <1>2, <1>4, <1>5 DEF D

\* A set with two elements has more than one.
LEMMA MoreThanOne ==
  ASSUME NEW S, IsFiniteSet(S), NEW a \in S, NEW b \in S, a # b
  PROVE  Cardinality(S) > 1
<1>1. IsFiniteSet({a}) /\ Cardinality({a}) = 1
  BY FS_Singleton
<1>2. IsFiniteSet({a} \cup {b}) /\ Cardinality({a} \cup {b}) = 1 + 1
  BY <1>1, FS_AddElement
<1>3. {a} \cup {b} \subseteq S
  OBVIOUS
<1>4. Cardinality({a} \cup {b}) <= Cardinality(S) /\ Cardinality(S) \in Nat
  BY <1>3, FS_Subset, FS_CardinalityType
<1> QED BY <1>2, <1>4

\* Whoever has one family of origin has bins for all the parents.
LEMMA OneOrigin ==
  ASSUME NEW p, ~(Cardinality(Origins(p)) > 1)
  PROVE  AllParents({p}) = BinParents(p)
<1>1. IsFiniteSet(Origins(p))
  <2>1. IsFiniteSet(Group) /\ Origins(p) \subseteq Group
    BY CanvasAssumption, FS_Interval DEF Group, Origins
  <2> QED BY <2>1, FS_Subset
<1>2. \A g, h \in Origins(p) : g = h
  BY <1>1, MoreThanOne
<1>3. Origins(p) \subseteq Nat
  BY CanvasAssumption DEF Origins, Group
<1>4. LastOrigin(p) = Origins(p)
  BY <1>2, <1>3 DEF LastOrigin
<1> QED BY <1>4 DEF AllParents, BinParents

\* As long as nobody has a second family of origin the bins hold all ancestors.
LEMMA BinsHoldAncestors ==
  ASSUME graph \subseteq Person, NEW p \in Person,
         NEW depth \in Nat, NEW limit \in Nat, depth <= limit,
         \A q \in Ancestors(p, depth) \cap graph : ~(Cardinality(Origins(q)) > 1)
  PROVE  Ancestors(p, depth) \subseteq Bins(p, limit)
<1> USE CanvasAssumption
<1> DEFINE f == [S \in SUBSET Person |-> S \cup UNION {BinParents(q) : q \in S}]
           D == SUBSET Person
           bins(n) == Repeat(f, {p}, n)
           bad == {n \in 0..depth : ~(Ancestors(p, n) \subseteq bins(n))}
<1>1. f \in [D -> D] /\ {p} \in D
  BY Relatives
<1>2. \A S \in D : f[S] = S \cup UNION {BinParents(q) : q \in S} /\ S \subseteq f[S]
  OBVIOUS
<1>3. Bins(p, limit) = bins(limit)
  BY DEF Bins
<1> HIDE DEF f, D
<1>4. ASSUME NEW n \in Nat
      PROVE  bins(n) \in D /\ bins(0) = {p} /\ bins(n + 1) = f[bins(n)]
  <2>1. bins(n) \in D
    BY <1>1, WalkRounds
  <2>2. bins(0) = {p}
    BY LoopRounds DEF Repeat
  <2>3. bins(n + 1) = f[bins(n)]
    BY <1>1, WalkRounds
  <2> QED BY <2>1, <2>2, <2>3
<1>5. bins(depth) \subseteq bins(limit)
  BY <1>1, <1>2, WalkGrows
<1> HIDE DEF bins
<1>6. bad = {}
  <2>1. SUFFICES ASSUME bad # {} PROVE FALSE
    OBVIOUS
  <2>2. PICK n \in bad : \A k \in bad : n <= k
    <3>1. bad \in SUBSET Nat
      OBVIOUS
    <3> HIDE DEF bad
    <3> QED BY <2>1, <3>1, LeastOf
  <2>3. n \in 0..depth /\ ~(Ancestors(p, n) \subseteq bins(n))
    OBVIOUS
  <2>4. n # 0
    BY <1>4, <2>3, AncestorWalk
  <2> DEFINE m == n - 1
  <2>5. m \in Nat /\ m \in 0..depth /\ m + 1 = n /\ m \notin bad /\ m <= depth
    BY <2>2, <2>3, <2>4
  <2>6. Ancestors(p, m) \subseteq bins(m)
    BY <2>5
  <2> HIDE DEF m
  <2>7. Ancestors(p, n) = Ancestors(p, m) \cup AllParents(Ancestors(p, m))
    BY <2>5, AncestorWalk
  <2>8. bins(n) = bins(m) \cup UNION {BinParents(q) : q \in bins(m)}
    BY <1>2, <1>4, <2>5 DEF D
  <2>9. ASSUME NEW q \in Ancestors(p, m), NEW r \in AllParents({q}) PROVE r \in bins(n)
    <3>1. q \in graph
      BY <2>9 DEF AllParents, Origins, Children
    <3>2. q \in Ancestors(p, depth)
      BY <2>5, AncestorWalk
    <3>3. r \in BinParents(q)
      BY <3>1, <3>2, OneOrigin
    <3> QED BY <2>6, <2>8, <3>3
  <2>10. AllParents(Ancestors(p, m)) \subseteq bins(n)
    BY <2>9 DEF AllParents
  <2> QED BY <2>3, <2>6, <2>7, <2>8, <2>10
<1>7. Ancestors(p, depth) \subseteq bins(depth)
  BY <1>6
<1> QED BY <1>3, <1>5, <1>7

----------------------------------------------------------------------------
\* Everybody drawn has a place.

\* The state of the canvas is well-formed: what is expanded, in focus or being
\* added are persons, whatever the graph query held when they were chosen.
THEOREM CanvasTypesHold == CanvasSpec => []CanvasTypeOK
<1>1. CanvasInit => CanvasTypeOK
  BY CanvasAssumption DEF CanvasInit, CanvasTypeOK, Mode, Chart
<1>2. ASSUME CanvasTypeOK, [CanvasNext]_canvasVars PROVE CanvasTypeOK'
  <2> USE <1>2 DEF CanvasTypeOK
  <2>0. /\ WithEveryone({}) \subseteq Person
        /\ \A S \in SUBSET Person : WithEveryone(S) \subseteq Person
    BY DEF WithEveryone
  <2>1. CASE Fetch
    BY <2>0, <2>1, CanvasAssumption DEF Fetch, Overtake, Resume
  <2>2. CASE ForgetGraph
    BY <2>2 DEF ForgetGraph, query
  <2>3. CASE Arrive
    BY <2>0, <2>3 DEF Arrive, Resume
  <2>4. CASE Heal
    BY <2>4 DEF Heal, GraphLoaded, query
  <2>5. CASE ExpandAll
    BY <2>5 DEF ExpandAll, query
  <2>6. CASE CollapseAll
    BY <2>6 DEF CollapseAll, query
  <2>7. CASE Leave
    BY <2>7 DEF Leave, Mode, Chart, query
  <2>8. CASE Return
    BY <2>8 DEF Return, query
  <2>9. ASSUME NEW p \in Guest, OtherEdits(p) PROVE CanvasTypeOK'
    BY <2>9, CanvasAssumption DEF OtherEdits
  <2>10. ASSUME NEW p \in Guest, Add(p) PROVE CanvasTypeOK'
    BY <2>0, <2>10, CanvasAssumption DEF Add, Overtake, Resume
  <2>11. ASSUME NEW p \in Person, NEW relatives, relatives \subseteq graph, Reveal(p, relatives)
         PROVE  CanvasTypeOK'
    BY <2>11 DEF Reveal, GraphLoaded, query
  <2>12. ASSUME NEW p \in Person,
                Reveal(p, AllChildren({p})) \/ Reveal(p, AllParents({p}))
         PROVE  CanvasTypeOK'
    <3>1. AllChildren({p}) \subseteq graph /\ AllParents({p}) \subseteq graph
      BY DEF AllChildren, AllParents, Children, Parents
    <3> QED BY <2>11, <2>12, <3>1
  <2>13. ASSUME NEW p \in Person, SetFocus(p) PROVE CanvasTypeOK'
    BY <2>13 DEF SetFocus, query
  <2>14. ASSUME NEW m \in Mode, SetMode(m) PROVE CanvasTypeOK'
    BY <2>14 DEF SetMode, query
  <2>15. CASE UNCHANGED canvasVars
    BY <2>15 DEF canvasVars, query
  <2> QED BY <2>1, <2>2, <2>3, <2>4, <2>5, <2>6, <2>7, <2>8, <2>9, <2>10, <2>12, <2>13,
             <2>14, <2>15 DEF CanvasNext
<1> QED BY <1>1, <1>2, PTL DEF CanvasSpec

\* Whatever the depths of the charts are, as long as the layouts go at least as
\* far as the charts do: a fan or a pedigree never draws a person at the origin
\* for being too far away; who has no place in a chart is one of the persons of
\* (a), (b) and (c) in DrawnArePlaced.
THEOREM EverybodyDrawnHasAPlace == CanvasSpec => []DrawnArePlaced
<1>1. ASSUME CanvasTypeOK PROVE DrawnArePlaced
  <2>1. SUFFICES ASSUME Here, GraphLoaded, focus \in graph, mode \in Chart,
                        NEW p \in Drawn, p \notin Placed
                 PROVE  \/ mode = "ancestor" /\ p \in expanded \ Ancestors(focus, LaidDepth)
                        \/ mode = "descendant" /\ p \in expanded \ Descendants(focus, LaidDepth)
                        \/ /\ mode \in {"pedigree", "ancestry-fan"}
                           /\ \E q \in Drawn : Cardinality(Origins(q)) > 1
                        \/ mode = "ancestry-fan" /\ p \notin Ancestors(focus, WedgeDepth)
    BY DEF DrawnArePlaced
  <2>2. /\ graph \subseteq Person /\ focus \in Person /\ focus # Nobody
        /\ {ShownDepth, LaidDepth, WedgeDepth} \subseteq Nat
        /\ ShownDepth <= LaidDepth /\ WedgeDepth <= LaidDepth
    BY <1>1, <2>1, CanvasAssumption DEF CanvasTypeOK, GraphLoaded, Person, Nobody
  <2>3. CASE mode = "ancestry-fan"
    <3>1. FanFocus = focus
      BY <2>1 DEF FanFocus
    <3>2. Drawn = Ancestors(focus, LaidDepth) /\ Placed = Bins(focus, WedgeDepth)
      BY <2>3, <3>1 DEF Drawn, Placed
    <3>3. SUFFICES ASSUME \A q \in Drawn : ~(Cardinality(Origins(q)) > 1)
                   PROVE  p \notin Ancestors(focus, WedgeDepth)
      BY <2>3
    <3>4. Ancestors(focus, WedgeDepth) \subseteq Drawn
      BY <2>2, <3>2, AncestorWalk
    <3>5. Ancestors(focus, WedgeDepth) \subseteq Bins(focus, WedgeDepth)
      BY <2>2, <3>3, <3>4, BinsHoldAncestors
    <3> QED BY <2>1, <3>2, <3>5
  <2>4. CASE mode = "pedigree"
    <3>1. Drawn = Ancestors(focus, ShownDepth) \cap graph /\ Placed = Bins(focus, LaidDepth)
      BY <2>2, <2>4 DEF Drawn, Placed
    <3>2. SUFFICES ASSUME \A q \in Drawn : ~(Cardinality(Origins(q)) > 1) PROVE FALSE
      BY <2>4
    <3>3. Ancestors(focus, ShownDepth) \subseteq Bins(focus, LaidDepth)
      BY <2>2, <3>1, <3>2, BinsHoldAncestors
    <3> QED BY <2>1, <3>1, <3>3
  <2>5. CASE mode = "fan"
    <3>1. Drawn = Ancestors(focus, ShownDepth) \cap graph /\ Placed = Ancestors(focus, LaidDepth)
      BY <2>2, <2>5 DEF Drawn, Placed
    <3>2. Ancestors(focus, ShownDepth) \subseteq Ancestors(focus, LaidDepth)
      BY <2>2, AncestorWalk
    <3> QED BY <2>1, <3>1, <3>2
  <2>6. CASE mode \in {"ancestor", "descendant"}
    <3>1. Drawn = expanded \cap graph
      BY <2>6 DEF Drawn
    <3>2. CASE mode = "ancestor"
      <4>1. Placed = Ancestors(focus, LaidDepth)
        BY <3>2 DEF Placed
      <4> QED BY <2>1, <3>1, <3>2, <4>1
    <3>3. CASE mode = "descendant"
      <4>1. Placed = Descendants(focus, LaidDepth)
        BY <3>3 DEF Placed
      <4> QED BY <2>1, <3>1, <3>3, <4>1
    <3> QED BY <2>6, <3>2, <3>3
  <2> QED BY <2>1, <2>3, <2>4, <2>5, <2>6 DEF Chart
<1> QED BY <1>1, CanvasTypesHold, PTL

----------------------------------------------------------------------------
\* The chart of descendants and spouses.

\* The search: who is still to be
\* searched from, and the spouses and the person itself.
Queued(s) == {s.next[i] : i \in DOMAIN s.next}
Couples(p) == UNION {Parents(g) : g \in Unions(p)}

\* From s to t the search met some persons of met without queueing them, and
\* queued some of kids.
Grown(s, t, met, kids) ==
  /\ t \in Search
  /\ s.ids \subseteq t.ids /\ Queued(s) \subseteq Queued(t)
  /\ t.ids \subseteq s.ids \cup met \cup Queued(t)
  /\ Queued(t) \subseteq Queued(s) \cup (kids \cap t.ids)

LEMMA GrownFurther ==
  ASSUME NEW s, NEW t, NEW u, NEW met, NEW kids, NEW met2, NEW kids2,
         met2 \subseteq met, kids2 \subseteq kids,
         Grown(s, t, met, kids), Grown(t, u, met2, kids2)
  PROVE  Grown(s, u, met, kids)
BY DEF Grown

LEMMA SearchParts ==
  ASSUME NEW s \in Search
  PROVE  /\ s.ids \subseteq Person /\ s.next \in Seq(Person) /\ Queued(s) \subseteq Person
         /\ \A S \in SUBSET Person : /\ [s EXCEPT !.ids = @ \cup S] \in Search
                                     /\ [s EXCEPT !.ids = @ \cup S].ids = s.ids \cup S
                                     /\ [s EXCEPT !.ids = @ \cup S].next = s.next
         /\ [s EXCEPT !.next = <<>>] \in Search
         /\ [s EXCEPT !.next = <<>>].ids = s.ids
         /\ Queued([s EXCEPT !.next = <<>>]) = {}
<1>1. s.ids \subseteq Person /\ s.next \in Seq(Person)
  BY DEF Search
<1>2. Queued(s) \subseteq Person
  BY <1>1 DEF Queued
<1>3. ASSUME NEW S \in SUBSET Person
      PROVE  /\ [s EXCEPT !.ids = @ \cup S] \in Search
             /\ [s EXCEPT !.ids = @ \cup S].ids = s.ids \cup S
             /\ [s EXCEPT !.ids = @ \cup S].next = s.next
  BY DEF Search
<1>4. /\ [s EXCEPT !.next = <<>>] \in Search
      /\ [s EXCEPT !.next = <<>>].ids = s.ids
      /\ [s EXCEPT !.next = <<>>].next = <<>>
  <2>1. <<>> \in Seq(Person)
    OBVIOUS
  <2> QED BY <2>1 DEF Search
<1>5. Queued([s EXCEPT !.next = <<>>]) = {}
  BY <1>4 DEF Queued
<1> QED BY <1>1, <1>2, <1>3, <1>4, <1>5

LEMMA QueuedOneMore ==
  ASSUME NEW s \in Search, NEW c \in Person
  PROVE  LET t == [ids |-> s.ids \cup {c}, next |-> Append(s.next, c)]
         IN  t \in Search /\ t.ids = s.ids \cup {c} /\ Queued(t) = Queued(s) \cup {c}
<1> DEFINE q == s.next
           r == Append(q, c)
<1>1. q \in Seq(Person) /\ s.ids \in SUBSET Person
  BY DEF Search
<1>2. r \in Seq(Person) /\ Len(q) \in Nat /\ DOMAIN q = 1..Len(q) /\ DOMAIN r = 1..(Len(q) + 1)
  BY <1>1
<1>3. r[Len(q) + 1] = c /\ \A i \in 1..Len(q) : r[i] = q[i]
  BY <1>1
<1>4. {r[i] : i \in DOMAIN r} = {q[i] : i \in DOMAIN q} \cup {c}
  <2> HIDE DEF q, r
  <2>1. \A i \in 1..(Len(q) + 1) : i \in 1..Len(q) \/ i = Len(q) + 1
    BY <1>2
  <2>2. Len(q) + 1 \in 1..(Len(q) + 1) /\ 1..Len(q) \subseteq 1..(Len(q) + 1)
    BY <1>2
  <2> QED BY <1>2, <1>3, <2>1, <2>2
<1> HIDE DEF r
<1>5. [ids |-> s.ids \cup {c}, next |-> r] \in Search
  BY <1>1, <1>2 DEF Search
<1> QED BY <1>4, <1>5 DEF Queued, r

\* A family: its parents are met, and those of its children that were not met
\* are queued.
LEMMA GroupMet ==
  ASSUME graph \subseteq Person, NEW s \in Search, NEW g
  PROVE  /\ Grown(s, MeetGroup(s, g), Parents(g), Children(g))
         /\ Parents(g) \cup Children(g) \subseteq MeetGroup(s, g).ids
<1> USE CanvasAssumption
<1> DEFINE start == [s EXCEPT !.ids = @ \cup Parents(g)]
           body == [c \in Person |-> [t \in Search |->
                     IF c \in Children(g) \ t.ids
                     THEN [ids |-> t.ids \cup {c}, next |-> Append(t.next, c)] ELSE t]]
           Sound(t, i) == /\ Grown(s, t, Parents(g), Children(g))
                          /\ Parents(g) \subseteq t.ids
                          /\ Children(g) \cap (1..i) \subseteq t.ids
           Inv == [i \in 0..Persons |-> {t \in Search : Sound(t, i)}]
<1>1. Parents(g) \in SUBSET Person /\ Children(g) \subseteq Person
  BY Relatives
<1>2. start \in Search /\ start.ids = s.ids \cup Parents(g) /\ Queued(start) = Queued(s)
  <2>1. start \in Search /\ start.ids = s.ids \cup Parents(g) /\ start.next = s.next
    BY <1>1, SearchParts
  <2> QED BY <2>1 DEF Queued
<1> HIDE DEF start
<1>3. Sound(start, 0)
  BY <1>2 DEF Grown
<1>4. ASSUME NEW i \in 1..Persons, NEW t \in Search, Sound(t, i - 1)
      PROVE  body[i][t] \in Search /\ Sound(body[i][t], i)
  <2>1. i \in Person /\ \A j \in 1..i : j \in 1..(i - 1) \/ j = i
    BY DEF Person
  <2> DEFINE more == [ids |-> t.ids \cup {i}, next |-> Append(t.next, i)]
  <2>2. body[i][t] = IF i \in Children(g) \ t.ids THEN more ELSE t
    BY <2>1
  <2>3. more \in Search /\ more.ids = t.ids \cup {i} /\ Queued(more) = Queued(t) \cup {i}
    BY <2>1, QueuedOneMore
  <2> HIDE DEF more, body
  <2>4. CASE i \in Children(g) \ t.ids
    <3>1. Grown(s, more, Parents(g), Children(g))
      BY <1>4, <2>3, <2>4 DEF Grown
    <3> QED BY <1>4, <2>1, <2>2, <2>3, <2>4, <3>1
  <2>5. CASE i \notin Children(g) \ t.ids
    BY <1>4, <2>1, <2>2, <2>5
  <2> QED BY <2>4, <2>5
<1> HIDE DEF Sound, body
<1>5. \A i \in 1..Persons : \A t \in Inv[i - 1] : body[i][t] \in Inv[i]
  <2>1. ASSUME NEW i \in 1..Persons, NEW t \in Inv[i - 1] PROVE body[i][t] \in Inv[i]
    <3>1. i \in 0..Persons /\ i - 1 \in 0..Persons
      OBVIOUS
    <3>2. t \in Search /\ Sound(t, i - 1)
      BY <3>1
    <3>3. body[i][t] \in Search /\ Sound(body[i][t], i)
      BY <1>4, <3>2
    <3> QED BY <3>1, <3>3
  <2> QED BY <2>1
<1>6. start \in Inv[0] /\ Persons \in Nat /\ Persons \in 0..Persons
  BY <1>2, <1>3
<1>7. Loop(body, start, Persons) \in Inv[Persons]
  <2> HIDE DEF Inv
  <2> QED BY <1>5, <1>6, LoopInvariant
<1>8. Sound(Loop(body, start, Persons), Persons)
  BY <1>6, <1>7
<1>9. MeetGroup(s, g) = Loop(body, start, Persons)
  BY DEF MeetGroup, body, start
<1> QED BY <1>1, <1>8, <1>9 DEF Sound, Person

\* A person that is searched from: its spouses and children are met, in all of
\* its families.
LEMMA PersonMet ==
  ASSUME graph \subseteq Person, NEW s \in Search, NEW p
  PROVE  /\ Grown(s, MeetPerson(s, p), Couples(p), AllChildren({p}))
         /\ Couples(p) \cup AllChildren({p}) \subseteq MeetPerson(s, p).ids
<1> USE CanvasAssumption
<1> DEFINE body == [g \in Group |-> [t \in Search |-> IF g \in Unions(p) THEN MeetGroup(t, g) ELSE t]]
           Sound(t, i) == /\ Grown(s, t, Couples(p), AllChildren({p}))
                          /\ \A g \in Unions(p) : g <= i => Parents(g) \cup Children(g) \subseteq t.ids
           Inv == [i \in 0..Groups |-> {t \in Search : Sound(t, i)}]
<1>1. Unions(p) \subseteq 1..Groups
  BY DEF Unions, Group
<1>2. Sound(s, 0)
  BY <1>1 DEF Grown
<1>3. ASSUME NEW i \in 1..Groups, NEW t \in Search, Sound(t, i - 1)
      PROVE  body[i][t] \in Search /\ Sound(body[i][t], i)
  <2>1. body[i][t] = IF i \in Unions(p) THEN MeetGroup(t, i) ELSE t
    BY DEF Group
  <2>2. \A g \in Unions(p) : g <= i => g <= i - 1 \/ g = i
    BY <1>1
  <2> HIDE DEF body
  <2>3. CASE i \in Unions(p)
    <3>1. Parents(i) \subseteq Couples(p) /\ Children(i) \subseteq AllChildren({p})
      BY <2>3 DEF Couples, AllChildren
    <3>2. /\ Grown(t, body[i][t], Parents(i), Children(i))
          /\ Parents(i) \cup Children(i) \subseteq body[i][t].ids
      <4>1. body[i][t] = MeetGroup(t, i)
        BY <2>1, <2>3
      <4> QED BY <4>1, GroupMet
    <3> DEFINE u == body[i][t]
    <3> HIDE DEF u
    <3>3. Grown(s, u, Couples(p), AllChildren({p}))
      <4>1. Grown(s, t, Couples(p), AllChildren({p})) /\ Grown(t, u, Parents(i), Children(i))
        BY <1>3, <3>2 DEF u
      <4> QED BY <3>1, <4>1 DEF Grown
    <3>4. \A g \in Unions(p) : g <= i => Parents(g) \cup Children(g) \subseteq u.ids
      BY <1>3, <2>2, <3>2 DEF Grown, u
    <3> QED BY <3>3, <3>4 DEF Grown, u
  <2>4. CASE i \notin Unions(p)
    BY <1>3, <2>1, <2>2, <2>4
  <2> QED BY <2>3, <2>4
<1> HIDE DEF Sound, body
<1>4. \A i \in 1..Groups : \A t \in Inv[i - 1] : body[i][t] \in Inv[i]
  <2>1. ASSUME NEW i \in 1..Groups, NEW t \in Inv[i - 1] PROVE body[i][t] \in Inv[i]
    <3>1. i \in 0..Groups /\ i - 1 \in 0..Groups
      OBVIOUS
    <3>2. t \in Search /\ Sound(t, i - 1)
      BY <3>1
    <3>3. body[i][t] \in Search /\ Sound(body[i][t], i)
      BY <1>3, <3>2
    <3> QED BY <3>1, <3>3
  <2> QED BY <2>1
<1>5. s \in Inv[0] /\ Groups \in Nat /\ Groups \in 0..Groups
  BY <1>2
<1>6. Loop(body, s, Groups) \in Inv[Groups]
  <2> HIDE DEF Inv
  <2> QED BY <1>4, <1>5, LoopInvariant
<1>7. Sound(Loop(body, s, Groups), Groups)
  BY <1>5, <1>6
<1>8. MeetPerson(s, p) = Loop(body, s, Groups)
  BY DEF MeetPerson, body
<1>9. \A g \in Unions(p) : g <= Groups
  BY <1>1
<1> QED BY <1>7, <1>8, <1>9 DEF Sound, Couples, AllChildren

\* One generation of the search: everybody that was queued is searched from, and
\* nobody but their children is queued next.
LEMMA FrontierMet ==
  ASSUME graph \subseteq Person, NEW s \in Search
  PROVE  /\ MeetFrontier(s) \in Search /\ s.ids \subseteq MeetFrontier(s).ids
         /\ \A p \in Queued(s) : Couples(p) \cup AllChildren({p}) \subseteq MeetFrontier(s).ids
         /\ MeetFrontier(s).ids \subseteq
              s.ids \cup (UNION {Couples(p) : p \in Queued(s)}) \cup Queued(MeetFrontier(s))
         /\ Queued(MeetFrontier(s)) \subseteq AllChildren(Queued(s)) \cap MeetFrontier(s).ids
<1> DEFINE n == Len(s.next)
           start == [s EXCEPT !.next = <<>>]
           met == UNION {Couples(p) : p \in Queued(s)}
           kids == AllChildren(Queued(s))
           body == [i \in DOMAIN s.next |-> [t \in Search |-> MeetPerson(t, s.next[i])]]
           Sound(t, i) ==
             /\ Grown(start, t, met, kids)
             /\ \A j \in 1..i : Couples(s.next[j]) \cup AllChildren({s.next[j]}) \subseteq t.ids
           Inv == [i \in 0..n |-> {t \in Search : Sound(t, i)}]
<1>1. s.next \in Seq(Person) /\ start \in Search /\ start.ids = s.ids /\ Queued(start) = {}
  BY SearchParts
<1>2. n \in Nat /\ DOMAIN s.next = 1..n
  BY <1>1
<1> HIDE DEF n, start
<1>3. Sound(start, 0)
  BY <1>1 DEF Grown
<1>4. ASSUME NEW i \in 1..n, NEW t \in Search, Sound(t, i - 1)
      PROVE  body[i][t] \in Search /\ Sound(body[i][t], i)
  <2> DEFINE p == s.next[i]
  <2>1. body[i][t] = MeetPerson(t, p)
    BY <1>2
  <2>2. p \in Queued(s)
    BY <1>2 DEF Queued
  <2>3. \A j \in 1..i : j \in 1..(i - 1) \/ j = i
    BY <1>2
  <2> HIDE DEF body, p
  <2>4. Couples(p) \subseteq met /\ AllChildren({p}) \subseteq kids
    BY <2>2 DEF AllChildren
  <2> HIDE DEF met, kids
  <2>5. /\ Grown(t, body[i][t], Couples(p), AllChildren({p}))
        /\ Couples(p) \cup AllChildren({p}) \subseteq body[i][t].ids
    BY <2>1, PersonMet
  <2>6. Grown(start, body[i][t], met, kids)
    BY <1>4, <2>4, <2>5, GrownFurther
  <2>7. \A j \in 1..i : Couples(s.next[j]) \cup AllChildren({s.next[j]}) \subseteq body[i][t].ids
    BY <1>4, <2>3, <2>5 DEF Grown, p
  <2> QED BY <2>6, <2>7 DEF Grown
<1> HIDE DEF Sound, body
<1>5. \A i \in 1..n : \A t \in Inv[i - 1] : body[i][t] \in Inv[i]
  <2>1. ASSUME NEW i \in 1..n, NEW t \in Inv[i - 1] PROVE body[i][t] \in Inv[i]
    <3>1. i \in 0..n /\ i - 1 \in 0..n
      BY <1>2
    <3>2. t \in Search /\ Sound(t, i - 1)
      BY <3>1
    <3>3. body[i][t] \in Search /\ Sound(body[i][t], i)
      BY <1>4, <3>2
    <3> QED BY <3>1, <3>3
  <2> QED BY <2>1
<1>6. start \in Inv[0] /\ n \in 0..n
  BY <1>1, <1>2, <1>3
<1>7. Loop(body, start, n) \in Inv[n]
  <2> HIDE DEF Inv
  <2> QED BY <1>2, <1>5, <1>6, LoopInvariant
<1>8. Sound(Loop(body, start, n), n)
  BY <1>6, <1>7
<1>9. MeetFrontier(s) = Loop(body, start, n)
  BY DEF MeetFrontier, body, start, n
<1>10. Grown(start, MeetFrontier(s), met, kids)
  BY <1>8, <1>9 DEF Sound
<1>11. ASSUME NEW p \in Queued(s)
       PROVE  Couples(p) \cup AllChildren({p}) \subseteq MeetFrontier(s).ids
  <2>1. PICK j \in 1..n : p = s.next[j]
    BY <1>2 DEF Queued
  <2> QED BY <1>8, <1>9, <2>1 DEF Sound
<1>12. /\ MeetFrontier(s) \in Search /\ s.ids \subseteq MeetFrontier(s).ids
       /\ MeetFrontier(s).ids \subseteq s.ids \cup met \cup Queued(MeetFrontier(s))
       /\ Queued(MeetFrontier(s)) \subseteq kids \cap MeetFrontier(s).ids
  BY <1>1, <1>10 DEF Grown
<1> QED BY <1>11, <1>12

\* The descendants of the person in focus, and those that are the spouse of
\* another.
Below == Descendants(focus, LineDepth)
Married == {q \in Below : \E g \in Unions(q) : (Parents(g) \ {q}) \cap Below # {}}

\* p is reached within n generations: it was queued, or met as a spouse, or it
\* is below somebody else who is a descendant's spouse.
Reached(p, n, s, been) ==
  \/ p \in been
  \/ p \in Married /\ p \in s.ids
  \/ \E q \in Married \ {p} : q \in Descendants(focus, n) /\ p \in Descendants(q, n)

\* The search after n generations, been being who was ever queued.
SearchSound(n, s, been) ==
  /\ s \in Search
  /\ focus \in been /\ been \subseteq Descendants(focus, n) /\ been \subseteq s.ids
  /\ Queued(s) \subseteq been
  /\ \A r \in been \ Queued(s) : Couples(r) \cup AllChildren({r}) \subseteq s.ids
  /\ \A x \in s.ids : x \in been \/ \E r \in been \ {x} : x \in Couples(r)
  /\ \A p \in Descendants(focus, n) : Reached(p, n, s, been)

\* A spouse of a descendant who is a descendant too is one of Married.
LEMMA SpouseIsMarried ==
  ASSUME NEW x \in Below, NEW r \in Below \ {x}, x \in Couples(r)
  PROVE  x \in Married
<1>1. PICK g \in Unions(r) : x \in Parents(g)
  BY DEF Couples
<1>2. g \in Unions(x) /\ r \in (Parents(g) \ {x}) \cap Below
  BY <1>1 DEF Unions
<1> QED BY <1>2 DEF Married

\* One more generation of the search keeps SearchSound.
LEMMA SearchStep ==
  ASSUME graph \subseteq Person, focus \in Person, NEW n \in Nat, n < LineDepth,
         NEW s, NEW been, SearchSound(n, s, been)
  PROVE  SearchSound(n + 1, MeetFrontier(s), been \cup Queued(MeetFrontier(s)))
<1> DEFINE t == MeetFrontier(s)
           now == been \cup Queued(t)
<1>1. s \in Search
  BY DEF SearchSound
<1>2. /\ t \in Search /\ s.ids \subseteq t.ids
      /\ \A p \in Queued(s) : Couples(p) \cup AllChildren({p}) \subseteq t.ids
      /\ t.ids \subseteq s.ids \cup (UNION {Couples(p) : p \in Queued(s)}) \cup Queued(t)
      /\ Queued(t) \subseteq AllChildren(Queued(s)) \cap t.ids
  BY <1>1, FrontierMet
<1> HIDE DEF t
<1>3. LineDepth \in Nat /\ n + 1 \in Nat /\ n <= n + 1 /\ n + 1 <= LineDepth
  BY CanvasAssumption
<1>4. /\ Descendants(focus, n + 1) = Descendants(focus, n) \cup AllChildren(Descendants(focus, n))
      /\ Descendants(focus, n) \subseteq Descendants(focus, n + 1)
      /\ Descendants(focus, n + 1) \subseteq Below
      /\ Descendants(focus, n + 1) \subseteq Person
  <2>1. Descendants(focus, n + 1) \subseteq Below
    BY <1>3, DescendantWalk DEF Below
  <2>2. Descendants(focus, n + 1) \in SUBSET Person
    BY <1>3, DescendantWalk
  <2>3. Descendants(focus, n + 1) = Descendants(focus, n) \cup AllChildren(Descendants(focus, n))
    BY DescendantWalk
  <2> QED BY <2>1, <2>2, <2>3
<1>5. focus \in now /\ now \subseteq t.ids /\ Queued(t) \subseteq now
  BY <1>2 DEF SearchSound
<1>6. now \subseteq Descendants(focus, n + 1)
  <2>1. Queued(s) \subseteq Descendants(focus, n)
    BY DEF SearchSound
  <2>2. AllChildren(Queued(s)) \subseteq AllChildren(Descendants(focus, n))
    BY <2>1 DEF AllChildren
  <2> QED BY <1>2, <1>4, <2>2 DEF SearchSound
<1>7. \A r \in been : Couples(r) \cup AllChildren({r}) \subseteq t.ids
  BY <1>2 DEF SearchSound
<1>8. ASSUME NEW x \in t.ids PROVE x \in now \/ \E r \in now \ {x} : x \in Couples(r)
  <2>1. CASE x \in s.ids
    BY <2>1 DEF SearchSound
  <2>2. ASSUME NEW p \in Queued(s), x \in Couples(p)
        PROVE  x \in now \/ \E r \in now \ {x} : x \in Couples(r)
    BY <2>2 DEF SearchSound
  <2> QED BY <1>2, <2>1, <2>2
<1>9. ASSUME NEW p \in Descendants(focus, n + 1) PROVE Reached(p, n + 1, t, now)
  <2>1. CASE p \in Descendants(focus, n)
    <3>1. Reached(p, n, s, been)
      BY <2>1 DEF SearchSound
    <3>2. ASSUME NEW q \in Married \ {p}, q \in Descendants(focus, n), p \in Descendants(q, n)
          PROVE  Reached(p, n + 1, t, now)
      <4>1. q \in Person
        BY <1>4, <3>2
      <4>2. Descendants(q, n) \subseteq Descendants(q, n + 1)
        BY <1>3, <4>1, DescendantWalk
      <4> QED BY <1>4, <3>2, <4>2 DEF Reached
    <3> QED BY <1>2, <3>1, <3>2 DEF Reached
  <2>2. CASE p \notin Descendants(focus, n)
    <3>1. PICK r \in Descendants(focus, n) : p \in AllChildren({r})
      BY <1>4, <2>2 DEF AllChildren
    <3>2. r # p /\ Reached(r, n, s, been) /\ r \in Person
      BY <1>4, <2>2 DEF SearchSound
    <3>3. CASE r \in been
      <4>1. p \in t.ids
        BY <1>7, <3>1, <3>3
      <4>2. p \in Below /\ now \subseteq Below
        BY <1>4, <1>6
      <4>3. p \in now \/ p \in Married
        BY <1>8, <4>1, <4>2, SpouseIsMarried
      <4> QED BY <4>1, <4>3 DEF Reached
    <3>4. CASE r \in Married
      <4>1. /\ Descendants(r, n) \subseteq Descendants(r, n + 1)
            /\ r \in Descendants(r, n)
            /\ Descendants(r, n + 1) = Descendants(r, n) \cup AllChildren(Descendants(r, n))
        <5>1. Descendants(r, 0) \subseteq Descendants(r, n) /\ Descendants(r, 0) = {r}
          BY <3>2, DescendantWalk
        <5>2. Descendants(r, n + 1) = Descendants(r, n) \cup AllChildren(Descendants(r, n))
          BY <3>2, DescendantWalk
        <5> QED BY <5>1, <5>2
      <4>2. p \in Descendants(r, n + 1)
        BY <3>1, <4>1 DEF AllChildren
      <4>3. r \in Descendants(focus, n + 1)
        BY <1>4
      <4> QED BY <3>2, <3>4, <4>2, <4>3 DEF Reached
    <3>5. ASSUME NEW q \in Married \ {r}, q \in Descendants(focus, n), r \in Descendants(q, n)
          PROVE  Reached(p, n + 1, t, now)
      <4>1. q # p /\ q \in Person
        BY <1>4, <2>2, <3>5
      <4>2. Descendants(q, n + 1) = Descendants(q, n) \cup AllChildren(Descendants(q, n))
        BY <4>1, DescendantWalk
      <4>3. p \in Descendants(q, n + 1)
        BY <3>1, <3>5, <4>2 DEF AllChildren
      <4>4. q \in Descendants(focus, n + 1)
        BY <1>4, <3>5
      <4> QED BY <3>5, <4>1, <4>3, <4>4 DEF Reached
    <3> QED BY <3>2, <3>3, <3>4, <3>5 DEF Reached
  <2> QED BY <2>1, <2>2
<1> HIDE DEF now
<1>10. \A r \in now \ Queued(t) : Couples(r) \cup AllChildren({r}) \subseteq t.ids
  BY <1>7 DEF now
<1>11. SearchSound(n + 1, t, now)
  BY <1>2, <1>5, <1>6, <1>8, <1>9, <1>10 DEF SearchSound
<1> QED BY <1>11 DEF t, now

\* The search of the chart of descendants never leaves the graph.
LEMMA BelowInGraph ==
  ASSUME graph \subseteq Person, NEW p \in graph, NEW n \in Nat
  PROVE  Descendants(p, n) \subseteq graph
<1> DEFINE f == [S \in SUBSET Person |-> S \cup AllChildren(S)]
           body == [i \in Nat |-> f]
           Inv == [i \in 0..n |-> SUBSET graph]
<1>1. \A S : AllChildren(S) \subseteq graph
  BY DEF AllChildren, Children
<1>2. \A i \in 1..n : \A S \in Inv[i - 1] : body[i][S] \in Inv[i]
  BY <1>1
<1>3. {p} \in Inv[0] /\ n \in 0..n /\ Inv[n] = SUBSET graph
  OBVIOUS
<1>4. Descendants(p, n) = Loop(body, {p}, n)
  BY DEF Descendants, Repeat
<1> HIDE DEF body, Inv
<1>5. Loop(body, {p}, n) \in Inv[n]
  BY <1>2, <1>3, LoopInvariant
<1>6. Loop(body, {p}, n) \in SUBSET graph
  BY <1>3, <1>5
<1> QED BY <1>4, <1>6

\* The search of the chart, generation by generation.
Family(n) == Repeat([s \in Search |-> MeetFrontier(s)], [ids |-> {focus}, next |-> <<focus>>], n)

LEMMA FamilyRounds ==
  ASSUME graph \subseteq Person, focus \in Person, NEW n \in Nat
  PROVE  /\ Family(0) = [ids |-> {focus}, next |-> <<focus>>]
         /\ Family(n) \in Search
         /\ Family(n + 1) = MeetFrontier(Family(n))
<1> DEFINE f == [s \in Search |-> MeetFrontier(s)]
           start == [ids |-> {focus}, next |-> <<focus>>]
           D == Search
<1>1. f \in [D -> D]
  BY FrontierMet
<1>2. start \in D
  <2>1. <<focus>> \in Seq(Person)
    OBVIOUS
  <2> QED BY <2>1 DEF Search
<1>3. \A m : Family(m) = Repeat(f, start, m)
  BY DEF Family
<1>4. \A s \in D : f[s] = MeetFrontier(s)
  OBVIOUS
<1> HIDE DEF f, start, D
<1>5. Repeat(f, start, 0) = start
  BY LoopRounds DEF Repeat
<1>6. Repeat(f, start, n) \in D
  BY <1>1, <1>2, WalkRounds
<1>7. Repeat(f, start, n + 1) = f[Repeat(f, start, n)]
  BY <1>1, <1>2, WalkRounds
<1>8. Family(n) \in D /\ Family(n + 1) = MeetFrontier(Family(n))
  BY <1>3, <1>4, <1>6, <1>7
<1>9. Family(0) = start
  BY <1>3, <1>5
<1> QED BY <1>8, <1>9 DEF D, start

LEMMA FamilySound ==
  ASSUME graph \subseteq Person, focus \in Person, NEW n \in Nat, n <= LineDepth
  PROVE  \E been : SearchSound(n, Family(n), been)
<1> DEFINE bad == {m \in 0..LineDepth : ~\E been : SearchSound(m, Family(m), been)}
<1>1. SUFFICES ASSUME bad # {} PROVE FALSE
  BY CanvasAssumption
<1>2. PICK m \in bad : \A k \in bad : m <= k
  <2>1. bad \in SUBSET Nat
    OBVIOUS
  <2> HIDE DEF bad
  <2> QED BY <1>1, <2>1, LeastOf
<1>3. LineDepth \in Nat /\ m \in Nat /\ m <= LineDepth /\ ~\E been : SearchSound(m, Family(m), been)
  BY CanvasAssumption
<1>4. CASE m = 0
  <2> DEFINE start == [ids |-> {focus}, next |-> <<focus>>]
  <2>1. Family(0) = start /\ Family(0) \in Search
    <3>1. 0 \in Nat
      OBVIOUS
    <3> QED BY <3>1, FamilyRounds
  <2>2. start.ids = {focus} /\ Queued(start) = {focus}
    BY DEF Queued
  <2>3. Descendants(focus, 0) = {focus}
    <3>1. 0 \in Nat
      OBVIOUS
    <3> QED BY <3>1, DescendantWalk
  <2> HIDE DEF start
  <2>4. SearchSound(0, start, {focus})
    BY <2>1, <2>2, <2>3 DEF SearchSound, Reached
  <2> QED BY <1>3, <1>4, <2>1, <2>4
<1>5. CASE m # 0
  <2> DEFINE l == m - 1
  <2>1. l \in Nat /\ l < LineDepth /\ l + 1 = m /\ l \in 0..LineDepth /\ l \notin bad
    BY <1>2, <1>3, <1>5
  <2>2. PICK been : SearchSound(l, Family(l), been)
    BY <2>1
  <2> HIDE DEF l
  <2>3. SearchSound(l + 1, MeetFrontier(Family(l)), been \cup Queued(MeetFrontier(Family(l))))
    BY <2>1, <2>2, SearchStep
  <2>4. Family(m) = MeetFrontier(Family(l))
    BY <2>1, FamilyRounds
  <2> QED BY <1>3, <2>1, <2>3, <2>4
<1> QED BY <1>4, <1>5

\* The chart of descendants and spouses leaves out no descendant, however many
\* marriages there are between the lines of the family and whatever the order in
\* which they are met, unless it is below one who was met as a spouse.
THEOREM FamilyChartIsComplete == CanvasSpec => []DescendantsAreDrawn
<1>1. ASSUME CanvasTypeOK PROVE DescendantsAreDrawn
  <2>1. SUFFICES ASSUME Here, GraphLoaded, focus \in graph, mode = "descendant-family",
                        NEW p \in Below
                 PROVE  \/ /\ p \in Drawn
                           /\ p \in Descendants(focus, LineDepth - 1) \ Married =>
                                (UNION {Parents(g) : g \in Unions(p)}) \subseteq Drawn
                        \/ \E q \in Married \ {p} : p \in Descendants(q, LineDepth)
    BY DEF DescendantsAreDrawn, Below, Married
  <2>2. graph \subseteq Person /\ focus \in Person /\ focus # Nobody
    BY <1>1, <2>1 DEF CanvasTypeOK, GraphLoaded, Person, Nobody
  <2> DEFINE l == LineDepth - 1
  <2>3. LineDepth \in Nat /\ LineDepth <= LineDepth /\ l \in Nat /\ l <= LineDepth /\ l + 1 = LineDepth
        /\ l < LineDepth
    BY CanvasAssumption
  <2> HIDE DEF l
  <2>4. Drawn = Family(LineDepth).ids \cap graph
    BY <2>1, <2>2 DEF Drawn, DescendantFamily, Family
  <2>5. PICK been : SearchSound(l, Family(l), been)
    BY <2>2, <2>3, FamilySound
  <2> DEFINE t == MeetFrontier(Family(l))
             now == been \cup Queued(t)
  <2>6. SearchSound(LineDepth, t, now)
    BY <2>2, <2>3, <2>5, SearchStep
  <2>7. Family(LineDepth) = t
    BY <2>2, <2>3, FamilyRounds
  <2>8. \A r \in been : Couples(r) \subseteq t.ids
    <3>1. Family(l) \in Search
      BY <2>5 DEF SearchSound
    <3>2. Family(l).ids \subseteq t.ids /\ \A r \in Queued(Family(l)) : Couples(r) \subseteq t.ids
      BY <2>2, <3>1, FrontierMet
    <3> QED BY <2>5, <3>2 DEF SearchSound
  <2> HIDE DEF t, now
  <2>9. p \in graph
    BY <2>1, <2>2, <2>3, BelowInGraph DEF Below
  <2>10. ASSUME ~\E q \in Married \ {p} : p \in Descendants(q, LineDepth)
         PROVE  /\ p \in Drawn
                /\ p \in Descendants(focus, l) \ Married => Couples(p) \subseteq Drawn
    <3>1. p \in now \/ (p \in Married /\ p \in t.ids)
      BY <2>6, <2>10 DEF SearchSound, Reached, Below
    <3>2. p \in t.ids
      BY <2>6, <3>1 DEF SearchSound
    <3>3. ASSUME p \in Descendants(focus, l) \ Married PROVE Couples(p) \subseteq Drawn
      <4>1. \A q \in Married : q \in Person
        BY <2>2, <2>3, DescendantWalk DEF Married, Below
      <4>2. \A q \in Married : Descendants(q, l) \subseteq Descendants(q, LineDepth)
        BY <2>2, <2>3, <4>1, DescendantWalk
      <4>3. Reached(p, l, Family(l), been)
        BY <2>5, <3>3 DEF SearchSound
      <4>4. p \in been
        BY <2>10, <3>3, <4>2, <4>3 DEF Reached
      <4>5. Couples(p) \subseteq graph
        BY DEF Couples, Parents
      <4> QED BY <2>4, <2>7, <2>8, <4>4, <4>5
    <3> QED BY <2>4, <2>7, <2>9, <3>2, <3>3
  <2> QED BY <2>10 DEF l, Couples
<1> QED BY <1>1, CanvasTypesHold, PTL

=============================================================================
