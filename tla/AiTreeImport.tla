------------------------------ MODULE AiTreeImport ------------------------------
(***************************************************************************)
(* Importing a tree from a screenshot: the hook that drives a job from the *)
(* browser (features/admin/aiTreeImport/useAiTreeImportJob.ts), its panel  *)
(* (AiTreeImportPanel.tsx), the endpoints (api/v1/ai_tree_import.py) and   *)
(* the Celery task (infrastructure/ai_import/ai_import_tasks.py).          *)
(*                                                                         *)
(* The hook asks for the state of its job on every tick of an interval, so *)
(* several answers may be on their way; the endpoints and the task share a *)
(* row and commit at moments of their own.  Leaving the tab of the admin   *)
(* page unmounts the panel, and coming back mounts another; what the one   *)
(* left started goes on, with its closures and its ref, and sets state     *)
(* that nobody shows.  A call of finalize_job goes on, too, when the tab   *)
(* has given up on its answer.                                             *)
(***************************************************************************)
EXTENDS Naturals

CONSTANTS
  Job,       \* ids of import jobs, given out by the server
  NoJob,
  Request,   \* calls of finalize_job
  NoRequest,
  MaxMounts  \* bound: times the panel is mounted

ASSUME AiTreeImportAssumption ==
  NoJob \notin Job /\ NoRequest \notin Request /\ MaxMounts \in Nat \ {0}

VARIABLES
  \* the tab
  mount,                  \* which panel is shown: the panels are counted
  status, jobId, draft,   \* the hook's state; draft is the job it was read from
  persons,                \* the job of the draft that the panel lets the user edit
  upload, owner,          \* the uploadScreenshot call of each job, and the panel that made it
  timers, pollTimer,      \* live intervals, by the job they ask for, and the ref of each panel
  polls,                  \* what is on its way for each job
  finalizeResult,
  finalizing,             \* the call whose answer the panel awaits
  \* the server
  row,                    \* ai_tree_import_jobs.status
  uploaded,               \* screenshots in the bucket
  task,                   \* the Celery task of each job
  trees,                  \* trees made from each job
  finalize,               \* each call of finalize_job: seen is the status it loaded
  \* history
  overdue,                \* panels for which an answer took longer than the interval
  overtook                \* jobs whose task committed before confirm_upload did

hook == <<status, jobId, draft, timers, pollTimer>>
panel == <<mount, persons, finalizeResult, finalizing>>
server == <<row, uploaded, task, trees, finalize>>
vars == <<hook, panel, upload, owner, polls, server, overdue, overtook>>

Mount == 1..MaxMounts

Upload == {"none", "asked", "confirm", "confirming", "confirmed", "refused", "ended"}
Row == {"none", "PENDING", "PROCESSING", "READY", "FAILED", "FINALIZING", "deleted"}
Finalize == {"no", "asked", "loaded", "claimed", "created", "ok", "refused"}

TypeOK ==
  /\ status \in {"idle", "uploading", "processing", "ready", "error"}
  /\ mount \in Mount
  /\ {jobId, draft, persons, finalizeResult} \subseteq Job \cup {NoJob}
  /\ upload \in [Job -> Upload] /\ owner \in [Job -> Mount]
  /\ timers \subseteq Job /\ pollTimer \in [Mount -> Job \cup {NoJob}]
  /\ polls \in [Job -> SUBSET {"asked", "READY", "FAILED"}]
  /\ finalizing \in Request \cup {NoRequest}
  /\ finalize \in [Request -> [job : Job \cup {NoJob}, st : Finalize, seen : Row]]
  /\ row \in [Job -> Row] /\ uploaded \subseteq Job
  /\ task \in [Job -> {"none", "queued", "running", "done", "lost"}]
  /\ trees \in [Job -> Nat]
  /\ overdue \subseteq Mount /\ overtook \subseteq Job

----------------------------------------------------------------------------
\* useAiTreeImportJob.

\* setState of a panel that was left does nothing.
Mine(j) == owner[j] = mount

Shows(j, s) == IF Mine(j) THEN s ELSE status

\* Mutant: the interval goes on.
KeepsPolling(m) == timers

\* stopPolling clears the interval of its panel's ref, whoever calls.
AfterStop(m) == timers \ {pollTimer[m]}

StopPolling(m) == timers' = AfterStop(m) /\ pollTimer' = [pollTimer EXCEPT ![m] = NoJob]

\* Mutant: an error of the upload is not caught.
FailSilently(j) ==
  /\ upload' = [upload EXCEPT ![j] = "ended"]
  /\ UNCHANGED <<status, jobId, draft, timers, pollTimer>>

FailWith(j) ==
  /\ status' = Shows(j, "error")
  /\ upload' = [upload EXCEPT ![j] = "ended"]
  /\ UNCHANGED <<jobId, draft, timers, pollTimer>>

\* What the panel shows.
Screen == IF finalizeResult # NoJob THEN "done" ELSE status

\* pickFile and uploadScreenshot up to the request for the ticket.
PickFile(j) ==
  /\ Screen = "idle"
  /\ upload[j] = "none"
  /\ status' = "uploading"
  /\ upload' = [upload EXCEPT ![j] = "asked"]
  /\ owner' = [owner EXCEPT ![j] = mount]
  /\ UNCHANGED <<jobId, draft, timers, pollTimer, panel, polls, server, overdue, overtook>>

\* POST /upload-url, and the direct upload to the bucket: either may fail.
Ticket(j) ==
  /\ upload[j] = "asked"
  /\ \/ FailWith(j) /\ UNCHANGED <<row, uploaded>>
     \/ /\ row' = [row EXCEPT ![j] = "PENDING"]
        /\ jobId' = IF Mine(j) THEN j ELSE jobId
        /\ \/ /\ status' = Shows(j, "error") /\ upload' = [upload EXCEPT ![j] = "ended"]
              /\ UNCHANGED uploaded
           \/ /\ uploaded' = uploaded \cup {j}
              /\ upload' = [upload EXCEPT ![j] = "confirm"]
              /\ UNCHANGED status
        /\ UNCHANGED <<draft, timers, pollTimer>>
  /\ UNCHANGED <<panel, owner, polls, task, trees, finalize, overdue, overtook>>

\* The answer of POST /confirm: the interval starts, also when the panel has
\* been left.
Confirmed(j) ==
  /\ upload[j] = "confirmed"
  /\ status' = Shows(j, "processing")
  /\ timers' = timers \cup {j} /\ pollTimer' = [pollTimer EXCEPT ![owner[j]] = j]
  /\ upload' = [upload EXCEPT ![j] = "ended"]
  /\ UNCHANGED <<jobId, draft, panel, owner, polls, server, overdue, overtook>>

\* It was refused, or never came back.
NotConfirmed(j) ==
  /\ upload[j] \in {"confirm", "confirmed", "refused"}
  /\ FailWith(j)
  /\ UNCHANGED <<panel, owner, polls, server, overdue, overtook>>

NoteOverdue(j) == overdue' = IF polls[j] # {} THEN overdue \cup {owner[j]} ELSE overdue

Tick(j) ==
  /\ j \in timers
  /\ polls' = [polls EXCEPT ![j] = @ \cup {"asked"}]
  /\ NoteOverdue(j)
  /\ UNCHANGED <<hook, panel, upload, owner, server, overtook>>

\* A tick after POLL_TIMEOUT_MS.
Timeout(j) ==
  /\ j \in timers
  /\ StopPolling(owner[j])
  /\ status' = Shows(j, "error")
  /\ NoteOverdue(j)
  /\ UNCHANGED <<jobId, draft, panel, upload, owner, polls, server, overtook>>

\* An answer arrives.  The panel copies a draft when the hook becomes ready.
PollAnswered(j, a) ==
  /\ a \in polls[j] \ {"asked"}
  /\ polls' = [polls EXCEPT ![j] = @ \ {a}]
  /\ StopPolling(owner[j])
  /\ \/ /\ a = "READY"
        /\ status' = Shows(j, "ready")
        /\ draft' = IF Mine(j) THEN j ELSE draft
        /\ persons' = IF Mine(j) THEN j ELSE persons
     \/ /\ a = "FAILED"
        /\ status' = Shows(j, "error")
        /\ UNCHANGED <<draft, persons>>
  /\ UNCHANGED <<jobId, mount, finalizeResult, finalizing, upload, owner, server, overdue, overtook>>

\* The buttons "Try again" and "Import another screenshot".
Reset ==
  /\ Screen \in {"error", "done"}
  /\ status # "idle"
  /\ StopPolling(mount)
  /\ status' = "idle" /\ jobId' = NoJob /\ draft' = NoJob
  /\ UNCHANGED <<panel, upload, owner, polls, server, overdue, overtook>>

\* The user leaves the tab of the admin page and comes back to it.  The hook
\* has no cleanup: no interval is cleared and no request given up.
Leave ==
  /\ mount < MaxMounts /\ mount' = mount + 1
  /\ status' = "idle" /\ jobId' = NoJob /\ draft' = NoJob
  /\ persons' = NoJob /\ finalizeResult' = NoJob /\ finalizing' = NoRequest
  /\ UNCHANGED <<timers, pollTimer, upload, owner, polls, server, overdue, overtook>>

----------------------------------------------------------------------------
\* The endpoints and the task.

\* confirm_upload queues the task before it commits the new status.
StartConfirm(j) ==
  /\ upload[j] = "confirm"
  /\ \/ /\ row[j] = "PENDING" /\ j \in uploaded
        /\ task' = [task EXCEPT ![j] = "queued"]
        /\ upload' = [upload EXCEPT ![j] = "confirming"]
     \/ /\ ~(row[j] = "PENDING" /\ j \in uploaded)
        /\ upload' = [upload EXCEPT ![j] = "refused"]
        /\ UNCHANGED task
  /\ UNCHANGED <<hook, panel, owner, polls, row, uploaded, trees, finalize, overdue, overtook>>

CommitConfirm(j) ==
  /\ upload[j] = "confirming"
  /\ row' = [row EXCEPT ![j] = "PROCESSING"]
  /\ upload' = [upload EXCEPT ![j] = "confirmed"]
  /\ UNCHANGED <<hook, panel, owner, polls, uploaded, task, trees, finalize, overdue, overtook>>

RunTask(j) ==
  /\ task[j] = "queued"
  /\ task' = [task EXCEPT ![j] = "running"]
  /\ UNCHANGED <<hook, panel, upload, owner, polls, row, uploaded, trees, finalize, overdue, overtook>>

\* Mutant: only VisionExtractionError is caught.
Unrecorded(j) == {"READY", row[j]}

\* Every failure is caught and recorded, the soft time limit included.
Outcomes(j) == {"READY", "FAILED"}

EndTask(j) == \E s \in Outcomes(j) :
  /\ task[j] = "running"
  /\ row' = [row EXCEPT ![j] = s]
  /\ task' = [task EXCEPT ![j] = "done"]
  /\ overtook' = IF upload[j] = "confirming" THEN overtook \cup {j} ELSE overtook
  /\ UNCHANGED <<hook, panel, upload, owner, polls, uploaded, trees, finalize, overdue>>

\* The worker dies or hits the hard limit: the task was acknowledged when it
\* started, so it does not run again.
LoseTask(j) ==
  /\ task[j] \in {"queued", "running"}
  /\ task' = [task EXCEPT ![j] = "lost"]
  /\ UNCHANGED <<hook, panel, upload, owner, polls, row, uploaded, trees, finalize, overdue, overtook>>

Heeded(j) == {row[j]} \cap {"READY", "FAILED"}

\* GET /{job_id}.  Other states, and errors, leave the hook as it is.
AnswerPoll(j) ==
  /\ "asked" \in polls[j]
  /\ \E a \in {{}, Heeded(j)} :
       polls' = [polls EXCEPT ![j] = (@ \ {"asked"}) \cup a]
  /\ UNCHANGED <<hook, panel, upload, owner, server, overdue, overtook>>

\* handleFinalize.
ClickCreate == \E r \in Request :
  /\ Screen = "ready" /\ jobId # NoJob
  /\ finalizing = NoRequest /\ finalize[r].st = "no"
  /\ finalizing' = r
  /\ finalize' = [finalize EXCEPT ![r] = [job |-> jobId, st |-> "asked", seen |-> "none"]]
  /\ UNCHANGED <<hook, mount, persons, finalizeResult, upload, owner, polls, row, uploaded, task,
                 trees, overdue, overtook>>

Serving(r, from, to) == finalize[r].st = from /\ finalize' = [finalize EXCEPT ![r].st = to]

\* _get_job.
LoadJob(r) == LET j == finalize[r].job IN
  /\ finalize[r].st = "asked"
  /\ finalize' = [finalize EXCEPT ![r] =
       [job |-> j, st |-> IF row[j] = "deleted" THEN "refused" ELSE "loaded", seen |-> row[j]]]
  /\ UNCHANGED <<hook, panel, upload, owner, polls, row, uploaded, task, trees, overdue, overtook>>

\* Mutant: finalize_job tests the status of the row it loaded, and no more.
ClaimLoaded(r) == finalize[r].seen = "READY"

\* UPDATE ... SET status = 'FINALIZING' WHERE status = 'READY', and a commit.
Claim(r) == row[finalize[r].job] = "READY"

ClaimJob(r) == LET j == finalize[r].job IN
  /\ \/ Serving(r, "loaded", "claimed") /\ Claim(r) /\ row' = [row EXCEPT ![j] = "FINALIZING"]
     \/ Serving(r, "loaded", "refused") /\ ~Claim(r) /\ UNCHANGED row
  /\ UNCHANGED <<hook, panel, upload, owner, polls, uploaded, task, trees, overdue, overtook>>

\* _create_tree_from_ofr_data commits, then the row is deleted.  Either may
\* fail, and the claim stays.
CreateTree(r) == LET j == finalize[r].job IN
  /\ \/ Serving(r, "claimed", "refused") /\ UNCHANGED trees
     \/ Serving(r, "claimed", "created") /\ trees' = [trees EXCEPT ![j] = @ + 1]
  /\ UNCHANGED <<hook, panel, upload, owner, polls, row, uploaded, task, overdue, overtook>>

DeleteJob(r) == LET j == finalize[r].job IN
  /\ \/ Serving(r, "created", "refused") /\ UNCHANGED <<row, uploaded>>
     \/ /\ Serving(r, "created", "ok")
        /\ row' = [row EXCEPT ![j] = "deleted"] /\ uploaded' = uploaded \ {j}
  /\ UNCHANGED <<hook, panel, upload, owner, polls, task, trees, overdue, overtook>>

\* The answer, or the tab or a gateway gives up on it, whatever the server is
\* doing: the button can be pressed again.
FinalizeAnswered ==
  /\ finalizing # NoRequest /\ finalizing' = NoRequest
  /\ finalizeResult' \in {finalizeResult} \cup
       IF finalize[finalizing].st = "ok" THEN {finalize[finalizing].job} ELSE {}
  /\ UNCHANGED <<hook, mount, persons, upload, owner, polls, server, overdue, overtook>>

----------------------------------------------------------------------------
Init ==
  /\ mount = 1
  /\ status = "idle" /\ jobId = NoJob /\ draft = NoJob /\ persons = NoJob
  /\ upload = [j \in Job |-> "none"] /\ owner = [j \in Job |-> 1]
  /\ timers = {} /\ pollTimer = [m \in Mount |-> NoJob] /\ polls = [j \in Job |-> {}]
  /\ finalizeResult = NoJob /\ finalizing = NoRequest
  /\ finalize = [r \in Request |-> [job |-> NoJob, st |-> "no", seen |-> "none"]]
  /\ row = [j \in Job |-> "none"] /\ uploaded = {}
  /\ task = [j \in Job |-> "none"] /\ trees = [j \in Job |-> 0]
  /\ overdue = {} /\ overtook = {}

Uploading(j) == Ticket(j) \/ StartConfirm(j) \/ CommitConfirm(j) \/ Confirmed(j) \/ NotConfirmed(j)

Working(j) == RunTask(j) \/ EndTask(j) \/ LoseTask(j)

ServeFinalize(r) == LoadJob(r) \/ ClaimJob(r) \/ CreateTree(r) \/ DeleteJob(r)

Next ==
  \/ \E j \in Job :
       \/ PickFile(j) \/ Uploading(j) \/ Working(j)
       \/ Tick(j) \/ AnswerPoll(j) \/ Timeout(j) \/ \E a \in {"READY", "FAILED"} : PollAnswered(j, a)
  \/ \E r \in Request : ServeFinalize(r)
  \/ Reset \/ Leave \/ ClickCreate \/ FinalizeAnswered

\* Requests end, if only in an error, and the interval reaches its time limit.
Fairness == \A j \in Job : WF_vars(Uploading(j)) /\ WF_vars(Timeout(j))

Spec == Init /\ [][Next]_vars /\ Fairness

----------------------------------------------------------------------------
\* As long as every answer comes within POLL_INTERVAL_MS, the draft that the
\* panel shows for review is of the job it will finalize.  (A late answer of a
\* job that was given up sets status and draft all the same.)
DraftIsOfItsJob == status = "ready" /\ mount \notin overdue => draft = jobId /\ persons = jobId

\* Likewise an interval is the one its panel's ref names, so that the end of
\* its job stops it; the panel that is shown runs one only while it extracts.
\* (One that was left while extracting still runs its own.)
IntervalIsKnown == \A j \in timers : owner[j] \notin overdue =>
  /\ pollTimer[owner[j]] = j
  /\ Mine(j) => status = "processing" /\ jobId = j

\* A panel follows one job as long as no answer to it is late, whatever an
\* earlier panel left behind (useAiTreeImportJob.ts 25-69).
HookFollowsItsJob == DraftIsOfItsJob /\ IntervalIsKnown

\* However often "Create Tree" is pressed, also while finalize_job still works
\* on a call whose answer was lost, a job becomes one tree at most.
OneTreePerJob == \A j \in Job : trees[j] <= 1

\* A job that has been processed is not left in PROCESSING, except when its
\* task was faster than the commit of confirm_upload, which then overwrites
\* its outcome.
OutcomeIsKept == \A j \in Job : task[j] = "done" /\ row[j] = "PROCESSING" => j \in overtook

\* Whatever fails or comes late, "Uploading" and "Extracting" end.
ImportEnds == (status \in {"uploading", "processing"}) ~> (status \in {"ready", "error", "idle"})
===============================================================================
