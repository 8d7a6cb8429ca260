-------------------------- MODULE AiTreeImportProofs --------------------------
(***************************************************************************)
(* For every set of jobs: the server makes one tree of a job at most and   *)
(* keeps the outcome of its task, and a panel follows one job as long as   *)
(* no answer to it is late.  The tab's and the server's invariants are     *)
(* apart: what the server promises does not depend on what the hook does.  *)
(***************************************************************************)
EXTENDS AiTreeImport, TLAPS

\* The task of a job is not queued before confirm_upload ran.
QueuedByConfirm == \A j \in Job : upload[j] \in {"none", "asked", "confirm"} => task[j] = "none"

\* finalize_job is called for a job.
FinalizesJob == \A r \in Request : finalize[r].st # "no" => finalize[r].job \in Job

Serves(r) == finalize[r].st \in {"claimed", "created"}

\* A job that is READY was processed, and neither claimed nor made a tree.
ReadyIsUnclaimed == \A j \in Job : row[j] = "READY" =>
  /\ task[j] = "done" /\ trees[j] = 0
  /\ \A r \in Request : Serves(r) => finalize[r].job # j

\* A claimed job was processed, and is not READY again.
ClaimIsFinal == \A r \in Request : Serves(r) =>
  /\ task[finalize[r].job] = "done" /\ row[finalize[r].job] # "READY"
  /\ finalize[r].st = "claimed" => trees[finalize[r].job] = 0

\* However many calls are served, one of them at most has claimed a job.
ClaimIsAlone == \A r, s \in Request :
  Serves(r) /\ Serves(s) /\ finalize[r].job = finalize[s].job => r = s

\* So it made one tree at most, and a job that made one is not READY.
TreeIsFinal == \A j \in Job :
  /\ trees[j] \in {0, 1}
  /\ trees[j] = 1 => task[j] = "done" /\ row[j] # "READY"

\* A task that overtakes confirm_upload is noted.
OvertakingIsNoted == \A j \in Job :
  task[j] = "done" /\ upload[j] = "confirming" => j \in overtook

ServerSafe == /\ QueuedByConfirm /\ FinalizesJob /\ ReadyIsUnclaimed /\ ClaimIsFinal
              /\ ClaimIsAlone /\ TreeIsFinal /\ OvertakingIsNoted /\ OutcomeIsKept

Active(j) == upload[j] \notin {"none", "ended"}

\* A job belongs to the panel that picked it, which may have been left, and
\* is asked for only once it was picked.
OwnerIsPast == \A j \in Job :
  /\ owner[j] \in 1..mount
  /\ upload[j] = "none" => j \notin timers /\ polls[j] = {}

\* A ref names an interval of its own panel.
RefIsOwn == \A m \in Mount : pollTimer[m] # NoJob =>
  owner[pollTimer[m]] = m /\ upload[pollTimer[m]] = "ended"

\* No answer to the panel was late.
Timely(m) == m \notin overdue

\* One upload at a time and no interval beside it, and the screen shows it.
OneUpload == \A j \in Job : Active(j) /\ Timely(owner[j]) =>
  /\ \A i \in Job : Active(i) /\ owner[i] = owner[j] => i = j
  /\ \A i \in timers : owner[i] # owner[j]
  /\ Mine(j) => status = "uploading" /\ (upload[j] # "asked" => jobId = j)

\* One interval, of the job, and one request of it on its way.
OneInterval == \A j \in Job : Timely(owner[j]) =>
  /\ j \in timers => pollTimer[owner[j]] = j
  /\ j \in timers /\ Mine(j) => status = "processing" /\ jobId = j
  /\ polls[j] # {} => j \in timers
  /\ \A a, b \in polls[j] : a = b

\* The draft shown is of the job, and only a shown draft is finalized.
ReadyShowsJob == Timely(mount) /\ status = "ready" => draft = jobId /\ persons = jobId

FinalizesShown == Timely(mount) =>
  /\ finalizing # NoRequest => status = "ready" /\ finalizeResult = NoJob
  /\ finalizeResult # NoJob => status \in {"ready", "idle"}

HookSafe == OneUpload /\ OneInterval /\ ReadyShowsJob /\ FinalizesShown

HookInv == OwnerIsPast /\ RefIsOwn /\ HookSafe

----------------------------------------------------------------------------
(* The types *)

\* What finalize_job does to its call, and to no other.
LEMMA Served ==
  ASSUME TypeOK, NEW r \in Request, NEW from, NEW to \in Finalize, Serving(r, from, to)
  PROVE  /\ finalize' \in [Request -> [job : Job \cup {NoJob}, st : Finalize, seen : Row]]
         /\ finalize[r].st = from /\ finalize'[r].st = to /\ finalize'[r].job = finalize[r].job
         /\ \A s \in Request \ {r} : finalize'[s] = finalize[s]
  BY DEF TypeOK, Serving

LEMMA TypeStep == TypeOK /\ FinalizesJob /\ [Next]_vars => TypeOK'
  <1> SUFFICES ASSUME TypeOK, FinalizesJob, [Next]_vars PROVE TypeOK'
    OBVIOUS
  <1> USE DEF TypeOK, hook, panel, server
  <1>1. ASSUME NEW j \in Job, PickFile(j) PROVE TypeOK'
    BY <1>1 DEF PickFile, Upload
  <1>2. ASSUME NEW j \in Job, Ticket(j) PROVE TypeOK'
    BY <1>2 DEF Ticket, FailWith, Shows, Upload, Row
  <1>3. ASSUME NEW j \in Job, StartConfirm(j) PROVE TypeOK'
    BY <1>3 DEF StartConfirm, Upload
  <1>4. ASSUME NEW j \in Job, CommitConfirm(j) PROVE TypeOK'
    BY <1>4 DEF CommitConfirm, Upload, Row
  <1>5. ASSUME NEW j \in Job, Confirmed(j) PROVE TypeOK'
    BY <1>5 DEF Confirmed, Shows, Upload
  <1>6. ASSUME NEW j \in Job, NotConfirmed(j) PROVE TypeOK'
    BY <1>6 DEF NotConfirmed, FailWith, Shows, Upload
  <1>7. ASSUME NEW j \in Job, RunTask(j) PROVE TypeOK'
    BY <1>7 DEF RunTask
  <1>8. ASSUME NEW j \in Job, EndTask(j) PROVE TypeOK'
    BY <1>8 DEF EndTask, Outcomes, Row
  <1>9. ASSUME NEW j \in Job, LoseTask(j) PROVE TypeOK'
    BY <1>9 DEF LoseTask
  <1>10. ASSUME NEW j \in Job, Tick(j) PROVE TypeOK'
    BY <1>10 DEF Tick, NoteOverdue
  <1>11. ASSUME NEW j \in Job, AnswerPoll(j) PROVE TypeOK'
    BY <1>11 DEF AnswerPoll, Heeded
  <1>12. ASSUME NEW j \in Job, Timeout(j) PROVE TypeOK'
    BY <1>12 DEF Timeout, Shows, NoteOverdue, StopPolling, AfterStop
  <1>13. ASSUME NEW j \in Job, \E a \in {"READY", "FAILED"} : PollAnswered(j, a) PROVE TypeOK'
    BY <1>13 DEF PollAnswered, Shows, StopPolling, AfterStop
  <1>14. CASE Reset
    BY <1>14 DEF Reset, StopPolling, AfterStop
  <1>15. CASE ClickCreate
    BY <1>15 DEF ClickCreate, Finalize, Row
  <1>16. ASSUME NEW r \in Request, LoadJob(r) PROVE TypeOK'
    <2>1. row[finalize[r].job] \in Row /\ {"refused", "loaded"} \subseteq Finalize
      BY <1>16 DEF LoadJob, FinalizesJob, Finalize
    <2>2. PICK st \in Finalize, seen \in Row :
            finalize' = [finalize EXCEPT ![r] = [job |-> finalize[r].job, st |-> st, seen |-> seen]]
      BY <1>16, <2>1 DEF LoadJob
    <2>3. finalize' \in [Request -> [job : Job \cup {NoJob}, st : Finalize, seen : Row]]
      BY <1>16, <2>2 DEF LoadJob, FinalizesJob
    <2> QED BY <1>16, <2>3 DEF LoadJob
  <1>17. ASSUME NEW r \in Request, ClaimJob(r) PROVE TypeOK'
    <2>1. finalize[r].job \in Job /\ "FINALIZING" \in Row
      BY <1>17 DEF ClaimJob, Serving, FinalizesJob, Row
    <2>2. finalize' \in [Request -> [job : Job \cup {NoJob}, st : Finalize, seen : Row]]
      BY <1>17, Served DEF ClaimJob, Finalize
    <2> QED BY <1>17, <2>1, <2>2 DEF ClaimJob
  <1>18. ASSUME NEW r \in Request, CreateTree(r) PROVE TypeOK'
    <2>1. finalize[r].job \in Job
      BY <1>18 DEF CreateTree, Serving, FinalizesJob
    <2>2. finalize' \in [Request -> [job : Job \cup {NoJob}, st : Finalize, seen : Row]]
      BY <1>18, Served DEF CreateTree, Finalize
    <2> QED BY <1>18, <2>1, <2>2 DEF CreateTree
  <1>19. ASSUME NEW r \in Request, DeleteJob(r) PROVE TypeOK'
    <2>1. finalize[r].job \in Job /\ "deleted" \in Row
      BY <1>19 DEF DeleteJob, Serving, FinalizesJob, Row
    <2>2. finalize' \in [Request -> [job : Job \cup {NoJob}, st : Finalize, seen : Row]]
      BY <1>19, Served DEF DeleteJob, Finalize
    <2> QED BY <1>19, <2>1, <2>2 DEF DeleteJob
  <1>20. CASE FinalizeAnswered
    BY <1>20 DEF FinalizeAnswered, Finalize, FinalizesJob
  <1>21. CASE Leave
    BY <1>21, AiTreeImportAssumption DEF Leave, Mount
  <1>22. CASE UNCHANGED vars
    BY <1>22 DEF vars
  <1> QED
    BY <1>1, <1>2, <1>3, <1>4, <1>5, <1>6, <1>7, <1>8, <1>9, <1>10, <1>11, <1>12, <1>13,
       <1>14, <1>15, <1>16, <1>17, <1>18, <1>19, <1>20, <1>21, <1>22
    DEF Next, Uploading, Working, ServeFinalize

----------------------------------------------------------------------------
(* The server *)

\* The tab's own steps: a request is asked for, answered or given up, and
\* what is asked of the server is for a job the tab knows.
LEMMA TabStepIsSafe ==
  ASSUME TypeOK, ServerSafe,
         \/ \E j \in Job : \/ PickFile(j) \/ Confirmed(j) \/ NotConfirmed(j) \/ Tick(j)
                           \/ AnswerPoll(j) \/ Timeout(j)
                           \/ \E a \in {"READY", "FAILED"} : PollAnswered(j, a)
         \/ Reset \/ Leave \/ ClickCreate \/ FinalizeAnswered
  PROVE  ServerSafe'
  <1>1. UNCHANGED <<row, uploaded, task, trees, overtook>>
    BY DEF server, PickFile, Confirmed, NotConfirmed, Tick, AnswerPoll, Timeout, PollAnswered,
           Reset, Leave, ClickCreate, FinalizeAnswered
  <1>2. \A j \in Job : \/ upload'[j] = upload[j]
                       \/ upload'[j] = "asked" /\ upload[j] = "none"
                       \/ upload'[j] = "ended"
    BY DEF TypeOK, panel, hook, FailWith, PickFile, Confirmed, NotConfirmed, Tick, AnswerPoll,
           Timeout, PollAnswered, Reset, Leave, ClickCreate, FinalizeAnswered
  <1>3. \A r \in Request : \/ finalize'[r] = finalize[r]
                           \/ finalize'[r].st = "asked" /\ finalize'[r].job \in Job
    BY DEF TypeOK, server, PickFile, Confirmed, NotConfirmed, Tick, AnswerPoll, Timeout,
           PollAnswered, Reset, Leave, ClickCreate, FinalizeAnswered
  <1>4. QueuedByConfirm' /\ OvertakingIsNoted' /\ OutcomeIsKept' /\ TreeIsFinal'
    BY <1>1, <1>2 DEF ServerSafe, QueuedByConfirm, OvertakingIsNoted, OutcomeIsKept, TreeIsFinal
  <1>5. FinalizesJob' /\ ReadyIsUnclaimed' /\ ClaimIsFinal' /\ ClaimIsAlone'
    BY <1>1, <1>3 DEF ServerSafe, FinalizesJob, ReadyIsUnclaimed, ClaimIsFinal, ClaimIsAlone, Serves
  <1> QED
    BY <1>4, <1>5 DEF ServerSafe

\* The upload, and the task it queues: a row gets a new status for a job that
\* is not claimed, or one that is not READY.
LEMMA JobStepIsSafe ==
  ASSUME TypeOK, ServerSafe, NEW j \in Job,
         Ticket(j) \/ StartConfirm(j) \/ CommitConfirm(j) \/ Working(j)
  PROVE  ServerSafe'
  <1> USE DEF TypeOK, hook, panel, ServerSafe, QueuedByConfirm, FinalizesJob, ReadyIsUnclaimed,
              ClaimIsFinal, ClaimIsAlone, Serves, TreeIsFinal, OvertakingIsNoted, OutcomeIsKept
  <1>1. CASE Ticket(j)
    BY <1>1 DEF Ticket, FailWith
  <1>2. CASE StartConfirm(j)
    BY <1>2 DEF StartConfirm
  <1>3. CASE CommitConfirm(j)
    BY <1>3 DEF CommitConfirm
  <1>4. CASE RunTask(j)
    BY <1>4 DEF RunTask
  <1>5. CASE EndTask(j)
    BY <1>5 DEF EndTask, Outcomes
  <1>6. CASE LoseTask(j)
    BY <1>6 DEF LoseTask
  <1> QED
    BY <1>1, <1>2, <1>3, <1>4, <1>5, <1>6 DEF Working

\* The claim, the tree made under it, and the deletion of the row.
LEMMA FinalizeStepIsSafe ==
  ASSUME TypeOK, ServerSafe, NEW r \in Request, ServeFinalize(r)
  PROVE  ServerSafe'
  <1> USE DEF hook, panel, ServerSafe, QueuedByConfirm, FinalizesJob, ReadyIsUnclaimed,
              ClaimIsFinal, ClaimIsAlone, Serves, TreeIsFinal, OvertakingIsNoted, OutcomeIsKept
  <1>1. CASE LoadJob(r)
    BY <1>1 DEF LoadJob, TypeOK
  <1> DEFINE j == finalize[r].job
  <1>2. CASE ClaimJob(r)
    <2>1. PICK to \in {"claimed", "refused"} :
            /\ Serving(r, "loaded", to)
            /\ IF to = "claimed" THEN row[j] = "READY" /\ row' = [row EXCEPT ![j] = "FINALIZING"]
                                 ELSE row' = row
      BY <1>2 DEF ClaimJob, Claim
    <2>2. to \in Finalize /\ j \in Job
      BY <2>1 DEF Finalize, Serving
    <2>3. /\ finalize[r].st = "loaded" /\ finalize'[r].st = to /\ finalize'[r].job = j
          /\ \A s \in Request \ {r} : finalize'[s] = finalize[s]
      BY <2>1, <2>2, Served
    <2>4. UNCHANGED <<upload, task, trees, overtook>>
      BY <1>2 DEF ClaimJob
    <2>5. \A i \in Job : row'[i] = row[i] \/ (i = j /\ row'[i] = "FINALIZING" /\ to = "claimed")
      BY <2>1, <2>2 DEF TypeOK
    <2>6. to = "claimed" => row[j] = "READY" /\ row'[j] = "FINALIZING"
      BY <2>1, <2>2 DEF TypeOK
    <2>7. QueuedByConfirm' /\ FinalizesJob' /\ TreeIsFinal' /\ OvertakingIsNoted' /\ OutcomeIsKept'
      BY <2>2, <2>3, <2>4, <2>5
    <2>8. ReadyIsUnclaimed'
      BY <2>1, <2>2, <2>3, <2>4, <2>5, <2>6
    <2>9. ClaimIsFinal'
      BY <2>1, <2>2, <2>3, <2>4, <2>5, <2>6
    <2>10. ClaimIsAlone'
      BY <2>1, <2>2, <2>3, <2>6
    <2> QED BY <2>7, <2>8, <2>9, <2>10
  <1>3. CASE CreateTree(r)
    <2>1. PICK to \in {"created", "refused"} :
            /\ Serving(r, "claimed", to)
            /\ trees' = IF to = "created" THEN [trees EXCEPT ![j] = @ + 1] ELSE trees
      BY <1>3 DEF CreateTree
    <2>2. to \in Finalize /\ j \in Job
      BY <2>1 DEF Finalize, Serving
    <2>3. /\ finalize[r].st = "claimed" /\ finalize'[r].st = to /\ finalize'[r].job = j
          /\ \A s \in Request \ {r} : finalize'[s] = finalize[s]
      BY <2>1, <2>2, Served
    <2>4. UNCHANGED <<upload, task, row, overtook>>
      BY <1>3 DEF CreateTree
    <2>5. trees[j] = 0 /\ task[j] = "done" /\ row[j] # "READY"
      BY <2>2, <2>3
    <2>6. \A i \in Job : trees'[i] = trees[i] \/ (i = j /\ trees'[i] = 1)
      BY <2>1, <2>2, <2>5 DEF TypeOK
    <2>7. QueuedByConfirm' /\ FinalizesJob' /\ TreeIsFinal' /\ OvertakingIsNoted' /\ OutcomeIsKept'
      BY <2>2, <2>3, <2>4, <2>5, <2>6
    <2>8. ReadyIsUnclaimed' /\ ClaimIsAlone'
      BY <2>1, <2>2, <2>3, <2>4, <2>5, <2>6
    <2>9. ClaimIsFinal'
      BY <2>1, <2>2, <2>3, <2>4, <2>5, <2>6
    <2> QED BY <2>7, <2>8, <2>9
  <1>4. CASE DeleteJob(r)
    <2>1. PICK to \in {"ok", "refused"} :
            /\ Serving(r, "created", to)
            /\ row' = IF to = "ok" THEN [row EXCEPT ![j] = "deleted"] ELSE row
      BY <1>4 DEF DeleteJob
    <2>2. to \in Finalize /\ j \in Job
      BY <2>1 DEF Finalize, Serving
    <2>3. /\ finalize[r].st = "created" /\ finalize'[r].st = to /\ finalize'[r].job = j
          /\ \A s \in Request \ {r} : finalize'[s] = finalize[s]
      BY <2>1, <2>2, Served
    <2>4. UNCHANGED <<upload, task, trees, overtook>>
      BY <1>4 DEF DeleteJob
    <2>5. \A i \in Job : row'[i] = row[i] \/ row'[i] = "deleted"
      BY <2>1, <2>2 DEF TypeOK
    <2> QED BY <2>1, <2>2, <2>3, <2>4, <2>5
  <1> QED
    BY <1>1, <1>2, <1>3, <1>4 DEF ServeFinalize

LEMMA ServerStep == TypeOK /\ ServerSafe /\ [Next]_vars => ServerSafe'
  <1>1. ASSUME ServerSafe, UNCHANGED vars PROVE ServerSafe'
    BY <1>1 DEF vars, server, panel, ServerSafe, QueuedByConfirm, FinalizesJob, Serves,
                ReadyIsUnclaimed, ClaimIsFinal, ClaimIsAlone, TreeIsFinal, OvertakingIsNoted,
                OutcomeIsKept
  <1> QED
    BY <1>1, TabStepIsSafe, JobStepIsSafe, FinalizeStepIsSafe DEF Next, Uploading

LEMMA ServerInvariant == Spec => [](TypeOK /\ ServerSafe)
  <1>1. Init => TypeOK /\ ServerSafe
    <2> SUFFICES ASSUME Init PROVE TypeOK /\ ServerSafe
      OBVIOUS
    <2>1. TypeOK
      <3>1. /\ upload \in [Job -> Upload] /\ row \in [Job -> Row]
            /\ polls \in [Job -> SUBSET {"asked", "READY", "FAILED"}]
            /\ task \in [Job -> {"none", "queued", "running", "done", "lost"}]
        BY DEF Init, Upload, Row
      <3>2. finalizing = NoRequest
            /\ finalize \in [Request -> [job : Job \cup {NoJob}, st : Finalize, seen : Row]]
        BY DEF Init, Finalize, Row
      <3>3. trees \in [Job -> Nat]
        BY DEF Init
      <3>4. {jobId, draft, persons, finalizeResult} \subseteq Job \cup {NoJob}
        BY DEF Init
      <3>5. mount \in Mount /\ owner \in [Job -> Mount] /\ pollTimer \in [Mount -> Job \cup {NoJob}]
        BY AiTreeImportAssumption DEF Init, Mount
      <3> QED BY <3>1, <3>2, <3>3, <3>4, <3>5 DEF Init, TypeOK
    <2>2. \A r \in Request : finalize[r].st = "no"
      BY DEF Init
    <2>3. ServerSafe
      BY <2>2 DEF Init, ServerSafe, QueuedByConfirm, FinalizesJob, ReadyIsUnclaimed, Serves,
                  ClaimIsFinal, ClaimIsAlone, TreeIsFinal, OvertakingIsNoted, OutcomeIsKept
    <2> QED BY <2>1, <2>3
  <1>2. TypeOK /\ ServerSafe /\ [Next]_vars => (TypeOK /\ ServerSafe)'
    BY TypeStep, ServerStep DEF ServerSafe
  <1> QED
    BY <1>1, <1>2, PTL DEF Spec

\* The variables keep their types.
THEOREM TypeCorrect == Spec => []TypeOK
  BY ServerInvariant, PTL

\* Of a job one tree is made at most, however many calls of finalize_job are
\* served at once: one of them claims the row, the claim is not given back, and
\* neither the task nor the late commit of confirm_upload makes it READY again.
THEOREM OneTree == Spec => []OneTreePerJob
  <1>1. TypeOK /\ ServerSafe => OneTreePerJob
    <2> SUFFICES ASSUME TreeIsFinal, NEW j \in Job PROVE trees[j] <= 1
      BY DEF ServerSafe, OneTreePerJob
    <2>1. trees[j] = 0 \/ trees[j] = 1
      BY DEF TreeIsFinal
    <2> QED BY <2>1, SMT
  <1> QED
    BY <1>1, ServerInvariant, PTL

\* Only a task that was done before confirm_upload committed loses its outcome.
THEOREM OutcomeKept == Spec => []OutcomeIsKept
  <1>1. TypeOK /\ ServerSafe => OutcomeIsKept
    BY DEF ServerSafe
  <1> QED
    BY <1>1, ServerInvariant, PTL

----------------------------------------------------------------------------
(* The panels, while no answer is late *)

\* The upload of a job, from the click to the start of its interval.
LEMMA UploadStepIsSafe ==
  ASSUME TypeOK, HookInv, NEW j \in Job,
         PickFile(j) \/ Uploading(j) \/ Working(j)
  PROVE  HookInv'
  <1> USE DEF TypeOK, hook, panel, server, HookInv, HookSafe, OwnerIsPast, RefIsOwn, OneUpload,
              OneInterval, ReadyShowsJob, FinalizesShown, Active, Mine, Timely, Shows, FailWith
  <1>1. CASE PickFile(j)
    <2>1. /\ status = "idle" /\ finalizeResult = NoJob /\ upload[j] = "none"
          /\ status' = "uploading" /\ upload'[j] = "asked" /\ owner'[j] = mount
          /\ \A i \in Job \ {j} : upload'[i] = upload[i] /\ owner'[i] = owner[i]
          /\ UNCHANGED <<jobId, draft, persons, timers, pollTimer, polls, mount, finalizing,
                         finalizeResult, overdue>>
      BY <1>1 DEF PickFile, Screen
    <2>2. OwnerIsPast' /\ RefIsOwn'
      BY <2>1, AiTreeImportAssumption DEF Mount
    <2>3. Timely(mount) => \A i \in Job : owner[i] = mount => ~Active(i) /\ i \notin timers
      BY <2>1
    <2>4. OneUpload'
      BY <2>1, <2>3
    <2>5. OneInterval'
      BY <2>1, <2>3
    <2>6. ReadyShowsJob' /\ FinalizesShown'
      BY <2>1
    <2> QED BY <2>2, <2>4, <2>5, <2>6
  <1>2. CASE Ticket(j)
    BY <1>2 DEF Ticket
  <1>3. CASE StartConfirm(j)
    BY <1>3 DEF StartConfirm
  <1>4. CASE CommitConfirm(j)
    BY <1>4 DEF CommitConfirm
  <1>5. CASE Confirmed(j)
    BY <1>5 DEF Confirmed
  <1>6. CASE NotConfirmed(j)
    BY <1>6 DEF NotConfirmed
  <1>7. CASE Working(j)
    BY <1>7 DEF Working, RunTask, EndTask, LoseTask
  <1> QED
    BY <1>1, <1>2, <1>3, <1>4, <1>5, <1>6, <1>7 DEF Uploading

\* The interval and the answers: a late one makes its panel untimely.
LEMMA PollStepIsSafe ==
  ASSUME TypeOK, HookInv, NEW j \in Job,
         \/ Tick(j) \/ AnswerPoll(j) \/ Timeout(j)
         \/ \E a \in {"READY", "FAILED"} : PollAnswered(j, a)
  PROVE  HookInv'
  <1> USE DEF TypeOK, hook, panel, server, HookInv, HookSafe, OwnerIsPast, RefIsOwn, OneUpload,
              OneInterval, ReadyShowsJob, FinalizesShown, Active, Mine, Timely, Shows,
              NoteOverdue, StopPolling, AfterStop
  <1>1. CASE Tick(j)
    BY <1>1 DEF Tick
  <1>2. CASE AnswerPoll(j)
    BY <1>2 DEF AnswerPoll, Heeded
  <1>3. CASE Timeout(j)
    BY <1>3, AiTreeImportAssumption DEF Timeout
  <1>4. CASE \E a \in {"READY", "FAILED"} : PollAnswered(j, a)
    BY <1>4, AiTreeImportAssumption DEF PollAnswered
  <1> QED
    BY <1>1, <1>2, <1>3, <1>4

\* The buttons of the panel, leaving it, and what finalize_job does and answers.
LEMMA PanelStepIsSafe ==
  ASSUME TypeOK, HookInv,
         \/ Reset \/ Leave \/ ClickCreate \/ FinalizeAnswered
         \/ \E r \in Request : ServeFinalize(r)
  PROVE  HookInv'
  <1> USE DEF TypeOK, hook, panel, server, HookInv, HookSafe, OwnerIsPast, RefIsOwn, OneUpload,
              OneInterval, ReadyShowsJob, FinalizesShown, Active, Mine, Timely
  <1>1. CASE Reset
    BY <1>1, AiTreeImportAssumption DEF Reset, Screen, StopPolling, AfterStop
  <1>2. CASE Leave
    BY <1>2, AiTreeImportAssumption DEF Leave, Mount
  <1>3. CASE ClickCreate
    BY <1>3 DEF ClickCreate, Screen
  <1>4. CASE \E r \in Request : ServeFinalize(r)
    <2>1. UNCHANGED <<hook, panel, upload, owner, polls, overdue>>
      BY ONLY <1>4 DEF ServeFinalize, LoadJob, ClaimJob, CreateTree, DeleteJob
    <2> QED BY <2>1
  <1>5. CASE FinalizeAnswered
    BY <1>5 DEF FinalizeAnswered
  <1> QED
    BY <1>1, <1>2, <1>3, <1>4, <1>5

LEMMA HookInvariant == Spec => []HookInv
  <1>1. Init => HookInv
    BY AiTreeImportAssumption
    DEF Init, HookInv, HookSafe, OwnerIsPast, RefIsOwn, OneUpload, OneInterval, ReadyShowsJob,
        FinalizesShown, Active, Mine, Timely, Mount
  <1>2. ASSUME HookInv, UNCHANGED vars PROVE HookInv'
    BY <1>2 DEF vars, hook, panel, HookInv, HookSafe, OwnerIsPast, RefIsOwn, OneUpload,
                OneInterval, ReadyShowsJob, FinalizesShown, Active, Mine, Timely
  <1>3. TypeOK /\ HookInv /\ [Next]_vars => HookInv'
    BY <1>2, UploadStepIsSafe, PollStepIsSafe, PanelStepIsSafe DEF Next
  <1> QED
    BY <1>1, <1>3, ServerInvariant, PTL DEF Spec

\* As long as no answer to it is late, a panel shows, asks for and finalizes
\* one job, whatever the user clicks, whichever request fails, and whatever
\* the panels left before it still run.
THEOREM HookFollows == Spec => []HookFollowsItsJob
  <1>1. TypeOK /\ HookInv => HookFollowsItsJob
    BY DEF TypeOK, HookInv, HookSafe, OneInterval, ReadyShowsJob, Timely, HookFollowsItsJob,
           DraftIsOfItsJob, IntervalIsKnown
  <1> QED
    BY <1>1, HookInvariant, ServerInvariant, PTL

----------------------------------------------------------------------------
(* What keeps an import going, however late an answer *)

\* "Uploading" is shown while some upload of the panel has a next step,
\* "Extracting" while some interval of it runs, which ends it at its time
\* limit if not before.
ImportIsDriven ==
  /\ status = "uploading" => \E j \in Job : Active(j) /\ Mine(j)
  /\ status = "processing" => \E j \in timers : Mine(j)

\* That no import hangs is left to TLC, but what fairness could not repair is
\* proved: a late answer of a job that was given up clears the interval of the
\* job that is being imported, but never without taking its "Extracting" away,
\* and what an earlier panel left behind clears none.
THEOREM NoImportIsAbandoned == Spec => []ImportIsDriven
  <1>1. Init => ImportIsDriven
    BY DEF Init, ImportIsDriven
  <1>2. TypeOK /\ HookInv /\ ImportIsDriven /\ [Next]_vars => ImportIsDriven'
    <2> SUFFICES ASSUME TypeOK, HookInv, ImportIsDriven, [Next]_vars PROVE ImportIsDriven'
      OBVIOUS
    <2> USE DEF TypeOK, hook, panel, server, ImportIsDriven, Active, Mine
    <2>1. ASSUME NEW j \in Job, PickFile(j) PROVE ImportIsDriven'
      <3>1. upload'[j] = "asked" /\ status' = "uploading" /\ owner'[j] = mount /\ mount' = mount
        BY <2>1 DEF PickFile
      <3> QED BY <3>1
    <2>2. ASSUME NEW j \in Job, Uploading(j) PROVE ImportIsDriven'
      <3>1. UNCHANGED <<mount, owner>> /\ timers \subseteq timers'
        BY <2>2 DEF Uploading, Ticket, FailWith, StartConfirm, CommitConfirm, Confirmed, NotConfirmed
      <3>2. \A i \in Job \ {j} : upload'[i] = upload[i]
        BY <2>2 DEF Uploading, Ticket, FailWith, StartConfirm, CommitConfirm, Confirmed, NotConfirmed
      <3>3. CASE ~Mine(j)
        <4>1. status' = status
          BY <2>2, <3>3 DEF Uploading, Ticket, FailWith, Shows, StartConfirm, CommitConfirm,
                            Confirmed, NotConfirmed
        <4> QED BY <3>1, <3>2, <3>3, <4>1
      <3>4. CASE Mine(j)
        <4>1. \/ status' = "error"
              \/ status' = "processing" /\ j \in timers'
              \/ status' = status /\ upload'[j] \notin {"none", "ended"}
          BY <2>2, <3>4 DEF Uploading, Ticket, FailWith, Shows, StartConfirm, CommitConfirm,
                            Confirmed, NotConfirmed
        <4> QED BY <3>1, <3>2, <3>4, <4>1
      <3> QED BY <3>3, <3>4
    <2>3. ASSUME NEW j \in Job, Working(j) \/ Tick(j) \/ AnswerPoll(j) PROVE ImportIsDriven'
      <3>1. UNCHANGED <<status, timers, upload, mount, owner>>
        BY <2>3 DEF Working, RunTask, EndTask, LoseTask, Tick, AnswerPoll
      <3> QED BY <3>1
    <2>4. ASSUME NEW j \in Job, Timeout(j) \/ \E a \in {"READY", "FAILED"} : PollAnswered(j, a)
          PROVE  ImportIsDriven'
      <3>1. /\ timers' = timers \ {pollTimer[owner[j]]} /\ UNCHANGED <<upload, mount, owner>>
            /\ status' \in {"ready", "error"} \/ (status' = status /\ ~Mine(j))
        BY <2>4 DEF Timeout, PollAnswered, StopPolling, AfterStop, Shows
      <3>2. CASE status' \in {"ready", "error"}
        BY <3>2
      <3>3. CASE status' = status /\ ~Mine(j)
        <4>1. \A i \in timers : Mine(i) => i \in timers'
          BY <3>1, <3>3, AiTreeImportAssumption DEF HookInv, RefIsOwn
        <4> QED BY <3>1, <3>3, <4>1
      <3> QED BY <3>1, <3>2, <3>3
    <2>5. CASE Reset \/ Leave
      <3>1. status' = "idle"
        BY <2>5 DEF Reset, Leave
      <3> QED BY <3>1
    <2>6. CASE ClickCreate \/ (\E r \in Request : ServeFinalize(r)) \/ FinalizeAnswered \/ UNCHANGED vars
      <3>1. UNCHANGED <<status, timers, upload, mount, owner>>
        BY <2>6 DEF ClickCreate, ServeFinalize, LoadJob, ClaimJob, CreateTree, DeleteJob,
                    FinalizeAnswered, vars
      <3> QED BY <3>1
    <2> QED BY <2>1, <2>2, <2>3, <2>4, <2>5, <2>6 DEF Next
  <1> QED
    BY <1>1, <1>2, HookInvariant, ServerInvariant, PTL DEF Spec
===============================================================================
