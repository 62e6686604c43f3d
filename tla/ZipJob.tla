------------------------------- MODULE ZipJob -------------------------------
(***************************************************************************)
(* One bulk-download job, from the goroutine DownloadAssets starts to the  *)
(* deletion of its archive (processDownloadJob, stageDownloadAsset and the *)
(* DownloadJobManager methods they call).  A pool of workers fetches every *)
(* requested file into a staging directory, retrying what may be retried;  *)
(* the first failure cancels the others; when all have stopped the main    *)
(* goroutine packs the staged files into a ZIP, publishes it, and a timer  *)
(* deletes it later.  Files are their index in the request.                *)
(***************************************************************************)
EXTENDS Integers, FiniteSets

CONSTANTS
  NAssets,              \* len(assetIDs); the handler refuses fewer than two
  WorkerLimit,          \* downloadWorkerLimit
  MaxAttempts           \* len(downloadRetryDelays)

ASSUME ZipJobAssumption ==
  /\ NAssets \in Nat /\ NAssets >= 2
  /\ WorkerLimit \in Nat \ {0}
  /\ MaxAttempts \in Nat \ {0}

Assets == 1 .. NAssets
WorkerCount == IF WorkerLimit < NAssets THEN WorkerLimit ELSE NAssets
Workers == 1 .. WorkerCount

VARIABLES
  nextTask,             \* head of the closed tasks channel
  wpc, wtask, wattempt, \* each worker: position, task, attempt
  wreport,              \* the progress value a worker is about to report
  cancelled,            \* ctx has been cancelled
  firstFailure,         \* what failureOnce recorded
  completed,            \* the atomic counter of staged files
  staged,               \* indices whose entry of the staged slice is filled
  stageDir, stageFile,  \* the staging directory and its files
  zip, packed, archive, \* the ZIP file, entries written, entries with all bytes
  status, progress, hasPath, registered,   \* the job and its map entry
  mainPc, timer         \* the main goroutine and the delete timer

poolVars == <<nextTask, wpc, wtask, wattempt, wreport, cancelled, firstFailure,
              completed, staged>>
stageVars == <<stageDir, stageFile>>
zipVars == <<zip, packed, archive>>
jobVars == <<status, progress, hasPath, registered>>
mainVars == <<mainPc, timer>>
vars == <<poolVars, stageVars, zipVars, jobVars, mainVars>>

Causes == {"permanent", "exhausted", "file", "cancelled"}

Init ==
  /\ nextTask = 1
  /\ wpc = [w \in Workers |-> "take"]
  /\ wtask = [w \in Workers |-> 1]
  /\ wattempt = [w \in Workers |-> 1]
  /\ wreport = [w \in Workers |-> 0]
  /\ cancelled = FALSE
  /\ firstFailure = "none"
  /\ completed = 0
  /\ staged = {}
  /\ stageDir = FALSE
  /\ stageFile = [i \in Assets |-> "absent"]
  /\ zip = "absent"
  /\ packed = 0
  /\ archive = {}
  /\ status = "processing"
  /\ progress = 0
  /\ hasPath = FALSE
  /\ registered = TRUE
  /\ mainPc = "mkdir"
  /\ timer = "off"

----------------------------------------------------------------------------
(* DownloadJobManager, each under the mutex; a deleted job is left alone.  *)

UpdateProgress(p) ==
  /\ progress' = IF registered THEN p ELSE progress
  /\ UNCHANGED <<status, hasPath, registered>>

SetReady ==
  /\ status' = IF registered THEN "ready" ELSE status
  /\ hasPath' = (registered \/ hasPath)
  /\ progress' = IF registered THEN NAssets ELSE progress
  /\ UNCHANGED registered

SetFailed ==
  /\ status' = IF registered THEN "failed" ELSE status
  /\ UNCHANGED <<progress, hasPath, registered>>

\* Mutated Delete: only the map entry goes.
DeleteEntryOnly ==
  /\ registered' = FALSE
  /\ UNCHANGED <<zip, archive, status, progress, hasPath, packed>>

\* Delete removes the archive named by the job together with the map entry.
Delete ==
  /\ registered' = FALSE
  /\ zip' = IF registered /\ hasPath THEN "absent" ELSE zip
  /\ archive' = IF registered /\ hasPath THEN {} ELSE archive
  /\ UNCHANGED <<status, progress, hasPath, packed>>

----------------------------------------------------------------------------
(* The worker pool.                                                        *)

\* Mutated Take: the task is looked at and stays in the channel.
TakePeeks(w) ==
  /\ mainPc = "join"
  /\ wpc[w] = "take"
  /\ nextTask <= NAssets /\ ~cancelled
  /\ wpc' = [wpc EXCEPT ![w] = "attempt"]
  /\ wtask' = [wtask EXCEPT ![w] = nextTask]
  /\ wattempt' = [wattempt EXCEPT ![w] = 1]
  /\ UNCHANGED <<nextTask, wreport, cancelled, firstFailure, completed, staged,
                 stageVars, zipVars, jobVars, mainVars>>

\* Receive from the channel; a worker that finds it drained, or finds the
\* context cancelled after receiving, returns.
Take(w) ==
  /\ mainPc = "join"
  /\ wpc[w] = "take"
  /\ nextTask' = IF nextTask <= NAssets THEN nextTask + 1 ELSE nextTask
  /\ IF nextTask > NAssets \/ cancelled
       THEN /\ wpc' = [wpc EXCEPT ![w] = "exited"]
            /\ UNCHANGED <<wtask, wattempt>>
       ELSE /\ wpc' = [wpc EXCEPT ![w] = "attempt"]
            /\ wtask' = [wtask EXCEPT ![w] = nextTask]
            /\ wattempt' = [wattempt EXCEPT ![w] = 1]
  /\ UNCHANGED <<wreport, cancelled, firstFailure, completed, staged,
                 stageVars, zipVars, jobVars, mainVars>>

\* Mutated Fail: without failureOnce.
FailOverwrites(w, cause) ==
  /\ wpc' = [wpc EXCEPT ![w] = "take"]
  /\ firstFailure' = cause
  /\ cancelled' = TRUE
  /\ UNCHANGED <<nextTask, wtask, wattempt, wreport, completed, staged>>

\* stageDownloadAsset returned an error: failureOnce records the first one
\* and cancels the context, then the worker goes on to the next task.
Fail(w, cause) ==
  /\ wpc' = [wpc EXCEPT ![w] = "take"]
  /\ firstFailure' = IF firstFailure = "none" THEN cause ELSE firstFailure
  /\ cancelled' = TRUE
  /\ UNCHANGED <<nextTask, wtask, wattempt, wreport, completed, staged>>

\* Mutated Retry: one attempt more than the delays provide for.
RetryOnceMore(w) ==
  /\ wattempt[w] <= MaxAttempts
  /\ wpc' = [wpc EXCEPT ![w] = "attempt"]
  /\ wattempt' = [wattempt EXCEPT ![w] = @ + 1]
  /\ UNCHANGED <<nextTask, wtask, wreport, cancelled, firstFailure,
                 completed, staged>>

\* Mutated Retry: until it works.
RetryForever(w) ==
  /\ wpc' = [wpc EXCEPT ![w] = "attempt"]
  /\ UNCHANGED <<nextTask, wtask, wattempt, wreport, cancelled, firstFailure,
                 completed, staged>>

\* A retryable outcome: the next attempt, or the last error when none is left.
Retry(w) ==
  \/ /\ wattempt[w] < MaxAttempts
     /\ wpc' = [wpc EXCEPT ![w] = "attempt"]
     /\ wattempt' = [wattempt EXCEPT ![w] = @ + 1]
     /\ UNCHANGED <<nextTask, wtask, wreport, cancelled, firstFailure,
                    completed, staged>>
  \/ /\ wattempt[w] = MaxAttempts
     /\ Fail(w, "exhausted")

\* The backoff of an attempt is over, or was cut short by the cancellation.
StartAttempt(w) ==
  /\ wpc[w] = "attempt"
  /\ \/ /\ cancelled
        /\ Fail(w, "cancelled")
     \/ /\ ~cancelled
        /\ wpc' = [wpc EXCEPT ![w] = "request"]
        /\ UNCHANGED <<nextTask, wtask, wattempt, wreport, cancelled,
                       firstFailure, completed, staged>>
  /\ UNCHANGED <<stageVars, zipVars, jobVars, mainVars>>

\* Transport error, 408, 429 or 5xx.
AnswerRetryable(w) ==
  /\ wpc[w] = "request"
  /\ Retry(w)
  /\ UNCHANGED <<stageVars, zipVars, jobVars, mainVars>>

\* Any other status but 200.
AnswerPermanent(w) ==
  /\ wpc[w] = "request"
  /\ Fail(w, "permanent")
  /\ UNCHANGED <<stageVars, zipVars, jobVars, mainVars>>

\* 200, and the staging file could not be created.
CreateFileFails(w) ==
  /\ wpc[w] = "request"
  /\ Fail(w, "file")
  /\ UNCHANGED <<stageVars, zipVars, jobVars, mainVars>>

\* Mutated AnswerOk: the file counts as done when its body starts.
AnswerOkCounts(w) ==
  /\ wpc[w] = "request"
  /\ wpc' = [wpc EXCEPT ![w] = "body"]
  /\ stageFile' = [stageFile EXCEPT ![wtask[w]] = "partial"]
  /\ completed' = completed + 1
  /\ UNCHANGED <<nextTask, wtask, wattempt, wreport, cancelled, firstFailure,
                 staged, stageDir, zipVars, jobVars, mainVars>>

\* 200: the body is being copied into the staging file.
AnswerOk(w) ==
  /\ wpc[w] = "request"
  /\ wpc' = [wpc EXCEPT ![w] = "body"]
  /\ stageFile' = [stageFile EXCEPT ![wtask[w]] = "partial"]
  /\ UNCHANGED <<nextTask, wtask, wattempt, wreport, cancelled, firstFailure,
                 completed, staged, stageDir, zipVars, jobVars, mainVars>>

\* Mutated BodyBreaks: the error of the copy is not looked at.
BodyBreaksUnseen(w) ==
  /\ wpc[w] = "body"
  /\ wpc' = [wpc EXCEPT ![w] = "report"]
  /\ staged' = staged \cup {wtask[w]}
  /\ completed' = completed + 1
  /\ wreport' = [wreport EXCEPT ![w] = completed + 1]
  /\ UNCHANGED <<nextTask, wtask, wattempt, cancelled, firstFailure,
                 stageVars, zipVars, jobVars, mainVars>>

\* The stream broke: the partial file is removed and the attempt retried.
BodyBreaks(w) ==
  /\ wpc[w] = "body"
  /\ stageFile' = [stageFile EXCEPT ![wtask[w]] = "absent"]
  /\ Retry(w)
  /\ UNCHANGED <<stageDir, zipVars, jobVars, mainVars>>

BodyComplete(w) ==
  /\ wpc[w] = "body"
  /\ wpc' = [wpc EXCEPT ![w] = "report"]
  /\ stageFile' = [stageFile EXCEPT ![wtask[w]] = "complete"]
  /\ staged' = staged \cup {wtask[w]}
  /\ completed' = completed + 1
  /\ wreport' = [wreport EXCEPT ![w] = completed + 1]
  /\ UNCHANGED <<nextTask, wtask, wattempt, cancelled, firstFailure,
                 stageDir, zipVars, jobVars, mainVars>>

\* No bytes and no close, of a file or of the text of an error: the copy has no
\* idle guard, the media client no total timeout and the request no context,
\* so nothing, not even the cancellation, ever wakes this worker.
BodyStalls(w) ==
  /\ wpc[w] \in {"request", "body"}
  /\ wpc' = [wpc EXCEPT ![w] = "stalled"]
  /\ UNCHANGED <<nextTask, wtask, wattempt, wreport, cancelled, firstFailure,
                 completed, staged, stageVars, zipVars, jobVars, mainVars>>

Report(w) ==
  /\ wpc[w] = "report"
  /\ UpdateProgress(wreport[w])
  /\ wpc' = [wpc EXCEPT ![w] = "take"]
  /\ UNCHANGED <<nextTask, wtask, wattempt, wreport, cancelled, firstFailure,
                 completed, staged, stageVars, zipVars, mainVars>>

WorkerStep(w) ==
  \/ Take(w) \/ StartAttempt(w) \/ AnswerRetryable(w) \/ AnswerPermanent(w)
  \/ CreateFileFails(w) \/ AnswerOk(w) \/ BodyBreaks(w) \/ BodyComplete(w)
  \/ Report(w)

----------------------------------------------------------------------------
(* The main goroutine; its deferred calls are the steps drop and sweep.    *)

GoTo(pc) == mainPc' = pc /\ UNCHANGED timer

Mkdir ==
  /\ mainPc = "mkdir"
  /\ \/ stageDir' = TRUE /\ GoTo("join") /\ UNCHANGED jobVars
     \/ SetFailed /\ GoTo("done") /\ UNCHANGED stageDir
  /\ UNCHANGED <<poolVars, stageFile, zipVars>>

Join ==
  /\ mainPc = "join"
  /\ \A w \in Workers : wpc[w] = "exited"
  /\ IF firstFailure # "none"
       THEN SetFailed /\ GoTo("sweep")
       ELSE UNCHANGED jobVars /\ GoTo("create")
  /\ UNCHANGED <<poolVars, stageVars, zipVars>>

CreateZip ==
  /\ mainPc = "create"
  /\ \/ zip' = "open" /\ GoTo("pack") /\ UNCHANGED jobVars
     \/ SetFailed /\ GoTo("sweep") /\ UNCHANGED zip
  /\ UNCHANGED <<poolVars, stageVars, packed, archive>>

\* One iteration of the loop over staged: an entry that was never filled
\* cannot be opened; one that is only partly there is copied as it is.
PackEntry ==
  /\ mainPc = "pack" /\ packed < NAssets
  /\ LET i == packed + 1 IN
       /\ i \in staged
       /\ stageFile[i] # "absent"
       /\ packed' = i
       /\ archive' = IF stageFile[i] = "complete" THEN archive \cup {i}
                                                  ELSE archive
  /\ UNCHANGED <<poolVars, stageVars, zip, jobVars, mainVars>>

\* Mutated PackFails: the deferred removal of the ZIP is missing.
PackFailsKeeps ==
  /\ mainPc = "pack"
  /\ SetFailed
  /\ GoTo("sweep")
  /\ UNCHANGED <<poolVars, stageVars, zipVars>>

PackFails ==
  /\ mainPc = "pack"
  /\ SetFailed
  /\ GoTo("drop")
  /\ UNCHANGED <<poolVars, stageVars, zipVars>>

CloseZip ==
  /\ mainPc = "pack" /\ packed = NAssets
  /\ zip' = "closed"
  /\ GoTo("publish")
  /\ UNCHANGED <<poolVars, stageVars, packed, archive, jobVars>>

Publish ==
  /\ mainPc = "publish"
  /\ SetReady
  /\ GoTo("schedule")
  /\ UNCHANGED <<poolVars, stageVars, zipVars>>

\* Mutated Schedule: no timer.
ScheduleForgets ==
  /\ mainPc = "schedule"
  /\ GoTo("sweep")
  /\ UNCHANGED <<poolVars, stageVars, zipVars, jobVars>>

Schedule ==
  /\ mainPc = "schedule"
  /\ mainPc' = "sweep"
  /\ timer' = "sleeping"
  /\ UNCHANGED <<poolVars, stageVars, zipVars, jobVars>>

DropZip ==
  /\ mainPc = "drop"
  /\ zip' = "absent"
  /\ archive' = {}
  /\ GoTo("sweep")
  /\ UNCHANGED <<poolVars, stageVars, packed, jobVars>>

Sweep ==
  /\ mainPc = "sweep"
  /\ stageDir' = FALSE
  /\ stageFile' = [i \in Assets |-> "absent"]
  /\ GoTo("done")
  /\ UNCHANGED <<poolVars, zipVars, jobVars>>

MainStep ==
  \/ Mkdir \/ Join \/ CreateZip \/ PackEntry \/ PackFails \/ CloseZip
  \/ Publish \/ Schedule \/ DropZip \/ Sweep

Expire ==
  /\ timer = "sleeping"
  /\ timer' = "fired"
  /\ Delete
  /\ UNCHANGED <<poolVars, stageVars, mainPc>>

Next ==
  \/ MainStep
  \/ Expire
  \/ \E w \in Workers : WorkerStep(w) \/ BodyStalls(w)

Spec == Init /\ [][Next]_vars

\* Goroutines are scheduled, requests are answered or time out (the media
\* transport bounds dial, TLS and headers), timers fire.  A body that stalls
\* is under no obligation to end.
FairSpec ==
  /\ Spec
  /\ WF_vars(MainStep)
  /\ WF_vars(Expire)
  /\ \A w \in Workers : WF_vars(WorkerStep(w))

----------------------------------------------------------------------------
PoolTypeOK ==
  /\ nextTask \in 1 .. NAssets + 1
  /\ wpc \in [Workers -> {"take", "attempt", "request", "body", "stalled",
                          "report", "exited"}]
  /\ wtask \in [Workers -> Assets]
  /\ wattempt \in [Workers -> 1 .. MaxAttempts]
  /\ wreport \in [Workers -> 0 .. NAssets]
  /\ cancelled \in BOOLEAN
  /\ firstFailure \in Causes \cup {"none"}
  /\ completed \in 0 .. NAssets
  /\ staged \in SUBSET Assets

FileTypeOK ==
  /\ stageDir \in BOOLEAN
  /\ stageFile \in [Assets -> {"absent", "partial", "complete"}]
  /\ zip \in {"absent", "open", "closed"}
  /\ packed \in 0 .. NAssets
  /\ archive \in SUBSET Assets

JobTypeOK ==
  /\ status \in {"processing", "ready", "failed"}
  /\ progress \in 0 .. NAssets
  /\ hasPath \in BOOLEAN
  /\ registered \in BOOLEAN
  /\ mainPc \in {"mkdir", "join", "create", "pack", "publish", "schedule",
                 "drop", "sweep", "done"}
  /\ timer \in {"off", "sleeping", "fired"}

\* The retry counter stays within the delays there are, the staged counter and
\* the task index within the request (share_download.go:165-198).
TypeOK == PoolTypeOK /\ FileTypeOK /\ JobTypeOK

\* A job that a lookup finds ready has its archive on disk, closed, with every
\* requested file whole, and reports full progress: the staging of all files
\* before the ZIP is opened makes the job atomic (share_download.go:154).
ReadyArchiveIsWhole ==
  status = "ready" /\ registered =>
    zip = "closed" /\ hasPath /\ archive = Assets /\ progress = NAssets

\* The failure that is logged is what went wrong first, never the "context
\* canceled" that the other workers return because of it.
RootCauseIsRecorded == firstFailure # "cancelled"

\* The number a poll shows never exceeds the files that are really staged,
\* although workers report their counts in any order.
ProgressIsHonest == progress <= Cardinality(staged)

\* When the goroutine is done nothing of it is left on disk, except the
\* archive of a ready job, and that one has a timer that will delete it.
NothingLeftBehind ==
  mainPc = "done" =>
    /\ ~stageDir /\ \A i \in Assets : stageFile[i] = "absent"
    /\ zip # "absent" => status = "ready" /\ timer = "sleeping"

\* Two workers never stage the same file, and none works on one staged before.
OneWorkerPerFile ==
  \A v, w \in Workers :
    wpc[v] \in {"attempt", "request", "body", "stalled"} =>
      /\ wtask[v] \notin staged
      /\ v # w /\ wpc[w] \in {"attempt", "request", "body", "stalled"}
           => wtask[v] # wtask[w]

\* The staging is sound at every moment: its counters stay within the request,
\* a poll is never shown more than is staged, and no file is staged by two
\* workers (share_download.go:182-201).
StagingSound == TypeOK /\ ProgressIsHonest /\ OneWorkerPerFile

\* Whatever fails, only a body that never ends keeps a job in "processing":
\* otherwise a poll loop on it ends, and its slot under
\* max_concurrent_download_jobs is given back.
Stalled == \E w \in Workers : wpc[w] = "stalled"

JobSettles == <>(status # "processing" \/ Stalled)

\* What the comment on the media client says of such a body (client.go:23-29):
\* it does not keep a job either.
JobAlwaysSettles == <>(status # "processing")

\* In the end the job holds no disk space at all.
DiskReclaimed == <>(Stalled \/ [](zip = "absent" /\ ~stageDir))

\* A job comes to its end, in its status and on the disk, unless a body stalls.
JobEnds == JobSettles /\ DiskReclaimed

\* The pipeline implements the contract of JobLifecycle.
Lifecycle == INSTANCE JobLifecycle WITH
  Wanted <- Assets,
  phase <- IF registered THEN status ELSE "gone",
  contents <- IF zip = "absent" THEN {} ELSE archive

ImplementsLifecycle == Lifecycle!LifecycleSpec
=============================================================================
