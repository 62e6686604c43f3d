---------------------------- MODULE BulkDownload ----------------------------
(***************************************************************************)
(* The bulk-download service with its clients: the POST handler that caps  *)
(* and creates jobs, the job map behind its mutex, the goroutine of every  *)
(* job (coarsened to the steps others can see; ZipJob has the detail), the *)
(* two GET handlers, which use the job they looked up after the mutex is   *)
(* released, the rate limiter that may answer in their place, the deadline *)
(* that may cut their answers, the poll loop of the web client, the delete *)
(* timer, and the death of the process, which loses all but the disk.      *)
(***************************************************************************)
EXTENDS Integers, FiniteSets

CONSTANTS
  Jobs,                 \* the job ids that can be drawn (bounds the jobs made)
  Clients,              \* browsers, each with one download at a time
  Shares,               \* share keys
  Cap,                  \* security.max_concurrent_download_jobs; 0: no cap
  MaxCrashes,           \* bound on process deaths
  NoJob                 \* a client that was given no job id yet

ASSUME BulkDownloadAssumption ==
  /\ Cap \in Nat
  /\ MaxCrashes \in Nat
  /\ NoJob \notin Jobs
  /\ IsFiniteSet(Clients) /\ IsFiniteSet(Jobs)

VARIABLES
  \* the jobs, by id; an object outlives its map entry while it is referenced
  status, hasPath, owner,
  registered,           \* ids in the manager's map
  pc,                   \* the goroutine of each job
  zip,                  \* its ZIP file on disk
  staging,              \* ids whose staging directory is on disk
  timers,               \* ids with a sleeping delete timer
  stranded,             \* ids that were alive when the process died
  crashes,
  \* the clients
  at,                   \* position of each client and of its request
  site,                 \* the share its api.baseUrl names
  reqKey,               \* the share key of its request in flight
  mine,                 \* the job it started
  seen,                 \* what the handler's lookup saw of that job
  told                  \* a poll answered "ready"

objVars == <<status, hasPath, owner>>
jobVars == <<objVars, registered, pc, zip, staging, timers, stranded, crashes>>
clientVars == <<at, site, reqKey, mine, seen, told>>
vars == <<jobVars, clientVars>>

Statuses == {"processing", "ready", "failed"}
Unseen == [status |-> "processing", hasPath |-> FALSE]

Init ==
  /\ status = [j \in Jobs |-> "processing"]
  /\ hasPath = [j \in Jobs |-> FALSE]
  /\ owner \in [Jobs -> Shares]
  /\ registered = {}
  /\ pc = [j \in Jobs |-> "unborn"]
  /\ zip = [j \in Jobs |-> "absent"]
  /\ staging = {} /\ timers = {} /\ stranded = {}
  /\ crashes = 0
  /\ at = [c \in Clients |-> "idle"]
  /\ site \in [Clients -> Shares]
  /\ reqKey = site
  /\ mine = [c \in Clients |-> NoJob]
  /\ seen = [c \in Clients |-> Unseen]
  /\ told = [c \in Clients |-> FALSE]

Active == {j \in registered : status[j] = "processing"}
Admitted == {c \in Clients : at[c] = "admitted"}
Unborn == {j \in Jobs : pc[j] = "unborn"}

Move(c, place) == at' = [at EXCEPT ![c] = place]

----------------------------------------------------------------------------
(* DownloadAssets: the count is taken under one lock, the job is created   *)
(* under another.                                                          *)

\* Mutated CheckCap: the comparison is off by one.
CheckCapOffByOne(c) ==
  /\ at[c] = "idle"
  /\ reqKey' = [reqKey EXCEPT ![c] = site[c]]
  /\ Move(c, IF Cap > 0 /\ Cardinality(Active) > Cap THEN "error" ELSE "admitted")
  /\ UNCHANGED <<site, mine, seen, told, jobVars>>

\* The request passed every check on its body and on the link.
CheckCap(c) ==
  /\ at[c] = "idle"
  /\ reqKey' = [reqKey EXCEPT ![c] = site[c]]
  /\ Move(c, IF Cap > 0 /\ Cardinality(Active) >= Cap THEN "error" ELSE "admitted")
  /\ UNCHANGED <<site, mine, seen, told, jobVars>>

\* The rate limiter's 429, or bad body, unknown or expired link, downloads
\* disabled, unavailable asset.
Refuse(c) ==
  /\ at[c] = "idle"
  /\ Move(c, "error")
  /\ UNCHANGED <<site, reqKey, mine, seen, told, jobVars>>

\* Mutated Create: the answer does not carry the id.
CreateLosesId(c) ==
  /\ at[c] = "admitted"
  /\ \E j \in Unborn :
       /\ status' = [status EXCEPT ![j] = "processing"]
       /\ owner' = [owner EXCEPT ![j] = reqKey[c]]
       /\ registered' = registered \cup {j}
       /\ pc' = [pc EXCEPT ![j] = "staging"]
  /\ Move(c, "poll")
  /\ UNCHANGED <<hasPath, zip, staging, timers, stranded, crashes,
                 site, reqKey, mine, seen, told>>

\* The instance ends with its job ids (Unborn); in the code they do not run out.
\* A job whose answer is lost is one whose client starts Again at once.
Create(c) ==
  /\ at[c] = "admitted"
  /\ \E j \in Unborn :
       /\ status' = [status EXCEPT ![j] = "processing"]
       /\ owner' = [owner EXCEPT ![j] = reqKey[c]]
       /\ registered' = registered \cup {j}
       /\ pc' = [pc EXCEPT ![j] = "staging"]
       /\ mine' = [mine EXCEPT ![c] = j]
  /\ Move(c, "poll")
  /\ UNCHANGED <<hasPath, zip, staging, timers, stranded, crashes,
                 site, reqKey, seen, told>>

----------------------------------------------------------------------------
(* The job goroutine.                                                      *)

Goto(j, place) == pc' = [pc EXCEPT ![j] = place]

MkdirStaging(j) ==
  /\ pc[j] = "staging" /\ j \notin staging
  /\ staging' = staging \cup {j}
  /\ UNCHANGED <<objVars, registered, pc, zip, timers, stranded, crashes,
                 clientVars>>

\* Mutated FailJob: the goroutine returns without SetFailed.
FailJobSilently(j) ==
  /\ pc[j] \in {"staging", "zipping"}
  /\ Goto(j, "sweep")
  /\ UNCHANGED <<objVars, registered, zip, staging, timers, stranded, crashes,
                 clientVars>>

\* SetFailed, from any point before the archive is complete; the ZIP and the
\* staging directory are removed by the deferred calls.
FailJob(j) ==
  /\ pc[j] \in {"staging", "zipping"}
  /\ status' = [status EXCEPT ![j] = IF j \in registered THEN "failed" ELSE @]
  /\ Goto(j, "sweep")
  /\ UNCHANGED <<hasPath, owner, registered, zip, staging, timers, stranded,
                 crashes, clientVars>>

\* The body of an asset stalls: the worker copies it without a deadline, and the
\* goroutine waits for the worker, even when another one has failed.
Stall(j) ==
  /\ pc[j] = "staging" /\ j \in staging
  /\ Goto(j, "stalled")
  /\ UNCHANGED <<objVars, registered, zip, staging, timers, stranded, crashes,
                 clientVars>>

\* Every asset is staged: the ZIP is opened.
BeginZip(j) ==
  /\ pc[j] = "staging" /\ j \in staging
  /\ zip' = [zip EXCEPT ![j] = "partial"]
  /\ Goto(j, "zipping")
  /\ UNCHANGED <<objVars, registered, staging, timers, stranded, crashes,
                 clientVars>>

FinishZip(j) ==
  /\ pc[j] = "zipping"
  /\ zip' = [zip EXCEPT ![j] = "whole"]
  /\ Goto(j, "publish")
  /\ UNCHANGED <<objVars, registered, staging, timers, stranded, crashes,
                 clientVars>>

\* Mutated SetReady: the path is left for later.
SetReadyNoPath(j) ==
  /\ pc[j] = "publish"
  /\ status' = [status EXCEPT ![j] = "ready"]
  /\ Goto(j, "schedule")
  /\ UNCHANGED <<hasPath, owner, registered, zip, staging, timers, stranded,
                 crashes, clientVars>>

\* Mutated SetReady: before the writer is closed.
SetReadyEarly(j) ==
  /\ pc[j] = "zipping"
  /\ status' = [status EXCEPT ![j] = "ready"]
  /\ hasPath' = [hasPath EXCEPT ![j] = TRUE]
  /\ Goto(j, "schedule")
  /\ UNCHANGED <<owner, registered, zip, staging, timers, stranded, crashes,
                 clientVars>>

SetReady(j) ==
  /\ pc[j] = "publish"
  /\ status' = [status EXCEPT ![j] = IF j \in registered THEN "ready" ELSE @]
  /\ hasPath' = [hasPath EXCEPT ![j] = @ \/ j \in registered]
  /\ Goto(j, "schedule")
  /\ UNCHANGED <<owner, registered, zip, staging, timers, stranded, crashes,
                 clientVars>>

\* Mutated Schedule: no timer.
ScheduleForgets(j) ==
  /\ pc[j] = "schedule"
  /\ Goto(j, "sweep")
  /\ UNCHANGED <<objVars, registered, zip, staging, timers, stranded, crashes,
                 clientVars>>

Schedule(j) ==
  /\ pc[j] = "schedule"
  /\ timers' = timers \cup {j}
  /\ Goto(j, "sweep")
  /\ UNCHANGED <<objVars, registered, zip, staging, stranded, crashes,
                 clientVars>>

\* Mutated Sweep: nobody removes the ZIP of a failed job.
SweepKeepsZip(j) ==
  /\ pc[j] = "sweep"
  /\ staging' = staging \ {j}
  /\ Goto(j, "over")
  /\ UNCHANGED <<objVars, registered, zip, timers, stranded, crashes,
                 clientVars>>

\* The deferred calls: drop an unfinished ZIP, remove the staging directory.
Sweep(j) ==
  /\ pc[j] = "sweep"
  /\ zip' = [zip EXCEPT ![j] = IF @ = "partial" THEN "absent" ELSE @]
  /\ staging' = staging \ {j}
  /\ Goto(j, "over")
  /\ UNCHANGED <<objVars, registered, timers, stranded, crashes, clientVars>>

JobStep(j) ==
  \/ MkdirStaging(j) \/ FailJob(j) \/ BeginZip(j) \/ FinishZip(j)
  \/ SetReady(j) \/ Schedule(j) \/ Sweep(j)

\* Mutated Expire: only the map entry goes.
ExpireKeepsFile(j) ==
  /\ j \in timers
  /\ timers' = timers \ {j}
  /\ registered' = registered \ {j}
  /\ UNCHANGED <<objVars, pc, zip, staging, stranded, crashes, clientVars>>

\* The timer: Delete removes the archive and the map entry.
Expire(j) ==
  /\ j \in timers
  /\ timers' = timers \ {j}
  /\ registered' = registered \ {j}
  /\ zip' = [zip EXCEPT ![j] = IF j \in registered /\ hasPath[j]
                                 THEN "absent" ELSE @]
  /\ UNCHANGED <<objVars, pc, staging, stranded, crashes, clientVars>>

----------------------------------------------------------------------------
(* The GET handlers and the client's poll loop.  A lookup copies nothing:  *)
(* the handler reads the fields later, without the mutex, and may see what *)
(* they were at the lookup or what they are by then.                       *)

Found(c) == mine[c] \in registered /\ owner[mine[c]] = site[c]
Look(c) ==
  /\ reqKey' = [reqKey EXCEPT ![c] = site[c]]
  /\ seen' = [seen EXCEPT ![c] = [status |-> status[mine[c]],
                                  hasPath |-> hasPath[mine[c]]]]
StatusReads(c) == {seen[c].status, status[mine[c]]}
PathReads(c) == {seen[c].hasPath, hasPath[mine[c]]}

\* The limiter in front of both GETs answers 429, before the handler is called.
\* The web client gives up with an error, whatever has become of its job.
TooMany(c) ==
  /\ at[c] \in {"poll", "fetch", "cut"}
  /\ Move(c, "limited")
  /\ UNCHANGED <<site, reqKey, mine, seen, told, jobVars>>

\* The server's write deadline or the network cuts an answer short: the web client
\* gives up, and the server does not hear of it.
Cut(c) ==
  /\ at[c] \in {"polling", "fetching"}
  /\ Move(c, "cut")
  /\ UNCHANGED <<site, reqKey, mine, seen, told, jobVars>>

\* GET /download/jobs/{id}, past the limiter: 404 unless the job is there and of
\* this share.
Poll(c) ==
  /\ at[c] = "poll"
  /\ IF Found(c) THEN Look(c) /\ Move(c, "polling")
                 ELSE Move(c, "error") /\ UNCHANGED <<reqKey, seen>>
  /\ UNCHANGED <<site, mine, told, jobVars>>

\* The answer, and what the loop makes of it.
PollAnswer(c) ==
  /\ at[c] = "polling"
  /\ \E s \in StatusReads(c) :
       /\ Move(c, CASE s = "processing" -> "poll"
                    [] s = "failed"     -> "error"
                    [] s = "ready"      -> "fetch")
       /\ told' = [told EXCEPT ![c] = (s = "ready")]
  /\ UNCHANGED <<site, reqKey, mine, seen, jobVars>>

\* GET /download/jobs/{id}/file, past the limiter.  The web client asks once, when
\* it was told ready; the API lets any client ask before, and again after a refusal
\* or a cut.
Fetch(c) ==
  /\ at[c] \in {"fetch", "poll", "limited", "cut"}
  /\ IF Found(c) THEN Look(c) /\ Move(c, "fetching")
                 ELSE Move(c, "error") /\ UNCHANGED <<reqKey, seen>>
  /\ UNCHANGED <<site, mine, told, jobVars>>

\* Status check, then ServeFile on the path: without a path it is not the
\* archive that is served; without the file it is a 404.
FileAnswer(c) ==
  /\ at[c] = "fetching"
  /\ \E s \in StatusReads(c), p \in PathReads(c) :
       Move(c, CASE s # "ready"                                  -> "error"
                 [] s = "ready" /\ ~p                            -> "junk"
                 [] s = "ready" /\ p /\ zip[mine[c]] = "absent"  -> "error"
                 [] s = "ready" /\ p /\ zip[mine[c]] = "partial" -> "broken"
                 [] s = "ready" /\ p /\ zip[mine[c]] = "whole"   -> "saved")
  /\ UNCHANGED <<site, reqKey, mine, seen, told, jobVars>>

\* Another album is opened in the same tab: api.baseUrl moves, the loop goes on.
Navigate(c) ==
  /\ \E s \in Shares \ {site[c]} : site' = [site EXCEPT ![c] = s]
  /\ UNCHANGED <<at, reqKey, mine, seen, told, jobVars>>

\* A new download: the last one has ended, or the page with its poll loop was
\* reloaded while it ran, which the server never hears of.
Again(c) ==
  /\ at[c] \in {"poll", "fetch", "limited", "cut", "saved", "junk", "broken", "error"}
  /\ Move(c, "idle")
  /\ mine' = [mine EXCEPT ![c] = NoJob]
  /\ told' = [told EXCEPT ![c] = FALSE]
  /\ seen' = [seen EXCEPT ![c] = Unseen]
  /\ UNCHANGED <<site, reqKey, jobVars>>

Answer(c) == Create(c) \/ PollAnswer(c) \/ FileAnswer(c)

----------------------------------------------------------------------------
\* The process dies and is started again: no job, goroutine or timer is left,
\* requests in flight fail, files stay.
Crash ==
  /\ crashes < MaxCrashes
  /\ crashes' = crashes + 1
  /\ registered' = {} /\ timers' = {}
  /\ stranded' = stranded \cup timers
       \cup {j \in Jobs : pc[j] \notin {"unborn", "over"}}
  /\ pc' = [j \in Jobs |-> IF pc[j] = "unborn" THEN "unborn" ELSE "over"]
  /\ at' = [c \in Clients |->
              IF at[c] \in {"admitted", "polling", "fetching"} THEN "error"
                                                               ELSE at[c]]
  /\ UNCHANGED <<objVars, zip, staging, site, reqKey, mine, seen, told>>

Next ==
  \/ \E j \in Jobs : JobStep(j) \/ Stall(j) \/ Expire(j)
  \/ \E c \in Clients : \/ CheckCap(c) \/ Refuse(c) \/ Poll(c) \/ Fetch(c)
                        \/ TooMany(c) \/ Cut(c)
                        \/ Answer(c) \/ Navigate(c) \/ Again(c)
  \/ Crash

Spec == Init /\ [][Next]_vars

\* Goroutines run, but one that is stalled has no step left; timers fire, handlers
\* answer, the poll loop polls.  Nobody has to start, change or repeat a download,
\* and no limiter, deadline or network has to step in.
FairSpec ==
  /\ Spec
  /\ \A j \in Jobs : WF_vars(JobStep(j)) /\ WF_vars(Expire(j))
  /\ \A c \in Clients : WF_vars(Answer(c)) /\ WF_vars(Poll(c))

----------------------------------------------------------------------------
ClientTypeOK ==
  /\ at \in [Clients -> {"idle", "admitted", "poll", "polling", "fetch",
                         "fetching", "limited", "cut", "saved", "junk", "broken",
                         "error"}]
  /\ site \in [Clients -> Shares]
  /\ reqKey \in [Clients -> Shares]
  /\ mine \in [Clients -> Jobs \cup {NoJob}]
  /\ seen \in [Clients -> [status : Statuses, hasPath : BOOLEAN]]
  /\ told \in [Clients -> BOOLEAN]
  /\ \A c \in Clients :
       at[c] \in {"poll", "polling", "fetch", "fetching", "limited", "cut"} =>
         mine[c] \in Jobs

TypeOK ==
  /\ status \in [Jobs -> Statuses]
  /\ hasPath \in [Jobs -> BOOLEAN]
  /\ owner \in [Jobs -> Shares]
  /\ registered \in SUBSET Jobs
  /\ pc \in [Jobs -> {"unborn", "staging", "stalled", "zipping", "publish",
                      "schedule", "sweep", "over"}]
  /\ zip \in [Jobs -> {"absent", "partial", "whole"}]
  /\ staging \in SUBSET Jobs /\ timers \in SUBSET Jobs /\ stranded \in SUBSET Jobs
  /\ crashes \in 0 .. MaxCrashes
  /\ ClientTypeOK

\* The check of the cap and the creation take the mutex one after the other
\* (share_download.go:129-137), so concurrent requests may all be admitted on
\* the last free slot; the excess is never more than one job per request that
\* was in flight with them.
CapSlack ==
  Cap > 0 => Cardinality(Active) + Cardinality(Admitted)
               <= Cap - 1 + Cardinality(Clients)

\* A request that was admitted gets a job, which its client polls for and fetches,
\* and the jobs admitted at one time stay near the cap (DownloadAssets,
\* share_download.go:118-141).
AdmissionSound == TypeOK /\ CapSlack

\* What the configuration says of the cap (docs/specs/api.md:253).
CapRespected == Cap > 0 => Cardinality(Active) <= Cap

\* A half-written archive is never served, and something else than an archive
\* only to a request that looked the job up before it was ready.
ServedIsWhole ==
  \A c \in Clients :
    /\ at[c] # "broken"
    /\ at[c] = "junk" => seen[c].status # "ready" /\ ~told[c]

\* What the comment on DownloadJobFile says (share_download.go:413).
ServesTheZip == \A c \in Clients : at[c] # "junk"

\* Every file of the service on disk has someone who will remove it: the job's
\* goroutine or its timer, unless the process died over it.
DiskAccounted ==
  \A j \in Jobs :
    zip[j] # "absent" \/ j \in staging =>
      pc[j] \notin {"unborn", "over"} \/ j \in timers \cup stranded

\* A client whose poll was answered "ready" and who asks for the file gets the
\* archive, however often the rate limiter refused it or an answer was cut before:
\* the handler turns it away only when the job has expired meanwhile or the tab has
\* moved to another share, and the unlocked reads never make it fail
\* (share_download.go:401-447).
ToldReadyIsServed ==
  [][\A c \in Clients :
       told[c] /\ at[c] \in {"fetch", "fetching", "limited", "cut"}
         /\ at'[c] \in {"error", "junk", "broken"}
       => mine[c] \notin registered' \/ site[c] # owner[mine[c]]]_vars

\* The poll loop (client.ts:218-236) has no limit of its own, yet it ends: every job
\* is settled or lost in the end, and a lost one is a 404.  The one job it polls for
\* without end is a job whose staging stalled (share_download.go:339).
PollLoopEnds ==
  \A c \in Clients :
    at[c] = "poll" ~>
      at[c] \notin {"poll", "polling"} \/ pc[mine[c]] = "stalled"

\* A slot that a job takes comes back, unless its staging stalls: nothing else that
\* happens to the job, its client or its share keeps it from being settled.
SlotsComeBack ==
  \A j \in Jobs : j \in Active ~> j \notin Active \/ pc[j] = "stalled"

\* A ready job is removed with its archive.
ReadyJobsGo ==
  \A j \in Jobs :
    j \in registered /\ status[j] = "ready" ~>
      j \notin registered /\ (zip[j] = "absent" \/ j \in stranded)

\* What a download takes comes back: its slot when the job is settled, its entry
\* and its archive when the job has expired.
CapacityComesBack == SlotsComeBack /\ ReadyJobsGo

\* Every settled job is cleaned up (docs/adrs/009-bulk-download-zip.md:40,
\* share_download_jobs.go:46-48 and 122).
SettledJobsGo ==
  \A j \in Jobs :
    j \in registered /\ status[j] # "processing" ~> j \notin registered

\* A job as its contract has it: all of its files are one.
Contract(j) == INSTANCE JobLifecycle WITH
  Wanted <- {"every file"},
  phase <- IF pc[j] = "unborn" \/ j \in registered THEN status[j] ELSE "gone",
  contents <- IF zip[j] = "whole" THEN {"every file"} ELSE {}

\* A step that the contract of a job allows, or does not see.
ContractStep(j) == Contract(j)!LifecycleNext \/ UNCHANGED Contract(j)!lifecycleVars

\* Each job keeps the contract of JobLifecycle beside any number of clients and
\* other jobs, in every step but the death of the process.
KeepsContract ==
  /\ \A j \in Jobs : Contract(j)!LifecycleInit
  /\ [][Crash \/ \A j \in Jobs : ContractStep(j)]_vars
=============================================================================
