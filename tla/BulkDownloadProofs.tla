------------------------- MODULE BulkDownloadProofs -------------------------
(***************************************************************************)
(* The bulk-download service for any cap and any number of clients, jobs,  *)
(* shares and process deaths: how far the cap on concurrent downloads can  *)
(* be exceeded, that what is served is whole, who answers for what is on   *)
(* disk, and that every job keeps the contract of a job.  Last, the rate   *)
(* limiter in front of it.                                                 *)
(***************************************************************************)
EXTENDS BulkDownload, RateLimiter, FiniteSetTheorems, WellFoundedInduction, TLAPS

----------------------------------------------------------------------------
(* Types.                                                                  *)

\* A service that was just started is of its types.
LEMMA InitTypes == Init => TypeOK
  BY BulkDownloadAssumption
     DEF BulkDownloadAssumption, Init, TypeOK, ClientTypeOK, Statuses, Unseen

\* So is every service after a step of a job's goroutine or its timer.
LEMMA JobTypes ==
  ASSUME TypeOK, NEW j \in Jobs, JobStep(j) \/ Stall(j) \/ Expire(j)
  PROVE  TypeOK'
  <1> USE DEF TypeOK, ClientTypeOK, Statuses, objVars, clientVars, Goto
  <1>1. CASE MkdirStaging(j)
    BY <1>1 DEF MkdirStaging
  <1>2. CASE FailJob(j)
    BY <1>2 DEF FailJob
  <1>3. CASE BeginZip(j)
    BY <1>3 DEF BeginZip
  <1>4. CASE FinishZip(j)
    BY <1>4 DEF FinishZip
  <1>5. CASE SetReady(j)
    BY <1>5 DEF SetReady
  <1>6. CASE Schedule(j)
    BY <1>6 DEF Schedule
  <1>7. CASE Sweep(j)
    BY <1>7 DEF Sweep
  <1>8. CASE Expire(j)
    BY <1>8 DEF Expire
  <1>9. CASE Stall(j)
    BY <1>9 DEF Stall
  <1> QED BY <1>1, <1>2, <1>3, <1>4, <1>5, <1>6, <1>7, <1>8, <1>9 DEF JobStep

\* What a handler reads of a job it looked up is a status and a path's presence.
LEMMA ReadTypes ==
  ASSUME TypeOK, NEW c \in Clients, mine[c] \in Jobs
  PROVE  StatusReads(c) \subseteq Statuses /\ PathReads(c) \subseteq BOOLEAN
  <1>1. seen[c] \in [status : Statuses, hasPath : BOOLEAN]
    BY DEF TypeOK, ClientTypeOK
  <1>2. seen[c].status \in Statuses /\ seen[c].hasPath \in BOOLEAN
    BY <1>1
  <1>3. status[mine[c]] \in Statuses /\ hasPath[mine[c]] \in BOOLEAN
    BY DEF TypeOK
  <1> QED BY <1>2, <1>3 DEF StatusReads, PathReads

\* Where the answer to a poll takes the client.
LEMMA PollPlaces ==
  ASSUME TypeOK, NEW c \in Clients, PollAnswer(c)
  PROVE  \E place \in {"poll", "error", "fetch"} : at' = [at EXCEPT ![c] = place]
  <1>1. at[c] = "polling" /\ mine[c] \in Jobs
    BY DEF PollAnswer, TypeOK, ClientTypeOK
  <1>2. PICK s \in StatusReads(c) :
          at' = [at EXCEPT ![c] = CASE s = "processing" -> "poll"
                                    [] s = "failed"     -> "error"
                                    [] s = "ready"      -> "fetch"]
    BY DEF PollAnswer, Move
  <1>3. s \in {"processing", "ready", "failed"}
    BY <1>1, <1>2, ReadTypes DEF Statuses
  <1> QED BY <1>2, <1>3

\* Where the answer with the file takes it.
LEMMA FilePlaces ==
  ASSUME TypeOK, NEW c \in Clients, FileAnswer(c)
  PROVE  \E place \in {"error", "junk", "broken", "saved"} :
           at' = [at EXCEPT ![c] = place]
  <1>1. at[c] = "fetching" /\ mine[c] \in Jobs
    BY DEF FileAnswer, TypeOK, ClientTypeOK
  <1>2. PICK s \in StatusReads(c), p \in PathReads(c) :
          at' = [at EXCEPT ![c] =
            CASE s # "ready"                                  -> "error"
              [] s = "ready" /\ ~p                            -> "junk"
              [] s = "ready" /\ p /\ zip[mine[c]] = "absent"  -> "error"
              [] s = "ready" /\ p /\ zip[mine[c]] = "partial" -> "broken"
              [] s = "ready" /\ p /\ zip[mine[c]] = "whole"   -> "saved"]
    BY DEF FileAnswer, Move
  <1>3. zip[mine[c]] \in {"absent", "partial", "whole"} /\ p \in BOOLEAN
    BY <1>1, <1>2, ReadTypes DEF TypeOK
  <1> QED BY <1>2, <1>3

\* So is every service after a step of a client or of a handler on its behalf.
LEMMA ClientTypes ==
  ASSUME TypeOK, NEW c \in Clients,
         \/ CheckCap(c) \/ Refuse(c) \/ Poll(c) \/ Fetch(c) \/ TooMany(c) \/ Cut(c)
         \/ Answer(c) \/ Navigate(c) \/ Again(c)
  PROVE  TypeOK'
  <1> USE DEF TypeOK, ClientTypeOK, jobVars, objVars, Move
  <1>1. CASE CheckCap(c)
    BY <1>1 DEF CheckCap
  <1>2. CASE Refuse(c)
    BY <1>2 DEF Refuse
  <1>3. CASE Poll(c) \/ Fetch(c)
    <2>1. at[c] \in {"poll", "fetch", "limited", "cut"} /\ mine[c] \in Jobs
      BY <1>3 DEF Poll, Fetch
    <2>2. reqKey' \in [Clients -> Shares]
          /\ seen' \in [Clients -> [status : Statuses, hasPath : BOOLEAN]]
      <3>1. [status |-> status[mine[c]], hasPath |-> hasPath[mine[c]]]
              \in [status : Statuses, hasPath : BOOLEAN]
        BY <2>1
      <3>2. CASE Look(c)
        BY <3>1, <3>2 DEF Look
      <3>3. CASE UNCHANGED <<reqKey, seen>>
        BY <3>3
      <3> QED BY <1>3, <3>2, <3>3 DEF Poll, Fetch
    <2>3. PICK place \in {"polling", "fetching", "error"} : at' = [at EXCEPT ![c] = place]
      BY <1>3 DEF Poll, Fetch
    <2>4. UNCHANGED <<site, mine, told, jobVars>>
      BY <1>3 DEF Poll, Fetch
    <2> QED BY <2>1, <2>2, <2>3, <2>4
  <1>4. CASE Create(c)
    BY <1>4 DEF Create, Unborn, Statuses
  <1>5. CASE PollAnswer(c)
    <2>1. told' \in [Clients -> BOOLEAN]
      BY <1>5 DEF PollAnswer
    <2>2. at[c] = "polling" /\ mine[c] \in Jobs
      BY <1>5 DEF PollAnswer
    <2>3. PICK place \in {"poll", "error", "fetch"} : at' = [at EXCEPT ![c] = place]
      BY <1>5, PollPlaces
    <2> QED BY <1>5, <2>1, <2>2, <2>3 DEF PollAnswer
  <1>6. CASE FileAnswer(c)
    <2>1. PICK place \in {"error", "junk", "broken", "saved"} :
            at' = [at EXCEPT ![c] = place]
      BY <1>6, FilePlaces
    <2> QED BY <1>6, <2>1 DEF FileAnswer
  <1>7. CASE Navigate(c)
    BY <1>7 DEF Navigate
  <1>8. CASE Again(c)
    BY <1>8 DEF Again, Unseen, Statuses
  <1>9. CASE TooMany(c) \/ Cut(c)
    BY <1>9 DEF TooMany, Cut
  <1> QED BY <1>1, <1>2, <1>3, <1>4, <1>5, <1>6, <1>7, <1>8, <1>9 DEF Answer

\* So is the service that is started again after the process died.
LEMMA CrashTypes == TypeOK /\ Crash => TypeOK'
  <1> SUFFICES ASSUME TypeOK, Crash PROVE TypeOK'
    OBVIOUS
  <1>1. crashes' \in 0 .. MaxCrashes
    BY BulkDownloadAssumption DEF BulkDownloadAssumption, TypeOK, Crash
  <1> QED BY <1>1 DEF TypeOK, ClientTypeOK, Crash, objVars

\* So is every service after any step.
LEMMA NextTypes == TypeOK /\ [Next]_vars => TypeOK'
  <1> SUFFICES ASSUME TypeOK, [Next]_vars PROVE TypeOK'
    OBVIOUS
  <1>1. CASE UNCHANGED vars
    BY <1>1 DEF TypeOK, ClientTypeOK, vars, jobVars, objVars, clientVars
  <1> QED BY <1>1, JobTypes, ClientTypes, CrashTypes DEF Next

\* The state of the service and of its clients (share_download_jobs.go:17-44,
\* client.ts:209-236) is of its types in every reachable state.
THEOREM ServiceTypeCorrect == Spec => []TypeOK
  BY InitTypes, NextTypes, PTL DEF Spec

----------------------------------------------------------------------------
(* The cap.                                                                *)

Load == Cardinality(Active) + Cardinality(Admitted)

\* The sets the cap is about are finite, and stay so.
LEMMA LoadFinite ==
  ASSUME TypeOK
  PROVE  /\ IsFiniteSet(Active) /\ Cardinality(Active) \in Nat
         /\ IsFiniteSet(Admitted) /\ Cardinality(Admitted) \in Nat
         /\ Cardinality(Clients) \in Nat
         /\ Cardinality(Admitted) <= Cardinality(Clients)
  <1>1. Active \subseteq Jobs /\ Admitted \subseteq Clients
    BY DEF TypeOK, Active, Admitted
  <1> QED
    BY <1>1, BulkDownloadAssumption, FS_Subset, FS_CardinalityType
       DEF BulkDownloadAssumption

\* A step that adds no job to those being processed and no request to those
\* that were admitted does not add to the load.
LEMMA LoadShrinks ==
  ASSUME TypeOK, TypeOK', Active' \subseteq Active, Admitted' \subseteq Admitted
  PROVE  Load' <= Load /\ Load \in Int /\ Load' \in Int
  <1>1. Cardinality(Active') <= Cardinality(Active)
        /\ Cardinality(Admitted') <= Cardinality(Admitted)
    BY LoadFinite, FS_Subset
  <1>2. Cardinality(Active') \in Nat /\ Cardinality(Admitted') \in Nat
    BY LoadFinite, FS_Subset, FS_CardinalityType
  <1> QED BY <1>1, <1>2, LoadFinite DEF Load

\* Creating the job of an admitted request moves one from one count to the other.
LEMMA CreateKeepsLoad ==
  ASSUME TypeOK, TypeOK', NEW c \in Clients, Create(c)
  PROVE  Load' <= Load /\ Load \in Int /\ Load' \in Int
  <1>1. PICK j \in Jobs : /\ status' = [status EXCEPT ![j] = "processing"]
                          /\ registered' = registered \cup {j}
    BY DEF Create, Unborn
  <1>2. Active' \subseteq Active \cup {j}
    BY <1>1 DEF TypeOK, Active
  <1>3. c \in Admitted /\ Admitted' = Admitted \ {c}
    BY DEF TypeOK, ClientTypeOK, Create, Admitted, Move
  <1>4. IsFiniteSet(Active \cup {j})
        /\ Cardinality(Active \cup {j}) <= Cardinality(Active) + 1
        /\ Cardinality(Active \cup {j}) \in Nat
    <2>1. IsFiniteSet(Active) /\ Cardinality(Active) \in Nat
      BY LoadFinite
    <2>2. /\ IsFiniteSet(Active \cup {j})
          /\ \/ Cardinality(Active \cup {j}) = Cardinality(Active)
             \/ Cardinality(Active \cup {j}) = Cardinality(Active) + 1
      BY <2>1, FS_AddElement
    <2> QED BY <2>1, <2>2
  <1>5. Cardinality(Active') <= Cardinality(Active) + 1 /\ Cardinality(Active') \in Nat
    BY <1>2, <1>4, LoadFinite, FS_Subset, FS_CardinalityType
  <1>6. Cardinality(Admitted') = Cardinality(Admitted) - 1
    BY <1>3, LoadFinite, FS_RemoveElement
  <1> QED BY <1>5, <1>6, LoadFinite DEF Load

\* A request is let through while there is a free slot, whoever else was.
LEMMA CheckCapSlack ==
  ASSUME TypeOK, TypeOK', CapSlack, NEW c \in Clients, CheckCap(c)
  PROVE  CapSlack'
  <1> SUFFICES ASSUME Cap > 0 PROVE Load' <= Cap - 1 + Cardinality(Clients)
    BY DEF CapSlack, Load
  <1>1. Cap \in Nat
    BY BulkDownloadAssumption DEF BulkDownloadAssumption
  <1>2. Active' = Active
    BY DEF CheckCap, jobVars, objVars, Active
  <1>3. CASE Cardinality(Active) >= Cap
    <2>1. Admitted' \subseteq Admitted
      BY <1>3 DEF TypeOK, ClientTypeOK, CheckCap, Move, Admitted
    <2> QED BY <1>1, <1>2, <2>1, LoadShrinks, LoadFinite DEF CapSlack, Load
  <1>4. CASE ~(Cardinality(Active) >= Cap)
    <2>1. Admitted' \subseteq Clients
      BY DEF Admitted
    <2>2. Cardinality(Admitted') <= Cardinality(Clients) /\ Cardinality(Admitted') \in Nat
      BY <2>1, BulkDownloadAssumption, FS_Subset, FS_CardinalityType
         DEF BulkDownloadAssumption
    <2> QED BY <1>1, <1>2, <1>4, <2>2, LoadFinite DEF Load
  <1> QED BY <1>3, <1>4

\* No other step makes a job active or admits a request.
LEMMA OthersShrinkLoad ==
  ASSUME TypeOK, [Next]_vars,
         \A c \in Clients : ~CheckCap(c) /\ ~Create(c)
  PROVE  Active' \subseteq Active /\ Admitted' \subseteq Admitted
  <1> USE DEF Active, Admitted
  <1>1. ASSUME NEW j \in Jobs, JobStep(j) \/ Stall(j) \/ Expire(j)
        PROVE  Active' \subseteq Active /\ Admitted' = Admitted
    <2>1. at' = at /\ registered' \subseteq registered
      BY <1>1 DEF JobStep, Stall, Expire, MkdirStaging, FailJob, BeginZip, FinishZip,
                  SetReady, Schedule, Sweep, clientVars
    <2>2. ASSUME NEW i \in registered, status'[i] = "processing"
          PROVE  status[i] = "processing"
      BY <1>1, <2>2 DEF TypeOK, JobStep, Stall, Expire, MkdirStaging, FailJob, BeginZip,
                        FinishZip, SetReady, Schedule, Sweep, objVars
    <2> QED BY <2>1, <2>2
  <1>2. ASSUME NEW c \in Clients,
               \/ Refuse(c) \/ Poll(c) \/ Fetch(c) \/ TooMany(c) \/ Cut(c)
               \/ PollAnswer(c) \/ FileAnswer(c) \/ Navigate(c) \/ Again(c)
        PROVE  Active' = Active /\ Admitted' \subseteq Admitted
    <2>1. status' = status /\ registered' = registered
      BY <1>2 DEF Refuse, Poll, Fetch, TooMany, Cut, PollAnswer, FileAnswer, Navigate,
                  Again, jobVars, objVars
    <2>2. PICK place : at' = [at EXCEPT ![c] = place] /\ (place = "admitted" => at[c] = place)
      <3>1. CASE PollAnswer(c)
        BY <3>1, PollPlaces
      <3>2. CASE FileAnswer(c)
        BY <3>2, FilePlaces
      <3>3. CASE Navigate(c)
        <4>1. at' = [at EXCEPT ![c] = at[c]]
          BY <3>3 DEF Navigate, TypeOK, ClientTypeOK
        <4> QED BY <4>1
      <3>4. CASE Refuse(c) \/ TooMany(c) \/ Cut(c) \/ Again(c)
        BY <3>4 DEF Refuse, TooMany, Cut, Again, Move
      <3>5. CASE Poll(c) \/ Fetch(c)
        BY <3>5 DEF Poll, Fetch, Move
      <3> QED BY <1>2, <3>1, <3>2, <3>3, <3>4, <3>5
    <2> QED BY <2>1, <2>2 DEF TypeOK, ClientTypeOK
  <1>3. CASE Crash
    BY <1>3 DEF Crash, TypeOK, ClientTypeOK
  <1>4. CASE UNCHANGED vars
    BY <1>4 DEF vars, jobVars, objVars, clientVars
  <1> QED BY <1>1, <1>2, <1>3, <1>4 DEF Next, Answer

\* At most one job more than the cap for every other request that was in
\* flight: the check in DownloadAssets and the creation of the job take the
\* mutex of the job manager one after the other (share_download.go:129-137).
THEOREM CapNeverFarExceeded == Spec => []CapSlack
  <1>1. Init => CapSlack
    <2> SUFFICES ASSUME Init, Cap > 0
                 PROVE  Cardinality(Active) + Cardinality(Admitted)
                          <= Cap - 1 + Cardinality(Clients)
      BY DEF CapSlack
    <2>1. Active = {} /\ Admitted = {}
      BY DEF Init, Active, Admitted
    <2>2. Cardinality(Active) = 0 /\ Cardinality(Admitted) = 0
      BY <2>1, FS_EmptySet
    <2>3. Cap \in Nat /\ Cardinality(Clients) \in Nat
      BY BulkDownloadAssumption, FS_CardinalityType DEF BulkDownloadAssumption
    <2> QED BY <2>2, <2>3
  <1>2. TypeOK /\ TypeOK' /\ CapSlack /\ [Next]_vars => CapSlack'
    <2> SUFFICES ASSUME TypeOK, TypeOK', CapSlack, [Next]_vars PROVE CapSlack'
      OBVIOUS
    <2>1. ASSUME NEW c \in Clients, CheckCap(c) PROVE CapSlack'
      BY <2>1, CheckCapSlack
    <2>2. CASE Load' <= Load /\ Load \in Int /\ Load' \in Int
      BY <2>2, LoadFinite, BulkDownloadAssumption
         DEF BulkDownloadAssumption, CapSlack, Load
    <2>3. ASSUME NEW c \in Clients, Create(c) PROVE CapSlack'
      BY <2>2, <2>3, CreateKeepsLoad
    <2>4. CASE \A c \in Clients : ~CheckCap(c) /\ ~Create(c)
      BY <2>2, <2>4, OthersShrinkLoad, LoadShrinks
    <2> QED BY <2>1, <2>3, <2>4
  <1> QED BY <1>1, <1>2, ServiceTypeCorrect, PTL DEF Spec

\* What DownloadAssets admits (share_download.go:118-141) is sound for any number
\* of clients and jobs: within its types, and near the cap.
THEOREM AdmissionIsSound == Spec => []AdmissionSound
  BY ServiceTypeCorrect, CapNeverFarExceeded, PTL DEF AdmissionSound

----------------------------------------------------------------------------
(* What is served, and what is on the disk.                                *)

\* What each position of a job's goroutine has established: status and path go
\* together, a ready job has its archive for as long as it is in the map, and
\* what is on the disk is the goroutine's, the timer's or a dead process's.
JobOK(j) ==
  /\ hasPath[j] = (status[j] = "ready")
  /\ pc[j] = "unborn" => status[j] = "processing" /\ j \notin registered \cup staging
  /\ pc[j] \in {"staging", "stalled", "zipping", "publish"} =>
       status[j] = "processing" /\ j \in registered
  /\ pc[j] \in {"unborn", "staging", "stalled"} => zip[j] = "absent"
  /\ pc[j] = "zipping" => zip[j] = "partial"
  /\ pc[j] = "publish" => zip[j] = "whole"
  /\ pc[j] = "schedule" => status[j] = "ready" /\ j \in registered
  /\ status[j] = "ready" => zip[j] # "partial" /\ (j \in registered => zip[j] = "whole")
  /\ pc[j] = "sweep" /\ zip[j] = "whole" => j \in timers
  /\ j \in timers => /\ j \in registered /\ status[j] = "ready"
                     /\ pc[j] \in {"sweep", "over"}
  /\ pc[j] = "over" /\ j \notin stranded =>
       j \notin staging /\ (zip[j] # "absent" => j \in timers)

\* What a handler saw of a job was true of it, and stays so once it is settled;
\* a client that was told "ready" fetches a job that is.
ClientOK(c) ==
  /\ at[c] \in {"polling", "fetching"} =>
       /\ seen[c].hasPath = (seen[c].status = "ready")
       /\ seen[c].status \in {"processing", status[mine[c]]}
  /\ told[c] => at[c] \in {"fetch", "fetching", "limited", "cut", "saved", "junk",
                          "broken", "error"}
  /\ told[c] /\ at[c] \in {"fetch", "fetching", "limited", "cut"} =>
       status[mine[c]] = "ready"
  /\ told[c] /\ at[c] = "fetching" => seen[c].status = "ready"
  /\ at[c] # "broken"
  /\ at[c] = "junk" => seen[c].status # "ready" /\ ~told[c]

ServiceInv ==
  /\ TypeOK
  /\ \A j \in Jobs : JobOK(j)
  /\ \A c \in Clients : ClientOK(c)

\* A step of a job's goroutine or of its timer keeps what is known of every job.
LEMMA JobStepsKeepJobs ==
  ASSUME TypeOK, \A i \in Jobs : JobOK(i), NEW j \in Jobs, JobStep(j) \/ Stall(j) \/ Expire(j),
         NEW i \in Jobs
  PROVE  JobOK(i)'
  <1> USE DEF TypeOK, JobOK, objVars, Goto
  <1>1. CASE MkdirStaging(j)
    BY <1>1 DEF MkdirStaging
  <1>2. CASE FailJob(j)
    BY <1>2 DEF FailJob, Statuses
  <1>3. CASE BeginZip(j)
    BY <1>3 DEF BeginZip
  <1>4. CASE FinishZip(j)
    BY <1>4 DEF FinishZip
  <1>5. CASE SetReady(j)
    BY <1>5 DEF SetReady
  <1>6. CASE Schedule(j)
    BY <1>6 DEF Schedule
  <1>7. CASE Sweep(j)
    BY <1>7 DEF Sweep
  <1>8. CASE Expire(j)
    BY <1>8 DEF Expire
  <1>9. CASE Stall(j)
    BY <1>9 DEF Stall
  <1> QED BY <1>1, <1>2, <1>3, <1>4, <1>5, <1>6, <1>7, <1>8, <1>9 DEF JobStep

\* A settled job stays as it is, and a job step touches no client.
LEMMA JobStepsSettle ==
  ASSUME TypeOK, \A i \in Jobs : JobOK(i), NEW j \in Jobs, JobStep(j) \/ Stall(j) \/ Expire(j)
  PROVE  /\ UNCHANGED clientVars
         /\ \A i \in Jobs : status[i] \in {"ready", "failed"} => status'[i] = status[i]
  <1> USE DEF TypeOK, objVars, Goto
  <1>1. CASE \/ MkdirStaging(j) \/ Stall(j) \/ BeginZip(j) \/ FinishZip(j)
             \/ Schedule(j) \/ Sweep(j) \/ Expire(j)
    BY <1>1 DEF MkdirStaging, Stall, BeginZip, FinishZip, Schedule, Sweep, Expire
  <1>2. CASE FailJob(j)
    BY <1>2 DEF FailJob, JobOK
  <1>3. CASE SetReady(j)
    BY <1>3 DEF SetReady, JobOK
  <1> QED BY <1>1, <1>2, <1>3 DEF JobStep

\* Creating a job takes an id that was never used.
LEMMA CreateKeeps ==
  ASSUME ServiceInv, NEW c \in Clients, Create(c)
  PROVE  (\A i \in Jobs : JobOK(i)') /\ (\A d \in Clients : ClientOK(d)')
  <1> USE DEF ServiceInv, TypeOK, ClientTypeOK
  <1>1. PICK j \in Jobs :
          /\ pc[j] = "unborn"
          /\ status' = [status EXCEPT ![j] = "processing"]
          /\ owner' = [owner EXCEPT ![j] = reqKey[c]]
          /\ registered' = registered \cup {j}
          /\ pc' = [pc EXCEPT ![j] = "staging"]
          /\ mine' = [mine EXCEPT ![c] = j]
    BY DEF Create, Unborn
  <1>2. status' = status
    BY <1>1 DEF JobOK
  <1>3. UNCHANGED <<hasPath, zip, staging, timers, stranded>>
    BY DEF Create
  <1>4. ASSUME NEW i \in Jobs PROVE JobOK(i)'
    BY <1>1, <1>2, <1>3 DEF JobOK
  <1>5. ASSUME NEW d \in Clients PROVE ClientOK(d)'
    <2>1. at[c] = "admitted" /\ at' = [at EXCEPT ![c] = "poll"]
          /\ UNCHANGED <<seen, told>>
      BY DEF Create, Move
    <2> QED BY <1>1, <1>2, <2>1 DEF ClientOK
  <1> QED BY <1>4, <1>5

\* The other steps of the clients leave the jobs alone.
ClientStep(c) ==
  \/ CheckCap(c) \/ Refuse(c) \/ Poll(c) \/ Fetch(c) \/ TooMany(c) \/ Cut(c)
  \/ PollAnswer(c) \/ FileAnswer(c) \/ Navigate(c) \/ Again(c)

LEMMA ClientStepsKeepJobs ==
  ASSUME NEW c \in Clients, ClientStep(c)
  PROVE  UNCHANGED jobVars
  BY DEF ClientStep, CheckCap, Refuse, Poll, Fetch, TooMany, Cut, PollAnswer, FileAnswer,
         Navigate, Again, jobVars, objVars

\* What an answer with the file makes of a client: the archive, unless the handler
\* saw the job before it was ready or the job has gone.
LEMMA FileAnswerSound ==
  ASSUME ServiceInv, NEW c \in Clients, FileAnswer(c)
  PROVE  /\ at'[c] # "broken"
         /\ at'[c] = "junk" => seen[c].status # "ready"
         /\ seen[c].status = "ready" => at'[c] = "saved" \/ mine[c] \notin registered
  <1> DEFINE j == mine[c]
  <1>1. at[c] = "fetching" /\ j \in Jobs
    BY DEF ServiceInv, TypeOK, ClientTypeOK, FileAnswer
  <1>2. PICK s \in StatusReads(c), p \in PathReads(c) :
          at' = [at EXCEPT ![c] =
            CASE s # "ready"                                  -> "error"
              [] s = "ready" /\ ~p                            -> "junk"
              [] s = "ready" /\ p /\ zip[mine[c]] = "absent"  -> "error"
              [] s = "ready" /\ p /\ zip[mine[c]] = "partial" -> "broken"
              [] s = "ready" /\ p /\ zip[mine[c]] = "whole"   -> "saved"]
    BY DEF FileAnswer, Move
  <1>3. p \in BOOLEAN /\ zip[j] \in {"absent", "partial", "whole"}
    BY <1>1, <1>2, ReadTypes DEF ServiceInv, TypeOK
  <1>4. /\ seen[c].hasPath = (seen[c].status = "ready")
        /\ seen[c].status \in {"processing", status[j]}
        /\ hasPath[j] = (status[j] = "ready")
        /\ status[j] = "ready" => zip[j] # "partial" /\ (j \in registered => zip[j] = "whole")
    BY <1>1 DEF ServiceInv, ClientOK, JobOK
  <1>5. s \in {seen[c].status, status[j]} /\ p \in {seen[c].hasPath, hasPath[j]}
    BY <1>2 DEF StatusReads, PathReads
  <1>6. s = "ready" => status[j] = "ready"
    BY <1>4, <1>5
  <1>7. seen[c].status = "ready" => s = "ready" /\ p
    BY <1>4, <1>5
  <1>8. c \in DOMAIN at
    BY DEF ServiceInv, TypeOK, ClientTypeOK
  <1> HIDE DEF j
  <1>9. at'[c] = CASE s # "ready"                            -> "error"
                   [] s = "ready" /\ ~p                      -> "junk"
                   [] s = "ready" /\ p /\ zip[j] = "absent"  -> "error"
                   [] s = "ready" /\ p /\ zip[j] = "partial" -> "broken"
                   [] s = "ready" /\ p /\ zip[j] = "whole"   -> "saved"
    BY <1>2, <1>8 DEF j
  <1>10. at'[c] # "broken"
    BY <1>3, <1>4, <1>6, <1>9
  <1>11. at'[c] = "junk" => seen[c].status # "ready"
    BY <1>3, <1>7, <1>9
  <1>12. seen[c].status = "ready" => at'[c] = "saved" \/ j \notin registered
    BY <1>3, <1>4, <1>6, <1>7, <1>9
  <1> QED BY <1>10, <1>11, <1>12 DEF j

\* A client's own step keeps what is known of it, and of the others.
LEMMA ClientStepsKeepClients ==
  ASSUME ServiceInv, NEW c \in Clients, ClientStep(c), NEW d \in Clients
  PROVE  ClientOK(d)'
  <1> USE DEF ServiceInv, TypeOK, ClientTypeOK, ClientOK, Move
  <1>1. UNCHANGED <<status, hasPath>>
    BY ClientStepsKeepJobs DEF jobVars, objVars
  <1>2. CASE CheckCap(c)
    BY <1>1, <1>2 DEF CheckCap
  <1>3. CASE Refuse(c)
    BY <1>1, <1>3 DEF Refuse
  <1>4. CASE Poll(c) \/ Fetch(c)
    <2>1. /\ at[c] \in {"poll", "fetch", "limited", "cut"}
          /\ mine[c] \in Jobs /\ UNCHANGED <<mine, told>>
      BY <1>4 DEF Poll, Fetch
    <2>2. CASE at'[c] = "error"
      <3>1. at' = [at EXCEPT ![c] = "error"] /\ UNCHANGED seen
        BY <1>4, <2>2 DEF Poll, Fetch
      <3> QED BY <1>1, <2>1, <3>1
    <2>3. CASE at'[c] # "error"
      <3>1. PICK place \in {"polling", "fetching"} :
              at' = [at EXCEPT ![c] = place] /\ (place = "polling" => at[c] = "poll")
        BY <1>4, <2>3 DEF Poll, Fetch
      <3>2. seen' = [seen EXCEPT ![c] = [status |-> status[mine[c]],
                                         hasPath |-> hasPath[mine[c]]]]
        BY <1>4, <2>3 DEF Poll, Fetch, Look
      <3>3. hasPath[mine[c]] = (status[mine[c]] = "ready")
        BY <2>1 DEF JobOK
      <3> QED BY <1>1, <2>1, <3>1, <3>2, <3>3
    <2> QED BY <2>2, <2>3
  <1>5. CASE PollAnswer(c)
    <2>1. at[c] = "polling" /\ UNCHANGED <<mine, seen>>
      BY <1>5 DEF PollAnswer
    <2>2. PICK s \in StatusReads(c) :
            /\ at' = [at EXCEPT ![c] = CASE s = "processing" -> "poll"
                                         [] s = "failed"     -> "error"
                                         [] s = "ready"      -> "fetch"]
            /\ told' = [told EXCEPT ![c] = (s = "ready")]
      BY <1>5 DEF PollAnswer
    <2>3. s \in {"processing", "failed", "ready"} /\ (s = "ready" => status[mine[c]] = "ready")
      BY <2>1, <2>2, ReadTypes DEF StatusReads, Statuses
    <2> QED BY <1>1, <2>1, <2>2, <2>3
  <1>6. CASE FileAnswer(c)
    <2>1. PICK place \in {"error", "junk", "broken", "saved"} :
            at' = [at EXCEPT ![c] = place]
      BY <1>6, FilePlaces
    <2>2. at[c] = "fetching" /\ UNCHANGED <<mine, seen, told>>
      BY <1>6 DEF FileAnswer
    <2>3. place # "broken" /\ (place = "junk" => seen[c].status # "ready")
      BY <1>6, <2>1, FileAnswerSound
    <2> QED BY <1>1, <2>1, <2>2, <2>3
  <1>7. CASE Navigate(c)
    BY <1>1, <1>7 DEF Navigate
  <1>8. CASE Again(c)
    BY <1>1, <1>8 DEF Again, Unseen
  <1>9. CASE TooMany(c) \/ Cut(c)
    BY <1>1, <1>9 DEF TooMany, Cut
  <1> QED BY <1>2, <1>3, <1>4, <1>5, <1>6, <1>7, <1>8, <1>9 DEF ClientStep

\* A death of the process strands what was alive, and settles nothing.
LEMMA CrashKeeps ==
  ASSUME ServiceInv, Crash
  PROVE  (\A i \in Jobs : JobOK(i)') /\ (\A d \in Clients : ClientOK(d)')
  <1>1. ASSUME NEW i \in Jobs PROVE JobOK(i)'
    BY DEF ServiceInv, TypeOK, JobOK, Crash, objVars
  <1>2. ASSUME NEW d \in Clients PROVE ClientOK(d)'
    BY DEF ServiceInv, TypeOK, ClientTypeOK, ClientOK, Crash, objVars
  <1> QED BY <1>1, <1>2

\* Every step keeps what is known of jobs and clients.
LEMMA NextServiceInv == ServiceInv /\ [Next]_vars => ServiceInv'
  <1> SUFFICES ASSUME ServiceInv, [Next]_vars PROVE ServiceInv'
    OBVIOUS
  <1>1. TypeOK'
    BY NextTypes DEF ServiceInv
  <1>2. ASSUME NEW j \in Jobs, JobStep(j) \/ Stall(j) \/ Expire(j)
        PROVE  (\A i \in Jobs : JobOK(i)') /\ (\A d \in Clients : ClientOK(d)')
    <2>1. \A i \in Jobs : JobOK(i)'
      BY <1>2, JobStepsKeepJobs DEF ServiceInv
    <2>2. /\ UNCHANGED clientVars
          /\ \A i \in Jobs : status[i] \in {"ready", "failed"} => status'[i] = status[i]
      BY <1>2, JobStepsSettle DEF ServiceInv
    <2>3. ASSUME NEW d \in Clients PROVE ClientOK(d)'
      <3>1. ClientOK(d) /\ seen[d] \in [status : Statuses, hasPath : BOOLEAN]
            /\ (at[d] \in {"fetch", "polling", "fetching", "limited", "cut"} =>
                  mine[d] \in Jobs)
        BY DEF ServiceInv, TypeOK, ClientTypeOK
      <3>2. seen[d].status \in Statuses
        BY <3>1
      <3> QED BY <2>2, <3>1, <3>2 DEF ClientOK, clientVars, Statuses
    <2> QED BY <2>1, <2>3
  <1>3. ASSUME NEW c \in Clients, ClientStep(c)
        PROVE  (\A i \in Jobs : JobOK(i)') /\ (\A d \in Clients : ClientOK(d)')
    <2>1. \A i \in Jobs : JobOK(i)'
      BY <1>3, ClientStepsKeepJobs DEF ServiceInv, jobVars, objVars, JobOK
    <2> QED BY <1>3, <2>1, ClientStepsKeepClients
  <1>4. ASSUME NEW c \in Clients, Create(c)
        PROVE  (\A i \in Jobs : JobOK(i)') /\ (\A d \in Clients : ClientOK(d)')
    BY <1>4, CreateKeeps
  <1>5. CASE Crash
    BY <1>1, <1>5, CrashKeeps DEF ServiceInv
  <1>6. CASE UNCHANGED vars
    BY <1>1, <1>6 DEF ServiceInv, JobOK, ClientOK, vars, jobVars, objVars, clientVars
  <1> QED BY <1>1, <1>2, <1>3, <1>4, <1>5, <1>6 DEF Next, Answer, ClientStep, ServiceInv

\* What is known of jobs and clients holds in every reachable state.
LEMMA AlwaysServiceInv == Spec => []ServiceInv
  <1>1. Init => ServiceInv
    <2> SUFFICES ASSUME Init PROVE ServiceInv
      OBVIOUS
    <2>1. TypeOK
      BY InitTypes
    <2>2. (\A j \in Jobs : JobOK(j)) /\ (\A c \in Clients : ClientOK(c))
      BY DEF Init, JobOK, ClientOK
    <2> QED BY <2>1, <2>2 DEF ServiceInv
  <1> QED BY <1>1, NextServiceInv, PTL DEF Spec

\* The handlers read the job they looked up without the lock
\* (share_download.go:401-421), field by field and at any later moment, while its
\* goroutine, its timer and other requests go on: a half-written archive is never
\* served, and something else than an archive only where the lookup came too early.
THEOREM WholeIsServed == Spec => []ServedIsWhole
  <1>1. ServiceInv => ServedIsWhole
    BY DEF ServiceInv, ClientOK, ServedIsWhole
  <1> QED BY <1>1, AlwaysServiceInv, PTL

\* The deferred calls of the goroutine, and then the timer of a ready job
\* (share_download.go:152-175, share_download_jobs.go:122-136), own every file;
\* only the death of the process takes an owner away.
THEOREM DiskIsAccounted == Spec => []DiskAccounted
  <1>1. ServiceInv => DiskAccounted
    BY DEF ServiceInv, TypeOK, JobOK, DiskAccounted
  <1> QED BY <1>1, AlwaysServiceInv, PTL

\* A client whose poll was answered "ready" is given the archive by the first request
\* that the limiter lets through and nothing cuts, unless the job is gone by then or
\* its tab asks for another share.
THEOREM ToldIsServed == Spec => ToldReadyIsServed
  <1> DEFINE Served ==
        \A c \in Clients :
          told[c] /\ at[c] \in {"fetch", "fetching", "limited", "cut"}
            /\ at'[c] \in {"error", "junk", "broken"}
            => mine[c] \notin registered' \/ site[c] # owner[mine[c]]
  <1>1. ServiceInv /\ [Next]_vars => Served \/ UNCHANGED vars
    <2> SUFFICES ASSUME ServiceInv, Next,
                        NEW c \in Clients, told[c],
                        at[c] \in {"fetch", "fetching", "limited", "cut"},
                        at'[c] \in {"error", "junk", "broken"}
                 PROVE  mine[c] \notin registered' \/ site[c] # owner[mine[c]]
      OBVIOUS
    <2>1. ~\E j \in Jobs : JobStep(j) \/ Stall(j) \/ Expire(j)
      BY JobStepsSettle DEF ServiceInv, clientVars
    <2>2. CASE Crash
      BY <2>2 DEF Crash
    <2>3. ASSUME NEW d \in Clients, Create(d) \/ ClientStep(d) PROVE d = c
      BY <2>3 DEF ServiceInv, TypeOK, ClientTypeOK, Create, ClientStep, CheckCap, Refuse, Poll,
                  Fetch, TooMany, Cut, PollAnswer, FileAnswer, Navigate, Again, Move
    <2>4. CASE ClientStep(c) \/ Create(c)
      <3>1. CASE Fetch(c)
        BY <3>1 DEF Fetch, Found, Move, ServiceInv, TypeOK, ClientTypeOK, jobVars
      <3>2. CASE FileAnswer(c)
        <4>1. seen[c].status = "ready"
          BY <3>2 DEF ServiceInv, ClientOK, FileAnswer
        <4>2. registered' = registered
          BY <3>2 DEF FileAnswer, jobVars
        <4> QED BY <3>2, <4>1, <4>2, FileAnswerSound
      <3>3. CASE ~Fetch(c) /\ ~FileAnswer(c)
        BY <2>4, <3>3 DEF ServiceInv, TypeOK, ClientTypeOK, Create, ClientStep, CheckCap, Refuse,
                          Poll, TooMany, Cut, PollAnswer, Navigate, Again, Move
      <3> QED BY <3>1, <3>2, <3>3
    <2> QED BY <2>1, <2>2, <2>3, <2>4 DEF Next, Answer, ClientStep
  <1> QED BY <1>1, AlwaysServiceInv, PTL DEF Spec, ToldReadyIsServed

----------------------------------------------------------------------------
(* The contract of each job.                                               *)

\* A step of a job's goroutine or its timer is one of its contract, or is not
\* visible, and nothing of another job.
LEMMA JobStepsKeepContract ==
  ASSUME ServiceInv, NEW j \in Jobs, JobStep(j) \/ Stall(j) \/ Expire(j), NEW i \in Jobs
  PROVE  ContractStep(i)
  <1> USE DEF ContractStep, ServiceInv, TypeOK, JobOK, objVars, Goto, Contract!lifecycleVars
  <1>1. CASE i # j
    BY <1>1 DEF JobStep, Stall, Expire, MkdirStaging, FailJob, BeginZip, FinishZip,
                SetReady, Schedule, Sweep
  <1>2. CASE /\ i = j
             /\ MkdirStaging(j) \/ Stall(j) \/ BeginZip(j) \/ Schedule(j) \/ Sweep(j)
    BY <1>2 DEF MkdirStaging, Stall, BeginZip, Schedule, Sweep
  <1>3. CASE i = j /\ FailJob(j)
    BY <1>3 DEF FailJob, Contract!LifecycleNext, Contract!GiveUp
  <1>4. CASE i = j /\ FinishZip(j)
    BY <1>4 DEF FinishZip, Contract!LifecycleNext, Contract!Pack
  <1>5. CASE i = j /\ SetReady(j)
    BY <1>5 DEF SetReady, Contract!LifecycleNext, Contract!Publish
  <1>6. CASE i = j /\ Expire(j)
    BY <1>6 DEF Expire, Contract!LifecycleNext, Contract!Withdraw
  <1> QED BY <1>1, <1>2, <1>3, <1>4, <1>5, <1>6 DEF JobStep

\* A visitor who starts a bulk download is promised JobLifecycle: whatever other
\* jobs, clients and timers do, each job goes from processing to ready with all its
\* files, or to failed, and goes away with its archive (share_download_jobs.go).
THEOREM EveryJobKeepsContract == Spec => KeepsContract
  <1>1. Init => \A j \in Jobs : Contract(j)!LifecycleInit
    BY DEF Init, Contract!LifecycleInit
  <1>2. ServiceInv /\ [Next]_vars =>
          [Crash \/ \A j \in Jobs : ContractStep(j)]_vars
    <2> SUFFICES ASSUME ServiceInv, Next, ~Crash, NEW i \in Jobs
                 PROVE  ContractStep(i)
      OBVIOUS
    <2>1. CASE \E j \in Jobs : JobStep(j) \/ Stall(j) \/ Expire(j)
      BY <2>1, JobStepsKeepContract
    <2>2. CASE \E c \in Clients : ClientStep(c)
      BY <2>2, ClientStepsKeepJobs DEF jobVars, objVars, ContractStep, Contract!lifecycleVars
    <2>3. CASE \E c \in Clients : Create(c)
      <3>1. PICK j \in Jobs :
              /\ pc[j] = "unborn" /\ status' = [status EXCEPT ![j] = "processing"]
              /\ registered' = registered \cup {j} /\ pc' = [pc EXCEPT ![j] = "staging"]
              /\ zip' = zip
        BY <2>3 DEF Create, Unborn
      <3>2. status' = status
        BY <3>1 DEF ServiceInv, TypeOK, JobOK
      <3>3. (pc'[i] = "unborn" \/ i \in registered') <=> (pc[i] = "unborn" \/ i \in registered)
        BY <3>1 DEF ServiceInv, TypeOK
      <3> QED BY <3>1, <3>2, <3>3 DEF ContractStep, Contract!lifecycleVars
    <2> QED BY <2>1, <2>2, <2>3 DEF Next, Answer, ClientStep
  <1> QED BY <1>1, <1>2, AlwaysServiceInv, PTL DEF Spec, KeepsContract

----------------------------------------------------------------------------
(* The rate limiter in front of the service: all its routes are in the     *)
(* group that uses generalLimiter (main.go:173-192).  The two components   *)
(* share no state.                                                         *)

\* The types and the conservation of tokens need each other: that a visitor's
\* count of granted requests stays within the rate follows from conservation.
TokenInv == LimiterTypeOK /\ EpochBound

\* A fresh limiter has spent nothing.
LEMMA InitTokens == LimiterInit => TokenInv
  BY RateLimiterAssumption, SMT
     DEF RateLimiterAssumption, LimiterInit, TokenInv, LimiterTypeOK, EpochBound, VisitorIds

\* Making a visitor fills it and forgets what was spent under its number.
LEMMA NewVisitorTokens ==
  ASSUME TokenInv, NEW r \in Requests, NEW ip \in IPs, NewVisitor(r, ip)
  PROVE  /\ made' \in 0 .. MaxVisitors
         /\ visitors' \in [IPs -> VisitorIds \cup {NoVisitor}]
         /\ tokens' \in [VisitorIds -> 0 .. Rate]
         /\ lastReset' \in [VisitorIds -> 0 .. MaxTime]
         /\ held' \in [Requests -> VisitorIds \cup {NoVisitor}]
         /\ spent' \in [VisitorIds -> 0 .. Rate]
         /\ EpochBound'
  <1>1. made' \in VisitorIds
    BY RateLimiterAssumption
       DEF RateLimiterAssumption, TokenInv, LimiterTypeOK, NewVisitor, VisitorIds
  <1>2. made' \in 0 .. MaxVisitors
    BY <1>1, RateLimiterAssumption DEF RateLimiterAssumption, VisitorIds
  <1>3. visitors' \in [IPs -> VisitorIds \cup {NoVisitor}]
        /\ held' \in [Requests -> VisitorIds \cup {NoVisitor}]
    BY <1>1 DEF TokenInv, LimiterTypeOK, NewVisitor
  <1>4. tokens' \in [VisitorIds -> 0 .. Rate] /\ spent' \in [VisitorIds -> 0 .. Rate]
    <2>1. Rate \in 0 .. Rate /\ 0 \in 0 .. Rate
      BY RateLimiterAssumption DEF RateLimiterAssumption
    <2> QED BY <1>1, <2>1 DEF TokenInv, LimiterTypeOK, NewVisitor
  <1>5. lastReset' \in [VisitorIds -> 0 .. MaxTime]
    BY <1>1 DEF TokenInv, LimiterTypeOK, NewVisitor
  <1>6. ASSUME NEW v \in VisitorIds
        PROVE  tokens'[v] + spent'[v] = Rate /\ tokens'[v] >= 0
    <2>1. CASE v = made'
      <3>1. tokens'[v] = Rate /\ spent'[v] = 0
        BY <1>1, <2>1 DEF TokenInv, LimiterTypeOK, NewVisitor
      <3> QED BY <3>1, RateLimiterAssumption DEF RateLimiterAssumption
    <2>2. CASE v # made'
      <3>1. tokens'[v] = tokens[v] /\ spent'[v] = spent[v]
        BY <1>1, <1>6, <2>2 DEF TokenInv, LimiterTypeOK, NewVisitor
      <3> QED BY <3>1, <1>6 DEF TokenInv, EpochBound
    <2> QED BY <2>1, <2>2
  <1> QED BY <1>2, <1>3, <1>4, <1>5, <1>6 DEF EpochBound

\* Finding one refills it when its window is over, and then only as a whole.
LEMMA OldVisitorTokens ==
  ASSUME TokenInv, NEW r \in Requests, NEW ip \in IPs, OldVisitor(r, ip)
  PROVE  /\ made' \in 0 .. MaxVisitors
         /\ visitors' \in [IPs -> VisitorIds \cup {NoVisitor}]
         /\ tokens' \in [VisitorIds -> 0 .. Rate]
         /\ lastReset' \in [VisitorIds -> 0 .. MaxTime]
         /\ held' \in [Requests -> VisitorIds \cup {NoVisitor}]
         /\ spent' \in [VisitorIds -> 0 .. Rate]
         /\ EpochBound'
  <1>1. visitors[ip] \in VisitorIds
    BY DEF TokenInv, LimiterTypeOK, OldVisitor
  <1>2. CASE now - lastReset[visitors[ip]] > Window
    <2> DEFINE w == visitors[ip]
    <2>1. /\ tokens' = [tokens EXCEPT ![w] = Rate]
          /\ lastReset' = [lastReset EXCEPT ![w] = now]
          /\ spent' = [spent EXCEPT ![w] = 0]
          /\ held' = [held EXCEPT ![r] = w]
          /\ UNCHANGED <<visitors, made>>
      BY <1>2 DEF OldVisitor
    <2>2. Rate \in 0 .. Rate /\ 0 \in 0 .. Rate /\ now \in 0 .. MaxTime
      BY RateLimiterAssumption DEF RateLimiterAssumption, TokenInv, LimiterTypeOK
    <2>3. /\ tokens' \in [VisitorIds -> 0 .. Rate]
          /\ lastReset' \in [VisitorIds -> 0 .. MaxTime]
          /\ spent' \in [VisitorIds -> 0 .. Rate]
      BY <1>1, <2>1, <2>2 DEF TokenInv, LimiterTypeOK
    <2>4. /\ made' \in 0 .. MaxVisitors
          /\ visitors' \in [IPs -> VisitorIds \cup {NoVisitor}]
          /\ held' \in [Requests -> VisitorIds \cup {NoVisitor}]
      BY <1>1, <2>1 DEF TokenInv, LimiterTypeOK
    <2>5. ASSUME NEW v \in VisitorIds
          PROVE  tokens'[v] + spent'[v] = Rate /\ tokens'[v] >= 0
      <3>1. CASE v = w
        <4>1. tokens'[v] = Rate /\ spent'[v] = 0
          BY <1>1, <2>1, <3>1 DEF TokenInv, LimiterTypeOK
        <4> QED BY <4>1, RateLimiterAssumption DEF RateLimiterAssumption
      <3>2. CASE v # w
        <4>1. tokens'[v] = tokens[v] /\ spent'[v] = spent[v]
          BY <2>1, <2>5, <3>2 DEF TokenInv, LimiterTypeOK
        <4> QED BY <4>1, <2>5 DEF TokenInv, EpochBound
      <3> QED BY <3>1, <3>2
    <2> QED BY <2>3, <2>4, <2>5 DEF EpochBound
  <1>3. CASE ~(now - lastReset[visitors[ip]] > Window)
    BY <1>1, <1>3 DEF TokenInv, LimiterTypeOK, EpochBound, OldVisitor
  <1> QED BY <1>2, <1>3

\* A table of counters is one still when a counter of it goes up.
LEMMA OneMore ==
  ASSUME NEW A, NEW T, NEW table \in [A -> [T -> Nat]], NEW a \in A, NEW t \in T
  PROVE  [table EXCEPT ![a][t] = @ + 1] \in [A -> [T -> Nat]]
  <1>1. PICK row \in [T -> Nat] : row = table[a]
    OBVIOUS
  <1>2. row[t] + 1 \in Nat
    OBVIOUS
  <1>3. [row EXCEPT ![t] = row[t] + 1] \in [T -> Nat]
    BY <1>2
  <1>4. [table EXCEPT ![a][t] = @ + 1] = [table EXCEPT ![a] = [row EXCEPT ![t] = row[t] + 1]]
    BY <1>1
  <1> QED BY <1>3, <1>4

\* Taking a token moves it from one count to the other.
LEMMA TakeTokenTokens ==
  ASSUME TokenInv, NEW r \in Requests, TakeToken(r)
  PROVE  TokenInv'
  <1>1. held[r] \in VisitorIds /\ from[r] \in IPs /\ now \in 0 .. MaxTime
    BY DEF TokenInv, LimiterTypeOK, TakeToken
  <1>2. UNCHANGED <<now, visitors, made, lastReset, from>>
        /\ held' \in [Requests -> VisitorIds \cup {NoVisitor}]
    BY DEF TokenInv, LimiterTypeOK, TakeToken
  <1>3. CASE tokens[held[r]] > 0
    <2>1. tokens' = [tokens EXCEPT ![held[r]] = @ - 1]
          /\ spent' = [spent EXCEPT ![held[r]] = @ + 1]
      BY <1>3 DEF TakeToken
    <2>2. tokens[held[r]] + spent[held[r]] = Rate
      BY <1>1 DEF TokenInv, EpochBound
    <2>3. tokens' \in [VisitorIds -> 0 .. Rate] /\ spent' \in [VisitorIds -> 0 .. Rate]
      BY <1>1, <1>3, <2>1, <2>2, RateLimiterAssumption
         DEF RateLimiterAssumption, TokenInv, LimiterTypeOK
    <2>4. EpochBound'
      BY <1>1, <1>3, <2>1, RateLimiterAssumption
         DEF RateLimiterAssumption, TokenInv, LimiterTypeOK, EpochBound
    <2>5. grants' \in [IPs -> [0 .. MaxTime -> Nat]]
      <3>1. [grants EXCEPT ![from[r]][now] = @ + 1] \in [IPs -> [0 .. MaxTime -> Nat]]
        BY <1>1, OneMore DEF TokenInv, LimiterTypeOK
      <3>2. grants' \in {grants, [grants EXCEPT ![from[r]][now] = @ + 1]}
        BY <1>3 DEF TakeToken
      <3> QED BY <3>1, <3>2 DEF TokenInv, LimiterTypeOK
    <2> QED BY <1>2, <2>3, <2>4, <2>5 DEF TokenInv, LimiterTypeOK
  <1>4. CASE ~(tokens[held[r]] > 0)
    BY <1>2, <1>4 DEF TokenInv, LimiterTypeOK, EpochBound, TakeToken, grantVars
  <1> QED BY <1>3, <1>4

\* Every step keeps the types and the tokens.
LEMMA NextTokens == TokenInv /\ [LimiterNext]_limiterVars => TokenInv'
  <1> SUFFICES ASSUME TokenInv, [LimiterNext]_limiterVars PROVE TokenInv'
    OBVIOUS
  <1>1. CASE Tick
    BY <1>1, RateLimiterAssumption
       DEF RateLimiterAssumption, TokenInv, LimiterTypeOK, EpochBound, Tick, grantVars
  <1>2. CASE Cleanup
    BY <1>2 DEF TokenInv, LimiterTypeOK, EpochBound, Cleanup, grantVars
  <1>3. ASSUME NEW r \in Requests, GetVisitor(r) PROVE TokenInv'
    <2>1. PICK ip \in IPs : /\ from' = [from EXCEPT ![r] = ip]
                            /\ NewVisitor(r, ip) \/ OldVisitor(r, ip)
      BY <1>3 DEF GetVisitor
    <2>2. UNCHANGED <<now, grants>> /\ from' \in [Requests -> IPs]
      BY <1>3, <2>1 DEF GetVisitor, TokenInv, LimiterTypeOK
    <2>3. CASE NewVisitor(r, ip)
      BY <2>2, <2>3, NewVisitorTokens DEF TokenInv, LimiterTypeOK
    <2>4. CASE OldVisitor(r, ip)
      BY <2>2, <2>4, OldVisitorTokens DEF TokenInv, LimiterTypeOK
    <2> QED BY <2>1, <2>3, <2>4
  <1>4. ASSUME NEW r \in Requests, TakeToken(r) PROVE TokenInv'
    BY <1>4, TakeTokenTokens
  <1>5. CASE UNCHANGED limiterVars
    BY <1>5 DEF TokenInv, LimiterTypeOK, EpochBound, limiterVars, grantVars
  <1> QED BY <1>1, <1>2, <1>3, <1>4, <1>5 DEF LimiterNext

\* The visitors, clocks and requests of the limiter (ratelimit.go) are of their
\* types, and no visitor ever has tokens below zero or above its rate.
THEOREM LimiterTypeCorrect == LimiterSpec => []LimiterTypeOK
  <1>1. TokenInv => LimiterTypeOK
    BY DEF TokenInv
  <1> QED BY <1>1, InitTokens, NextTokens, PTL DEF LimiterSpec

\* Between two resets a visitor grants exactly the rate less the tokens it has
\* left: concurrent calls of Allow (ratelimit.go), which takes the mutex twice,
\* grant no request twice the same token.
THEOREM TokensConserved == LimiterSpec => []EpochBound
  <1>1. TokenInv => EpochBound
    BY DEF TokenInv
  <1> QED BY <1>1, InitTokens, NextTokens, PTL DEF LimiterSpec

\* Both at once: the limiter's counts are sound for any number of addresses and
\* requests, however the halves of Allow and the cleanup interleave.
THEOREM TokensAreSound == LimiterSpec => []TokensSound
  <1> QED BY LimiterTypeCorrect, TokensConserved, PTL DEF TokensSound

----------------------------------------------------------------------------
(* What the limiter lets through in a window: the running sums of Granted, *)
(* by induction over the moments of the clock, then the ledger of each     *)
(* address that they are kept in.                                          *)

Time == 0 .. MaxTime

\* The running sums of a row of counters from time t on, as Granted takes them.
Totals(row, t) ==
  CHOOSE f : f = [u \in Time |-> row[u] + (IF u <= t THEN 0 ELSE f[u - 1])]

\* What Granted sums is a running sum.
LEMMA GrantedIs ==
  ASSUME NEW ip, NEW t
  PROVE  Granted(ip, t) =
           Totals(grants[ip], t)[IF t + Window <= MaxTime THEN t + Window ELSE MaxTime]
  BY DEF Granted, Totals, Time

\* A set that has the first moment, and with a moment the next, has them all.
LEMMA OverTime ==
  ASSUME NEW S, 0 \in S, \A u \in Time : u + 1 \in Time /\ u \in S => u + 1 \in S
  PROVE  Time \subseteq S
  <1> DEFINE Bad == Time \ S
             Less == OpToRel(<, Nat)
  <1>1. SUFFICES ASSUME Bad # {} PROVE FALSE
    OBVIOUS
  <1>2. Bad \in SUBSET Nat
    BY DEF Time
  <1>3. PICK n \in Bad : \A m \in Bad : ~(<<m, n>> \in Less)
    <2>1. IsWellFoundedOn(Less, Nat)
      BY NatLessThanWellFounded
    <2> HIDE DEF Bad, Less
    <2> QED BY <1>1, <1>2, <2>1, WFMin
  <1>4. \A m \in Bad : ~(m < n)
    BY <1>2, <1>3 DEF OpToRel
  <1>5. n \in Time /\ n \notin S /\ n # 0
    OBVIOUS
  <1>6. n - 1 \in Time /\ (n - 1) + 1 = n /\ n - 1 < n
    BY <1>5, RateLimiterAssumption DEF Time, RateLimiterAssumption
  <1>7. n - 1 \in S
    BY <1>4, <1>6
  <1> QED BY <1>5, <1>6, <1>7

\* There are running sums of any row of counters.
LEMMA TotalsExist ==
  ASSUME NEW row \in [Time -> Nat], NEW t \in Time
  PROVE  \E f : f = [u \in Time |-> row[u] + (IF u <= t THEN 0 ELSE f[u - 1])]
  <1> DEFINE Upto(n, f) ==
        \A u \in Time : u <= n => f[u] = row[u] + (IF u <= t THEN 0 ELSE f[u - 1])
             S == {n \in Time : \E f \in [Time -> Nat] : Upto(n, f)}
  <1>1. 0 \in S
    <2>1. 0 \in Time /\ row \in [Time -> Nat]
      BY RateLimiterAssumption DEF Time, RateLimiterAssumption
    <2>2. Upto(0, row)
      <3>1. \A u \in Time : u <= 0 => u <= t /\ row[u] + 0 = row[u]
        BY DEF Time
      <3> QED BY <3>1
    <2> QED BY <2>1, <2>2
  <1>2. ASSUME NEW n \in Time, n + 1 \in Time, n \in S PROVE n + 1 \in S
    <2>1. PICK f \in [Time -> Nat] : Upto(n, f)
      BY <1>2
    <2> DEFINE x == row[n + 1] + (IF n + 1 <= t THEN 0 ELSE f[n])
               g == [f EXCEPT ![n + 1] = x]
    <2>2. g \in [Time -> Nat] /\ x \in Nat
      BY <1>2
    <2>3. ASSUME NEW u \in Time, u <= n + 1
          PROVE  g[u] = row[u] + (IF u <= t THEN 0 ELSE g[u - 1])
      <3>1. CASE u = n + 1
        <4>1. (n + 1) - 1 = n /\ n # n + 1
          BY DEF Time
        <4>2. g[u] = x /\ g[n] = f[n]
          BY <1>2, <3>1, <4>1
        <4> QED BY <3>1, <4>1, <4>2
      <3>2. CASE u # n + 1
        <4>1. u <= n /\ u - 1 # n + 1
          BY <2>3, <3>2 DEF Time
        <4>2. f[u] = row[u] + (IF u <= t THEN 0 ELSE f[u - 1])
          BY <2>1, <4>1
        <4>3. g[u] = f[u]
          BY <3>2
        <4>4. ~(u <= t) => u - 1 \in Time
          BY RateLimiterAssumption DEF Time, RateLimiterAssumption
        <4>5. ~(u <= t) => g[u - 1] = f[u - 1]
          BY <4>1, <4>4
        <4> QED BY <4>2, <4>3, <4>5
      <3> QED BY <3>1, <3>2
    <2>4. Upto(n + 1, g)
      BY <2>3
    <2> HIDE DEF Upto, g
    <2> QED BY <1>2, <2>2, <2>4
  <1>3. Time \subseteq S
    <2> HIDE DEF S
    <2> QED BY <1>1, <1>2, OverTime
  <1>4. MaxTime \in Time /\ \A u \in Time : u <= MaxTime
    BY RateLimiterAssumption DEF Time, RateLimiterAssumption
  <1>5. PICK f \in [Time -> Nat] : Upto(MaxTime, f)
    <2> HIDE DEF Upto
    <2> QED BY <1>3, <1>4
  <1>6. f = [u \in Time |-> row[u] + (IF u <= t THEN 0 ELSE f[u - 1])]
    <2>1. \A u \in Time : f[u] = row[u] + (IF u <= t THEN 0 ELSE f[u - 1])
      BY <1>4, <1>5
    <2> QED BY <2>1
  <1> QED BY <1>6

\* Each is the one before and the counter of its moment.
LEMMA TotalsStep ==
  ASSUME NEW row \in [Time -> Nat], NEW t \in Time, NEW u \in Time
  PROVE  Totals(row, t)[u] = row[u] + (IF u <= t THEN 0 ELSE Totals(row, t)[u - 1])
  <1>1. Totals(row, t) =
          [w \in Time |-> row[w] + (IF w <= t THEN 0 ELSE Totals(row, t)[w - 1])]
    <2> DEFINE P(f) == f = [w \in Time |-> row[w] + (IF w <= t THEN 0 ELSE f[w - 1])]
    <2>1. \E f : P(f)
      BY TotalsExist
    <2>2. Totals(row, t) = CHOOSE f : P(f)
      BY DEF Totals
    <2> HIDE DEF P
    <2>3. P(Totals(row, t))
      BY <2>1, <2>2
    <2> QED BY <2>3 DEF P
  <1> HIDE DEF Totals
  <1> QED BY <1>1

\* They are numbers.
LEMMA TotalsNat ==
  ASSUME NEW row \in [Time -> Nat], NEW t \in Time, NEW u \in Time
  PROVE  Totals(row, t)[u] \in Nat
  <1> DEFINE S == {w \in Time : Totals(row, t)[w] \in Nat}
  <1>1. 0 \in S
    <2>1. 0 \in Time /\ 0 <= t
      BY RateLimiterAssumption DEF Time, RateLimiterAssumption
    <2> QED BY <2>1, TotalsStep
  <1>2. ASSUME NEW w \in Time, w + 1 \in Time, w \in S PROVE w + 1 \in S
    <2>1. (w + 1) - 1 = w
      BY DEF Time
    <2>2. Totals(row, t)[w + 1] = row[w + 1] + (IF w + 1 <= t THEN 0 ELSE Totals(row, t)[w])
      BY <1>2, <2>1, TotalsStep
    <2> QED BY <1>2, <2>2
  <1> HIDE DEF S
  <1>3. Time \subseteq S
    BY <1>1, <1>2, OverTime
  <1> QED BY <1>3 DEF S

\* One more at the moment n is one more in the sums from n or before to n or after.
LEMMA TotalsOneMore ==
  ASSUME NEW row \in [Time -> Nat], NEW n \in Time, NEW t \in Time, NEW u \in Time, t <= u
  PROVE  Totals([row EXCEPT ![n] = @ + 1], t)[u] =
           Totals(row, t)[u] + (IF t <= n /\ n <= u THEN 1 ELSE 0)
  <1> DEFINE more == [row EXCEPT ![n] = @ + 1]
             S == {w \in Time : t <= w => Totals(more, t)[w] =
                                  Totals(row, t)[w] + (IF t <= n /\ n <= w THEN 1 ELSE 0)}
  <1>0. more \in [Time -> Nat] /\ \A w \in Time : more[w] = row[w] + (IF w = n THEN 1 ELSE 0)
    OBVIOUS
  <1>1. ASSUME NEW w \in Time, w <= t PROVE w \in S
    <2>1. Totals(more, t)[w] = more[w] + 0 /\ Totals(row, t)[w] = row[w] + 0
      BY <1>0, <1>1, TotalsStep
    <2>2. t <= w => ((t <= n /\ n <= w) <=> w = n)
      BY <1>1 DEF Time
    <2> HIDE DEF more
    <2>3. row[w] \in Nat
      OBVIOUS
    <2> QED BY <1>0, <2>1, <2>2, <2>3
  <1>2. ASSUME NEW w \in Time, w + 1 \in Time, w \in S PROVE w + 1 \in S
    <2>1. CASE w + 1 <= t
      BY <1>1, <1>2, <2>1
    <2>2. CASE ~(w + 1 <= t)
      <3>1. (w + 1) - 1 = w /\ t <= w
        BY <2>2 DEF Time
      <3>2. /\ Totals(more, t)[w + 1] = more[w + 1] + Totals(more, t)[w]
            /\ Totals(row, t)[w + 1] = row[w + 1] + Totals(row, t)[w]
        <4> HIDE DEF more, S
        <4>1. Totals(more, t)[w + 1] =
                more[w + 1] + (IF w + 1 <= t THEN 0 ELSE Totals(more, t)[(w + 1) - 1])
          BY <1>0, <1>2, TotalsStep
        <4>2. Totals(row, t)[w + 1] =
                row[w + 1] + (IF w + 1 <= t THEN 0 ELSE Totals(row, t)[(w + 1) - 1])
          BY <1>2, TotalsStep
        <4> QED BY <2>2, <3>1, <4>1, <4>2
      <3>3. Totals(more, t)[w] = Totals(row, t)[w] + (IF t <= n /\ n <= w THEN 1 ELSE 0)
        BY <1>2, <3>1
      <3>4. Totals(row, t)[w] \in Nat /\ row[w + 1] \in Nat
        BY <1>2, TotalsNat
      <3>5. more[w + 1] = row[w + 1] + (IF w + 1 = n THEN 1 ELSE 0)
        BY <1>0, <1>2
      <3>6. n <= w + 1 <=> (n <= w \/ w + 1 = n)
        BY DEF Time
      <3>7. w + 1 = n => t <= n /\ ~(n <= w)
        BY <3>1 DEF Time
      <3> HIDE DEF more
      <3> QED BY <1>2, <3>2, <3>3, <3>4, <3>5, <3>6, <3>7
    <2> QED BY <2>1, <2>2
  <1>3. 0 \in S
    <2>1. 0 \in Time /\ 0 <= t
      BY RateLimiterAssumption DEF Time, RateLimiterAssumption
    <2> QED BY <1>1, <2>1
  <1> HIDE DEF S
  <1>4. Time \subseteq S
    BY <1>2, <1>3, OverTime
  <1> QED BY <1>4 DEF S

\* Beyond the last counter that is not zero the sums stay.
LEMMA TotalsStay ==
  ASSUME NEW row \in [Time -> Nat], NEW n \in Time, \A w \in Time : w > n => row[w] = 0,
         NEW t \in Time, NEW u \in Time, t <= u
  PROVE  /\ t <= n /\ n <= u => Totals(row, t)[u] = Totals(row, t)[n]
         /\ n < t => Totals(row, t)[u] = 0
  <1> DEFINE S == {w \in Time : /\ t <= n /\ n <= w => Totals(row, t)[w] = Totals(row, t)[n]
                                /\ n < t /\ t <= w => Totals(row, t)[w] = 0}
  <1>1. ASSUME NEW w \in Time, w <= t PROVE w \in S
    <2>1. Totals(row, t)[w] = row[w] + 0
      BY <1>1, TotalsStep
    <2>2. t <= n /\ n <= w => w = n
      BY <1>1 DEF Time
    <2>3. n < t /\ t <= w => w > n
      BY DEF Time
    <2> QED BY <2>1, <2>2, <2>3
  <1>2. ASSUME NEW w \in Time, w + 1 \in Time, w \in S PROVE w + 1 \in S
    <2>1. CASE w + 1 <= t
      BY <1>1, <1>2, <2>1
    <2>2. CASE ~(w + 1 <= t)
      <3>1. (w + 1) - 1 = w /\ t <= w
        BY <2>2 DEF Time
      <3>2. Totals(row, t)[w + 1] = row[w + 1] + Totals(row, t)[w]
        BY <1>2, <2>2, <3>1, TotalsStep
      <3>3. Totals(row, t)[w] \in Nat
        BY TotalsNat
      <3>4. w + 1 > n => row[w + 1] = 0
        BY <1>2
      <3>5. /\ n <= w + 1 <=> (n <= w \/ w + 1 = n)
            /\ n <= w => w + 1 > n
            /\ n < t => w + 1 > n
        BY <3>1 DEF Time
      <3>6. n <= w => Totals(row, t)[w + 1] = Totals(row, t)[w]
        BY <3>2, <3>3, <3>4, <3>5
      <3>7. n < t => Totals(row, t)[w + 1] = Totals(row, t)[w]
        BY <3>2, <3>3, <3>4, <3>5
      <3> QED BY <1>2, <3>1, <3>5, <3>6, <3>7
    <2> QED BY <2>1, <2>2
  <1>3. 0 \in S
    <2>1. 0 \in Time /\ 0 <= t
      BY RateLimiterAssumption DEF Time, RateLimiterAssumption
    <2> QED BY <1>1, <2>1
  <1> HIDE DEF S
  <1>4. Time \subseteq S
    BY <1>2, <1>3, OverTime
  <1> QED BY <1>4 DEF S

\* The sums that reach the moment n from no longer ago than a window.
Recent(row, n, b) == \A t \in Time : t <= n /\ n <= t + Window => Totals(row, t)[n] <= b

\* Those from after the moment l.
After(row, n, l, b) == \A t \in Time : t <= n /\ l < t => Totals(row, t)[n] <= b

\* Every window's.
Windows(row, b) ==
  \A t \in Time : Totals(row, t)[IF t + Window <= MaxTime THEN t + Window ELSE MaxTime] <= b

\* Time passes, and nothing was counted at a moment to come.
LEMMA SumsTick ==
  ASSUME NEW row \in [Time -> Nat], NEW n \in Time, n + 1 \in Time,
         \A w \in Time : w > n => row[w] = 0, NEW b \in Nat
  PROVE  /\ Recent(row, n, b) => Recent(row, n + 1, b)
         /\ \A l \in Time : After(row, n, l, b) => After(row, n + 1, l, b)
  <1>1. ASSUME NEW t \in Time, t <= n + 1
        PROVE  Totals(row, t)[n + 1] = IF t <= n THEN Totals(row, t)[n] ELSE 0
    <2>1. n <= n + 1 /\ (~(t <= n) => n < t)
      BY DEF Time
    <2> QED BY <1>1, <2>1, TotalsStay
  <1>2. \A t \in Time : n + 1 <= t + Window => n <= t + Window
    BY RateLimiterAssumption DEF Time, RateLimiterAssumption
  <1>3. \A t \in Time : t <= n + 1 /\ ~(t <= n) => 0 <= b
    OBVIOUS
  <1>4. Recent(row, n, b) => Recent(row, n + 1, b)
    BY <1>1, <1>2, <1>3 DEF Recent
  <1>5. ASSUME NEW l \in Time, After(row, n, l, b) PROVE After(row, n + 1, l, b)
    BY <1>1, <1>3, <1>5 DEF After
  <1> QED BY <1>4, <1>5

\* One more at the moment n is one more in the sums that reach it.
LEMMA SumsOneMore ==
  ASSUME NEW row \in [Time -> Nat], NEW n \in Time, NEW b \in Nat
  PROVE  /\ Recent(row, n, b) => Recent([row EXCEPT ![n] = @ + 1], n, b + 1)
         /\ \A l \in Time : After(row, n, l, b) => After([row EXCEPT ![n] = @ + 1], n, l, b + 1)
  <1> DEFINE more == [row EXCEPT ![n] = @ + 1]
  <1>1. ASSUME NEW t \in Time, t <= n
        PROVE  /\ Totals(more, t)[n] = Totals(row, t)[n] + 1
               /\ Totals(row, t)[n] \in Nat
    <2>1. n <= n
      BY DEF Time
    <2> QED BY <1>1, <2>1, TotalsOneMore, TotalsNat
  <1> HIDE DEF more
  <1>2. ASSUME Recent(row, n, b) PROVE Recent(more, n, b + 1)
    BY <1>1, <1>2 DEF Recent
  <1>3. ASSUME NEW l \in Time, After(row, n, l, b) PROVE After(more, n, l, b + 1)
    BY <1>1, <1>3 DEF After
  <1> QED BY <1>2, <1>3 DEF more

\* The windows that it is in reach back no longer than a window.
LEMMA WindowsOneMore ==
  ASSUME NEW row \in [Time -> Nat], NEW n \in Time, \A w \in Time : w > n => row[w] = 0,
         NEW b \in Nat, NEW c \in Nat, b + 1 <= c,
         Recent(row, n, b), Windows(row, c)
  PROVE  Windows([row EXCEPT ![n] = @ + 1], c)
  <1> DEFINE more == [row EXCEPT ![n] = @ + 1]
             end(t) == IF t + Window <= MaxTime THEN t + Window ELSE MaxTime
  <1> SUFFICES ASSUME NEW t \in Time PROVE Totals(more, t)[end(t)] <= c
    BY DEF Windows
  <1>1. end(t) \in Time /\ t <= end(t) /\ (n <= end(t) => n <= t + Window)
    BY RateLimiterAssumption DEF Time, RateLimiterAssumption
  <1>2. Totals(more, t)[end(t)] =
          Totals(row, t)[end(t)] + (IF t <= n /\ n <= end(t) THEN 1 ELSE 0)
    <2> HIDE DEF end
    <2> QED BY <1>1, TotalsOneMore
  <1>3. Totals(row, t)[end(t)] <= c
    BY DEF Windows
  <1>4. Totals(row, t)[end(t)] \in Nat /\ Totals(row, t)[n] \in Nat
    <2> HIDE DEF end
    <2> QED BY <1>1, TotalsNat
  <1>5. t <= n /\ n <= end(t) => Totals(row, t)[end(t)] <= b
    <2>1. t <= n /\ n <= end(t) => Totals(row, t)[end(t)] = Totals(row, t)[n]
      <3> HIDE DEF end
      <3> QED BY <1>1, TotalsStay
    <2>2. t <= n /\ n <= end(t) => Totals(row, t)[n] <= b
      <3> HIDE DEF end
      <3> QED BY <1>1 DEF Recent
    <2> QED BY <2>1, <2>2
  <1> HIDE DEF end, more
  <1> QED BY <1>2, <1>3, <1>4, <1>5

\* A bound may be raised.
LEMMA SumsBelow ==
  ASSUME NEW row \in [Time -> Nat], NEW n \in Time, NEW b \in Nat, NEW c \in Nat, b <= c
  PROVE  /\ Recent(row, n, b) => Recent(row, n, c)
         /\ \A l \in Time : After(row, n, l, b) => After(row, n, l, c)
  <1>1. \A t \in Time : Totals(row, t)[n] \in Nat
    BY TotalsNat
  <1>2. Recent(row, n, b) => Recent(row, n, c)
    BY <1>1 DEF Recent
  <1>3. ASSUME NEW l \in Time, After(row, n, l, b) PROVE After(row, n, l, c)
    BY <1>1, <1>3 DEF After
  <1> QED BY <1>2, <1>3

\* What is no longer ago than a window is after a moment that is.
LEMMA RecentIsAfter ==
  ASSUME NEW row, NEW n \in Time, NEW l \in Time, n - l > Window, NEW b, After(row, n, l, b)
  PROVE  Recent(row, n, b)
  <1>1. \A t \in Time : n <= t + Window => l < t
    BY RateLimiterAssumption DEF Time, RateLimiterAssumption
  <1> QED BY <1>1 DEF Recent, After

\* The address has a visitor in the map.
Known(ip) == visitors[ip] # NoVisitor

\* What an address has been granted lately is on its visitor's account; an
\* address without one has no more than a rate behind it.
Account(ip) ==
  IF Known(ip)
    THEN /\ Recent(grants[ip], now, Rate + spent[visitors[ip]])
         /\ After(grants[ip], now, lastReset[visitors[ip]], spent[visitors[ip]])
    ELSE Recent(grants[ip], now, Rate)

\* An address has a visitor of its own, which was reset before now.
MapSound ==
  /\ \A ip \in IPs : Known(ip) => visitors[ip] <= made /\ lastReset[visitors[ip]] <= now
  /\ \A i, j \in IPs : Known(i) /\ visitors[i] = visitors[j] => i = j

\* With what is certain of the map: nothing is granted at a moment to come, and
\* every window so far is within the bound.
Ledger ==
  /\ MapSound
  /\ \A ip \in IPs : \A u \in Time : u > now => grants[ip][u] = 0
  /\ \A ip \in IPs : Account(ip)
  /\ \A ip \in IPs : Windows(grants[ip], 2 * Rate)

LimiterInv == TokenInv /\ Ledger

\* The types of all this.
LEMMA LimiterTypes ==
  ASSUME TokenInv
  PROVE  /\ now \in Time /\ Rate \in Nat /\ Window \in Nat /\ 0 \in Time
         /\ \A ip \in IPs : grants[ip] \in [Time -> Nat]
         /\ \A ip \in IPs : Known(ip) => /\ visitors[ip] \in VisitorIds
                                         /\ lastReset[visitors[ip]] \in Time
                                         /\ spent[visitors[ip]] \in Nat
                                         /\ spent[visitors[ip]] <= Rate
  <1> USE RateLimiterAssumption DEF RateLimiterAssumption, TokenInv, LimiterTypeOK
  <1>1. now \in Time /\ Rate \in Nat /\ Window \in Nat /\ 0 \in Time
    BY DEF Time
  <1>2. ASSUME NEW ip \in IPs PROVE grants[ip] \in [Time -> Nat]
    BY DEF Time
  <1>3. ASSUME NEW ip \in IPs, Known(ip)
        PROVE  /\ visitors[ip] \in VisitorIds
               /\ lastReset[visitors[ip]] \in Time
               /\ spent[visitors[ip]] \in Nat
               /\ spent[visitors[ip]] <= Rate
    <2>1. visitors[ip] \in VisitorIds
      BY <1>3 DEF Known
    <2>2. lastReset[visitors[ip]] \in 0 .. MaxTime /\ spent[visitors[ip]] \in 0 .. Rate
      BY <2>1
    <2> QED BY <2>1, <2>2 DEF Time
  <1> QED BY <1>1, <1>2, <1>3

\* At first nothing is granted.
LEMMA InitLedger == LimiterInit => Ledger
  <1> SUFFICES ASSUME LimiterInit PROVE Ledger
    OBVIOUS
  <1> DEFINE none == [t \in Time |-> 0]
  <1>1. now = 0 /\ 0 \in Time /\ Rate \in Nat /\ none \in [Time -> Nat]
    BY RateLimiterAssumption DEF LimiterInit, RateLimiterAssumption, Time
  <1>2. \A ip \in IPs : grants[ip] = none /\ ~Known(ip)
    BY DEF LimiterInit, Known, Time
  <1>3. \A t \in Time, u \in Time : t <= u => Totals(none, t)[u] = 0
    <2>1. ASSUME NEW t \in Time, NEW u \in Time, t <= u PROVE Totals(none, t)[u] = 0
      <3>1. \A w \in Time : none[w] = 0
        OBVIOUS
      <3> HIDE DEF none
      <3>2. Totals(none, 0)[0] = none[0] + 0
        BY <1>1, TotalsStep, 0 <= 0
      <3>3. t <= 0 => t = 0
        BY DEF Time
      <3>4. 0 <= u /\ (0 < t \/ t <= 0)
        BY DEF Time
      <3> QED BY <1>1, <2>1, <3>1, <3>2, <3>3, <3>4, TotalsStay
    <2> QED BY <2>1
  <1> HIDE DEF none
  <1>4. Recent(none, 0, Rate)
    BY <1>1, <1>3 DEF Recent
  <1>5. Windows(none, 2 * Rate)
    <2>1. \A t \in Time : LET e == IF t + Window <= MaxTime THEN t + Window ELSE MaxTime
                          IN  e \in Time /\ t <= e
      BY RateLimiterAssumption DEF RateLimiterAssumption, Time
    <2>2. 0 <= 2 * Rate
      BY <1>1
    <2> QED BY <1>3, <2>1, <2>2 DEF Windows
  <1>6. MapSound
    BY <1>2 DEF MapSound
  <1>7. \A ip \in IPs : \A u \in Time : grants[ip][u] = 0
    BY <1>2 DEF none
  <1> QED BY <1>1, <1>2, <1>4, <1>5, <1>6, <1>7 DEF Ledger, Account

\* Time passes: less of the past is within a window.
LEMMA TickLedger ==
  ASSUME TokenInv, TokenInv', Ledger, Tick
  PROVE  Ledger'
  <1>1. now' = now + 1 /\ UNCHANGED <<visitors, made, lastReset, spent, grants>>
    BY DEF Tick, grantVars
  <1>2. now \in Time /\ now + 1 \in Time /\ Rate \in Nat
    BY <1>1, LimiterTypes, RateLimiterAssumption
       DEF Time, RateLimiterAssumption, TokenInv, LimiterTypeOK
  <1>3. ASSUME NEW ip \in IPs PROVE Account(ip)'
    <2>1. grants[ip] \in [Time -> Nat] /\ \A u \in Time : u > now => grants[ip][u] = 0
      BY LimiterTypes DEF Ledger
    <2>2. CASE Known(ip)
      <3>1. /\ lastReset[visitors[ip]] \in Time
            /\ spent[visitors[ip]] \in Nat
            /\ Rate + spent[visitors[ip]] \in Nat
        BY <1>2, <2>2, LimiterTypes
      <3>2. /\ Recent(grants[ip], now, Rate + spent[visitors[ip]])
            /\ After(grants[ip], now, lastReset[visitors[ip]], spent[visitors[ip]])
        BY <2>2 DEF Ledger, Account
      <3>3. Recent(grants[ip], now + 1, Rate + spent[visitors[ip]])
        BY <1>2, <2>1, <3>1, <3>2, SumsTick
      <3>4. After(grants[ip], now + 1, lastReset[visitors[ip]], spent[visitors[ip]])
        BY <1>2, <2>1, <3>1, <3>2, SumsTick
      <3> QED BY <1>1, <2>2, <3>3, <3>4 DEF Account, Known
    <2>3. CASE ~Known(ip)
      <3>1. Recent(grants[ip], now + 1, Rate)
        BY <1>2, <2>1, <2>3, SumsTick DEF Ledger, Account
      <3> QED BY <1>1, <2>3, <3>1 DEF Account, Known
    <2> QED BY <2>2, <2>3
  <1>4. MapSound'
    <2>1. \A ip \in IPs : Known(ip) => lastReset[visitors[ip]] <= now + 1
      BY <1>2, LimiterTypes DEF Ledger, MapSound, Time
    <2> QED BY <1>1, <2>1 DEF Ledger, MapSound, Known
  <1>5. \A ip \in IPs : \A u \in Time : u > now' => grants'[ip][u] = 0
    <2>1. \A u \in Time : u > now + 1 => u > now
      BY <1>2 DEF Time
    <2> QED BY <1>1, <2>1 DEF Ledger
  <1>6. \A ip \in IPs : Windows(grants[ip], 2 * Rate)'
    BY <1>1 DEF Ledger, Windows
  <1> QED BY <1>3, <1>4, <1>5, <1>6 DEF Ledger

\* A visitor that is deleted was reset more than two windows ago, so that all its
\* address was granted within a window is on its account, at most a rate.
LEMMA CleanupLedger ==
  ASSUME TokenInv, Ledger, Cleanup
  PROVE  Ledger'
  <1>1. UNCHANGED <<now, made, lastReset, spent, grants>>
    BY DEF Cleanup, grantVars
  <1>2. \A ip \in IPs :
          visitors'[ip] = IF Known(ip) /\ now - lastReset[visitors[ip]] > 2 * Window
                            THEN NoVisitor ELSE visitors[ip]
    BY DEF Cleanup, Known
  <1>3. ASSUME NEW ip \in IPs PROVE Account(ip)'
    <2>1. CASE visitors'[ip] = visitors[ip]
      BY <1>1, <2>1 DEF Ledger, Account, Known
    <2>2. CASE visitors'[ip] # visitors[ip]
      <3>1. /\ Known(ip) /\ visitors'[ip] = NoVisitor
            /\ now - lastReset[visitors[ip]] > 2 * Window
        BY <1>2, <2>2
      <3> DEFINE s == spent[visitors[ip]]
                 l == lastReset[visitors[ip]]
      <3>2. /\ l \in Time /\ s \in Nat /\ s <= Rate /\ now \in Time /\ Rate \in Nat
            /\ Window \in Nat /\ grants[ip] \in [Time -> Nat]
        BY <3>1, LimiterTypes
      <3>3. After(grants[ip], now, l, s)
        BY <3>1 DEF Ledger, Account
      <3>4. now - l > Window
        BY <3>1, <3>2 DEF Time
      <3> HIDE DEF s, l
      <3>5. Recent(grants[ip], now, s)
        BY <3>2, <3>3, <3>4, RecentIsAfter
      <3>6. Recent(grants[ip], now, Rate)
        BY <3>2, <3>5, SumsBelow
      <3> QED BY <1>1, <3>1, <3>6 DEF Account, Known
    <2> QED BY <2>1, <2>2
  <1>4. MapSound'
    BY <1>1, <1>2 DEF Ledger, MapSound, Known
  <1>5. \A ip \in IPs : Windows(grants[ip], 2 * Rate)'
    BY <1>1 DEF Ledger, Windows
  <1> QED BY <1>1, <1>3, <1>4, <1>5 DEF Ledger

\* A new one finds at most a rate behind it.
LEMMA NewVisitorLedger ==
  ASSUME TokenInv, Ledger, NEW r \in Requests, NEW ip \in IPs, NewVisitor(r, ip),
         UNCHANGED <<now, grants>>
  PROVE  Ledger'
  <1>1. /\ ~Known(ip)
        /\ visitors' = [visitors EXCEPT ![ip] = made + 1]
        /\ lastReset' = [lastReset EXCEPT ![made + 1] = now]
        /\ spent' = [spent EXCEPT ![made + 1] = 0]
        /\ made' = made + 1
    BY DEF NewVisitor, Known
  <1>2. made \in Nat /\ made + 1 \in VisitorIds /\ NoVisitor \notin VisitorIds
    BY RateLimiterAssumption
       DEF NewVisitor, VisitorIds, RateLimiterAssumption, TokenInv, LimiterTypeOK
  <1>3. /\ visitors'[ip] = made + 1
        /\ lastReset'[made + 1] = now
        /\ spent'[made + 1] = 0
    BY <1>1, <1>2 DEF TokenInv, LimiterTypeOK
  <1>4. ASSUME NEW j \in IPs, j # ip
        PROVE  /\ visitors'[j] = visitors[j]
               /\ Known(j) => /\ visitors[j] \in VisitorIds /\ visitors[j] <= made
                              /\ visitors[j] # made + 1
                              /\ lastReset'[visitors[j]] = lastReset[visitors[j]]
                              /\ spent'[visitors[j]] = spent[visitors[j]]
    <2>1. visitors'[j] = visitors[j]
      BY <1>1, <1>4 DEF TokenInv, LimiterTypeOK
    <2>2. ASSUME Known(j)
          PROVE  visitors[j] \in VisitorIds /\ visitors[j] <= made /\ visitors[j] # made + 1
      <3>1. visitors[j] \in VisitorIds /\ visitors[j] <= made
        BY <2>2, LimiterTypes DEF Ledger, MapSound
      <3> QED BY <1>2, <3>1 DEF VisitorIds
    <2>3. ASSUME Known(j)
          PROVE  /\ lastReset'[visitors[j]] = lastReset[visitors[j]]
                 /\ spent'[visitors[j]] = spent[visitors[j]]
      BY <1>1, <2>2, <2>3 DEF TokenInv, LimiterTypeOK
    <2> QED BY <2>1, <2>2, <2>3
  <1>5. ASSUME NEW j \in IPs PROVE Account(j)'
    <2>1. CASE j = ip
      <3>1. /\ now \in Time /\ Rate \in Nat /\ Rate + 0 = Rate
        BY LimiterTypes
      <3>2. Recent(grants[ip], now, Rate)
        BY <1>1 DEF Ledger, Account
      <3>3. After(grants[ip], now, now, 0)
        BY <3>1 DEF After, Time
      <3> QED BY <1>2, <1>3, <2>1, <3>1, <3>2, <3>3 DEF Account, Known
    <2>2. CASE j # ip
      BY <1>4, <2>2 DEF Ledger, Account, Known
    <2> QED BY <2>1, <2>2
  <1>6. MapSound'
    <2>1. ASSUME NEW j \in IPs, Known(j)'
          PROVE  visitors'[j] <= made' /\ lastReset'[visitors'[j]] <= now'
      <3>1. CASE j = ip
        <4>1. made + 1 <= made + 1 /\ now <= now
          BY <1>2, LimiterTypes DEF Time
        <4> QED BY <1>1, <1>3, <3>1, <4>1
      <3>2. CASE j # ip
        <4>1. Known(j) /\ visitors[j] <= made /\ visitors[j] \in Nat
          BY <1>4, <2>1, <3>2 DEF Known, VisitorIds
        <4>2. visitors[j] <= made + 1
          BY <1>2, <4>1
        <4>3. lastReset[visitors[j]] <= now
          BY <4>1 DEF Ledger, MapSound
        <4> QED BY <1>1, <1>4, <3>2, <4>1, <4>2, <4>3
      <3> QED BY <3>1, <3>2
    <2>2. ASSUME NEW i \in IPs, NEW j \in IPs, Known(i)', visitors'[i] = visitors'[j]
          PROVE  i = j
      <3>1. \A k \in IPs : k # ip => visitors'[k] = visitors[k] /\ visitors'[k] # made + 1
        BY <1>2, <1>4 DEF Known
      <3>2. CASE i = ip \/ j = ip
        BY <1>3, <2>2, <3>1, <3>2
      <3>3. CASE i # ip /\ j # ip
        BY <2>2, <3>1, <3>3 DEF Ledger, MapSound, Known
      <3> QED BY <3>2, <3>3
    <2> QED BY <2>1, <2>2 DEF MapSound
  <1>7. \A j \in IPs : Windows(grants[j], 2 * Rate)'
    BY DEF Ledger, Windows
  <1> QED BY <1>5, <1>6, <1>7 DEF Ledger

\* So does one that is reset, since its last reset is more than a window ago.
LEMMA OldVisitorLedger ==
  ASSUME TokenInv, Ledger, NEW r \in Requests, NEW ip \in IPs, OldVisitor(r, ip),
         UNCHANGED <<now, grants>>
  PROVE  Ledger'
  <1> DEFINE v == visitors[ip]
             l == lastReset[v]
  <1>1. Known(ip) /\ UNCHANGED <<visitors, made>>
    BY DEF OldVisitor, Known
  <1>2. /\ v \in VisitorIds /\ l \in Time /\ spent[v] \in Nat /\ spent[v] <= Rate
        /\ now \in Time /\ Rate \in Nat /\ grants[ip] \in [Time -> Nat]
    BY <1>1, LimiterTypes
  <1>3. CASE now - l > Window
    <2>1. /\ lastReset' = [lastReset EXCEPT ![v] = now]
          /\ spent' = [spent EXCEPT ![v] = 0]
      BY <1>3 DEF OldVisitor
    <2>2. lastReset'[v] = now /\ spent'[v] = 0
      BY <1>2, <2>1 DEF TokenInv, LimiterTypeOK
    <2>3. ASSUME NEW j \in IPs, j # ip, Known(j)
          PROVE  /\ lastReset'[visitors[j]] = lastReset[visitors[j]]
                 /\ spent'[visitors[j]] = spent[visitors[j]]
      <3>1. visitors[j] \in VisitorIds /\ visitors[j] # v
        BY <2>3, LimiterTypes DEF Ledger, MapSound
      <3> QED BY <2>1, <3>1 DEF TokenInv, LimiterTypeOK
    <2>4. ASSUME NEW j \in IPs PROVE Account(j)'
      <3>1. CASE j = ip
        <4>1. After(grants[ip], now, l, spent[v])
          BY <1>1 DEF Ledger, Account
        <4> HIDE DEF v, l
        <4>2. Recent(grants[ip], now, spent[v])
          BY <1>2, <1>3, <4>1, RecentIsAfter
        <4>3. Recent(grants[ip], now, Rate)
          BY <1>2, <4>2, SumsBelow
        <4>4. After(grants[ip], now, now, 0)
          BY <1>2 DEF After, Time
        <4>5. Rate + 0 = Rate
          BY <1>2
        <4> QED BY <1>1, <2>2, <3>1, <4>3, <4>4, <4>5 DEF Account, Known, v
      <3>2. CASE j # ip
        BY <1>1, <2>3, <3>2 DEF Ledger, Account, Known
      <3> QED BY <3>1, <3>2
    <2>5. MapSound'
      <3>1. ASSUME NEW j \in IPs, Known(j) PROVE lastReset'[visitors[j]] <= now
        <4>1. CASE j = ip
          <5>1. now <= now
            BY <1>2 DEF Time
          <5> QED BY <2>2, <4>1, <5>1
        <4>2. CASE j # ip
          BY <2>3, <3>1, <4>2 DEF Ledger, MapSound
        <4> QED BY <4>1, <4>2
      <3> QED BY <1>1, <3>1 DEF Ledger, MapSound, Known
    <2>6. \A j \in IPs : Windows(grants[j], 2 * Rate)'
      BY DEF Ledger, Windows
    <2> QED BY <2>4, <2>5, <2>6 DEF Ledger
  <1>4. CASE ~(now - l > Window)
    <2>1. UNCHANGED <<lastReset, spent>>
      BY <1>4 DEF OldVisitor
    <2> QED BY <1>1, <2>1 DEF Ledger, Account, MapSound, Windows, Known
  <1> QED BY <1>3, <1>4

\* A token taken is on the account of the visitor, and in the windows that are not
\* over, if the visitor is the one in the map; else it is on an account that no
\* address has.
LEMMA TakeTokenLedger ==
  ASSUME TokenInv, TokenInv', Ledger, NEW r \in Requests, TakeToken(r)
  PROVE  Ledger'
  <1>1. PICK v \in VisitorIds, ip \in IPs : v = held[r] /\ ip = from[r] /\ v # NoVisitor
    BY DEF TokenInv, LimiterTypeOK, TakeToken
  <1>2. UNCHANGED <<now, visitors, made, lastReset>>
    BY DEF TakeToken
  <1>3. MapSound'
    BY <1>2 DEF Ledger, MapSound, Known
  <1>4. CASE ~(tokens[v] > 0)
    <2>1. UNCHANGED <<spent, grants>>
      BY <1>1, <1>4 DEF TakeToken, grantVars
    <2> QED BY <1>2, <1>3, <2>1 DEF Ledger, Account, Windows, Known
  <1>5. CASE tokens[v] > 0
    <2>1. /\ spent' = [spent EXCEPT ![v] = @ + 1]
          /\ grants' = IF visitors[ip] = v THEN [grants EXCEPT ![ip][now] = @ + 1]
                                           ELSE grants
      BY <1>1, <1>5 DEF TakeToken
    <2>2. /\ spent'[v] = spent[v] + 1
          /\ \A w \in VisitorIds : w # v => spent'[w] = spent[w]
          /\ \A w \in VisitorIds : spent[w] \in Nat
      BY <1>1, <2>1 DEF TokenInv, LimiterTypeOK
    <2>3. now \in Time /\ Rate \in Nat /\ 2 * Rate \in Nat /\ spent[v] + 1 <= Rate
      <3>1. spent'[v] \in 0 .. Rate
        BY <1>1 DEF TokenInv, LimiterTypeOK
      <3>2. now \in Time /\ Rate \in Nat
        BY LimiterTypes
      <3> QED BY <2>2, <3>1, <3>2
    <2>4. ASSUME NEW j \in IPs, grants'[j] = grants[j]
          PROVE  Account(j)' /\ Windows(grants[j], 2 * Rate)'
                 /\ \A u \in Time : u > now' => grants'[j][u] = 0
      <3>1. Windows(grants[j], 2 * Rate)'
            /\ \A u \in Time : u > now' => grants'[j][u] = 0
        BY <1>2, <2>4 DEF Ledger, Windows
      <3>2. CASE ~Known(j)
        BY <1>2, <2>4, <3>2 DEF Ledger, Account, Known
      <3>3. CASE Known(j)
        <4> DEFINE s == spent[visitors[j]]
                   z == spent'[visitors[j]]
                   k == lastReset[visitors[j]]
        <4>1. /\ visitors[j] \in VisitorIds /\ grants[j] \in [Time -> Nat]
              /\ k \in Time /\ s \in Nat
          BY <3>3, LimiterTypes
        <4>2. z \in Nat /\ s <= z
          BY <1>1, <2>2, <4>1
        <4>3. Recent(grants[j], now, Rate + s) /\ After(grants[j], now, k, s)
          BY <3>3 DEF Ledger, Account
        <4>4. Recent(grants[j], now, Rate + z) /\ After(grants[j], now, k, z)
          <5> HIDE DEF s, z, k
          <5>1. Rate + s \in Nat /\ Rate + z \in Nat /\ Rate + s <= Rate + z
            BY <2>3, <4>1, <4>2
          <5>2. Recent(grants[j], now, Rate + z)
            BY <2>3, <4>1, <4>3, <5>1, SumsBelow
          <5>3. After(grants[j], now, k, z)
            BY <2>3, <4>1, <4>2, <4>3, SumsBelow
          <5> QED BY <5>2, <5>3
        <4> QED BY <1>2, <2>4, <3>1, <3>3, <4>4 DEF Account, Known
      <3> QED BY <3>1, <3>2, <3>3
    <2>5. CASE visitors[ip] # v
      <3>1. \A j \in IPs : grants'[j] = grants[j]
        BY <2>1, <2>5
      <3> QED BY <1>3, <2>4, <3>1 DEF Ledger
    <2>6. CASE visitors[ip] = v
      <3>1. Known(ip)
        BY <1>1, <2>6 DEF Known
      <3>2. PICK row \in [Time -> Nat] : row = grants[ip]
        BY <1>1, LimiterTypes
      <3>3. PICK s \in Nat : s = spent[v]
        BY <1>1, <2>2
      <3>4. PICK k \in Time : k = lastReset[v]
        BY <1>1, <2>6, <3>1, LimiterTypes
      <3>5. PICK more : more = [row EXCEPT ![now] = @ + 1]
        OBVIOUS
      <3>6. /\ Recent(row, now, Rate + s) /\ After(row, now, k, s)
            /\ Windows(row, 2 * Rate)
            /\ \A u \in Time : u > now => row[u] = 0
        BY <1>1, <2>6, <3>1, <3>2, <3>3, <3>4 DEF Ledger, Account
      <3>7. grants'[ip] = more /\ \A j \in IPs : j # ip => grants'[j] = grants[j]
        BY <1>1, <2>1, <2>6, <3>2, <3>5 DEF TokenInv, LimiterTypeOK
      <3>8. /\ Recent(more, now, Rate + (s + 1)) /\ After(more, now, k, s + 1)
            /\ Windows(more, 2 * Rate)
        <4>1. /\ Rate + s \in Nat /\ (Rate + s) + 1 = Rate + (s + 1)
              /\ (Rate + s) + 1 <= 2 * Rate
          BY <2>3, <3>3
        <4>2. Recent(more, now, Rate + (s + 1))
          BY <2>3, <3>5, <3>6, <4>1, SumsOneMore
        <4>3. After(more, now, k, s + 1)
          BY <2>3, <3>5, <3>6, SumsOneMore
        <4>4. Windows(more, 2 * Rate)
          BY <2>3, <3>5, <3>6, <4>1, WindowsOneMore
        <4> QED BY <4>2, <4>3, <4>4
      <3>9. \A u \in Time : u > now => more[u] = 0
        <4>1. \A u \in Time : u > now => u # now
          BY <2>3 DEF Time
        <4> QED BY <3>5, <3>6, <4>1
      <3>10. Account(ip)'
        <4>1. /\ visitors'[ip] = v /\ v # NoVisitor
              /\ spent'[v] = s + 1 /\ lastReset'[v] = k /\ now' = now
          BY <1>1, <1>2, <2>2, <2>6, <3>1, <3>3, <3>4 DEF Known
        <4> QED BY <3>7, <3>8, <4>1 DEF Account, Known
      <3>11. Windows(grants[ip], 2 * Rate)'
        BY <3>7, <3>8 DEF Windows
      <3>12. ASSUME NEW j \in IPs
             PROVE  Account(j)' /\ Windows(grants[j], 2 * Rate)'
                    /\ \A u \in Time : u > now' => grants'[j][u] = 0
        <4>1. CASE j = ip
          BY <1>2, <3>7, <3>9, <3>10, <3>11, <4>1
        <4>2. CASE j # ip
          BY <2>4, <3>7, <4>2
        <4> QED BY <4>1, <4>2
      <3> QED BY <1>3, <3>12 DEF Ledger
    <2> QED BY <2>5, <2>6
  <1> QED BY <1>4, <1>5

\* Every step keeps the ledger.
LEMMA NextLedger ==
  LimiterInv /\ [LimiterNext]_limiterVars => LimiterInv'
  <1> SUFFICES ASSUME LimiterInv, [LimiterNext]_limiterVars PROVE LimiterInv'
    OBVIOUS
  <1>1. TokenInv /\ TokenInv' /\ Ledger
    BY NextTokens DEF LimiterInv
  <1>2. CASE Tick
    BY <1>1, <1>2, TickLedger DEF LimiterInv
  <1>3. CASE Cleanup
    BY <1>1, <1>3, CleanupLedger DEF LimiterInv
  <1>4. ASSUME NEW r \in Requests, GetVisitor(r) PROVE LimiterInv'
    <2>1. UNCHANGED <<now, grants>>
      BY <1>4 DEF GetVisitor
    <2>2. PICK ip \in IPs : NewVisitor(r, ip) \/ OldVisitor(r, ip)
      BY <1>4 DEF GetVisitor
    <2> QED BY <1>1, <2>1, <2>2, NewVisitorLedger, OldVisitorLedger DEF LimiterInv
  <1>5. ASSUME NEW r \in Requests, TakeToken(r) PROVE LimiterInv'
    BY <1>1, <1>5, TakeTokenLedger DEF LimiterInv
  <1>6. CASE UNCHANGED limiterVars
    BY <1>1, <1>6 DEF LimiterInv, Ledger, Account, MapSound, Windows, Known,
                      limiterVars, grantVars
  <1> QED BY <1>2, <1>3, <1>4, <1>5, <1>6 DEF LimiterNext

\* In any stretch of time as long as the window, an address is let through at most
\* twice its rate by the visitors that are in the map (ratelimit.go: getVisitor,
\* Allow, cleanup), whatever the rate, the window, the addresses and the requests:
\* neither a reset nor the deletion of an idle visitor hands out tokens sooner.
THEOREM AtMostTwiceTheRate == LimiterSpec => []TwiceTheRate
  <1>1. LimiterInit => LimiterInv
    BY InitTokens, InitLedger DEF LimiterInv
  <1>2. LimiterInv => TwiceTheRate
    <2> SUFFICES ASSUME LimiterInv, NEW ip \in IPs, NEW t \in Time
                 PROVE  Granted(ip, t) <= 2 * Rate
      BY DEF TwiceTheRate, Time
    <2>1. Windows(grants[ip], 2 * Rate)
      BY DEF LimiterInv, Ledger
    <2> QED BY <2>1, GrantedIs DEF Windows
  <1> QED BY <1>1, <1>2, NextLedger, PTL DEF LimiterSpec
=============================================================================
