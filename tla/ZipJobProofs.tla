---------------------------- MODULE ZipJobProofs ----------------------------
(***************************************************************************)
(* Proofs about ZipJob, for any number of files, workers and attempts.     *)
(* The inductive invariant has three parts: where the pool stands, what    *)
(* the counters and the files mean, and what each position of the main     *)
(* goroutine has established about the job and its ZIP.  Last, the names   *)
(* of the entries of the ZIP.                                              *)
(***************************************************************************)
EXTENDS ZipJob, ZipNames, FiniteSetTheorems, SequenceTheorems, TLAPS

Busy(w) == wpc[w] \in {"attempt", "request", "body", "stalled"}

\* Tasks are handed out once and in order; outside the join nobody works.
PoolInv ==
  /\ staged \subseteq 1 .. nextTask - 1
  /\ \A w \in Workers : Busy(w) => wtask[w] \in (1 .. nextTask - 1) \ staged
  /\ \A v, w \in Workers : v # w /\ Busy(v) /\ Busy(w) => wtask[v] # wtask[w]
  /\ mainPc # "join" => \A w \in Workers : wpc[w] \in {"take", "exited"}
  /\ cancelled => firstFailure # "none"
  /\ firstFailure # "cancelled"

\* The counter counts the staged files, which are whole until the sweep.
CountInv ==
  /\ completed = Cardinality(staged)
  /\ \A w \in Workers : wpc[w] = "report" => wreport[w] <= completed
  /\ progress <= completed
  /\ mainPc # "done" => \A i \in staged : stageFile[i] = "complete"

\* What the main goroutine knows at each of its positions.
MainInv ==
  /\ mainPc \in {"mkdir", "join", "create"} =>
       /\ zip = "absent" /\ packed = 0
       /\ archive = {}
  /\ mainPc \in {"mkdir", "join", "create", "pack", "publish"} =>
       status = "processing" /\ registered /\ ~hasPath /\ timer = "off"
  /\ mainPc = "pack" => zip = "open"
  /\ mainPc \in {"pack", "publish"} =>
       archive = 1 .. packed /\ archive \subseteq staged
  /\ mainPc = "publish" => zip = "closed" /\ packed = NAssets
  /\ mainPc = "drop" => status = "failed" /\ registered
  /\ mainPc \in {"schedule", "sweep", "done"} /\ status = "ready" /\ registered =>
       /\ zip = "closed" /\ hasPath
       /\ archive = Assets /\ progress = NAssets
  /\ mainPc = "schedule" => status = "ready"
  /\ timer # "off" => mainPc \in {"sweep", "done"} /\ status = "ready"

IInv == TypeOK /\ PoolInv /\ CountInv /\ MainInv

----------------------------------------------------------------------------
\* Counting staged files: one more file is one more in the counter, and there
\* are never more than were asked for.
LEMMA StagedCount ==
  ASSUME NEW S \in SUBSET Assets
  PROVE  /\ IsFiniteSet(S)
         /\ Cardinality(S) \in 0 .. NAssets
         /\ \A i \in Assets \ S : Cardinality(S \cup {i}) = Cardinality(S) + 1
<1>1. IsFiniteSet(Assets) /\ Cardinality(Assets) = NAssets
  BY FS_Interval, ZipJobAssumption DEF Assets
<1>2. IsFiniteSet(S) /\ Cardinality(S) <= NAssets
  BY <1>1, FS_Subset
<1>3. Cardinality(S) \in Nat
  BY <1>2, FS_CardinalityType
<1> QED
  BY <1>2, <1>3, FS_AddElement, ZipJobAssumption

\* When every file is staged the counter stands at the number asked for.
LEMMA AllStaged ==
  ASSUME NEW S \in SUBSET Assets, Assets \subseteq S
  PROVE  Cardinality(S) = NAssets
<1>1. S = Assets
  OBVIOUS
<1> QED
  BY <1>1, FS_Interval, ZipJobAssumption DEF Assets

\* Tasks that were handed out stay handed out while the channel drains.
LEMMA IntervalGrows ==
  ASSUME NEW m \in Int, NEW n \in Int, m <= n
  PROVE  1 .. m - 1 \subseteq 1 .. n - 1
OBVIOUS

\* Entries are packed in order: the first n and the next are the first n + 1.
LEMMA NextOfInterval ==
  ASSUME NEW n \in Nat
  PROVE  (1 .. n) \cup {n + 1} = 1 .. n + 1
OBVIOUS

\* The initial states satisfy the inductive invariant.
LEMMA InitIInv == Init => IInv
<1> SUFFICES ASSUME Init PROVE IInv
  OBVIOUS
<1> USE ZipJobAssumption DEF Init
<1>0. 1 \in 1 .. NAssets + 1 /\ 0 \in 0 .. NAssets
  OBVIOUS
<1>1. PoolTypeOK
  <2>1. /\ wpc \in [Workers -> {"take", "attempt", "request", "body", "stalled",
                                "report", "exited"}]
        /\ wtask \in [Workers -> Assets]
        /\ wattempt \in [Workers -> 1 .. MaxAttempts]
        /\ wreport \in [Workers -> 0 .. NAssets]
    BY DEF Assets
  <2> QED
    BY <1>0, <2>1 DEF PoolTypeOK
<1>2. FileTypeOK
  BY <1>0 DEF FileTypeOK
<1>3. JobTypeOK
  BY <1>0 DEF JobTypeOK
<1>4. PoolInv
  BY DEF PoolInv, Busy
<1>5. CountInv
  BY FS_EmptySet DEF CountInv
<1>6. MainInv
  BY DEF MainInv
<1> QED
  BY <1>1, <1>2, <1>3, <1>4, <1>5, <1>6 DEF IInv, TypeOK

\* A worker that gives up its task, whatever it failed of, leaves the others
\* and their tasks alone.
LEMMA FailKeeps ==
  ASSUME PoolTypeOK, PoolInv, NEW w \in Workers, NEW cause \in Causes,
         Fail(w, cause), cause = "cancelled" => cancelled, mainPc' = mainPc
  PROVE  PoolTypeOK' /\ PoolInv'
<1> USE DEF Fail
<1>1. PoolTypeOK'
  <2>1. wpc' \in [Workers -> {"take", "attempt", "request", "body", "stalled",
                              "report", "exited"}]
    BY DEF PoolTypeOK
  <2>2. firstFailure' \in Causes \cup {"none"} /\ cancelled' \in BOOLEAN
    BY DEF PoolTypeOK
  <2> QED
    BY <2>1, <2>2 DEF PoolTypeOK
<1>2. \A v \in Workers : Busy(v)' => Busy(v) /\ wtask'[v] = wtask[v]
  BY DEF PoolTypeOK, Busy
<1>3. mainPc # "join" => \A v \in Workers : wpc'[v] \in {"take", "exited"}
  BY DEF PoolTypeOK, PoolInv
<1>4. firstFailure' \notin {"none", "cancelled"}
  BY DEF PoolTypeOK, PoolInv, Causes
<1> QED
  BY <1>1, <1>2, <1>3, <1>4 DEF PoolInv

\* So does a worker that tries again.
LEMMA RetryKeeps ==
  ASSUME PoolTypeOK, PoolInv, NEW w \in Workers, Busy(w), Retry(w),
         mainPc' = mainPc
  PROVE  PoolTypeOK' /\ PoolInv'
<1>1. CASE Fail(w, "exhausted")
  BY <1>1, FailKeeps DEF Causes
<1>2. CASE /\ wattempt[w] < MaxAttempts
           /\ wpc' = [wpc EXCEPT ![w] = "attempt"]
           /\ wattempt' = [wattempt EXCEPT ![w] = @ + 1]
           /\ UNCHANGED <<nextTask, wtask, wreport, cancelled, firstFailure,
                          completed, staged>>
  <2>1. wattempt' \in [Workers -> 1 .. MaxAttempts]
    BY <1>2, ZipJobAssumption DEF PoolTypeOK
  <2>2. wpc' \in [Workers -> {"take", "attempt", "request", "body", "stalled",
                              "report", "exited"}]
    BY <1>2 DEF PoolTypeOK
  <2>3. \A v \in Workers : Busy(v)' => Busy(v) /\ wtask'[v] = wtask[v]
    BY <1>2 DEF PoolTypeOK, Busy
  <2>4. mainPc = "join"
    BY DEF PoolInv, Busy
  <2> QED
    BY <1>2, <2>1, <2>2, <2>3, <2>4 DEF PoolTypeOK, PoolInv
<1> QED
  BY <1>1, <1>2 DEF Retry

\* Every step preserves the inductive invariant.
LEMMA NextIInv == IInv /\ [Next]_vars => IInv'
<1> SUFFICES ASSUME IInv, [Next]_vars PROVE IInv'
  OBVIOUS
<1> USE DEF IInv, vars, poolVars, stageVars, zipVars, jobVars, mainVars
<1>1. ASSUME NEW w \in Workers, Take(w) PROVE IInv'
  <2>1. CASE nextTask > NAssets \/ cancelled
    <3>1. /\ wpc' = [wpc EXCEPT ![w] = "exited"]
          /\ UNCHANGED <<wtask, wattempt>>
      BY <1>1, <2>1 DEF Take
    <3>2. nextTask' \in 1 .. NAssets + 1 /\ nextTask <= nextTask'
      BY <1>1, ZipJobAssumption DEF Take, TypeOK, PoolTypeOK
    <3>3. wpc' \in [Workers -> {"take", "attempt", "request", "body",
                                "stalled", "report", "exited"}]
      BY <3>1 DEF TypeOK, PoolTypeOK
    <3>4. \A v \in Workers : Busy(v)' => Busy(v) /\ wtask'[v] = wtask[v]
      BY <3>1 DEF TypeOK, PoolTypeOK, Busy
    <3>5. TypeOK' /\ mainPc = "join"
      BY <1>1, <3>1, <3>2, <3>3
      DEF Take, TypeOK, PoolTypeOK, FileTypeOK, JobTypeOK
    <3>6. staged \subseteq 1 .. nextTask' - 1
          /\ \A i \in 1 .. nextTask - 1 : i \in 1 .. nextTask' - 1
      <4>1. nextTask \in Int /\ nextTask' \in Int
        BY <3>2, ZipJobAssumption DEF TypeOK, PoolTypeOK
      <4>2. \A i \in 1 .. nextTask - 1 : i \in 1 .. nextTask' - 1
        BY <3>2, <4>1, IntervalGrows
      <4> QED
        BY <4>2 DEF PoolInv
    <3>7. PoolInv'
      BY <1>1, <3>4, <3>5, <3>6 DEF Take, PoolInv
    <3>8. CountInv' /\ MainInv'
      BY <1>1, <3>1, <3>3 DEF Take, CountInv, MainInv, TypeOK, PoolTypeOK
    <3> QED
      BY <3>5, <3>7, <3>8 DEF IInv
  <2>2. CASE nextTask <= NAssets /\ ~cancelled
    <3>1. /\ wpc' = [wpc EXCEPT ![w] = "attempt"]
          /\ wtask' = [wtask EXCEPT ![w] = nextTask]
          /\ wattempt' = [wattempt EXCEPT ![w] = 1]
          /\ nextTask' = nextTask + 1
      BY <1>1, <2>2, ZipJobAssumption DEF Take, TypeOK, PoolTypeOK
    <3>2. nextTask \in Assets /\ nextTask' \in 1 .. NAssets + 1
      BY <2>2, <3>1, ZipJobAssumption DEF TypeOK, PoolTypeOK, Assets
    <3>3. /\ wpc' \in [Workers -> {"take", "attempt", "request", "body",
                                   "stalled", "report", "exited"}]
          /\ wtask' \in [Workers -> Assets]
          /\ wattempt' \in [Workers -> 1 .. MaxAttempts]
      BY <3>1, <3>2, ZipJobAssumption DEF TypeOK, PoolTypeOK
    <3>4. TypeOK' /\ mainPc = "join"
      BY <1>1, <3>2, <3>3 DEF Take, TypeOK, PoolTypeOK, FileTypeOK, JobTypeOK
    <3>5. /\ staged \subseteq 1 .. nextTask' - 1
          /\ nextTask \in (1 .. nextTask' - 1) \ staged
          /\ \A i \in 1 .. nextTask - 1 : i # nextTask /\ i \in 1 .. nextTask' - 1
      BY <3>1 DEF PoolInv, TypeOK, PoolTypeOK
    <3>6. /\ wtask'[w] = nextTask
          /\ \A v \in Workers \ {w} : /\ wtask'[v] = wtask[v]
                                      /\ Busy(v)' => Busy(v)
      BY <3>1 DEF TypeOK, PoolTypeOK, Busy
    <3>7. \A v \in Workers : Busy(v)' => wtask'[v] \in (1 .. nextTask' - 1) \ staged
      BY <3>5, <3>6 DEF PoolInv
    <3>8. \A u, v \in Workers : u # v /\ Busy(u)' /\ Busy(v)' => wtask'[u] # wtask'[v]
      BY <3>5, <3>6 DEF PoolInv
    <3>9. PoolInv'
      BY <1>1, <3>4, <3>5, <3>7, <3>8 DEF Take, PoolInv
    <3>10. CountInv' /\ MainInv'
      BY <1>1, <3>1, <3>3 DEF Take, CountInv, MainInv, TypeOK, PoolTypeOK
    <3> QED
      BY <3>4, <3>9, <3>10 DEF IInv
  <2> QED
    BY <2>1, <2>2, ZipJobAssumption DEF TypeOK, PoolTypeOK
<1>2. ASSUME NEW w \in Workers, StartAttempt(w) PROVE IInv'
  <2>1. CASE cancelled /\ Fail(w, "cancelled")
    <3>1. PoolTypeOK' /\ PoolInv'
      BY <1>2, <2>1, FailKeeps DEF StartAttempt, TypeOK, Causes
    <3>2. FileTypeOK' /\ JobTypeOK'
      BY <1>2 DEF StartAttempt, TypeOK, FileTypeOK, JobTypeOK
    <3>3. CountInv' /\ MainInv'
      BY <1>2, <2>1
      DEF StartAttempt, Fail, CountInv, MainInv, TypeOK, PoolTypeOK
    <3> QED
      BY <3>1, <3>2, <3>3 DEF IInv, TypeOK
  <2>2. CASE ~cancelled
    <3>1. wpc' = [wpc EXCEPT ![w] = "request"]
      BY <1>2, <2>2 DEF StartAttempt
    <3>2. TypeOK'
      BY <1>2, <2>2 DEF StartAttempt, TypeOK, PoolTypeOK, FileTypeOK, JobTypeOK
    <3>3. \A v \in Workers : Busy(v)' => Busy(v) /\ wtask'[v] = wtask[v]
      BY <1>2, <2>2 DEF StartAttempt, TypeOK, PoolTypeOK, Busy
    <3>4. mainPc = "join"
      BY <1>2 DEF StartAttempt, PoolInv
    <3>5. PoolInv'
      <4>1. UNCHANGED <<nextTask, staged, cancelled, firstFailure, mainPc>>
        BY <1>2, <2>2 DEF StartAttempt
      <4> QED
        BY <3>3, <3>4, <4>1 DEF PoolInv
    <3>6. CountInv' /\ MainInv'
      BY <1>2, <2>2, <3>1
      DEF StartAttempt, CountInv, MainInv, TypeOK, PoolTypeOK
    <3> QED
      BY <3>2, <3>5, <3>6 DEF IInv
  <2> QED
    BY <1>2, <2>1, <2>2 DEF StartAttempt
<1>3. ASSUME NEW w \in Workers, AnswerRetryable(w) PROVE IInv'
  <2>1. PoolTypeOK' /\ PoolInv'
    BY <1>3, RetryKeeps DEF AnswerRetryable, Busy, TypeOK
  <2>2. FileTypeOK' /\ JobTypeOK'
    BY <1>3 DEF AnswerRetryable, TypeOK, PoolTypeOK, FileTypeOK, JobTypeOK
  <2>3. UNCHANGED <<completed, staged, wreport>>
        /\ \A v \in Workers : wpc'[v] = "report" => wpc[v] = "report"
    BY <1>3 DEF AnswerRetryable, Retry, Fail, TypeOK, PoolTypeOK
  <2>4. CountInv' /\ MainInv'
    BY <1>3, <2>3
    DEF AnswerRetryable, PoolInv, Busy, CountInv, MainInv, TypeOK, PoolTypeOK, FileTypeOK
  <2> QED
    BY <2>1, <2>2, <2>4 DEF IInv, TypeOK
<1>4. ASSUME NEW w \in Workers, AnswerPermanent(w) PROVE IInv'
  <2>1. PoolTypeOK' /\ PoolInv'
    BY <1>4, FailKeeps DEF AnswerPermanent, Causes, TypeOK
  <2>2. FileTypeOK' /\ JobTypeOK'
    BY <1>4 DEF AnswerPermanent, TypeOK, FileTypeOK, JobTypeOK
  <2>3. CountInv' /\ MainInv'
    BY <1>4 DEF AnswerPermanent, Fail, CountInv, MainInv, TypeOK, PoolTypeOK
  <2> QED
    BY <2>1, <2>2, <2>3 DEF IInv, TypeOK
<1>5. ASSUME NEW w \in Workers, CreateFileFails(w) PROVE IInv'
  <2>1. PoolTypeOK' /\ PoolInv'
    BY <1>5, FailKeeps DEF CreateFileFails, Causes, TypeOK
  <2>2. FileTypeOK' /\ JobTypeOK'
    BY <1>5 DEF CreateFileFails, TypeOK, FileTypeOK, JobTypeOK
  <2>3. CountInv' /\ MainInv'
    BY <1>5 DEF CreateFileFails, Fail, CountInv, MainInv, TypeOK, PoolTypeOK
  <2> QED
    BY <2>1, <2>2, <2>3 DEF IInv, TypeOK
<1>6. ASSUME NEW w \in Workers, AnswerOk(w) PROVE IInv'
  <2>1. TypeOK'
    BY <1>6 DEF TypeOK, PoolTypeOK, FileTypeOK, JobTypeOK, Assets, Causes, AnswerOk
  <2>2. PoolInv'
    BY <1>6 DEF TypeOK, PoolTypeOK, FileTypeOK, JobTypeOK, PoolInv, Busy, Assets, AnswerOk
  <2>3. CountInv'
    BY <1>6 DEF TypeOK, PoolTypeOK, FileTypeOK, JobTypeOK, PoolInv, Busy, CountInv, AnswerOk
  <2>4. MainInv'
    BY <1>6 DEF TypeOK, PoolTypeOK, FileTypeOK, JobTypeOK, PoolInv, Busy, CountInv, MainInv, Assets, AnswerOk
  <2> QED
    BY <2>1, <2>2, <2>3, <2>4 DEF IInv
<1>7. ASSUME NEW w \in Workers, BodyBreaks(w) PROVE IInv'
  <2>1. PoolTypeOK' /\ PoolInv'
    BY <1>7, RetryKeeps DEF BodyBreaks, Busy, TypeOK
  <2>2. FileTypeOK' /\ JobTypeOK'
    BY <1>7 DEF BodyBreaks, TypeOK, PoolTypeOK, FileTypeOK, JobTypeOK
  <2>3. UNCHANGED <<completed, staged, wreport>>
        /\ \A v \in Workers : wpc'[v] = "report" => wpc[v] = "report"
    BY <1>7 DEF BodyBreaks, Retry, Fail, TypeOK, PoolTypeOK
  <2>4. CountInv' /\ MainInv'
    BY <1>7, <2>3
    DEF BodyBreaks, PoolInv, Busy, CountInv, MainInv, TypeOK, PoolTypeOK, FileTypeOK
  <2> QED
    BY <2>1, <2>2, <2>4 DEF IInv, TypeOK
<1>8. ASSUME NEW w \in Workers, BodyComplete(w) PROVE IInv'
  <2>1. Busy(w) /\ wtask[w] \in Assets \ staged
    BY <1>8 DEF BodyComplete, Busy, PoolInv, TypeOK, PoolTypeOK
  <2>2. /\ completed' = Cardinality(staged') /\ completed' = completed + 1
        /\ completed' \in 0 .. NAssets /\ staged' \in SUBSET Assets
    <3>1. staged' \in SUBSET Assets
      BY <1>8, <2>1 DEF BodyComplete, TypeOK, PoolTypeOK
    <3>2. Cardinality(staged') = Cardinality(staged) + 1
      BY <1>8, <2>1, StagedCount DEF BodyComplete, TypeOK, PoolTypeOK
    <3> QED
      BY <1>8, <3>1, <3>2, StagedCount DEF BodyComplete, CountInv
  <2>3. TypeOK'
    <3>1. /\ wpc' \in [Workers -> {"take", "attempt", "request", "body",
                                   "stalled", "report", "exited"}]
          /\ wreport' \in [Workers -> 0 .. NAssets]
          /\ stageFile' \in [Assets -> {"absent", "partial", "complete"}]
      BY <1>8, <2>1, <2>2
      DEF BodyComplete, TypeOK, PoolTypeOK, FileTypeOK
    <3> QED
      BY <1>8, <2>2, <3>1
      DEF BodyComplete, TypeOK, PoolTypeOK, FileTypeOK, JobTypeOK
  <2>4. /\ ~Busy(w)'
        /\ \A v \in Workers : Busy(v)' => Busy(v) /\ v # w
    BY <1>8 DEF BodyComplete, Busy, TypeOK, PoolTypeOK
  <2>5. PoolInv'
    <3>1. staged' \subseteq 1 .. nextTask' - 1
      BY <1>8, <2>1 DEF BodyComplete, PoolInv
    <3>2. \A v \in Workers : Busy(v)' => wtask'[v] \in (1 .. nextTask' - 1) \ staged'
      BY <1>8, <2>1, <2>4 DEF BodyComplete, PoolInv
    <3>3. mainPc' = "join"
      BY <1>8, <2>1 DEF BodyComplete, PoolInv, Busy
    <3> QED
      BY <1>8, <2>4, <3>1, <3>2, <3>3 DEF BodyComplete, PoolInv
  <2>6. CountInv'
    <3>1. \A v \in Workers : wpc'[v] = "report" => wreport'[v] <= completed'
      BY <1>8, <2>2 DEF BodyComplete, CountInv, TypeOK, PoolTypeOK
    <3>2. \A i \in staged' : mainPc' # "done" => stageFile'[i] = "complete"
      BY <1>8, <2>1 DEF BodyComplete, CountInv, TypeOK, PoolTypeOK, FileTypeOK
    <3>3. progress' <= completed'
      BY <1>8, <2>2 DEF BodyComplete, jobVars, CountInv, TypeOK, PoolTypeOK, JobTypeOK
    <3> QED
      BY <2>2, <3>1, <3>2, <3>3 DEF CountInv
  <2>7. MainInv'
    BY <1>8, <2>1 DEF BodyComplete, Busy, MainInv, PoolInv
  <2> QED
    BY <2>3, <2>5, <2>6, <2>7 DEF IInv
<1>9. ASSUME NEW w \in Workers, BodyStalls(w) PROVE IInv'
  <2>1. TypeOK'
    BY <1>9 DEF TypeOK, PoolTypeOK, FileTypeOK, JobTypeOK, Assets, Causes, BodyStalls
  <2>2. PoolInv'
    BY <1>9 DEF TypeOK, PoolTypeOK, FileTypeOK, JobTypeOK, PoolInv, Busy, Assets, BodyStalls
  <2>3. CountInv'
    BY <1>9 DEF TypeOK, PoolTypeOK, FileTypeOK, JobTypeOK, PoolInv, Busy, CountInv, BodyStalls
  <2>4. MainInv'
    BY <1>9 DEF TypeOK, PoolTypeOK, FileTypeOK, JobTypeOK, PoolInv, Busy, CountInv, MainInv, Assets, BodyStalls
  <2> QED
    BY <2>1, <2>2, <2>3, <2>4 DEF IInv
<1>10. ASSUME NEW w \in Workers, Report(w) PROVE IInv'
  <2>1. TypeOK'
    BY <1>10 DEF TypeOK, PoolTypeOK, FileTypeOK, JobTypeOK, Assets, Causes, Report, UpdateProgress
  <2>2. PoolInv'
    BY <1>10 DEF TypeOK, PoolTypeOK, FileTypeOK, JobTypeOK, PoolInv, Busy, Assets, Report, UpdateProgress
  <2>3. CountInv'
    BY <1>10 DEF TypeOK, PoolTypeOK, FileTypeOK, JobTypeOK, PoolInv, Busy, CountInv, Report, UpdateProgress
  <2>4. MainInv'
    BY <1>10 DEF TypeOK, PoolTypeOK, FileTypeOK, JobTypeOK, PoolInv, Busy, CountInv, MainInv, Assets, Report, UpdateProgress
  <2> QED
    BY <2>1, <2>2, <2>3, <2>4 DEF IInv
<1>11. CASE Mkdir
  <2>1. PoolTypeOK' /\ FileTypeOK'
    BY <1>11 DEF Mkdir, TypeOK, PoolTypeOK, FileTypeOK
  <2>2. JobTypeOK'
    BY <1>11 DEF Mkdir, SetFailed, GoTo, TypeOK, JobTypeOK
  <2>3. PoolInv'
    BY <1>11 DEF Mkdir, SetFailed, GoTo, PoolInv, Busy
  <2>4. CountInv'
    BY <1>11 DEF Mkdir, SetFailed, GoTo, CountInv
  <2>5. MainInv'
    <3>1. CASE mainPc' = "join"
      BY <1>11, <3>1 DEF Mkdir, GoTo, MainInv
    <3>2. CASE mainPc' = "done" /\ SetFailed
      BY <1>11, <3>2 DEF Mkdir, SetFailed, GoTo, MainInv
    <3> QED
      BY <1>11, <3>1, <3>2 DEF Mkdir, GoTo
  <2> QED
    BY <2>1, <2>2, <2>3, <2>4, <2>5 DEF IInv, TypeOK
<1>12. CASE Join
  <2>1. TypeOK'
    BY <1>12 DEF TypeOK, PoolTypeOK, FileTypeOK, JobTypeOK, Assets, Causes, Join, SetFailed, GoTo
  <2>2. PoolInv'
    BY <1>12 DEF TypeOK, PoolTypeOK, FileTypeOK, JobTypeOK, PoolInv, Busy, Assets, Join, SetFailed, GoTo
  <2>3. CountInv'
    BY <1>12 DEF TypeOK, PoolTypeOK, FileTypeOK, JobTypeOK, PoolInv, Busy, CountInv, Join, SetFailed, GoTo
  <2>4. MainInv'
    BY <1>12 DEF TypeOK, PoolTypeOK, FileTypeOK, JobTypeOK, PoolInv, Busy, CountInv, MainInv, Assets, Join, SetFailed, GoTo
  <2> QED
    BY <2>1, <2>2, <2>3, <2>4 DEF IInv
<1>13. CASE CreateZip
  <2>1. TypeOK'
    BY <1>13
    DEF CreateZip, SetFailed, GoTo, TypeOK, PoolTypeOK, FileTypeOK, JobTypeOK
  <2>2. PoolInv' /\ CountInv'
    BY <1>13 DEF CreateZip, SetFailed, GoTo, PoolInv, Busy, CountInv
  <2>3. archive = 1 .. packed /\ archive \subseteq staged
    BY <1>13 DEF CreateZip, MainInv
  <2>4. MainInv'
    <3>1. CASE mainPc' = "pack"
      BY <1>13, <2>3, <3>1 DEF CreateZip, GoTo, MainInv
    <3>2. CASE mainPc' = "sweep" /\ SetFailed
      BY <1>13, <3>2 DEF CreateZip, SetFailed, GoTo, MainInv
    <3> QED
      BY <1>13, <3>1, <3>2 DEF CreateZip, GoTo
  <2> QED
    BY <2>1, <2>2, <2>4 DEF IInv
<1>14. CASE PackEntry
  <2>1. /\ packed' = packed + 1 /\ packed' \in 0 .. NAssets
        /\ packed' \in staged /\ packed' \in Assets
        /\ archive' = archive \cup {packed'}
    BY <1>14
    DEF PackEntry, CountInv, TypeOK, PoolTypeOK, FileTypeOK, Assets
  <2>2. archive' = 1 .. packed'
    <3>1. packed \in Nat
      BY ZipJobAssumption DEF TypeOK, FileTypeOK
    <3>2. archive = 1 .. packed
      BY <1>14 DEF PackEntry, MainInv
    <3> QED
      BY <2>1, <3>1, <3>2, NextOfInterval
  <2>3. TypeOK'
    BY <1>14, <2>1
    DEF PackEntry, TypeOK, PoolTypeOK, FileTypeOK, JobTypeOK
  <2>4. PoolInv' /\ CountInv'
    BY <1>14 DEF PackEntry, PoolInv, Busy, CountInv
  <2>5. MainInv'
    BY <1>14, <2>1, <2>2 DEF PackEntry, MainInv
  <2> QED
    BY <2>3, <2>4, <2>5 DEF IInv
<1>15. CASE PackFails
  <2>1. TypeOK'
    BY <1>15 DEF TypeOK, PoolTypeOK, FileTypeOK, JobTypeOK, Assets, Causes, PackFails, SetFailed, GoTo
  <2>2. PoolInv'
    BY <1>15 DEF TypeOK, PoolTypeOK, FileTypeOK, JobTypeOK, PoolInv, Busy, Assets, PackFails, SetFailed, GoTo
  <2>3. CountInv'
    BY <1>15 DEF TypeOK, PoolTypeOK, FileTypeOK, JobTypeOK, PoolInv, Busy, CountInv, PackFails, SetFailed, GoTo
  <2>4. MainInv'
    BY <1>15 DEF TypeOK, PoolTypeOK, FileTypeOK, JobTypeOK, PoolInv, Busy, CountInv, MainInv, Assets, PackFails, SetFailed, GoTo
  <2> QED
    BY <2>1, <2>2, <2>3, <2>4 DEF IInv
<1>16. CASE CloseZip
  <2>1. TypeOK'
    BY <1>16 DEF TypeOK, PoolTypeOK, FileTypeOK, JobTypeOK, Assets, Causes, CloseZip, GoTo
  <2>2. PoolInv'
    BY <1>16 DEF TypeOK, PoolTypeOK, FileTypeOK, JobTypeOK, PoolInv, Busy, Assets, CloseZip, GoTo
  <2>3. CountInv'
    BY <1>16 DEF TypeOK, PoolTypeOK, FileTypeOK, JobTypeOK, PoolInv, Busy, CountInv, CloseZip, GoTo
  <2>4. MainInv'
    BY <1>16 DEF TypeOK, PoolTypeOK, FileTypeOK, JobTypeOK, PoolInv, Busy, CountInv, MainInv, Assets, CloseZip, GoTo
  <2> QED
    BY <2>1, <2>2, <2>3, <2>4 DEF IInv
<1>17. CASE Publish
  <2>1. TypeOK'
    BY <1>17, ZipJobAssumption
    DEF Publish, SetReady, GoTo, TypeOK, PoolTypeOK, FileTypeOK, JobTypeOK
  <2>2. PoolInv'
    BY <1>17 DEF Publish, SetReady, GoTo, PoolInv, Busy
  <2>3. completed = NAssets
    BY <1>17, AllStaged
    DEF Publish, MainInv, CountInv, Assets, TypeOK, PoolTypeOK
  <2>4. CountInv'
    BY <1>17, <2>3, ZipJobAssumption DEF Publish, SetReady, GoTo, CountInv, MainInv
  <2>5. MainInv'
    BY <1>17 DEF Publish, SetReady, GoTo, MainInv, Assets
  <2> QED
    BY <2>1, <2>2, <2>4, <2>5 DEF IInv
<1>18. CASE Schedule
  <2>1. TypeOK'
    BY <1>18 DEF TypeOK, PoolTypeOK, FileTypeOK, JobTypeOK, Assets, Causes, Schedule
  <2>2. PoolInv'
    BY <1>18 DEF TypeOK, PoolTypeOK, FileTypeOK, JobTypeOK, PoolInv, Busy, Assets, Schedule
  <2>3. CountInv'
    BY <1>18 DEF TypeOK, PoolTypeOK, FileTypeOK, JobTypeOK, PoolInv, Busy, CountInv, Schedule
  <2>4. MainInv'
    BY <1>18 DEF TypeOK, PoolTypeOK, FileTypeOK, JobTypeOK, PoolInv, Busy, CountInv, MainInv, Assets, Schedule
  <2> QED
    BY <2>1, <2>2, <2>3, <2>4 DEF IInv
<1>19. CASE DropZip
  <2>1. TypeOK'
    BY <1>19 DEF TypeOK, PoolTypeOK, FileTypeOK, JobTypeOK, Assets, Causes, DropZip, GoTo
  <2>2. PoolInv'
    BY <1>19 DEF TypeOK, PoolTypeOK, FileTypeOK, JobTypeOK, PoolInv, Busy, Assets, DropZip, GoTo
  <2>3. CountInv'
    BY <1>19 DEF TypeOK, PoolTypeOK, FileTypeOK, JobTypeOK, PoolInv, Busy, CountInv, DropZip, GoTo
  <2>4. MainInv'
    BY <1>19 DEF TypeOK, PoolTypeOK, FileTypeOK, JobTypeOK, PoolInv, Busy, CountInv, MainInv, Assets, DropZip, GoTo
  <2> QED
    BY <2>1, <2>2, <2>3, <2>4 DEF IInv
<1>20. CASE Sweep
  <2>1. TypeOK'
    BY <1>20 DEF TypeOK, PoolTypeOK, FileTypeOK, JobTypeOK, Assets, Causes, Sweep, GoTo
  <2>2. PoolInv'
    BY <1>20 DEF TypeOK, PoolTypeOK, FileTypeOK, JobTypeOK, PoolInv, Busy, Assets, Sweep, GoTo
  <2>3. CountInv'
    BY <1>20 DEF TypeOK, PoolTypeOK, FileTypeOK, JobTypeOK, PoolInv, Busy, CountInv, Sweep, GoTo
  <2>4. MainInv'
    BY <1>20 DEF TypeOK, PoolTypeOK, FileTypeOK, JobTypeOK, PoolInv, Busy, CountInv, MainInv, Assets, Sweep, GoTo
  <2> QED
    BY <2>1, <2>2, <2>3, <2>4 DEF IInv
<1>21. CASE Expire
  <2>1. TypeOK'
    BY <1>21 DEF TypeOK, PoolTypeOK, FileTypeOK, JobTypeOK, Assets, Causes, Expire, Delete
  <2>2. PoolInv'
    BY <1>21 DEF TypeOK, PoolTypeOK, FileTypeOK, JobTypeOK, PoolInv, Busy, Assets, Expire, Delete
  <2>3. CountInv'
    BY <1>21 DEF TypeOK, PoolTypeOK, FileTypeOK, JobTypeOK, PoolInv, Busy, CountInv, Expire, Delete
  <2>4. MainInv'
    BY <1>21 DEF TypeOK, PoolTypeOK, FileTypeOK, JobTypeOK, PoolInv, Busy, CountInv, MainInv, Assets, Expire, Delete
  <2> QED
    BY <2>1, <2>2, <2>3, <2>4 DEF IInv
<1>22. CASE UNCHANGED vars
  BY <1>22 DEF TypeOK, PoolTypeOK, FileTypeOK, JobTypeOK, PoolInv, Busy, CountInv, MainInv
<1> QED
  BY <1>1, <1>2, <1>3, <1>4, <1>5, <1>6, <1>7, <1>8, <1>9, <1>10, <1>11,
     <1>12, <1>13, <1>14, <1>15, <1>16, <1>17, <1>18, <1>19, <1>20, <1>21, <1>22
  DEF Next, MainStep, WorkerStep

\* The inductive invariant holds in every reachable state.
LEMMA AlwaysIInv == Spec => []IInv
BY InitIInv, NextIInv, PTL DEF Spec

----------------------------------------------------------------------------
\* The attempts of a worker stay within the retry delays, the counters within
\* the request, whatever order answers and failures come in.
THEOREM TypeCorrect == Spec => []TypeOK
<1>1. IInv => TypeOK
  BY DEF IInv
<1> QED
  BY <1>1, AlwaysIInv, PTL

\* A job is atomic: one that is found ready holds every requested file whole.
THEOREM ReadyIsWhole == Spec => []ReadyArchiveIsWhole
<1>1. IInv => ReadyArchiveIsWhole
  BY DEF IInv, MainInv, ReadyArchiveIsWhole, TypeOK, JobTypeOK
<1> QED
  BY <1>1, AlwaysIInv, PTL

\* failureOnce keeps the error that made the job fail, not its echo in the
\* workers that were cancelled because of it.
THEOREM RootCauseKept == Spec => []RootCauseIsRecorded
<1>1. IInv => RootCauseIsRecorded
  BY DEF IInv, PoolInv, RootCauseIsRecorded
<1> QED
  BY <1>1, AlwaysIInv, PTL

\* Reports may be late and out of order; none claims a file that is not there.
THEOREM ProgressHonest == Spec => []ProgressIsHonest
<1>1. IInv => ProgressIsHonest
  BY DEF IInv, CountInv, ProgressIsHonest
<1> QED
  BY <1>1, AlwaysIInv, PTL

\* The channel hands every file to one worker.
THEOREM FilesNotShared == Spec => []OneWorkerPerFile
<1>1. IInv => OneWorkerPerFile
  BY DEF IInv, PoolInv, Busy, OneWorkerPerFile
<1> QED
  BY <1>1, AlwaysIInv, PTL

\* The three together, as the run checks them.
THEOREM StagingIsSound == Spec => []StagingSound
<1>1. TypeOK /\ ProgressIsHonest /\ OneWorkerPerFile <=> StagingSound
  BY DEF StagingSound
<1> QED
  BY <1>1, TypeCorrect, ProgressHonest, FilesNotShared, PTL

----------------------------------------------------------------------------
(* What is on the disk at the end.                                         *)

\* Outside the life of the goroutine there is no staging directory, and a ZIP
\* that outlives it is the one the timer will delete.
DiskInv ==
  /\ mainPc \in {"mkdir", "done"} =>
       ~stageDir /\ \A i \in Assets : stageFile[i] = "absent"
  /\ mainPc \in {"sweep", "done"} /\ zip # "absent" =>
       status = "ready" /\ timer = "sleeping"
  /\ timer # "fired" => registered

\* Workers work during the join only, and on nothing but the staging.
LEMMA WorkersKeepDisk ==
  ASSUME IInv, DiskInv, NEW w \in Workers, WorkerStep(w) \/ BodyStalls(w)
  PROVE  DiskInv'
<1>1. mainPc = "join"
  BY DEF IInv, PoolInv, WorkerStep, Take, StartAttempt, AnswerRetryable, AnswerPermanent,
         CreateFileFails, AnswerOk, BodyBreaks, BodyComplete, BodyStalls, Report
<1>2. UNCHANGED <<mainPc, timer, zip, registered>>
  BY DEF WorkerStep, Take, StartAttempt, AnswerRetryable, AnswerPermanent,
         CreateFileFails, AnswerOk, BodyBreaks, BodyComplete, BodyStalls, Report,
         UpdateProgress, zipVars, jobVars, mainVars
<1> QED
  BY <1>1, <1>2 DEF DiskInv

\* Each step of the main goroutine and the timer leaves the disk accounted for.
LEMMA NextDiskInv == IInv /\ DiskInv /\ [Next]_vars => DiskInv'
<1> SUFFICES ASSUME IInv, DiskInv, [Next]_vars PROVE DiskInv'
  OBVIOUS
<1> USE DEF IInv, DiskInv, poolVars, stageVars, zipVars, jobVars, mainVars
<1>1. ASSUME NEW w \in Workers, WorkerStep(w) \/ BodyStalls(w) PROVE DiskInv'
  BY <1>1, WorkersKeepDisk
<1>2. CASE Mkdir
  <2>1. stageFile' = stageFile /\ zip' = zip /\ registered' = registered /\ timer' = timer
    BY <1>2 DEF Mkdir, SetFailed, GoTo
  <2>2. zip = "absent" /\ (mainPc' = "join" \/ (mainPc' = "done" /\ stageDir' = stageDir))
    BY <1>2 DEF Mkdir, SetFailed, GoTo, MainInv
  <2> QED
    BY <1>2, <2>1, <2>2 DEF Mkdir
<1>3. CASE Join
  BY <1>3 DEF Join, SetFailed, GoTo, PoolInv, MainInv
<1>4. CASE CreateZip
  BY <1>4 DEF CreateZip, SetFailed, GoTo, MainInv
<1>5. CASE PackEntry \/ PackFails \/ CloseZip
  BY <1>5 DEF PackEntry, PackFails, CloseZip, SetFailed, GoTo, MainInv
<1>6. CASE Publish
  BY <1>6 DEF Publish, SetReady, GoTo, MainInv
<1>7. CASE Schedule
  BY <1>7 DEF Schedule, MainInv
<1>8. CASE DropZip
  BY <1>8 DEF DropZip, GoTo, MainInv
<1>9. CASE Sweep
  BY <1>9 DEF Sweep, GoTo
<1>10. CASE Expire
  BY <1>10 DEF Expire, Delete, MainInv, TypeOK, JobTypeOK
<1>11. CASE UNCHANGED vars
  BY <1>11 DEF vars
<1> QED
  BY <1>1, <1>2, <1>3, <1>4, <1>5, <1>6, <1>7, <1>8, <1>9, <1>10, <1>11
  DEF Next, MainStep

\* The deferred calls and the timer (share_download.go:157-178, 258-283) remove
\* whatever a job put on the disk, on every path by which it ends: nothing is
\* left but the archive of a ready job, which has its timer.
THEOREM NothingStaysBehind == Spec => []NothingLeftBehind
<1>1. Init => DiskInv
  BY DEF Init, DiskInv
<1>2. DiskInv => NothingLeftBehind
  BY DEF DiskInv, NothingLeftBehind
<1> QED
  BY <1>1, <1>2, NextDiskInv, AlwaysIInv, PTL DEF Spec

----------------------------------------------------------------------------
(* The pipeline implements the contract of JobLifecycle.                   *)

\* A job that was just created is processing and has no archive.
LEMMA InitMaps == Init => Lifecycle!LifecycleInit
BY DEF Init, Lifecycle!LifecycleInit

\* Every step of the pipeline is a step of the contract or invisible to it.
LEMMA StepMaps ==
  IInv /\ [Next]_vars =>
    [Lifecycle!LifecycleNext]_(Lifecycle!lifecycleVars)
<1> SUFFICES ASSUME IInv, [Next]_vars
             PROVE  [Lifecycle!LifecycleNext]_(Lifecycle!lifecycleVars)
  OBVIOUS
<1> USE DEF vars, poolVars, stageVars, zipVars, jobVars, mainVars,
            Lifecycle!lifecycleVars
<1>1. ASSUME NEW w \in Workers, WorkerStep(w) \/ BodyStalls(w)
      PROVE  UNCHANGED Lifecycle!lifecycleVars
  BY <1>1
  DEF WorkerStep, Take, StartAttempt, AnswerRetryable, AnswerPermanent,
      CreateFileFails, AnswerOk, BodyBreaks, BodyComplete, BodyStalls, Report,
      UpdateProgress
<1>2. CASE Mkdir \/ Join \/ PackFails
  BY <1>2
  DEF Mkdir, Join, PackFails, SetFailed, IInv, MainInv,
      Lifecycle!LifecycleNext, Lifecycle!GiveUp
<1>3. CASE CreateZip
  BY <1>3
  DEF CreateZip, SetFailed, IInv, MainInv,
      Lifecycle!LifecycleNext, Lifecycle!GiveUp
<1>4. CASE PackEntry
  <2>1. archive \subseteq archive' /\ archive' \in SUBSET Assets
    BY <1>4, NextIInv DEF PackEntry, IInv, TypeOK, FileTypeOK
  <2> QED
    BY <1>4, <2>1
    DEF PackEntry, IInv, MainInv, Lifecycle!LifecycleNext, Lifecycle!Pack
<1>5. CASE CloseZip \/ Schedule \/ Sweep
  BY <1>5 DEF CloseZip, Schedule, Sweep, IInv, MainInv
<1>6. CASE Publish
  BY <1>6
  DEF Publish, SetReady, IInv, MainInv, Assets,
      Lifecycle!LifecycleNext, Lifecycle!Publish
<1>7. CASE DropZip
  BY <1>7
  DEF DropZip, IInv, MainInv, Lifecycle!LifecycleNext, Lifecycle!Discard
<1>8. CASE Expire
  BY <1>8
  DEF Expire, Delete, IInv, MainInv, TypeOK, JobTypeOK,
      Lifecycle!LifecycleNext, Lifecycle!Withdraw
<1>9. CASE UNCHANGED vars
  BY <1>9
<1> QED
  BY <1>1, <1>2, <1>3, <1>4, <1>5, <1>6, <1>7, <1>8, <1>9 DEF Next, MainStep

\* Staging, retries, packing and the timer are invisible from outside: what a
\* visitor can observe of a job is a behaviour of JobLifecycle.
THEOREM PipelineImplementsLifecycle == Spec => ImplementsLifecycle
BY InitMaps, StepMaps, AlwaysIInv, PTL
DEF Spec, ImplementsLifecycle, Lifecycle!LifecycleSpec

----------------------------------------------------------------------------
(* The names of the entries of the ZIP (ZipNames; a module of its own, that *)
(* shares no state with ZipJob).                                           *)

\* All names there are, and the one with a counter more.
Names == [stem : Stems \cup Ids \cup {Bare}, marks : Seq(Counters), ext : Exts \cup {NoExt}]
Marked(n, c) == [n EXCEPT !.marks = Append(@, c)]

\* A name with a counter more is another name, and tells which one had it.
LEMMA MarkedNames ==
  ASSUME NEW n \in Names, NEW c \in Counters
  PROVE  /\ Marked(n, c) \in Names /\ Marked(n, c) # n
         /\ \A m \in Names : Marked(m, c) = Marked(n, c) => m = n
  <1>1. ASSUME NEW m \in Names
        PROVE  /\ Marked(m, c) = [stem |-> m.stem, marks |-> Append(m.marks, c), ext |-> m.ext]
               /\ m = [stem |-> m.stem, marks |-> m.marks, ext |-> m.ext]
               /\ m.marks \in Seq(Counters)
    <2>1. PICK stem \in Stems \cup Ids \cup {Bare}, marks \in Seq(Counters),
               ext \in Exts \cup {NoExt} :
            m = [stem |-> stem, marks |-> marks, ext |-> ext]
      BY DEF Names
    <2>2. [[stem |-> stem, marks |-> marks, ext |-> ext] EXCEPT !.marks = Append(@, c)] =
            [stem |-> stem, marks |-> Append(marks, c), ext |-> ext]
      OBVIOUS
    <2> QED BY <2>1, <2>2 DEF Marked
  <1>2. Append(n.marks, c) \in Seq(Counters) /\ Append(n.marks, c) # n.marks
    <2>1. n.marks \in Seq(Counters)
      BY <1>1
    <2>2. Append(n.marks, c) \in Seq(Counters) /\ Len(Append(n.marks, c)) = Len(n.marks) + 1
      BY <2>1, AppendProperties
    <2>3. Len(n.marks) \in Nat
      BY <2>1, LenProperties
    <2> QED BY <2>2, <2>3
  <1>3. Marked(n, c) \in Names
    BY <1>1, <1>2 DEF Names
  <1>4. Marked(n, c) # n
    BY <1>1, <1>2
  <1>5. ASSUME NEW m \in Names, Marked(m, c) = Marked(n, c) PROVE m = n
    <2>1. m.stem = n.stem /\ m.ext = n.ext /\ Append(m.marks, c) = Append(n.marks, c)
      BY <1>1, <1>5
    <2>2. m.marks = n.marks
      BY <1>1, <2>1, AppendInjective
    <2> QED BY <1>1, <2>1, <2>2
  <1> QED BY <1>3, <1>4, <1>5

\* Where a sequence has a name.
Places(s, n) == {i \in DOMAIN s : s[i] = n}

\* What appending does to a sequence.
LEMMA Appended ==
  ASSUME NEW S, NEW s \in Seq(S), NEW x \in S
  PROVE  /\ Append(s, x) \in Seq(S)
         /\ Len(s) \in Nat /\ DOMAIN s = 1 .. Len(s)
         /\ DOMAIN Append(s, x) = 1 .. Len(s) + 1
         /\ \A i \in 1 .. Len(s) : Append(s, x)[i] = s[i]
         /\ Append(s, x)[Len(s) + 1] = x
         /\ ToSet(Append(s, x)) = ToSet(s) \cup {x}
  <1>1. /\ Append(s, x) \in Seq(S)
        /\ Len(s) \in Nat /\ DOMAIN s = 1 .. Len(s)
        /\ DOMAIN Append(s, x) = 1 .. Len(s) + 1
        /\ \A i \in 1 .. Len(s) : Append(s, x)[i] = s[i]
        /\ Append(s, x)[Len(s) + 1] = x
    BY AppendProperties, LenProperties
  <1>2. 1 .. Len(s) + 1 = 1 .. Len(s) \cup {Len(s) + 1}
    BY <1>1
  <1>3. ToSet(Append(s, x)) = ToSet(s) \cup {x}
    BY <1>1, <1>2 DEF ToSet
  <1> QED BY <1>1, <1>3

\* They can be counted.
LEMMA PlacesFinite ==
  ASSUME NEW S, NEW s \in Seq(S), NEW n
  PROVE  IsFiniteSet(Places(s, n)) /\ Cardinality(Places(s, n)) \in Nat
  <1>1. Len(s) \in Int /\ 1 \in Int /\ DOMAIN s = 1 .. Len(s)
    BY LenProperties
  <1>2. IsFiniteSet(1 .. Len(s))
    BY <1>1, FS_Interval
  <1>3. Places(s, n) \in SUBSET (1 .. Len(s))
    BY <1>1 DEF Places
  <1> QED BY <1>2, <1>3, FS_Subset, FS_CardinalityType

\* Of two places or fewer, two are all.
LEMMA TwoPlaces ==
  ASSUME NEW S, NEW s \in Seq(S), NEW n, Cardinality(Places(s, n)) <= 2,
         NEW i \in Places(s, n), NEW j \in Places(s, n), i # j
  PROVE  Cardinality(Places(s, n)) = 2 /\ Places(s, n) = {i, j}
  <1>1. IsFiniteSet({i}) /\ Cardinality({i}) = 1 /\ {i} \cup {j} = {i, j} /\ j \notin {i}
    BY FS_Singleton
  <1>2. Cardinality({i, j}) = 2
    <2>1. Cardinality({i} \cup {j}) = Cardinality({i}) + 1
      BY <1>1, FS_AddElement
    <2>2. Cardinality({i, j}) = Cardinality({i}) + 1
      BY <1>1, <2>1, Zenon
    <2> QED BY <1>1, <2>2
  <1>3. {i, j} \in SUBSET Places(s, n) /\ IsFiniteSet(Places(s, n))
        /\ Cardinality(Places(s, n)) \in Nat
    BY PlacesFinite
  <1>4. Cardinality({i, j}) <= Cardinality(Places(s, n))
    BY <1>3, FS_Subset
  <1>5. Cardinality(Places(s, n)) = Cardinality({i, j})
    BY <1>2, <1>3, <1>4
  <1>6. Places(s, n) = {i, j}
    BY <1>3, <1>5, FS_Subset
  <1> QED BY <1>2, <1>5, <1>6

\* What UniqueUpToTwo asks of the names that were staged.
Tame(s) ==
  \A n \in ToSet(s) : /\ Cardinality(Places(s, n)) <= 2
                      /\ Cardinality(Places(s, n)) = 2 => Marked(n, 2) \notin ToSet(s)

\* The names before were as tame.
LEMMA TameBefore ==
  ASSUME NEW S, NEW s \in Seq(S), NEW x \in S, Tame(Append(s, x))
  PROVE  Tame(s)
  <1> SUFFICES ASSUME NEW n \in ToSet(s)
               PROVE  /\ Cardinality(Places(s, n)) <= 2
                      /\ Cardinality(Places(s, n)) = 2 => Marked(n, 2) \notin ToSet(s)
    BY DEF Tame
  <1>1. ToSet(s) \subseteq ToSet(Append(s, x)) /\ Places(s, n) \subseteq Places(Append(s, x), n)
    BY Appended DEF Places
  <1>2. /\ IsFiniteSet(Places(Append(s, x), n))
        /\ Cardinality(Places(Append(s, x), n)) \in Nat /\ Cardinality(Places(s, n)) \in Nat
    BY Appended, PlacesFinite
  <1>3. Cardinality(Places(s, n)) <= Cardinality(Places(Append(s, x), n))
    BY <1>1, <1>2, FS_Subset
  <1>4. /\ Cardinality(Places(Append(s, x), n)) <= 2
        /\ Cardinality(Places(Append(s, x), n)) = 2 => Marked(n, 2) \notin ToSet(Append(s, x))
    BY <1>1 DEF Tame
  <1> QED BY <1>1, <1>2, <1>3, <1>4

\* While the names are tame, an entry that kept its name is counted one, and one
\* that was renamed is the first copy of a name that another asset has.
Copies(s, e, u) ==
  \A i \in DOMAIN e :
    /\ e[i] = s[i] => u[e[i]] = 1
    /\ e[i] # s[i] => e[i] = Marked(s[i], 2) /\ \E j \in DOMAIN s : j # i /\ s[j] = s[i]

\* A tame name that was used has been used once, by an entry that kept it, and the
\* name of its copy is free.
LEMMA FirstCopy ==
  ASSUME NEW s \in Seq(Names), NEW e \in Seq(Names), Len(s) = Len(e), NEW f \in Names,
         2 \in Counters, NEW u, Tame(Append(s, f)), Copies(s, e, u), f \in ToSet(e)
  PROVE  /\ u[f] = 1
         /\ \E j \in DOMAIN s : s[j] = f
         /\ Marked(f, 2) \notin ToSet(e)
  <1> DEFINE z == Append(s, f)
             n == Len(s)
  <1>1. /\ z \in Seq(Names) /\ n \in Nat /\ DOMAIN s = 1 .. n /\ DOMAIN e = 1 .. n
        /\ DOMAIN z = 1 .. n + 1 /\ z[n + 1] = f /\ \A i \in 1 .. n : z[i] = s[i]
        /\ ToSet(z) = ToSet(s) \cup {f}
    BY Appended, LenProperties
  <1>2. \A i \in 1 .. n : i \in 1 .. n + 1 /\ i # n + 1 /\ s[i] \in Names
    BY <1>1, ElementOfSeq
  <1> HIDE DEF z, n
  <1>3. ASSUME NEW i \in 1 .. n, NEW j \in 1 .. n + 1, i # j, z[j] = s[i]
        PROVE  /\ Marked(s[i], 2) \notin ToSet(z)
               /\ Places(z, s[i]) = {i, j}
    <2>1. i \in Places(z, s[i]) /\ j \in Places(z, s[i]) /\ s[i] \in ToSet(z)
      BY <1>1, <1>2, <1>3 DEF Places, ToSet
    <2>2. Cardinality(Places(z, s[i])) <= 2
      BY <2>1 DEF Tame, z
    <2>3. Cardinality(Places(z, s[i])) = 2 /\ Places(z, s[i]) = {i, j}
      BY <1>1, <1>3, <2>1, <2>2, TwoPlaces
    <2> QED BY <2>1, <2>3 DEF Tame, z
  <1>4. PICK k \in 1 .. n : e[k] = f
    BY <1>1 DEF ToSet
  <1>5. e[k] = s[k]
    <2>1. SUFFICES ASSUME e[k] # s[k] PROVE FALSE
      OBVIOUS
    <2>2. PICK j \in 1 .. n : j # k /\ s[j] = s[k] /\ e[k] = Marked(s[k], 2)
      BY <1>1, <2>1 DEF Copies
    <2>3. Marked(s[k], 2) \notin ToSet(z)
      BY <1>1, <1>2, <1>3, <2>2
    <2> QED BY <1>1, <1>4, <2>2, <2>3
  <1>6. u[f] = 1
    BY <1>1, <1>4, <1>5 DEF Copies
  <1>7. n + 1 \in 1 .. n + 1 /\ k # n + 1 /\ z[n + 1] = s[k]
    BY <1>1, <1>4, <1>5
  <1>8. Marked(f, 2) \notin ToSet(z) /\ Places(z, f) = {k, n + 1}
    BY <1>3, <1>4, <1>5, <1>7
  <1>9. ASSUME NEW i \in 1 .. n, e[i] = Marked(f, 2) PROVE FALSE
    <2>1. CASE e[i] = s[i]
      BY <1>1, <1>8, <1>9, <2>1 DEF ToSet
    <2>2. CASE e[i] # s[i]
      <3>1. Marked(s[i], 2) = Marked(f, 2)
        BY <1>1, <1>9, <2>2 DEF Copies
      <3>2. s[i] = f
        BY <1>2, <3>1, MarkedNames
      <3>3. i \in Places(z, f)
        BY <1>1, <1>2, <3>2 DEF Places
      <3>4. i = k
        BY <1>2, <1>8, <3>3
      <3> QED BY <1>5, <2>2, <3>4
    <2> QED BY <2>1, <2>2
  <1>10. Marked(f, 2) \notin ToSet(e)
    BY <1>1, <1>9 DEF ToSet
  <1> QED BY <1>1, <1>4, <1>5, <1>6, <1>10

\* The entries of one ZIP: every count is of a name in it and made for an entry.
NamesInv ==
  /\ quality \in Qualities
  /\ stagedAs \in Seq(Names) /\ entries \in Seq(Names)
  /\ Len(stagedAs) = Len(entries) /\ Len(entries) <= MaxEntries
  /\ DOMAIN used = ToSet(entries)
  /\ \A n \in DOMAIN used : used[n] \in 1 .. Len(entries)
  /\ RenamedOnlyIfTaken
  /\ Tame(stagedAs) => IsInjective(entries) /\ Copies(stagedAs, entries, used)

\* A ZIP without entries.
LEMMA InitNames == NamesInit => NamesInv
  <1> SUFFICES ASSUME NamesInit PROVE NamesInv
    OBVIOUS
  <1>1. /\ << >> \in Seq(Names) /\ Len(<< >>) = 0 /\ DOMAIN << >> = {} /\ ToSet(<< >>) = {}
    BY DEF ToSet
  <1>2. stagedAs = << >> /\ entries = << >> /\ used = << >> /\ quality \in Qualities
    BY DEF NamesInit
  <1>3. 0 <= MaxEntries
    BY ZipNamesAssumption DEF ZipNamesAssumption
  <1> QED BY <1>1, <1>2, <1>3
          DEF NamesInv, RenamedOnlyIfTaken, IsInjective, Copies

\* Whatever an asset is called, it is staged under a name.
LEMMA StagedUnderName ==
  ASSUME 2 \in Counters, NEW id \in Ids, NEW original \in OriginalNames \cup {NoName},
         NEW kind, NEW mimeExt \in Exts \cup {NoExt},
         NEW disposition \in {n \in OriginalNames : n.marks = << >>} \cup {NoName}
  PROVE  StagedName([id |-> id, original |-> original, kind |-> kind], disposition, mimeExt)
           \in Names
  <1> DEFINE asset == [id |-> id, original |-> original, kind |-> kind]
             ext == IF mimeExt = NoExt THEN Jpg ELSE mimeExt
  <1>1. << >> \in Seq(Counters) /\ << 2 >> \in Seq(Counters)
    OBVIOUS
  <1>2. OriginalNames \subseteq Names
    <2>1. \A p \in Stems \cup {Bare}, m \in Seq(Counters), y \in Exts :
            Name(p, m, y) \in Names
      BY DEF Names, Name
    <2>2. ASSUME NEW p \in Stems, NEW m \in {<< >>, << 2 >>}, NEW y \in Exts
          PROVE  Name(p, m, y) \in Names
      BY <1>1, <2>1
    <2>3. ASSUME NEW y \in Exts PROVE Name(Bare, << >>, y) \in Names
      BY <1>1, <2>1
    <2> QED BY <2>2, <2>3 DEF OriginalNames
  <1>3. \A x \in Ids \cup {Bare}, y \in Exts \cup {NoExt} : Name(x, << >>, y) \in Names
    BY <1>1 DEF Names, Name
  <1>4. \A n \in Names, y \in Exts \cup {NoExt} : [n EXCEPT !.ext = y] \in Names
    BY DEF Names
  <1>5. ext \in Exts \cup {NoExt}
    BY ZipNamesAssumption DEF ZipNamesAssumption
  <1>6. asset.id = id /\ asset.original = original
    OBVIOUS
  <1> HIDE DEF asset, ext
  <1>7. Recompressed(asset, ext) \in Names
    <2>1. CASE original = NoName
      BY <1>3, <1>5, <1>6, <2>1 DEF Recompressed
    <2>2. CASE original # NoName /\ original.stem = Bare
      BY <1>3, <1>5, <1>6, <2>2 DEF Recompressed
    <2>3. CASE original # NoName /\ original.stem # Bare
      BY <1>2, <1>4, <1>5, <1>6, <2>3 DEF Recompressed
    <2> QED BY <2>1, <2>2, <2>3
  <1>8. original # NoName => original \in Names
    BY <1>2
  <1>9. disposition # NoName => disposition \in Names
    BY <1>2
  <1>10. Name(id, << >>, mimeExt) \in Names
    BY <1>3
  <1>11. StagedName(asset, disposition, mimeExt) \in Names
    BY <1>6, <1>7, <1>8, <1>9, <1>10 DEF StagedName, ext
  <1> QED BY <1>11 DEF asset

\* An entry gets its name.
LEMMA EntryNamed ==
  ASSUME NamesInv, Len(entries) < MaxEntries, NEW f \in Names,
         stagedAs' = Append(stagedAs, f), GetUniqueFilename(f), UNCHANGED quality
  PROVE  NamesInv'
  <1> DEFINE s == stagedAs
             e == entries
             n == Len(entries)
             x == IF f \in DOMAIN used THEN Marked(f, used[f] + 1) ELSE f
             c == IF f \in DOMAIN used THEN used[f] + 1 ELSE 1
  <1>1. entries' = Append(entries, x) /\ used' = Counted(x, c)
    BY DEF GetUniqueFilename, Marked
  <1>2. /\ s \in Seq(Names) /\ e \in Seq(Names) /\ n \in Nat /\ n + 1 <= MaxEntries
        /\ DOMAIN s = 1 .. n /\ DOMAIN e = 1 .. n /\ Len(s) = n /\ MaxEntries \in Nat
    BY LenProperties, ZipNamesAssumption DEF NamesInv, ZipNamesAssumption
  <1>3. 2 \in Counters /\ \A k \in 1 .. n : k + 1 \in Counters
    BY <1>2 DEF Counters
  <1>4. /\ c \in 1 .. n + 1 /\ x \in Names
        /\ f \in DOMAIN used => x # f
    <2>1. ASSUME f \in DOMAIN used PROVE used[f] \in 1 .. n /\ used[f] + 1 \in Counters
      BY <1>3, <2>1 DEF NamesInv
    <2>2. c \in 1 .. n + 1
      BY <1>2, <2>1
    <2> HIDE DEF n
    <2>3. x \in Names /\ (f \in DOMAIN used => x # f)
      BY <2>1, MarkedNames
    <2> QED BY <2>2, <2>3
  <1> HIDE DEF x, c
  <1>5. /\ stagedAs' \in Seq(Names) /\ Len(stagedAs') = n + 1 /\ DOMAIN stagedAs' = 1 .. n + 1
        /\ stagedAs'[n + 1] = f /\ \A i \in 1 .. n : stagedAs'[i] = s[i]
        /\ ToSet(stagedAs') = ToSet(s) \cup {f}
    BY <1>2, Appended, LenProperties
  <1>6. /\ entries' \in Seq(Names) /\ Len(entries') = n + 1 /\ DOMAIN entries' = 1 .. n + 1
        /\ entries'[n + 1] = x /\ \A i \in 1 .. n : entries'[i] = e[i]
        /\ ToSet(entries') = ToSet(e) \cup {x}
    BY <1>1, <1>2, <1>4, Appended, LenProperties
  <1>7. DOMAIN used = ToSet(e) /\ \A m \in DOMAIN used : used[m] \in 1 .. n
    BY DEF NamesInv
  <1> HIDE DEF s, e, n
  <1>8. /\ DOMAIN used' = ToSet(entries')
        /\ used'[x] = c /\ \A m \in DOMAIN used : m # x => used'[m] = used[m]
    BY <1>1, <1>6, <1>7 DEF Counted
  <1>9. \A m \in DOMAIN used' : used'[m] \in 1 .. n + 1
    <2>1. \A k \in 1 .. n : k \in 1 .. n + 1
      BY <1>2
    <2> QED BY <1>4, <1>6, <1>7, <1>8, <2>1
  <1>10. \A i \in 1 .. n + 1 : i \in 1 .. n \/ i = n + 1
    BY <1>2
  <1>11. RenamedOnlyIfTaken'
    <2> SUFFICES ASSUME NEW i \in 1 .. n + 1
                 PROVE  (entries'[i] # stagedAs'[i]) <=>
                          \E j \in 1 .. i - 1 : entries'[j] = stagedAs'[i]
      BY <1>6 DEF RenamedOnlyIfTaken
    <2>1. \A j \in 1 .. i - 1 : j \in 1 .. n
      BY <1>2
    <2>2. CASE i \in 1 .. n
      <3>1. (e[i] # s[i]) <=> \E j \in 1 .. i - 1 : e[j] = s[i]
        BY <1>2, <2>2 DEF NamesInv, RenamedOnlyIfTaken, e, s
      <3> QED BY <1>5, <1>6, <2>1, <2>2, <3>1
    <2>3. CASE i = n + 1
      <3>1. i - 1 = n
        BY <1>2, <2>3
      <3>2. (x # f) <=> f \in DOMAIN used
        BY <1>4 DEF x
      <3>3. f \in DOMAIN used <=> \E j \in 1 .. n : e[j] = f
        BY <1>2, <1>7 DEF ToSet
      <3> QED BY <1>5, <1>6, <2>3, <3>1, <3>2, <3>3
    <2> QED BY <1>10, <2>2, <2>3
  <1>12. ASSUME Tame(stagedAs') PROVE IsInjective(entries') /\ Copies(stagedAs', entries', used')
    <2>1. IsInjective(e) /\ Copies(s, e, used)
      <3>1. Tame(s)
        BY <1>2, <1>12, TameBefore DEF s
      <3> QED BY <3>1 DEF NamesInv, s, e
    <2>2. /\ x \notin ToSet(e)
          /\ x = f => c = 1
          /\ x # f => x = Marked(f, 2) /\ \E j \in 1 .. n : s[j] = f
      <3>1. CASE f \in DOMAIN used
        <4>1. /\ used[f] = 1 /\ Marked(f, 2) \notin ToSet(e)
              /\ \E j \in DOMAIN s : s[j] = f
          <5>1. stagedAs' = Append(s, f) /\ f \in ToSet(e) /\ Len(s) = Len(e)
            BY <1>2, <1>7, <3>1 DEF s, e, n
          <5> QED BY <1>2, <1>3, <1>12, <2>1, <5>1, FirstCopy
        <4>2. x = Marked(f, 2)
          BY <3>1, <4>1 DEF x
        <4> QED BY <1>2, <1>4, <3>1, <4>1, <4>2
      <3>2. CASE f \notin DOMAIN used
        BY <1>7, <3>2 DEF x, c
      <3> QED BY <3>1, <3>2
    <2>3. \A i \in 1 .. n : e[i] # x /\ e[i] \in DOMAIN used
      BY <1>2, <1>7, <2>2 DEF ToSet
    <2>4. IsInjective(entries')
      <3> SUFFICES ASSUME NEW i \in 1 .. n + 1, NEW j \in 1 .. n + 1,
                          entries'[i] = entries'[j]
                   PROVE  i = j
        BY <1>6 DEF IsInjective
      <3>1. CASE i \in 1 .. n /\ j \in 1 .. n
        BY <1>2, <1>6, <2>1, <3>1 DEF IsInjective
      <3>2. CASE i = n + 1 \/ j = n + 1
        BY <1>6, <1>10, <2>3, <3>2
      <3> QED BY <1>10, <3>1, <3>2
    <2>5. Copies(stagedAs', entries', used')
      <3> DEFINE Copy(i) ==
            /\ entries'[i] = stagedAs'[i] => used'[entries'[i]] = 1
            /\ entries'[i] # stagedAs'[i] =>
                 /\ entries'[i] = Marked(stagedAs'[i], 2)
                 /\ \E j \in DOMAIN stagedAs' : j # i /\ stagedAs'[j] = stagedAs'[i]
      <3>0. \A k \in 1 .. n : k \in 1 .. n + 1 /\ k # n + 1
        BY <1>2
      <3>1. ASSUME NEW i \in 1 .. n PROVE Copy(i)
        <4>1. /\ e[i] = s[i] => used[e[i]] = 1
              /\ e[i] # s[i] => e[i] = Marked(s[i], 2) /\ \E j \in 1 .. n : j # i /\ s[j] = s[i]
          BY <1>2, <2>1, <3>1 DEF Copies
        <4>2. used'[e[i]] = used[e[i]]
          BY <1>8, <2>3, <3>1
        <4> QED BY <1>5, <1>6, <3>0, <3>1, <4>1, <4>2
      <3>2. Copy(n + 1)
        BY <1>5, <1>6, <1>8, <2>2, <3>0
      <3>3. \A i \in DOMAIN entries' : Copy(i)
        <4> HIDE DEF Copy
        <4> QED BY <1>6, <1>10, <3>1, <3>2
      <3> QED BY <3>3 DEF Copies
    <2> QED BY <2>4, <2>5
  <1>13. quality' \in Qualities
    BY DEF NamesInv
  <1> QED BY <1>2, <1>5, <1>6, <1>8, <1>9, <1>11, <1>12, <1>13 DEF NamesInv

\* Every entry keeps the names in order.
LEMMA NextNames == NamesInv /\ [NamesNext]_namesVars => NamesInv'
  <1> SUFFICES ASSUME NamesInv, [NamesNext]_namesVars PROVE NamesInv'
    OBVIOUS
  <1>1. CASE AddEntry
    <2>1. Len(entries) < MaxEntries /\ UNCHANGED quality
      BY <1>1 DEF AddEntry
    <2>2. 2 \in Counters
      <3>1. Len(entries) \in Nat /\ MaxEntries \in Nat
        BY LenProperties, ZipNamesAssumption DEF NamesInv, ZipNamesAssumption
      <3> QED BY <2>1, <3>1 DEF Counters
    <2>3. PICK id \in Ids, original \in OriginalNames \cup {NoName}, kind \in Kinds,
               disposition \in {n \in OriginalNames : n.marks = << >>} \cup {NoName},
               mimeExt \in Exts \cup {NoExt} :
            LET f == StagedName([id |-> id, original |-> original, kind |-> kind],
                                disposition, mimeExt)
            IN  stagedAs' = Append(stagedAs, f) /\ GetUniqueFilename(f)
      BY <1>1 DEF AddEntry
    <2>4. StagedName([id |-> id, original |-> original, kind |-> kind], disposition, mimeExt)
            \in Names
      BY <2>2, StagedUnderName
    <2> QED BY <2>1, <2>3, <2>4, EntryNamed
  <1>2. CASE UNCHANGED namesVars
    BY <1>2 DEF namesVars, NamesInv, RenamedOnlyIfTaken
  <1> QED BY <1>1, <1>2 DEF NamesNext

\* However the assets of a bulk download are called, an entry gets a counter exactly
\* if its name is taken, and no two entries have one name so long as no name is
\* asked for three times and none was uploaded as what a copy of another would be
\* called (getUniqueFilename, share_download_jobs.go 190-201).
THEOREM EntriesAreSound == NamesSpec => []EntriesSound
  <1>1. NamesInv => EntriesSound
    <2> SUFFICES ASSUME NamesInv PROVE EntriesSound
      OBVIOUS
    <2>1. \A m \in Names : IsName(m)
      <3> SUFFICES ASSUME NEW m \in Names PROVE IsName(m)
        OBVIOUS
      <3>1. /\ m.stem \in Stems \cup Ids \cup {Bare} /\ m.ext \in Exts \cup {NoExt}
            /\ m.marks \in Seq(Counters)
        BY DEF Names
      <3>2. \A i \in DOMAIN m.marks : m.marks[i] \in Counters
        BY <3>1, ElementOfSeq, LenProperties
      <3> QED BY <3>1, <3>2 DEF IsName
    <2>2. /\ DOMAIN stagedAs = 1 .. Len(stagedAs) /\ DOMAIN entries = 1 .. Len(entries)
          /\ Len(entries) \in Nat /\ MaxEntries \in Nat
      BY LenProperties, ZipNamesAssumption DEF NamesInv, ZipNamesAssumption
    <2>3. /\ \A i \in DOMAIN stagedAs : IsName(stagedAs[i])
          /\ \A i \in DOMAIN entries : IsName(entries[i])
      BY <2>1, <2>2, ElementOfSeq DEF NamesInv
    <2>4. \A n \in DOMAIN used : used[n] \in 1 .. MaxEntries + 1
      BY <2>2 DEF NamesInv
    <2>5. NamesTypeOK
      BY <2>3, <2>4 DEF NamesInv, NamesTypeOK
    <2>6. UniqueUpToTwo
      BY DEF NamesInv, UniqueUpToTwo, Tame, Times, Places, Marked
    <2> QED BY <2>5, <2>6 DEF NamesInv, EntriesSound
  <1> QED BY <1>1, InitNames, NextNames, PTL DEF NamesSpec
=============================================================================
