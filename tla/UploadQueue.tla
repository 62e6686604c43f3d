---------------------------- MODULE UploadQueue ----------------------------
(***************************************************************************)
(* The upload queue of the web client (web/src/upload/queue.ts) with its   *)
(* adaptive pool (pool.ts), as the upload dialog drives it: batches of     *)
(* files are hashed one by one and checked for duplicates, then uploaded   *)
(* by a pool whose size follows the health of the network; the browser     *)
(* goes offline and comes back, the user removes, clears, retries, closes. *)
(*                                                                         *)
(* An action is what runs between two awaits.  Items are their ids, which  *)
(* are also their order in the list.                                       *)
(***************************************************************************)
EXTENDS Integers, FiniteSets

CONSTANTS
  MaxItems,             \* bound on the files ever added
  Large,                \* the ids of the files above largeFileBytes
  MaxConcurrency,       \* the pool's baseline
  DropAfter,            \* dropAfterConsecutiveFailures
  RecoverAfter,         \* recoverAfterConsecutiveSuccesses
  MaxAttempts,          \* retry delays + 1
  MaxLosses             \* bound on how often navigator.onLine turns false

ASSUME UploadQueueAssumption ==
  /\ MaxItems \in Nat \ {0} /\ MaxConcurrency \in Nat \ {0}
  /\ DropAfter \in Nat \ {0} /\ RecoverAfter \in Nat \ {0}
  /\ MaxAttempts \in Nat \ {0} /\ MaxLosses \in Nat
  /\ Large \subseteq 1 .. MaxItems

Items == 1 .. MaxItems

VARIABLES
  item,                 \* every item object: status, live runUpload, attempt,
                        \* whether a checksum is known
  listed,               \* this.items
  nextId,
  batches,              \* the processBatch calls that are suspended
  policy,               \* limit, consecutive failures and successes
  paused, disposed, hadActivity,
  online,               \* navigator.onLine
  events,               \* online/offline events not delivered yet
  losses

queueVars == <<item, listed, nextId, batches, policy, paused, disposed,
               hadActivity>>
netVars == <<online, events, losses>>
vars == <<queueVars, netVars>>

Statuses == {"pending", "hashing", "checking", "queued", "uploading",
             "done", "duplicate", "failed"}
Terminal == {"done", "duplicate", "failed"}
Fresh == [status |-> "pending", run |-> "none", attempt |-> 0, sum |-> FALSE]

Init ==
  /\ item = [i \in Items |-> Fresh]
  /\ listed = {}
  /\ nextId = 1
  /\ batches = {}
  /\ policy = [limit |-> MaxConcurrency, failures |-> 0, successes |-> 0]
  /\ disposed = FALSE /\ hadActivity = FALSE
  /\ online \in BOOLEAN /\ paused = ~online
  /\ events = 0 /\ losses = 0

SetStatus(it, S, st) ==
  [i \in Items |-> IF i \in S THEN [it[i] EXCEPT !.status = st] ELSE it[i]]

IsActive(it, L) == \E i \in L : it[i].status \notin Terminal
Uploading(it, L) == {i \in L : it[i].status = "uploading"}
Queued(it, L) == {i \in L : it[i].status = "queued"}

----------------------------------------------------------------------------
(* AdaptiveConcurrencyPolicy.  Past its threshold a counter changes nothing *)
(* any more, so it stops there.                                            *)

Least(a, b) == IF a <= b THEN a ELSE b

\* Mutated canStart: a second large file may start.
CanStartAnySize(running, i, limit) == Cardinality(running) < limit

CanStart(running, i, limit) ==
  /\ Cardinality(running) < limit
  /\ i \in Large => running \cap Large = {}

\* Mutated noteSuccess: the limit grows past the baseline.
NoteSuccessUnbounded(p) ==
  IF p.successes + 1 >= RecoverAfter
    THEN [limit |-> p.limit + 1, failures |-> 0, successes |-> 0]
    ELSE [p EXCEPT !.failures = 0, !.successes = p.successes + 1]

NoteSuccess(p) ==
  IF p.successes + 1 >= RecoverAfter /\ p.limit < MaxConcurrency
    THEN [limit |-> p.limit + 1, failures |-> 0, successes |-> 0]
    ELSE [p EXCEPT !.failures = 0,
                   !.successes = Least(p.successes + 1, RecoverAfter)]

NoteRetryableFailure(p) ==
  IF p.failures + 1 >= DropAfter /\ p.limit > 1
    THEN [limit |-> p.limit - 1, failures |-> 0, successes |-> 0]
    ELSE [p EXCEPT !.successes = 0,
                   !.failures = Least(p.failures + 1, DropAfter)]

----------------------------------------------------------------------------
(* pump: one pass over the list in order; each queued item starts when the *)
(* policy lets it run beside those running and those started before it.    *)

Started(it, L, limit) ==
  CHOOSE S \in SUBSET Queued(it, L) :
    \A i \in Queued(it, L) :
      i \in S <=> CanStart(Uploading(it, L) \cup {s \in S : s < i}, i, limit)

Pump(it, L, limit, isPaused) ==
  IF isPaused \/ disposed THEN it
  ELSE LET S == Started(it, L, limit) IN
       [i \in Items |-> IF i \in S
          THEN [it[i] EXCEPT !.status = "uploading", !.run = "sending",
                             !.attempt = 1]
          ELSE it[i]]

\* emit, pump, maybeSettle: how processBatch and runUpload end.
PumpAndSettle(it, limit) ==
  /\ item' = Pump(it, listed, limit, paused)
  /\ hadActivity' = (hadActivity /\ (disposed \/ IsActive(item', listed)))

\* Mutated park: back to the very beginning.
ParkPending(it, S) ==
  [i \in Items |-> IF i \in S THEN [it[i] EXCEPT !.status = "pending", !.attempt = 0]
                              ELSE it[i]]

Park(it, S) ==
  [i \in Items |-> IF i \in S THEN [it[i] EXCEPT !.status = "queued", !.attempt = 0]
                              ELSE it[i]]

----------------------------------------------------------------------------
(* processBatch.                                                           *)

\* The files are listed as pending and the first is handed to the hasher.
AddFiles(n) ==
  /\ ~disposed
  /\ nextId + n - 1 <= MaxItems
  /\ LET ids == nextId .. nextId + n - 1 IN
       /\ listed' = listed \cup ids
       /\ item' = SetStatus(item, {nextId}, "hashing")
       /\ batches' = batches \cup {[ids |-> ids, cur |-> nextId, stage |-> "hash",
                                    asked |-> {}]}
  /\ nextId' = nextId + n
  /\ hadActivity' = TRUE
  /\ UNCHANGED <<policy, paused, disposed, netVars>>

\* Mutated EndBatch: pump is forgotten.
EndBatchNoPump(ids, it) ==
  /\ item' = [i \in Items |->
                IF i \in ids /\ it[i].status \in {"hashing", "checking"}
                  THEN [it[i] EXCEPT !.status = "queued"] ELSE it[i]]
  /\ hadActivity' = (hadActivity /\ (disposed \/ IsActive(item', listed)))

\* Mutated EndBatch: only uploads settle the queue.
EndBatchNoSettle(ids, it) ==
  /\ item' = Pump([i \in Items |->
                     IF i \in ids /\ it[i].status \in {"hashing", "checking"}
                       THEN [it[i] EXCEPT !.status = "queued"] ELSE it[i]],
                  listed, policy.limit, paused)
  /\ UNCHANGED hadActivity

\* What is neither a duplicate nor was removed before the check is queued.
EndBatch(ids, it) ==
  PumpAndSettle([i \in Items |->
                   IF i \in ids /\ it[i].status \in {"hashing", "checking"}
                     THEN [it[i] EXCEPT !.status = "queued"] ELSE it[i]],
                policy.limit)

\* The hash of the current file is known (or could not be computed): the next
\* pending file is hashed; after the last, all that have a checksum are checked.
HashDone(b, ok) ==
  /\ b.stage = "hash"
  /\ LET hashed == [item EXCEPT ![b.cur].sum = ok]
         later  == {i \in b.ids \cap listed : i > b.cur /\ item[i].status = "pending"}
         mine   == {i \in b.ids \cap listed : item[i].status = "hashing"}
         asked  == {i \in mine : hashed[i].sum}
     IN \/ /\ disposed
           /\ batches' = batches \ {b}
           /\ item' = hashed
           /\ UNCHANGED hadActivity
        \/ /\ ~disposed /\ later # {}
           /\ \E i \in later :
                /\ \A k \in later : i <= k
                /\ item' = SetStatus(hashed, {i}, "hashing")
                /\ batches' = (batches \ {b}) \cup {[b EXCEPT !.cur = i]}
           /\ UNCHANGED hadActivity
        \/ /\ ~disposed /\ later = {} /\ asked # {}
           /\ item' = SetStatus(hashed, asked, "checking")
           /\ batches' = (batches \ {b})
                \cup {[b EXCEPT !.stage = "check", !.ids = mine, !.asked = asked]}
           /\ UNCHANGED hadActivity
        \/ /\ ~disposed /\ later = {} /\ asked = {}
           /\ EndBatch(mine, hashed)
           /\ batches' = batches \ {b}
  /\ UNCHANGED <<listed, nextId, policy, paused, disposed, netVars>>

\* The answer of the dedupe check; a failed check finds no duplicates.
CheckDone(b, dups) ==
  /\ b.stage = "check"
  /\ dups \subseteq b.asked
  /\ batches' = batches \ {b}
  /\ LET checked == SetStatus(item, dups, "duplicate") IN
       IF disposed THEN item' = checked /\ UNCHANGED hadActivity
                   ELSE EndBatch(b.ids, checked)
  /\ UNCHANGED <<listed, nextId, policy, paused, disposed, netVars>>

----------------------------------------------------------------------------
(* runUpload.                                                              *)

\* Every way out of the retry loop ends in emit, pump, maybeSettle.
EndRun(i, st, p) ==
  /\ policy' = p
  /\ PumpAndSettle([item EXCEPT ![i].status = st, ![i].run = "none",
                                ![i].attempt = IF st = "queued" THEN 0 ELSE @],
                   p.limit)

UploadOk(i, st) ==
  /\ item[i].run = "sending"
  /\ st \in {"done", "duplicate"}
  /\ EndRun(i, st, NoteSuccess(policy))
  /\ UNCHANGED <<listed, nextId, batches, paused, disposed, netVars>>

\* Mutated UploadFails: an item is queued again when its backoff begins.
UploadFailsParksEarly(i, retryable) ==
  /\ item[i].run = "sending"
  /\ IF retryable /\ item[i].attempt < MaxAttempts
       THEN /\ item' = [item EXCEPT ![i].status = "queued", ![i].run = "backoff",
                                    ![i].attempt = @ + 1]
            /\ policy' = NoteRetryableFailure(policy)
            /\ UNCHANGED hadActivity
       ELSE EndRun(i, "failed", policy)
  /\ UNCHANGED <<listed, nextId, batches, paused, disposed, netVars>>

\* Offline, a failure is no verdict; online, what is worth another attempt
\* gets one as long as there are delays left.
UploadFails(i, retryable) ==
  /\ item[i].run = "sending"
  /\ LET p == IF retryable THEN NoteRetryableFailure(policy) ELSE policy IN
       \/ /\ ~online
          /\ EndRun(i, "queued", policy)
       \/ /\ online /\ retryable /\ item[i].attempt < MaxAttempts
          /\ item' = [item EXCEPT ![i].run = "backoff", ![i].attempt = @ + 1]
          /\ policy' = p
          /\ UNCHANGED hadActivity
       \/ /\ online /\ ~(retryable /\ item[i].attempt < MaxAttempts)
          /\ EndRun(i, "failed", p)
  /\ UNCHANGED <<listed, nextId, batches, paused, disposed, netVars>>

\* Mutated BackoffOver: the queue may be disposed by then.
BackoffOverBlindly(i) ==
  /\ item[i].run = "backoff"
  /\ item' = [item EXCEPT ![i].run = "sending"]
  /\ UNCHANGED <<listed, nextId, batches, policy, paused, disposed,
                 hadActivity, netVars>>

BackoffOver(i) ==
  /\ item[i].run = "backoff"
  /\ item' = [item EXCEPT ![i].run = IF disposed THEN "none" ELSE "sending"]
  /\ UNCHANGED <<listed, nextId, batches, policy, paused, disposed,
                 hadActivity, netVars>>

----------------------------------------------------------------------------
(* The browser and the user.                                               *)

Flap ==
  /\ online' = ~online
  /\ IF online THEN losses < MaxLosses /\ losses' = losses + 1
               ELSE UNCHANGED losses
  /\ events' = IF disposed THEN events ELSE events + 1
  /\ UNCHANGED queueVars

\* Mutated DeliverEvent: resume does not pump.
DeliverEventNoPump ==
  /\ events > 0
  /\ events' = events - 1
  /\ paused' = ~paused
  /\ UNCHANGED <<item, listed, nextId, batches, policy, disposed, hadActivity,
                 online, losses>>

\* Events come in order and alternate, so each one turns paused over:
\* goOffline calls pause, goOnline resume (which pumps).
DeliverEvent ==
  /\ events > 0
  /\ events' = events - 1
  /\ paused' = ~paused
  /\ item' = Pump(item, listed, policy.limit, paused')
  /\ UNCHANGED <<listed, nextId, batches, policy, disposed, hadActivity,
                 online, losses>>

Remove(i) ==
  /\ i \in listed /\ item[i].status # "uploading"
  /\ listed' = listed \ {i}
  /\ UNCHANGED <<item, nextId, batches, policy, paused, disposed, hadActivity,
                 netVars>>

ClearCompleted ==
  /\ listed' = {i \in listed : item[i].status \notin {"done", "duplicate"}}
  /\ UNCHANGED <<item, nextId, batches, policy, paused, disposed, hadActivity,
                 netVars>>

RetryFailed ==
  /\ \E i \in listed : item[i].status = "failed"
  /\ item' = Pump(Park(item, {i \in listed : item[i].status = "failed"}),
                  listed, policy.limit, paused)
  /\ hadActivity' = TRUE
  /\ UNCHANGED <<listed, nextId, batches, policy, paused, disposed, netVars>>

\* handleClose: the dialog closes only on an idle queue, and resets it.
Close ==
  /\ ~IsActive(item, listed)
  /\ listed' = {} /\ hadActivity' = FALSE
  /\ UNCHANGED <<item, nextId, batches, policy, paused, disposed, netVars>>

\* The component goes away, idle or not; the listeners go first.
Dispose ==
  /\ ~disposed
  /\ disposed' = TRUE /\ listed' = {} /\ events' = 0
  /\ UNCHANGED <<item, nextId, batches, policy, paused, hadActivity, online,
                 losses>>

----------------------------------------------------------------------------
UploadAnswer(i) ==
  \/ \E st \in {"done", "duplicate"} : UploadOk(i, st)
  \/ \E retryable \in BOOLEAN : UploadFails(i, retryable)

BatchStep ==
  \E b \in batches : \/ \E ok \in BOOLEAN : HashDone(b, ok)
                     \/ \E dups \in SUBSET b.asked : CheckDone(b, dups)

UserStep ==
  \/ \E n \in 1 .. MaxItems : AddFiles(n)
  \/ \E i \in Items : Remove(i)
  \/ ClearCompleted \/ RetryFailed \/ Close \/ Dispose

Next ==
  \/ UserStep \/ BatchStep \/ Flap \/ DeliverEvent
  \/ \E i \in Items : UploadAnswer(i) \/ BackoffOver(i)

Spec == Init /\ [][Next]_vars

\* Hashing and checking end, an attempt is answered or aborted by its
\* watchdog, timers fire, events are delivered, the network comes back in the
\* end (its losses are bounded).  The user owes nothing.
FairSpec ==
  /\ Spec
  /\ WF_vars(BatchStep) /\ WF_vars(DeliverEvent) /\ WF_vars(Flap /\ ~online)
  /\ \A i \in Items : WF_vars(UploadAnswer(i)) /\ WF_vars(BackoffOver(i))

----------------------------------------------------------------------------
Running == {i \in Items : item[i].run # "none"}

\* The attempt of an item stays within its delays, the limit of the pool
\* between one and its baseline, and a batch waits for a file it owns.
TypeOK ==
  /\ item \in [Items -> [status : Statuses, run : {"none", "sending", "backoff"},
                         attempt : 0 .. MaxAttempts, sum : BOOLEAN]]
  /\ listed \in SUBSET Items
  /\ nextId \in 1 .. MaxItems + 1
  /\ \A b \in batches : /\ b.ids \in SUBSET Items /\ b.asked \in SUBSET b.ids
                        /\ b.cur \in Items /\ b.stage \in {"hash", "check"}
  /\ policy \in [limit : 1 .. MaxConcurrency, failures : 0 .. DropAfter,
                 successes : 0 .. RecoverAfter]
  /\ {paused, disposed, hadActivity, online} \subseteq BOOLEAN
  /\ events \in 0 .. 2 * MaxLosses + 1 /\ losses \in 0 .. MaxLosses

\* A live runUpload and the status "uploading" go together, so no file is ever
\* sent twice at a time, whatever retry, park, pause and removal did before.
OneRunPerItem ==
  \A i \in Items : IF item[i].run # "none"
    THEN item[i].status = "uploading"
    ELSE i \in listed => item[i].status # "uploading"

\* The pool's promise (pool.ts:3-10): never more requests in flight than the
\* baseline, and of the large files only one, the stalled and the backing-off
\* included.
PoolBounds ==
  /\ Cardinality(Running) <= MaxConcurrency
  /\ Cardinality(Running \cap Large) <= 1

\* Nothing waits without a reason: when the queue is neither paused nor
\* disposed, no queued item could start.  Every place that frees a slot,
\* raises the limit or queues an item has to pump for that.
PumpQuiescent ==
  ~paused /\ ~disposed =>
    \A i \in Queued(item, listed) :
      ~CanStart(Uploading(item, listed), i, policy.limit)

\* The step that settles the last active item, other than a removal, is
\* announced (onSettled, which refreshes the album, is fired when hadActivity
\* is taken back).
DrainIsAnnounced ==
  [][IsActive(item, listed) /\ ~IsActive(item', listed')
       /\ listed' = listed => ~hadActivity']_vars

\* The lifecycle in the head comment of queue.ts (8-12), with the two edges it
\* leaves out: a file without checksum skips the check, and a failed one is
\* queued again on demand.  A pump in the same step joins two edges.
Flows ==
  {<<"pending", "hashing">>, <<"hashing", "checking">>, <<"hashing", "queued">>,
   <<"checking", "queued">>, <<"checking", "duplicate">>,
   <<"queued", "uploading">>, <<"uploading", "done">>,
   <<"uploading", "duplicate">>, <<"uploading", "failed">>,
   <<"uploading", "queued">>, <<"failed", "queued">>, <<"hashing", "uploading">>,
   <<"checking", "uploading">>, <<"failed", "uploading">>}

FollowsLifecycle ==
  [][\A i \in Items : item'[i].status = item[i].status
       \/ <<item[i].status, item'[i].status>> \in Flows]_vars

\* A disposed queue sends nothing any more: what was hashing, waiting for its
\* backoff or parked stays unsent.
NothingSentAfterDispose ==
  [][disposed => \A i \in Items :
       item'[i].run = "sending" => item[i].run = "sending"]_vars

\* What is in flight is within the pool's bounds, its limit and streaks included,
\* after any failures, recoveries, parks and retries.
PoolSound == TypeOK /\ PoolBounds

\* The pump leaves nothing behind and takes nothing twice.
PumpSound == OneRunPerItem /\ PumpQuiescent

\* No step of the user, the network or a late continuation takes an item off its
\* lifecycle, or on it again once the queue is disposed.
ItemsKeepLifecycle == FollowsLifecycle /\ NothingSentAfterDispose

\* Every file that was added is uploaded, recognised, given up or taken away,
\* although its batch can be interleaved with others, the network comes and
\* goes, and large files are passed over.  The user must stop pressing "retry"
\* some day: what is retried comes before the files listed after it.
EveryFileSettles ==
  \/ []<><<RetryFailed>>_vars
  \/ \A i \in Items :
       i \in listed /\ item[i].status \notin Terminal ~>
         i \notin listed \/ item[i].status \in Terminal
=============================================================================
