---------------------------- MODULE UploadDelivery ----------------------------
(***************************************************************************)
(* One file from the selection to the album: its checksum from the hash    *)
(* worker (hasher.ts), the check before any byte is sent, the attempts of  *)
(* uploadAsset under their watchdog (client.ts) with the retries of        *)
(* queue.ts, and the proxy's handler (share_upload.go), which goes on      *)
(* after its client has given up.  Each file is a selection of its own.    *)
(***************************************************************************)
EXTENDS Naturals, FiniteSets

CONSTANTS
  Files, Contents,
  Selections,        \* what the files may contain: functions
  Held, Alien,       \* contents the library may hold beforehand, or outside the album
  MaxAttempts        \* retryDelaysMs.length + 1

NoSum == "none"

ASSUME DeliveryAssumption ==
  /\ NoSum \notin Contents
  /\ Selections \subseteq [Files -> Contents]
  /\ Held \subseteq Contents /\ Alien \subseteq Held
  /\ MaxAttempts \in Nat \ {0}

VARIABLES
  content,           \* of each file
  item,              \* of each file: status, checksum, attempt (serial of the last)
  worker, pending,   \* of the hasher: none, alive or broken; files it hashes
  disposed,
  handlers,          \* of the proxy: file, attempt, step (body or add)
  v3, library, album,   \* Immich's
  \* history
  outside, missed    \* contents outside the album: beforehand; as the add went wrong

itemVars == <<content, item, disposed>>
hasherVars == <<worker, pending>>
vars == <<itemVars, hasherVars, handlers, v3, library, album, outside, missed>>

Told(f) == item[f].status \in {"done", "duplicate"}
Settled(f) == item[f].status \in {"done", "duplicate", "failed"}

Init ==
  /\ content \in Selections
  /\ item = [f \in Files |-> [status |-> "new", checksum |-> NoSum, attempt |-> 0]]
  /\ worker = "none" /\ pending = {} /\ disposed = FALSE /\ handlers = {}
  /\ v3 \in BOOLEAN
  /\ library \in SUBSET Held /\ album \in SUBSET library
  /\ outside = library \ album /\ outside \subseteq Alien
  /\ missed = {}

Become(f, status) == item' = [item EXCEPT ![f].status = status]

-----------------------------------------------------------------------------
(* The hasher.                                                             *)

\* hash, up to its promise: the worker is spawned for the first file, and a
\* file is hashed on the page once that has failed.
Hash(f) ==
  /\ item[f].status = "new" /\ ~disposed
  /\ Become(f, "hashing")
  /\ worker' \in IF worker = "none" THEN {"alive", "broken"} ELSE {worker}
  /\ pending' = IF worker' = "alive" THEN pending \union {f} ELSE pending
  /\ UNCHANGED <<content, disposed, handlers, v3, library, album, outside, missed>>

\* What the queue does with the outcome: a file without checksum is not checked.
Hashed(files, sum) ==
  item' = IF disposed THEN item
          ELSE [f \in Files |->
                  IF f \notin files THEN item[f]
                  ELSE [item[f] EXCEPT !.checksum = sum,
                                       !.status = IF sum = NoSum THEN "queued"
                                                  ELSE "checking"]]

\* Mutated WorkerAnswers: an answer is taken to be for any of the files under way.
WorkerAnswersAny(f, ok) ==
  /\ worker = "alive" /\ f \in pending
  /\ \E g \in pending : /\ pending' = pending \ {g}
                        /\ Hashed({g}, IF ok THEN content[f] ELSE NoSum)
  /\ UNCHANGED <<content, worker, disposed, handlers, v3, library, album, outside, missed>>

\* onmessage: the worker takes several files at a time, and is done in any order.
WorkerAnswers(f, ok) ==
  /\ worker = "alive" /\ f \in pending
  /\ pending' = pending \ {f}
  /\ Hashed({f}, IF ok THEN content[f] ELSE NoSum)
  /\ UNCHANGED <<content, worker, disposed, handlers, v3, library, album, outside, missed>>

HashedInline(f, ok) ==
  /\ item[f].status = "hashing" /\ worker = "broken" /\ f \notin pending /\ ~disposed
  /\ Hashed({f}, IF ok THEN content[f] ELSE NoSum)
  /\ UNCHANGED <<content, hasherVars, disposed, handlers, v3, library, album, outside, missed>>

\* Mutated WorkerDies: the worker is torn down, and what it was hashing forgotten.
WorkerDiesSilently ==
  /\ worker = "alive"
  /\ worker' = "broken" /\ UNCHANGED <<pending, item>>
  /\ UNCHANGED <<content, disposed, handlers, v3, library, album, outside, missed>>

\* onerror: what it was hashing fails, and it is never spawned again.
WorkerDies ==
  /\ worker = "alive"
  /\ worker' = "broken" /\ pending' = {} /\ Hashed(pending, NoSum)
  /\ UNCHANGED <<content, disposed, handlers, v3, library, album, outside, missed>>

\* The upload modal goes: the queue first, then the hasher.
Dispose ==
  /\ ~disposed /\ disposed' = TRUE
  /\ worker' = IF worker = "alive" THEN "none" ELSE worker
  /\ pending' = {}
  /\ UNCHANGED <<content, item, handlers, v3, library, album, outside, missed>>

-----------------------------------------------------------------------------
(* The check and the attempts.                                             *)

\* Immich is asked for the checksum alone; a probe or a check that fails finds
\* nothing.
Checked(f, failed) ==
  /\ item[f].status = "checking"
  /\ IF ~failed /\ item[f].checksum \in library THEN Become(f, "duplicate")
     ELSE IF disposed THEN UNCHANGED item
     ELSE Become(f, "queued")
  /\ UNCHANGED <<content, disposed, hasherVars, handlers, v3, library, album, outside, missed>>

\* runUpload by the pump, and again after the delay of a retry.
Send(f) ==
  /\ item[f].status \in {"queued", "waiting"} /\ ~disposed
  /\ item' = [item EXCEPT ![f].status = "uploading", ![f].attempt = @ + 1]
  /\ handlers' = handlers \union
       {[file |-> f, attempt |-> item'[f].attempt, step |-> "body"]}
  /\ UNCHANGED <<content, disposed, hasherVars, v3, library, album, outside, missed>>

Retryable(outcome) == outcome \in {"stalled", "network", "trouble"}

\* Mutated Verdict: whatever is loaded is a success.
VerdictOfLoad(f, outcome) ==
  CASE outcome = "duplicate" -> Become(f, "duplicate")
    [] outcome \in {"created", "refused"} -> Become(f, "done")
    [] OTHER -> Become(f, IF item[f].attempt < MaxAttempts THEN "waiting" ELSE "failed")

\* What becomes of a file whose attempt settles.
Verdict(f, outcome) ==
  CASE outcome = "duplicate" -> Become(f, "duplicate")
    [] outcome = "created" -> Become(f, "done")
    [] Retryable(outcome) /\ item[f].attempt < MaxAttempts -> Become(f, "waiting")
    [] OTHER -> Become(f, "failed")

\* The watchdog or the timeout aborts the request, or the network fails, at any
\* point of the proxy's work on it.
GiveUp(f, why) ==
  /\ item[f].status = "uploading"
  /\ Verdict(f, why)
  /\ UNCHANGED <<content, disposed, hasherVars, handlers, v3, library, album, outside, missed>>

-----------------------------------------------------------------------------
(* The proxy's handler of an attempt.                                      *)

Heard(h) == item[h.file].status = "uploading" /\ item[h.file].attempt = h.attempt
Untouched == UNCHANGED <<content, disposed, hasherVars, v3, outside>>

\* The handler ends; only an attempt that has not settled takes its answer.  One
\* that is lost on the way is an attempt that gave up before.
Reply(h, answer) ==
  /\ handlers' = handlers \ {h}
  /\ IF Heard(h) THEN Verdict(h.file, answer) ELSE UNCHANGED item

\* Immich has it already: by the checksum of the header, or once the body is in.
Deduplicate(h) ==
  /\ h.step = "body"
  /\ content[h.file] \in library \/ item[h.file].checksum \in library
  /\ Reply(h, "duplicate")
  /\ Untouched /\ UNCHANGED <<library, album, missed>>

\* Immich has all of the body, though its sender may be gone.  From version 3 on
\* it puts it into the album of the link.
Create(h) ==
  /\ h.step = "body" /\ content[h.file] \notin library
  /\ item[h.file].checksum \notin library
  /\ library' = library \union {content[h.file]}
  /\ album' = IF v3 THEN album \union {content[h.file]} ELSE album
  /\ handlers' = (handlers \ {h}) \union {[h EXCEPT !.step = "add"]}
  /\ Untouched /\ UNCHANGED <<item, missed>>

\* A 4xx of the proxy or of Immich, or trouble on the way there.
Refuse(h, answer) ==
  /\ h.step = "body" /\ answer \in {"refused", "trouble"}
  /\ Reply(h, answer)
  /\ Untouched /\ UNCHANGED <<library, album, missed>>

\* Mutated AddToAlbum: the add goes with the request, and ends with it.
AddToAlbumHeard(h, ok) ==
  /\ h.step = "add"
  /\ IF v3 \/ ~Heard(h) THEN UNCHANGED <<album, missed>>
     ELSE IF ok THEN album' = album \union {content[h.file]} /\ UNCHANGED missed
     ELSE missed' = missed \union {content[h.file]} /\ UNCHANGED album
  /\ Reply(h, "created")
  /\ Untouched /\ UNCHANGED library

\* Skipped from version 3 on, or refused there when the version is not known; one
\* that fails is logged.
AddToAlbum(h, ok) ==
  /\ h.step = "add"
  /\ IF v3 THEN UNCHANGED <<album, missed>>
     ELSE IF ok THEN album' = album \union {content[h.file]} /\ UNCHANGED missed
     ELSE missed' = missed \union {content[h.file]} /\ UNCHANGED album
  /\ Reply(h, "created")
  /\ Untouched /\ UNCHANGED library

\* Immich has created the asset, and its answer is lost.
LoseAnswer(h) ==
  /\ h.step = "add" /\ Reply(h, "trouble")
  /\ missed' = missed \union {content[h.file]}
  /\ Untouched /\ UNCHANGED <<library, album>>

\* The body is cut short as its sender is gone, or the proxy goes down.
Vanish(h) ==
  /\ handlers' = handlers \ {h}
  /\ missed' = IF h.step = "add" THEN missed \union {content[h.file]} ELSE missed
  /\ Untouched /\ UNCHANGED <<item, library, album>>

-----------------------------------------------------------------------------
FileStep(f) ==
  \/ \E b \in BOOLEAN : WorkerAnswers(f, b) \/ HashedInline(f, b) \/ Checked(f, b)
  \/ Send(f)
  \/ \E why \in {"stalled", "network"} : GiveUp(f, why)

HandlerStep(h) ==
  \/ Deduplicate(h) \/ Create(h) \/ LoseAnswer(h) \/ Vanish(h)
  \/ \E answer \in {"refused", "trouble"} : Refuse(h, answer)
  \/ \E ok \in BOOLEAN : AddToAlbum(h, ok)

Next ==
  \/ \E f \in Files : Hash(f) \/ FileStep(f)
  \/ WorkerDies \/ Dispose
  \/ \E h \in handlers : HandlerStep(h)

Spec == Init /\ [][Next]_vars

\* The worker answers or dies, requests and timers end: the watchdog is armed
\* from the start of an attempt.  Nothing is asked of the proxy.
FairSpec == Spec /\ \A f \in Files : WF_vars(FileStep(f))

-----------------------------------------------------------------------------
(* Properties.                                                             *)

Statuses == {"new", "hashing", "checking", "queued", "uploading", "waiting",
             "done", "duplicate", "failed"}

\* What Immich and the proxy hold is of the files selected, no attempt is past the
\* last, and only files that are being hashed are with the worker.
TypeOK ==
  /\ content \in [Files -> Contents]
  /\ item \in [Files -> [status : Statuses, checksum : Contents \union {NoSum},
                         attempt : 0 .. MaxAttempts]]
  /\ worker \in {"none", "alive", "broken"} /\ disposed \in BOOLEAN /\ v3 \in BOOLEAN
  /\ pending \subseteq {f \in Files : item[f].status = "hashing"}
  /\ handlers \subseteq [file : Files, attempt : 1 .. MaxAttempts, step : {"body", "add"}]
  /\ library \subseteq Contents /\ album \subseteq library /\ outside \subseteq library
  /\ missed \subseteq library

\* A file the visitor is told of as uploaded or present is in the library, that
\* file and not another whose checksum it was given.
ToldMeansStored == \A f \in Files : Told(f) => content[f] \in library

BeingAdded(f) == \E h \in handlers : h.step = "add" /\ content[h.file] = content[f]

\* It is in the album as well or about to be, whatever became of the attempt
\* that brought it; but for what was outside before, and an add that went wrong
\* in a version that needs one.
LandsInAlbum ==
  \A f \in Files : Told(f) =>
    \/ content[f] \in album \union outside \/ BeingAdded(f)
    \/ ~v3 /\ content[f] \in missed

\* What the visitor is told holds in Immich.
DeliverySound == TypeOK /\ ToldMeansStored

\* Every file that was selected is settled, even if the worker dies on it, its
\* attempts stall and the proxy never answers.
DeliveryEnds ==
  \A f \in Files : item[f].status = "hashing" ~> Settled(f) \/ disposed

\* queue.ts:331-333: a file whose upload is answered as a duplicate is in the
\* album, or at least on its way there.
DuplicateIsInAlbum ==
  \A f \in Files : item[f].status = "duplicate" /\ item[f].attempt > 0
                     => content[f] \in album \/ BeingAdded(f)
=============================================================================
