------------------------ MODULE UploadDeliveryProofs ------------------------
(***************************************************************************)
(* What the visitor is told of an upload is true of the library, and of    *)
(* the album as far as an add can go wrong: for any number of files,       *)
(* contents and attempts.                                                  *)
(***************************************************************************)
EXTENDS UploadDelivery, TLAPS

\* A checksum is of the file that has it; the hasher and the check never see a
\* file that was sent, and a retry is never past the last attempt.
ItemInv ==
  \A f \in Files :
    /\ item[f].checksum \in {NoSum, content[f]}
    /\ item[f].status \in {"new", "hashing", "checking", "queued"} => item[f].attempt = 0
    /\ item[f].status = "waiting" => item[f].attempt < MaxAttempts

\* Only what Immich has is added to the album.
AddInv == \A h \in handlers : h.step = "add" => content[h.file] \in library

\* Whatever is in the library is in the album, was outside before, is being
\* added, or was missed by an add.
StoredLands ==
  \A c \in library :
    \/ c \in album \union outside
    \/ ~v3 /\ c \in missed
    \/ ~v3 /\ \E h \in handlers : h.step = "add" /\ content[h.file] = c

IInv == TypeOK /\ ItemInv /\ AddInv /\ ToldMeansStored /\ StoredLands

-----------------------------------------------------------------------------
(* What becomes of the items; the rest of the state is not looked at.      *)

\* The items are those of before but for their states, by steps that keep what
\* is known of them.
ItemsKept ==
  /\ item' \in [Files -> [status : Statuses, checksum : Contents \union {NoSum},
                          attempt : 0 .. MaxAttempts]]
  /\ ItemInv'
  /\ \A f \in Files : item[f].status = "hashing" => item'[f].status = "hashing" \/ f \notin pending'
  /\ \A f \in Files : Told(f)' => content[f] \in library'

LEMMA InitIInv == Init => IInv
  <1> SUFFICES ASSUME Init PROVE IInv
    OBVIOUS
  <1>1. TypeOK
    <2>1. content \in [Files -> Contents] /\ library \subseteq Contents
      BY DeliveryAssumption DEF DeliveryAssumption, Init
    <2>2. item \in [Files -> [status : Statuses, checksum : Contents \union {NoSum},
                             attempt : 0 .. MaxAttempts]]
      BY DeliveryAssumption DEF DeliveryAssumption, Init, Statuses
    <2> QED BY <2>1, <2>2 DEF Init, TypeOK
  <1>2. ItemInv /\ AddInv /\ ToldMeansStored /\ StoredLands
    BY DEF Init, ItemInv, AddInv, ToldMeansStored, StoredLands, Told
  <1> QED BY <1>1, <1>2 DEF IInv

\* A file whose attempt settles: only an answer that tells of success is told as
\* one, and only an attempt before the last is waited for.
LEMMA VerdictKeeps ==
  ASSUME IInv, NEW f \in Files, NEW outcome, item[f].status = "uploading",
         Verdict(f, outcome), UNCHANGED <<content, pending>>,
         library \subseteq library',
         outcome \in {"duplicate", "created"} => content[f] \in library
  PROVE  ItemsKept
  <1> USE DEF IInv, TypeOK, ItemInv, ToldMeansStored, Told, Statuses
  <1>1. PICK status \in {"duplicate", "done", "waiting", "failed"} :
          /\ Become(f, status)
          /\ status = "waiting" => item[f].attempt < MaxAttempts
          /\ status \in {"duplicate", "done"} => content[f] \in library
    BY DEF Verdict, Retryable
  <1>2. /\ item' = [item EXCEPT ![f].status = status]
        /\ item'[f] = [item[f] EXCEPT !.status = status]
        /\ \A g \in Files \ {f} : item'[g] = item[g]
    BY <1>1 DEF Become
  <1>3. item' \in [Files -> [status : Statuses, checksum : Contents \union {NoSum},
                             attempt : 0 .. MaxAttempts]]
    BY <1>2
  <1> QED BY <1>1, <1>2, <1>3 DEF ItemsKept

\* What the hasher tells of files it had.
LEMMA HashedKeeps ==
  ASSUME IInv, NEW files \in SUBSET Files, NEW sum,
         \A f \in files : item[f].status = "hashing" /\ sum \in {NoSum, content[f]},
         Hashed(files, sum), pending' \subseteq pending, pending' \intersect files = {},
         UNCHANGED <<content, library>>
  PROVE  ItemsKept
  <1> USE DEF IInv, TypeOK, ItemInv, ToldMeansStored, Told, Statuses
  <1>1. CASE disposed
    BY <1>1 DEF Hashed, ItemsKept
  <1>2. CASE ~disposed
    <2>1. PICK status \in {"queued", "checking"} :
            item' = [f \in Files |-> IF f \notin files THEN item[f]
                       ELSE [item[f] EXCEPT !.checksum = sum, !.status = status]]
      BY <1>2 DEF Hashed
    <2>2. ASSUME NEW f \in Files \ files PROVE item'[f] = item[f]
      BY <2>1
    <2>3. ASSUME NEW f \in files
          PROVE  /\ item'[f] = [status |-> status, checksum |-> sum, attempt |-> 0]
                 /\ sum \in {NoSum, content[f]}
      <3>1. /\ item[f] \in [status : Statuses, checksum : Contents \union {NoSum},
                            attempt : 0 .. MaxAttempts]
            /\ item[f].attempt = 0
            /\ item'[f] = [item[f] EXCEPT !.checksum = sum, !.status = status]
        BY <2>1
      <3> QED BY <3>1
    <2>4. item' \in [Files -> [status : Statuses, checksum : Contents \union {NoSum},
                               attempt : 0 .. MaxAttempts]]
      <3>1. ASSUME NEW f \in Files
            PROVE  item'[f] \in [status : Statuses, checksum : Contents \union {NoSum},
                                 attempt : 0 .. MaxAttempts]
        <4>1. CASE f \in files
          BY <2>3, <4>1, DeliveryAssumption DEF DeliveryAssumption
        <4> QED BY <2>2, <4>1
      <3> QED BY <2>1, <3>1
    <2>5. ItemInv'
      BY <2>2, <2>3
    <2> QED BY <2>2, <2>3, <2>4, <2>5 DEF ItemsKept
  <1> QED BY <1>1, <1>2

\* A step that leaves Immich and the proxy alone need only keep the items.
LEMMA QuietKeeps ==
  ASSUME IInv, ItemsKept, UNCHANGED <<content, handlers, v3, library, album, outside, missed>>,
         worker' \in {"none", "alive", "broken"}, disposed' \in BOOLEAN,
         pending' \subseteq pending
  PROVE  IInv'
  BY DEF IInv, TypeOK, ItemsKept, AddInv, ToldMeansStored, StoredLands, Told

LEMMA ItemsStay ==
  ASSUME IInv, UNCHANGED <<content, item>>, library \subseteq library'
  PROVE  ItemsKept
  BY DEF IInv, TypeOK, ItemInv, ToldMeansStored, ItemsKept, Told

LEMMA ReplyKeeps ==
  ASSUME IInv, NEW h \in handlers, NEW answer, Reply(h, answer),
         UNCHANGED <<content, pending>>, library \subseteq library',
         answer \in {"duplicate", "created"} => content[h.file] \in library
  PROVE  ItemsKept
  <1>1. h.file \in Files
    BY DEF IInv, TypeOK
  <1>2. CASE Heard(h)
    BY <1>1, <1>2, VerdictKeeps DEF Reply, Heard
  <1>3. CASE ~Heard(h)
    BY <1>3, ItemsStay DEF Reply
  <1> QED BY <1>2, <1>3

-----------------------------------------------------------------------------
(* The steps of a file.                                                    *)

LEMMA HashKeeps == ASSUME IInv, NEW f \in Files, Hash(f) PROVE IInv'
  <1> USE DEF IInv
  <1>1. /\ item' = [item EXCEPT ![f].status = "hashing"]
        /\ item'[f] = [item[f] EXCEPT !.status = "hashing"]
        /\ \A g \in Files \ {f} : item'[g] = item[g]
    BY DEF Hash, Become, TypeOK
  <1>2. TypeOK'
    <2>1. item' \in [Files -> [status : Statuses, checksum : Contents \union {NoSum},
                              attempt : 0 .. MaxAttempts]]
      BY <1>1 DEF TypeOK, Statuses
    <2>2. worker' \in {"none", "alive", "broken"}
      BY DEF Hash, TypeOK
    <2>3. pending' \subseteq {g \in Files : item'[g].status = "hashing"}
      <3>1. pending' \subseteq pending \union {f}
        BY DEF Hash
      <3> QED BY <1>1, <3>1 DEF TypeOK
    <2> QED BY <2>1, <2>2, <2>3 DEF Hash, TypeOK
  <1>3. ItemInv' /\ ToldMeansStored'
    BY <1>1 DEF Hash, ItemInv, ToldMeansStored, Told, TypeOK
  <1>4. AddInv' /\ StoredLands'
    BY DEF Hash, AddInv, StoredLands
  <1> QED BY <1>2, <1>3, <1>4

LEMMA SendKeeps == ASSUME IInv, NEW f \in Files, Send(f) PROVE IInv'
  <1> USE DEF IInv
  <1> DEFINE new == [file |-> f, attempt |-> item[f].attempt + 1, step |-> "body"]
  <1>1. /\ item' = [item EXCEPT ![f].status = "uploading", ![f].attempt = @ + 1]
        /\ item'[f] = [status |-> "uploading", checksum |-> item[f].checksum,
                       attempt |-> item[f].attempt + 1]
        /\ \A g \in Files \ {f} : item'[g] = item[g]
        /\ item[f].attempt + 1 \in 1 .. MaxAttempts
        /\ item[f].status \in {"queued", "waiting"}
    BY DeliveryAssumption DEF DeliveryAssumption, Send, TypeOK, ItemInv
  <1>2. handlers' = handlers \union {new}
    BY <1>1 DEF Send
  <1>3. TypeOK'
    <2>1. item' \in [Files -> [status : Statuses, checksum : Contents \union {NoSum},
                              attempt : 0 .. MaxAttempts]]
      BY <1>1 DEF TypeOK, Statuses
    <2>2. handlers' \subseteq [file : Files, attempt : 1 .. MaxAttempts,
                              step : {"body", "add"}]
      BY <1>1, <1>2 DEF TypeOK
    <2>3. pending' \subseteq {g \in Files : item'[g].status = "hashing"}
      BY <1>1 DEF Send, hasherVars, TypeOK
    <2> QED BY <2>1, <2>2, <2>3 DEF Send, hasherVars, TypeOK
  <1>4. ItemInv' /\ ToldMeansStored'
    BY <1>1 DEF Send, ItemInv, ToldMeansStored, Told, TypeOK
  <1>5. AddInv' /\ StoredLands'
    BY <1>2 DEF Send, AddInv, StoredLands
  <1> QED BY <1>3, <1>4, <1>5

LEMMA CheckedKeeps ==
  ASSUME IInv, NEW f \in Files, NEW failed \in BOOLEAN, Checked(f, failed) PROVE IInv'
  <1>1. CASE UNCHANGED item
    BY <1>1, ItemsStay, QuietKeeps DEF Checked, hasherVars, IInv, TypeOK
  <1>2. ASSUME NEW status \in {"duplicate", "queued"}, Become(f, status),
               status = "duplicate" => item[f].checksum \in library
        PROVE  IInv'
    <2>1. /\ item' = [item EXCEPT ![f].status = status]
          /\ item'[f] = [item[f] EXCEPT !.status = status]
          /\ \A g \in Files \ {f} : item'[g] = item[g]
      BY <1>2 DEF Become, IInv, TypeOK
    <2>2. item' \in [Files -> [status : Statuses, checksum : Contents \union {NoSum},
                              attempt : 0 .. MaxAttempts]]
      BY <2>1 DEF IInv, TypeOK, Statuses
    <2>3. status = "duplicate" => content[f] \in library
      BY <1>2, DeliveryAssumption DEF DeliveryAssumption, IInv, TypeOK, ItemInv
    <2>4. ItemInv'
      BY <2>1 DEF Checked, IInv, TypeOK, ItemInv
    <2>5. ItemsKept
      BY <2>1, <2>2, <2>3, <2>4
         DEF ItemsKept, Checked, hasherVars, IInv, TypeOK, ToldMeansStored, Told
    <2> QED BY <2>5, QuietKeeps DEF Checked, hasherVars, IInv, TypeOK
  <1> QED BY <1>1, <1>2 DEF Checked

LEMMA FileStepKeeps == ASSUME IInv, NEW f \in Files, FileStep(f) PROVE IInv'
  <1>1. ASSUME NEW ok \in BOOLEAN, WorkerAnswers(f, ok) \/ HashedInline(f, ok) PROVE IInv'
    <2>1. PICK sum \in {NoSum, content[f]} : Hashed({f}, sum)
      BY <1>1 DEF WorkerAnswers, HashedInline
    <2>2. /\ item[f].status = "hashing" /\ pending' = pending \ {f}
          /\ UNCHANGED <<content, worker, disposed, handlers, v3, library, album, outside,
                         missed>>
      BY <1>1 DEF WorkerAnswers, HashedInline, hasherVars, IInv, TypeOK
    <2>3. ItemsKept
      BY <2>1, <2>2, HashedKeeps
    <2> QED BY <2>2, <2>3, QuietKeeps DEF IInv, TypeOK
  <1>2. ASSUME NEW failed \in BOOLEAN, Checked(f, failed) PROVE IInv'
    BY <1>2, CheckedKeeps
  <1>3. CASE Send(f)
    BY <1>3, SendKeeps
  <1>4. ASSUME NEW why \in {"stalled", "network"}, GiveUp(f, why) PROVE IInv'
    <2>1. ItemsKept
      BY <1>4, VerdictKeeps DEF GiveUp, hasherVars
    <2> QED BY <1>4, <2>1, QuietKeeps DEF GiveUp, hasherVars, IInv, TypeOK
  <1> QED BY <1>1, <1>2, <1>3, <1>4 DEF FileStep

LEMMA HasherKeeps == ASSUME IInv, WorkerDies \/ Dispose PROVE IInv'
  <1>1. CASE WorkerDies
    <2>1. ItemsKept
      BY <1>1, HashedKeeps DEF WorkerDies, IInv, TypeOK
    <2> QED BY <1>1, <2>1, QuietKeeps DEF WorkerDies, IInv, TypeOK
  <1>2. CASE Dispose
    <2>1. ItemsKept
      BY <1>2, ItemsStay DEF Dispose
    <2> QED BY <1>2, <2>1, QuietKeeps DEF Dispose, IInv, TypeOK
  <1> QED BY <1>1, <1>2

-----------------------------------------------------------------------------
(* The steps of the proxy's handler.                                       *)

\* A step of a handler keeps the invariant if it keeps the items, what is in the
\* album and missed is in the library, and no content that is stored is lost.
LEMMA HandlerKeeps ==
  ASSUME IInv, ItemsKept, Untouched,
         handlers' \subseteq [file : Files, attempt : 1 .. MaxAttempts,
                             step : {"body", "add"}],
         library \subseteq library', library' \subseteq Contents,
         album' \subseteq library', missed' \subseteq library',
         AddInv', StoredLands'
  PROVE  IInv'
  <1> USE DEF Untouched, hasherVars
  <1>1. TypeOK'
    <2>1. item' \in [Files -> [status : Statuses, checksum : Contents \union {NoSum},
                              attempt : 0 .. MaxAttempts]]
      BY DEF ItemsKept
    <2>2. pending' \subseteq {f \in Files : item'[f].status = "hashing"}
      BY DEF IInv, TypeOK, ItemsKept
    <2>3. outside' \subseteq library'
      BY DEF IInv, TypeOK
    <2> QED BY <2>1, <2>2, <2>3 DEF IInv, TypeOK
  <1>2. ItemInv' /\ ToldMeansStored'
    BY DEF ItemsKept, ToldMeansStored
  <1> QED BY <1>1, <1>2 DEF IInv

LEMMA NothingStoredKeeps ==
  ASSUME IInv, NEW h \in handlers, NEW answer, h.step = "body", Reply(h, answer),
         answer \in {"duplicate", "created"} => content[h.file] \in library,
         Untouched, UNCHANGED <<library, album, missed>>
  PROVE  IInv'
  <1>1. handlers' = handlers \ {h}
    BY DEF Reply
  <1>2. ItemsKept
    BY ReplyKeeps DEF Untouched, hasherVars
  <1>3. AddInv' /\ StoredLands'
    BY <1>1 DEF IInv, AddInv, StoredLands, Untouched
  <1>4. handlers' \subseteq [file : Files, attempt : 1 .. MaxAttempts, step : {"body", "add"}]
    BY <1>1 DEF IInv, TypeOK
  <1>5. library' \subseteq Contents /\ album' \subseteq library' /\ missed' \subseteq library'
    BY DEF IInv, TypeOK
  <1> QED BY <1>2, <1>3, <1>4, <1>5, HandlerKeeps

LEMMA CreateKeeps == ASSUME IInv, NEW h \in handlers, Create(h) PROVE IInv'
  <1> DEFINE adding == [h EXCEPT !.step = "add"]
  <1>1. /\ handlers' = (handlers \ {h}) \union {adding}
        /\ library' = library \union {content[h.file]}
        /\ h.step = "body" /\ UNCHANGED <<content, v3, outside, missed>>
        /\ h \in [file : Files, attempt : 1 .. MaxAttempts, step : {"body", "add"}]
    BY DEF Create, Untouched, IInv, TypeOK
  <1>2. /\ adding \in [file : Files, attempt : 1 .. MaxAttempts, step : {"body", "add"}]
        /\ adding.step = "add" /\ adding.file = h.file
    BY <1>1
  <1>3. ItemsKept
    BY <1>1, ItemsStay DEF Create
  <1>4. AddInv'
    BY <1>1, <1>2 DEF IInv, AddInv
  <1>5. StoredLands'
    <2>1. CASE v3
      BY <1>1, <2>1 DEF IInv, StoredLands, Create
    <2>2. CASE ~v3
      BY <1>1, <1>2, <2>2 DEF IInv, StoredLands, Create
    <2> QED BY <2>1, <2>2
  <1>6. /\ handlers' \subseteq [file : Files, attempt : 1 .. MaxAttempts, step : {"body", "add"}]
        /\ library' \subseteq Contents /\ album' \subseteq library' /\ missed' \subseteq library'
    BY <1>1, <1>2 DEF Create, IInv, TypeOK
  <1> QED BY <1>1, <1>3, <1>4, <1>5, <1>6, HandlerKeeps DEF Create

\* A handler that was adding ends: the asset is in the album or counts as missed.
LEMMA AddEndsKeeps ==
  ASSUME IInv, NEW h \in handlers, handlers' = handlers \ {h}, ItemsKept,
         Untouched, library' = library,
         album' \in {album, album \union {content[h.file]}},
         missed' \in {missed, missed \union {content[h.file]}},
         h.step = "add" => v3 \/ content[h.file] \in album' \union missed',
         album' # album \/ missed' # missed => h.step = "add"
  PROVE  IInv'
  <1> USE DEF IInv
  <1>1. AddInv' /\ (h.step = "add" => content[h.file] \in library)
    BY DEF AddInv, Untouched
  <1>2. StoredLands'
    <2> SUFFICES ASSUME NEW c \in library'
                 PROVE  \/ c \in album' \union outside'
                        \/ ~v3' /\ c \in missed'
                        \/ ~v3' /\ \E g \in handlers' : g.step = "add" /\ content'[g.file] = c
      BY DEF StoredLands
    <2>1. album \subseteq album' /\ missed \subseteq missed' /\ UNCHANGED <<content, v3, outside>>
      BY DEF Untouched
    <2>2. CASE c \in album \union outside \/ (~v3 /\ c \in missed)
      BY <2>1, <2>2
    <2>3. ASSUME ~v3, NEW g \in handlers, g.step = "add", content[g.file] = c
          PROVE  \/ c \in album' \union outside'
                 \/ ~v3' /\ c \in missed'
                 \/ ~v3' /\ \E k \in handlers' : k.step = "add" /\ content'[k.file] = c
      BY <2>1, <2>3
    <2> QED BY <2>2, <2>3 DEF StoredLands
  <1>3. /\ handlers' \subseteq [file : Files, attempt : 1 .. MaxAttempts, step : {"body", "add"}]
        /\ library' \subseteq Contents /\ album' \subseteq library' /\ missed' \subseteq library'
    BY <1>1 DEF TypeOK
  <1> QED BY <1>1, <1>2, <1>3, HandlerKeeps

LEMMA HandlerStepKeeps == ASSUME IInv, NEW h \in handlers, HandlerStep(h) PROVE IInv'
  <1>1. CASE Deduplicate(h)
    <2>1. content[h.file] \in library
      BY <1>1, DeliveryAssumption
         DEF Deduplicate, DeliveryAssumption, IInv, TypeOK, ItemInv
    <2> QED BY <1>1, <2>1, NothingStoredKeeps DEF Deduplicate
  <1>2. CASE Create(h)
    BY <1>2, CreateKeeps
  <1>3. CASE LoseAnswer(h)
    <2>1. ItemsKept
      BY <1>3, ReplyKeeps DEF LoseAnswer, Untouched, hasherVars
    <2> QED BY <1>3, <2>1, AddEndsKeeps DEF LoseAnswer, Reply
  <1>4. CASE Vanish(h)
    <2>1. ItemsKept
      BY <1>4, ItemsStay DEF Vanish, Untouched
    <2> QED BY <1>4, <2>1, AddEndsKeeps DEF Vanish
  <1>5. ASSUME NEW answer \in {"refused", "trouble"}, Refuse(h, answer) PROVE IInv'
    BY <1>5, NothingStoredKeeps DEF Refuse
  <1>6. ASSUME NEW ok \in BOOLEAN, AddToAlbum(h, ok) PROVE IInv'
    <2>1. content[h.file] \in library
      BY <1>6 DEF AddToAlbum, IInv, AddInv
    <2>2. ItemsKept
      BY <1>6, <2>1, ReplyKeeps DEF AddToAlbum, Untouched, hasherVars
    <2>3. CASE v3
      BY <1>6, <2>2, <2>3, AddEndsKeeps DEF AddToAlbum, Reply
    <2>4. CASE ~v3
      BY <1>6, <2>2, <2>4, AddEndsKeeps DEF AddToAlbum, Reply
    <2> QED BY <2>3, <2>4
  <1> QED BY <1>1, <1>2, <1>3, <1>4, <1>5, <1>6 DEF HandlerStep

LEMMA NextIInv == IInv /\ [Next]_vars => IInv'
  <1> SUFFICES ASSUME IInv, [Next]_vars PROVE IInv'
    OBVIOUS
  <1>1. ASSUME NEW f \in Files, Hash(f) \/ FileStep(f) PROVE IInv'
    BY <1>1, HashKeeps, FileStepKeeps
  <1>2. CASE WorkerDies \/ Dispose
    BY <1>2, HasherKeeps
  <1>3. ASSUME NEW h \in handlers, HandlerStep(h) PROVE IInv'
    BY <1>3, HandlerStepKeeps
  <1>4. CASE UNCHANGED vars
    <2> USE <1>4 DEF vars, itemVars, hasherVars
    <2>1. TypeOK' /\ ItemInv'
      BY DEF IInv, TypeOK, ItemInv
    <2>2. AddInv' /\ ToldMeansStored' /\ StoredLands'
      BY DEF IInv, AddInv, ToldMeansStored, StoredLands, Told
    <2> QED BY <2>1, <2>2 DEF IInv
  <1> QED BY <1>1, <1>2, <1>3, <1>4 DEF Next

-----------------------------------------------------------------------------
\* A file reported as uploaded or present (queue.ts) is in the library, and
\* the bookkeeping of hasher, attempts and handlers is in order: for any files,
\* contents and number of attempts, whatever worker, proxy and network do.
THEOREM DeliveryIsSound == Spec => []DeliverySound
  <1>1. IInv => DeliverySound
    BY DEF IInv, DeliverySound
  <1> QED BY <1>1, InitIInv, NextIInv, PTL DEF Spec

\* It is in the album or about to be (share_upload.go), but for what was outside
\* before and an add that went wrong in a version of Immich that needs one.
THEOREM DeliveryLands == Spec => []LandsInAlbum
  <1>1. IInv => LandsInAlbum
    BY DEF IInv, ToldMeansStored, StoredLands, LandsInAlbum, BeingAdded
  <1> QED BY <1>1, InitIInv, NextIInv, PTL DEF Spec
=============================================================================
