# Verification of immich-proxy-go

TLA+ models of the parts of immich-proxy-go that are hard to test: goroutines
that share a job map, handlers that use what they looked up after the lock is
gone, caches over a server that changes, a browser whose promises, timers,
animation frames and media events come in any order. TLC checks the models on
small instances; TLAPS proves the central properties for every value of the
constants.

Paths are relative to `src/`.

## The system

immich-proxy-go is a Go server in front of an Immich instance together with a
SolidJS web client. A visitor opens `/share/{key}` or `/s/{slug}`; the proxy
looks the shared link up at Immich, serves its thumbnails, originals and videos,
packs several files into a ZIP, and accepts uploads.

| Component | State it keeps | Operations | Interacts with |
|---|---|---|---|
| Bulk-download job pipeline (`share_download.go` 152-386) | task channel, staged slice, counter, context, staging directory, ZIP | stage, retry, cancel, join, pack, publish, delete | Immich (files), job map |
| Bulk-download service (`share_download_jobs.go`, handlers in `share_download.go`, poll loop in `client.ts` 209-236) | the job map behind a mutex, timers | start, poll, fetch, expire | pipeline, browsers |
| ZIP entry names (`share_download.go` 348-375, `share_download_jobs.go` 176-201) | map of used names | stage a name, make it unique | pipeline |
| Share authorization (`share_authz_cache.go`, `share_support.go`) | verdict cache with a TTL | authorize, load the link | Immich client, media handlers, pages |
| Shared-link tokens (`immich/share_token.go`, `immich/client.go`) | login entries with TTLs | login, retry without a password | Immich 2 and 3 |
| Rate limiter (`middleware/ratelimit.go`) | visitors by address, tokens, last reset | getVisitor, Allow, cleanup | every rate-limited route |
| Media proxying (`share_media.go`, `share_support.go`) | one watchdog per stream | copy until idle | Immich, browser |
| Upload queue (`web/src/upload/queue.ts`, `UploadModal.tsx`) | items, flags, suspended batches and uploads | add, hash, check, pump, retry, park, pause, resume, remove, dispose | pool, hasher, API client, browser events |
| Upload pool (`web/src/upload/pool.ts`) | limit, two counters | canStart, noteSuccess, noteRetryableFailure | queue |
| File hasher (`upload/hasher.ts`, `hash.worker.ts`) | worker, pending hashes | hash, crash, dispose | queue |
| Upload attempt (`client.ts` 253-353) | watchdog, settled and stalled flags | progress, abort, settle | queue, proxy |
| Upload delivery (`share_upload.go`, `share_upload_check.go`) | none of its own; runs on after its client has gone | forward, add to album, check checksums | Immich, queue |
| Share session (`SharePage.tsx`, `store/share.ts`, `PasswordPrompt.tsx`, selection in `AssetTimeline.tsx`) | load sequence, the link, selection, viewer | load, unlock, refresh, select, merge details | API client, upload dialog |
| Timeline (`timeline/layout.ts`, `AssetTimeline.tsx`, `TimelineScrubber.tsx`) | layout, visible and loaded rows, frames, settle timer, drag | measure, scroll, scrub, settle, restore | the browser's layout |
| Viewer history (`AssetViewer.tsx`, `viewTransitions.ts`, `viewerDeepLink.ts`) | depth, debounced push, transition sessions | open, leaf, close, popstate | the browser's history |
| Viewer stage (`useViewerCarousel.ts`, `useViewerZoom.ts`) | pending step, fallback timer, drag, pointers, scale | swipe, step, pinch, pan | viewer |
| Viewer media (`imageLoader.ts`, `ProtectedImage.tsx`, `ViewerVideoLayer.tsx`) | attempt, retry timer, loaded; playing, bar | load, retry, reset, play, seek | stage |
| Middleware, static files, OpenGraph, listing, configuration, texts, analytics | none after start-up | one request each | all |

What is hard in it:

* *Job pipeline.* Four workers, one cancellation, retries, and five owners of
  what is on disk (worker, main goroutine, its deferred calls, the map entry,
  the timer). Correct when a ready job has every file whole, a failed one leaves
  nothing, the first failure is the one recorded, and every job settles.
* *Service.* Check and creation are not atomic, reads are not locked, the
  client's loop has no bound of its own. Correct when the cap is respected up to
  a known excess, nothing half-written is served, files always have an owner,
  and a client gets an answer.
* *Authorization.* Two caches, three exchanges with a server that is edited and
  upgraded meanwhile, and lookups that overtake each other. Correct when whom
  the proxy lets in or turns away is what Immich decided within a known time.
* *Upload.* An action runs from one `await` to the next; between two of them
  anything may happen to the items, the worker may die, and the proxy's handler
  may outlive the attempt it would answer. Correct when no file is sent twice at
  a time, nothing waits without a reason, everything settles, and what the
  visitor is told of a file is so.
* *Share session.* Answers that overtake each other, of which only some check
  that they are still wanted. Correct when gallery, viewer and selection are of
  the share that the address names.
* *Timeline.* Positions are read a frame late and applied to the layout of a
  later moment. Correct when what the frames leave behind fits the position.
* *Viewer.* History traversals, debounced pushes, transition callbacks, two
  hooks on one set of pointers, a timer that stands in for an event that may not
  come, elements reused for the next photo.
* *Rate limiter.* Two critical sections where one would be expected. Correct
  when tokens are neither lost nor made, and a window holds no more than two
  windows' worth.

`PROJECT.json` lists the hazards at their lines with the properties that watch
over each.

## Modules

| Module | Models | Proofs |
|---|---|---|
| `JobLifecycle` | what a bulk-download job promises (abstract specification) | |
| `ZipJob`, `MCZipJob` | one job in full detail; implements `JobLifecycle` | `ZipJobProofs` |
| `BulkDownload`, `MCBulkDownload` | many jobs, many clients, the map, the timer, restarts; every job keeps `JobLifecycle` | `BulkDownloadProofs` |
| `ZipNames`, `MCZipNames` | the names of the entries of one ZIP, one step per asset | last section of `ZipJobProofs` |
| `RateLimiter`, `MCRateLimiter` | the limiter with its clock and cleanup | last two sections of `BulkDownloadProofs` |
| `ShareAuthz`, `MCShareAuthz` | verdicts and logins over a changing Immich | `ShareAuthzProofs` |
| `UploadQueue`, `MCUploadQueue` | the queue with its pool, its user and its browser | `UploadQueueProofs` |
| `UploadDelivery`, `MCUploadDelivery` | files through hasher, check, attempts and proxy into library and album | `UploadDeliveryProofs` |
| `ShareSession`, `MCShareSession` | what a visitor has before them | `ShareSessionProofs` |
| `TimelineLayout` | grouping, rows, ranges and anchors as functions | `TimelineProofs` |
| `Timeline`, `MCTimeline` | the gallery and the scrubber over that layout | `TimelineProofs` |
| `Viewer` | history and transitions | `ViewerProofs` |
| `ViewerStage` | carousel and zoom on one stage | `ViewerProofs` |
| `ViewerMedia` | extends `ViewerStage` with what the slide shows | `ViewerProofs` |

A definition called `XSomething` next to `X`, introduced as "Mutated X", is `X`
with a plausible mistake in it. It takes no part in a specification; putting it
in the place of `X` makes a property fail, which shows that the property depends
on that code.

### ZipJob

One worker is `wpc` (its position), `wtask`, `wattempt` and `wreport`. `Take` is
the receive from the closed channel and the look at the context (184-187);
`StartAttempt` is the backoff or its interruption (296-308); `AnswerOk`,
`AnswerRetryable`, `AnswerPermanent`, `CreateFileFails` are the outcomes of a
request, `BodyComplete`, `BodyBreaks`, `BodyStalls` those of the copy. `Fail` is
what the worker does with an error under `failureOnce`. Between the increment
of the counter and `UpdateProgress` another worker may run: `BodyComplete` takes
the number, `Report` reports it. The main goroutine is `mainPc`; deferred calls
are the steps `drop` (the ZIP) and `sweep` (the staging directory), in the order
Go runs them. Files on disk are `stageFile`, `zip`, `packed` and `archive`
(the entries that have all their bytes). `Delete` is one step, as the code
removes file and entry under one lock.

The data of a file is absent, partial or complete. Which retryable status it
was and how long the delays are is left out.

### BulkDownload

The goroutine of a job is coarsened to what others can see (`pc`, `zip`,
`staging`); `ZipJob` has the detail. What it keeps of a body that stalls is
`Stall`, after which the goroutine has no step. A client is at one of twelve
positions; `CheckCap` and `Create` are the two critical sections of
`DownloadAssets`. A
handler that looked up a job keeps the pointer and reads the fields without the
lock: `seen` is what they were at the lookup, and an unlocked read may return
that or the present value (`StatusReads`, `PathReads`), field by field. `Fetch`
may come before the job is ready, as the API allows; the web client asks when it
was `told`. `Navigate` moves the tab to another share while the poll loop
runs on, since the loop builds its URLs from the shared `api.baseUrl`. Both GETs
are behind the general limiter (`main.go` 175-189), which may answer 429 before
the handler is called (`TooMany`; whether it does is up to `RateLimiter`, and here
it always may), and the server's write deadline of a minute (`main.go` 255), or
the network, may cut an answer that was begun (`Cut`). The web client gives up at
either; another client of the API, or a download manager, may `Fetch` again. `Crash`
forgets everything but the disk; `stranded` records whose files lost their
owner by it.

### ZipNames

A name is a stem, its counters and its extension. `StagedName` is the choice
among the original name, the extension of the recompressed image, the
Content-Disposition and the UUID; `GetUniqueFilename` is the function of that
name. The sanitizing of characters is left out, except that a name consisting
of an extension alone loses its dot. (One consequence of `filepath.Base("")`
being `"."` is visible in `Recompressed`: a nameless image is called by its
extension; the UUID of lines 356-358 is reached by names like `.heic` only.)

### RateLimiter

`Allow` is `GetVisitor` and `TakeToken`; in between time passes, other requests
run, and `Cleanup` may delete the visitor the request still holds. `spent` and
`grants` are history.

### ShareAuthz

Both caches are keyed by share and password, so a behaviour follows one share
and what visitors send with it (`cred`, a password or none). A lookup is a
record in `req`: `Ask` is `authorizeShareRequest` past the verdict cache, or the
`loadShareLink` of a page; `Approach` is `shareTokenState`, which logs in unless
a valid entry is kept, and then asks for the link. `LoginDone` keeps what may be
kept. A reply to the link settles the lookup (`Decision`, `Finish`) but for two:
Immich 2 may say that the password is not needed, and the link is asked for
without (`AskWithout`); and a link that was found is asked whether the password
was needed (`AskLoginAgain`), by another login where the cache has nothing.
`Finish` sets the verdict of a media request when it is definitive. `immich` is
the version of the server, the share's password and whether it is over;
`ImmichChanges`, `LoginReply`, `MeReplies` and the tokens that become void are
external, modelled from how `client.go` and `share_token.go` read the answers.

Time is in ticks no shorter than the timeout of an exchange, so an exchange
crosses at most one. Tokens of Immich live longer than the entries that keep
them; their own expiry is not modelled but as one of the ways they become void.
Entries of other keys, which `set` evicts, and the fetch after the verdict are
left out.

### UploadQueue

Items are numbered in list order. `run` says whether a `runUpload` of the item
is alive and where it waits; `batches` are the suspended `processBatch` calls,
each with the items it still holds, which may have been removed from the list
since. `Pump` is one pass over the list; it is a function of the state and
part of every action whose code calls it, with `maybeSettle` after it where the
code has that. `online` is `navigator.onLine`; the event that goes with a change
is delivered later (`events`), so a failing upload may find the browser offline
while the queue is not paused yet. The progress of an item is left out, and so
are texts and kinds of failures.

### UploadDelivery

The same items, seen along their way instead of in their queue: each file is a
selection of its own, and pool, pausing and retries by hand stay with
`UploadQueue`. `pending` are the hashes the worker owes; `WorkerDies` settles
them with an error, which the queue takes for "no checksum". `Send` starts a
handler of the proxy beside the attempt. `GiveUp` (the watchdog, or the network)
ends the attempt alone: the handler goes on to `Create`, `Deduplicate`, `Refuse`
and `AddToAlbum`, and `Heard` says whether there is still an attempt to answer.
`library`, `album` and the version `v3` are Immich; `outside` is what was in the
library but not in the album beforehand, `missed` what a failed add left out.
The delivery of an answer is one step with the end of the handler.

### ShareSession

`calls` are the requests in flight, each with what it will do with its answer;
`Answer` takes any of them. Only `load` compares its number and key with the
present ones. `served` is the listing the proxy has for each share, which an
upload extends. `SetLoadedSharedLink`, `Merged` and the selection actions are
the functions of `store/share.ts`. `touch` are the long presses: the variable
that holds the timer and the timers it has lost. `strayed`, `foreign`, `moved`
are history and name exactly the three ways in which the properties below are
weaker than one would like.

### TimelineLayout and Timeline

The layout is a function of the album, the width and the metrics, in integers: a
division rounds down where the code keeps a float. The two sorts of
`groupAssetsByDate` are stated by rank (`Ranked`: in the *n*th place is what has
*n - 1* others ahead of it, equal times keep their order, as a stable sort does),
the loops of the code are functions of the number of turns they have taken
(`after`, `RatioUpTo`), and its three binary searches are one function, `Search`,
of a side and a test, that takes the code's probes in the code's order. An asset
is known by its place in the album.

`Timeline` has the browser's values (`boxWidth`, `boxTop`, `scrollTop`) beside
what was last measured of them, and `frames`, the queue of animation frame
callbacks: the position of the gallery, the bubble of the scrubber, the row to
restore, the end of a settle. Frames run in order, timers and user at any time
between. The browser clamps the position when the height of the content changes.

### Viewer, ViewerStage, ViewerMedia

`Viewer` has `entries` and `pos` as the browser's history and `hops` as the
traversals it owes; `push` is the photo the debounced timer will push. The
browser may refuse any push. A debounced one is caught (`AssetViewer.tsx` 293-300);
the first one is not (345-351), and what comes after it in `onMount` and in
`selectAsset` does not happen. `opened` says how far a viewer came: `whole`; `blank`,
on the screen without an index and never to push; `lame`, the same with an index
by now; and `leaked`, closed with its listeners left behind, from where on the
model says nothing (`Over`), as it does of a page that was left. The push of a link
to a photo is refused within the load of the share, which then fails and shows
no viewer.

A session of `runViewerTransition` is a record with its number; the browser calls
back and finishes sessions in any order. `named` is the tile the session's script
has named, `styled` is `data-viewer-transition` on the document, by which the style
sheet names the photo in the viewer (`styles/album-viewer.css` 29-31). A tile keeps
the keyboard under the viewer, so that a photo may be opened over another
(`AssetTimeline.tsx` 411-415): `over` marks the sessions that were asked for then.

`ViewerStage` holds both hooks in `s`. A handler of the viewer is one action
that asks the zoom first, as `AssetViewer.tsx` does. Positions are cut down to
which side of the threshold the track is, scales to small numbers. `expected`
is history: where the steps of the visitor lead.

`ListRenewed` is the list that changes under the viewer with the asset at its
place, when details are merged into it or the share is refreshed: the effects of the
zoom and the media depend on the list and run again. The stage itself does not
change its index then. The branches for a stage without width and a reset at
scale 1, which changes nothing a property speaks of, are left out.

`ViewerMedia` extends it: when the stage changes its index or its zoom, the
retry machine or the video layer is reset in the same step, as Solid's effects
do. A video element that gets another source drops its queued events, so that
none of an earlier video are left. One that is reset for the asset it has
(`RenewVideo`) keeps its queue: the reset's own events wait behind those from before.
`missed` is history: the bar was held when a `timeupdate` came, and has not been
set since. Play and pause work while the bar is held, by key or another finger.
The clock is not modelled (it shares its handler with the bar; after a renewed list
`durationSeconds` stays 0 and the clock is hidden until the next metadata), nor is
a canvas that gets no context (`ProtectedImage.tsx` 27-30).

## Runs

| Run | Constants | Shows |
|---|---|---|
| `zip_job` | 3 files, 2 workers, 2 attempts, bodies may stall, fair | `ReadyArchiveIsWhole`, `RootCauseIsRecorded`, `StagingSound` (counters in bounds, honest progress, no file shared), `NothingLeftBehind`, refinement of `JobLifecycle`; unless a body stalls a job settles and its disk is reclaimed (`JobEnds`) |
| `bulk_download` | 2 clients, 2 jobs, 2 shares, cap 1, 1 crash | `AdmissionSound` (types, slack of the cap), `ServedIsWhole`, `DiskAccounted`, `ToldReadyIsServed` (through refusals, cuts and new tries), `KeepsContract` (each job implements `JobLifecycle`) |
| `bulk_download_live` | 1 client, 2 jobs, 2 shares, no crash, fair | unless a body stalls, `PollLoopEnds` and `CapacityComesBack` (slots and archives) |
| `zip_names` | 4 assets, 1 stem, 2 extensions, 1 UUID | `EntriesSound`: unique up to two of a kind, renamed only when needed |
| `rate_limiter` | rate 2, window 2, 3 requests, 2 visitors, clock to 7 | `TokensSound`, `TwiceTheRate` |
| `share_authz` | 2 lookups, 2 passwords, TTLs 1 and 2, an edit, an upgrade, a failure | `AnswersFollowImmich`: grants, refusals, cleared cookies and outages follow Immich within a time made of the TTLs |
| `upload_queue` | 2 large files, 2 losses of the network, fair | `PoolSound`, `PumpSound` (one run per item, no idle slot), `ItemsKeepLifecycle` (and silence after disposal), `DrainIsAnnounced`, `EveryFileSettles` |
| `upload_delivery` | 2 files, 2 contents, 2 attempts, Immich 2 and 3, fair | `DeliverySound`, `LandsInAlbum`, `DeliveryEnds` |
| `share_session` | 2 shares, one locked, one upload, 4 moves, fair | `AddressedShare`, `GalleryAsListed`, `StateOfShare`, `LoadSettles` |
| `timeline` | 2 albums, 2 widths, 3 positions, 3 moves, fair | `GallerySound` (layout and bookkeeping), `FramesCatchUp` (rows in the DOM, date in the bubble, the row that was captured back in its place), `LoadsAtRest`, `LoadsCatchUp` (a frozen gallery thaws) |
| `viewer` | 2 photos, 5 moves | `HistoryMirrored`, `OneNamedElement`, `LatestUpdateWins` |
| `viewer_media` | 2 photos, 2 videos, 2 fingers, 2 scales, 3 events, fair | `StageSound`, `PhotoHonest`, `VideoControlsTell`, `StepsEnd` |

### What the code does otherwise than it says

These configurations are not among the runs: TLC refutes the property, which is
what a comment, a test or a document says. A trace shows the case in a few
steps.

| Configuration or definition | Says | The code |
|---|---|---|
| `MCZipJobStall.cfg`, `JobAlwaysSettles` | a job settles | a body that stalls is waited for without limit, since the media client has no timeout of its own (`immich/client.go:23-29`) |
| `MCBulkDownloadCap.cfg`, `CapRespected` | `docs/specs/api.md:253` | two requests take the last slot (`share_download.go:129-137`) |
| `MCBulkDownloadZip.cfg`, `ServesTheZip` | `share_download.go:413` | a handler may see the new status with the old path |
| `MCBulkDownloadGone.cfg`, `SettledJobsGo` | jobs are removed | failed jobs have no timer |
| `MCZipNamesDup.cfg`, `NamesUnique` | names are unique | a third file of one name may meet a counter that was made (`share_download_jobs.go:196`) |
| `MCUploadDuplicate.cfg`, `DuplicateIsInAlbum` | `queue.ts:331-333`: a duplicate is "in the album" | on Immich 2 the album is added to on a 201 alone, and an add that fails is logged (`share_upload.go:125`, 142-143) |
| `MCShareAuthzOnce.cfg`, `TransientFailsOnce` | `share_authz_cache.go:79-82`: a transient failure fails one request | a login that fails on Immich 3 becomes a refusal of the password, which is kept for a minute |
| `MCViewerClose.cfg`, `CloseLandsOnGallery` | `AssetViewer.tsx:194-196`: the close lands on the gallery | a first push that the browser refused was counted, and the close leaves the share; entries pushed after a Forward are counted from another depth |
| `DepthAlwaysMirrors` in `Viewer` | `AssetViewer.tsx:136-138`: the depth mirrors the position | it is 1 before the first push is made, which may be refused (345-351) |
| `NeverTwoNames` in `Viewer` | `viewTransitions.ts:109-111`: names cannot collide | a photo opened by the keyboard under the viewer is named while the viewer's photo has the name by the style sheet; the browser skips that transition |
| `TopRowKept` in `Timeline` | `AssetTimeline.tsx:281`: the top row is kept | only where an asset, and not a header, was found at the top |
| `ShieldOnlyWhileDragging` in `Timeline` | `TimelineScrubber.tsx:231-235`: mounted only during the drag | a cancelled touch does not end it |
| `TwoFingersPinch` in `ViewerStage` | `useViewerZoom.ts:104-106` | a finger that was there before the zoom was enabled is not counted |
| `PhotoSettled` in `ViewerMedia` | a photo ends as shown or as failed | an effect that finds the element with the same source waits for an event that has been |

Two more show in what the passing properties do not say. `TwiceTheRate` is twice
what `docs/adrs/003-rate-limiting.md:16` promises ("5 attempts/minute"), since
all tokens come back at once. `DrainIsAnnounced` leaves out the removal of the
last active item: `remove` does not call `maybeSettle`, although `queue.ts:89`
says that `onSettled` fires "each time the queue drains to idle after doing
work".

`EveryFileSettles` has an exception that two files do not need and three do:
`retryFailed` puts items back where they were in the list, and `pump` goes
through the list from its head, so a user who retries for ever two files that
fail keeps a third waiting for ever.

### Bounds

* *ZipJob.* Three files and two workers: one worker takes a second task while
  the other still has its first; two attempts: one retry that may fail for good.
* *BulkDownload.* Two clients on one slot is the smallest race for it (the
  liveness run has one client, whose next download finds the slot of its last one
  taken, and two shares for it to go to and fro); a client
  can leave its job and start the other while the first exists. Job ids are used
  once, as 128 random bits are; when they have run out, an admitted request
  stays admitted, so that a load beyond the cap's slack could still show. One
  crash suffices to strand files of every stage; `Crash` is not fair.
* *ZipNames.* Four assets: a third of one name, and one that meets a name the
  code has made.
* *RateLimiter.* The clock runs past two resets and past the deletion of an idle
  visitor, and a second visitor of the same address is made.
* *ShareAuthz.* The times in the property are exact: with any of them one less
  TLC finds a counterexample. That takes two lookups, one of which may be
  answered before a change and judged after it, TTLs of different length, and an
  edit on either side of an upgrade of Immich. An older change can leave nothing
  behind that the last one would not; `Horizon` lies beyond the longest time.
* *UploadQueue.* Two files are a batch each or one batch, and a pool whose one
  large file must stay one; the thresholds of the pool are small so that it
  shrinks and recovers. `MaxLosses` bounds how often the network goes. The
  counters of the pool stop at their thresholds, beyond which the code does not
  tell them apart.
* *UploadDelivery.* Two files of one content meet in the library, of two do not;
  two attempts let a handler outlive its attempt and a retry meet its result.
* *ShareSession.* Four moves open a share, leave it and return with answers of
  both still on their way; the shares have a photo in common.
* *Timeline.* Days with one row and with several, a photo wider than the
  gallery, one that is rotated, one without sizes; the viewport shows two rows
  of it. Pixels are scaled down with their order kept. The proofs carry the layout
  over to albums, widths and metrics of any size.
* *Viewer.* Five moves: open, leaf past the debounce, close or go back, reopen
  while transitions are running. Two photos are enough for a push, an address and
  a transition each to be of another photo than the one shown; the proofs have any
  number of both.
* *ViewerMedia.* Photo next to photo, photo next to video, video next to video;
  at most `MaxEvents` media events wait.

Deadlock is not checked, as every model really stops: the job is done, the
files are uploaded, the clock or the moves are at their bound.

### Fairness

* *ZipJob.* Weak fairness of the main goroutine, the timer and each worker:
  goroutines are scheduled, timers fire, and a request is answered or fails,
  since the media transport bounds dial, TLS and response headers
  (`client.go` 22-31). `BodyStalls` is not fair, and a stalled worker has no
  step: nothing in the code bounds it, and the requests carry no context, so
  that the cancellation does not reach it either.
* *BulkDownload.* Weak fairness of each job's goroutine and timer and of the
  handlers and the poll loop. A goroutine that stalled has no step, so that fairness
  asks nothing of it: `PollLoopEnds` and `CapacityComesBack` name it as their only
  exception, since the code bounds the wait for a body nowhere (`share_download.go`
  339). `Stall`, `TooMany` and `Cut` are not fair, as nothing has to go wrong.
  Starting, repeating and navigating are up to the user.
* *UploadQueue.* Weak fairness of hashing and checking, of every attempt (its
  watchdog aborts it), of backoff timers, of the delivery of events and of the
  network coming back. The user owes nothing (see `EveryFileSettles` above).
* *UploadDelivery.* Weak fairness of each file's own steps: the worker answers
  or dies, the check answers or fails, and an attempt is given up by the
  watchdog, which runs from its start. Nothing is asked of the proxy.
* *ShareSession.* A request is answered or fails.
* *Timeline.* Frames run, the settle timer fires and a pointer is let go.
* *ViewerStage.* The fallback timer alone: `transitionend` may never come.

`ShareAuthz` and `Viewer` have safety properties only.

## Proofs

All theorems hold for every value of the constants allowed by the named
assumptions of the modules, which say that bounds and limits are numbers, that
the values for "none" are no others, and which sets are finite or parts of
others. A few say more: a job has two files at least (a single one is not
packed), what is kept of a public share or an old Immich is kept no longer than
a token, every share has a listing to begin with, and the gallery's metrics fit
(`TimelineAssumption`: a row is at least three gaps high, a width takes a photo of
the smallest ratio, and the top bar is no higher than what is rendered beyond
the viewport; the metrics of the style sheet and a phone's width are far from
all three).

* **ZipJob.** `IInv` is inductive: `PoolInv` says where the pool stands (tasks
  are handed out once and in order; outside the join nobody works; a
  cancellation has a cause), `CountInv` what the counters mean (the atomic counter
  is the number of staged files, which are complete until the sweep), and
  `MainInv` what the main goroutine has established at each position. None of
  the properties is inductive alone: that a ready archive is whole needs that
  all workers left without a failure, hence that the channel was drained, and
  that what was staged is complete when it is packed. `NextIInv` has a step per
  action. `ReadyIsWhole`, `RootCauseKept` and `StagingIsSound` (with
  `TypeCorrect`, `ProgressHonest` and `FilesNotShared`) follow, and
  `PipelineImplementsLifecycle` maps the initial states and each step to
  `JobLifecycle`. `NothingStaysBehind` needs one invariant more, `DiskInv`:
  which of the deferred calls and the timer still stands between each thing on
  disk and the end of the job.
* **ZipNames** (in `ZipJobProofs`, which extends both modules; they share no
  name and no state). `NamesInv` says that each count is of a name in the ZIP and
  no more than the entries so far, and, while the names asked for are tame (none
  three times, none what the copy of another would be called), that an entry
  which kept its name is counted one and one that was renamed is a first copy
  (`Copies`). `FirstCopy` is the step: a tame name that is taken was taken by an
  entry that kept it, so the copy is called "_2", and nothing else in the ZIP can
  be. Tame names were tame before (`TameBefore`), so the claim carries over from
  prefix to prefix without any induction over the list. `EntriesAreSound` follows.
* **BulkDownload.** `ServiceTypeCorrect` by a case for each action;
  `CapNeverFarExceeded` by a measure, `Load`, the active jobs plus the requests
  past the check: a request is added to it only while there is a free slot,
  creating a job moves one from one count to the other, and nothing else adds.
  With a cap of *c* and *n* clients never more than *c + n - 1* jobs are active
  or about to be. `AdmissionIsSound` is both. `ServiceInv` adds to the types what
  each position of a job's goroutine says of its files, its entry and its timer
  (`JobOK`), and what a client may conclude from what it has seen (`ClientOK`: who
  was told "ready" is asking for a ready job, and is so after each refusal or cut).
  A handler reads the fields
  without the lock, each old or new; that a status which settled does not change
  any more is what makes the mixture harmless. `WholeIsServed`,
  `DiskIsAccounted` and `ToldIsServed` follow, and `EveryJobKeepsContract`, by
  which every step of the service is a step of `JobLifecycle`, or none, for each
  of its jobs.
* **RateLimiter** (in `BulkDownloadProofs`, which extends both modules; they have
  no name and no state in common). `TokenInv`, types together with conservation,
  is inductive; `TokensAreSound` follows. The types alone are not inductive: that
  what was spent stays within the rate comes from conservation. `TwiceTheRate`
  needs a `Ledger` for each address: all it was granted within the last window is
  at most a rate more than its visitor has spent since its reset, all after that
  reset is on the visitor's account, and an address without a visitor has at most
  a rate behind it. A reset is more than a window after the last one, a deletion
  more than two, which is when the second part turns into the first or the third
  (`RecentIsAfter`). The sums of `Granted` are a recursive function; what one more
  grant, a later moment and a bound do to them is proved by the least moment at
  which it fails (`OverTime`), in place of induction. `AtMostTwiceTheRate` follows.
* **ShareAuthz.** `AnswersAreTrue` is an argument about evidence. Each reply on
  its way, each kept login and each kept verdict is either still what Immich
  would say, or Immich has changed since, and then no longer ago than the
  evidence is old (`TokenInv`, `VerdictInv`, `LookupInv`, with `LoginHolds` and
  `LinkHolds` for what a reply says). The times of `AnswersFollowImmich` come out
  as sums along the way of the evidence: an entry's age, and a tick for each
  exchange that was waited for. What a lost exchange turned into is marked, and
  excused as the property excuses it.
* **UploadQueue.** `IInv` says who owns an item. A live run and the status
  "uploading" go together while the queue lives (`ItemsInv`); a suspended batch
  has the items it hashes or checks to itself (`BatchesInv`), ids not given out
  are fresh (`FreshInv`), and no queued item could start (`Quiet`). The pump
  starts a set chosen along the list. That this set exists (`PassExists`), keeps
  the pool's bounds and leaves nobody behind (`PassKeeps`) rests on the least
  number of a set, in place of induction along the list. Every action is then
  either one that ends in a pump (`PumpStep`), so that only what it pumps has to
  be looked at, or one that leaves the queue as quiet as it was
  (`QuietFollows`): it queues nothing, frees nothing and raises no limit.
  `PoolIsSound`, `PumpIsSound`, `LifecycleKept` and `DrainAnnounced` follow.
* **UploadDelivery.** `IInv` adds three parts to the properties: `ItemInv` (a
  checksum is of the file that has it, which is why the check may be believed),
  `AddInv` (only what Immich has is added) and `StoredLands` (whatever is in the
  library is in the album, was outside, is being added, or was missed): the
  album property has to be about contents and not about files, since the answer
  that settles a file may be of another's handler. `DeliveryIsSound` and
  `DeliveryLands` follow.
* **ShareSession.** The page compares numbers in one place only, so `IInv` says
  what keeps the other answers harmless. At most one load has the newest number,
  only while the page loads, and it is of the key of the address (`CallsInv`).
  The share that is there is the one of the address unless a late refresh or
  detail strayed (`LinkInv`). Selection, viewer and touch have been listed once
  the page has settled, and not before (`SelectionInv`, `OpenInv`, `TouchInv`): a
  page that loads still has what was there. `GalleryOfTheAddress`, `ListingKept`
  and `StateBelongsToShare` follow.
* **TimelineLayout** (first sections of `TimelineProofs`). The layout is made by
  loops and read by binary searches, and no induction theorem of the library can
  be instantiated here; `Upwards` takes its place, by the least turn at which a
  claim fails, and gives what survives every turn of a loop (`LoopExists`,
  `LoopGood`). A row in the making always fits the width at some height
  (`Narrow`: `MoreIsNarrow`, `OpenIsNarrow`), and one that is closed to be
  justified fills two thirds of it at the target height, which is why it stays
  within the width and within twice the row height (`JustifiedHeight`), though the code takes a photo that overflows into a row that is still mostly empty. `Block` says
  of rows that they lie one under the other and show certain photos in order;
  a row below a block and a block below a block make blocks (`BlockAppend`,
  `BlockJoin`), so that `GroupRows` has the rows of a day and `LayoutLaid` those of
  all days. `RankedSorts` is what the sorts yield, and `LayoutComputed` joins both.
  `SearchFirst` and `SearchLast` show that a search finds the first or last place
  where a monotone test holds, by the distance between its ends; `RangeFound` and
  `DayFound` say so of the rows and the days.
* **Timeline.** Besides types (`Placed`, `Flagged`) `IInv` has five parts, each
  what one kind of late reading owes to the next frame: a position that was read late has a sync
  waiting, or was read with an offset the box has had (`RowsFollow`); a date that
  may be wrong has its frame waiting, unless a relayout moved the days
  (`BubbleFollows`); every frame that puts a row back puts back the one that was
  captured, and once none waits it is there (`RowKept`); what is frozen has the
  timer or the frame that thaws it (`Queued`), and what is not frozen has not
  jumped and loads the rows (`RestKnown`). A scroll may not forget any of these,
  which `ScrolledDoes` shows once for every hand that scrolls. Each action has a
  lemma with a step for each part. `GalleryStaysSound`, `FramesAlwaysCatchUp`
  and `LoadsOnlyAtRest` follow; that an offset which is out of date
  costs no visible row is where the overscan and the height of the top bar come
  in (`RowsRendered`).
* **Viewer** (first part of `ViewerProofs`). `HistoryInv` is about the browser's
  history (`EntriesInv`: depths are no more than the distance to the gallery), the
  traversals it owes, the sessions (`SessionsInv`) and the viewer. An address may
  name another photo than the one shown, though nothing is left to do (`Astray`),
  while a close that will lead back is under way; that this is the only case, for a
  viewer that is `whole`, is the part that carries `HistoryIsMirrored`. Of the
  sessions it says that only the newest may have named a tile, that one which named
  the tile of a viewer about to open still waits for its update, and that one
  which named the tile it returns to has closed the viewer: so no tile has its
  name beside the photo the style sheet names, but for a session that began over
  the viewer. `ElementsNamedOnce` and `LatestWins` follow.
* **ViewerStage** (second part of `ViewerProofs`, which extends both modules; they
  have no name and no state in common). `Calm` says how drag, step, gesture and timer exclude each
  other on one stage; each handler is a function from calm stages to calm ones,
  proved hook by hook, and the viewer's composition keeps the index where the
  steps of the visitor lead; a renewed list is one reset more. `StageIsSound` is for the stage by itself and
  `StageIsSoundUnderMedia` for the stage with its media.
* **ViewerMedia** (in `ViewerProofs`). `PhotoInv` accounts for the element of
  a photo: one that came is shown or has its event waiting, one that broke has
  told so, waits for its retry or was left so by a reset, and what is tried
  comes after all that failed; `PhotosAreHonest` follows. `VideoInv` is about the
  queue of media events, which a renewed list leaves in place: the last that tells
  of playing agrees with the element, and while the bar of a resting video is wrong
  an event that corrects it is in the queue, or the bar was held when one came
  (`missed`). An `ended` that is overdue may still take the bar to the start of a
  video which is at its end; one that has been taken elsewhere meanwhile has a
  `timeupdate` behind it. With the queue empty that is `ControlsTell`.

Left to TLC: liveness under fairness (`JobEnds`, `PollLoopEnds`,
`CapacityComesBack`, `EveryFileSettles`, `DeliveryEnds`, `LoadSettles`,
`LoadsCatchUp`, `StepsEnd`), which no prover here treats. What the properties do
not say of the layout is not proved either: that rows other than the last of a
day fill the width, and what rounding does to a float.

## Not modelled

`components` in `PROJECT.json` has the reason for each part. The copy loop of
media with its watchdog is the one part with state of its own that is left
(`StreamCopy` in the plan). The throughput estimate feeds a display only; request
checks, listing, rendering, texts and analytics have no state from one request
to the next. The zoom's quality switch, the sanitizing of names, texts and
titles are left out of modelled parts. `Timeline` keeps one album: a refresh, or
details that bring other sizes, lay the gallery out anew under the visitor, and that
is not modelled.

## Plan

Done, in this order: `JobLifecycle` and `ZipJob`, `BulkDownload`, `UploadQueue`
with the pool, `RateLimiter`, `ZipNames`; then `Timeline`, the viewer's three
modules, `ShareSession`, `UploadDelivery` and `ShareAuthz`.

Then the proofs, in the order of the section above; all invariants and action
properties that the runs check are theorems now, and what is "Left to TLC" is
liveness.

Next:

1. `StreamCopy`: idle watchdog, stalled peers, server deadlines.
2. `DownloadRequest`: the checks of the bulk-download request, as a function
   compared with a reference definition.
3. Rows of `TimelineLayout` that are not the last of a day fill the width up to
   rounding, from the same lemmas about a row in the making.
