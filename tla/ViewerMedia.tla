----------------------------- MODULE ViewerMedia -----------------------------
(***************************************************************************)
(* What the current slide of the stage shows: a photo, loaded by the retry *)
(* machine of utils/imageLoader.ts into an <img> or, where downloads are   *)
(* not allowed, into a canvas (ProtectedImage.tsx), or a video with its    *)
(* controls (ViewerVideoLayer.tsx).  The slide is reused: the asset and    *)
(* the zoom change under both, and so does the list that has the asset.    *)
(***************************************************************************)
EXTENDS ViewerStage, Sequences

CONSTANTS
  Protected,            \* the values of ~allowDownload
  End,                  \* the last position of a video
  MaxEvents             \* bound on the media events that wait

ASSUME MediaAssumption == Protected \subseteq BOOLEAN /\ End \in Nat /\ MaxEvents \in Nat

VARIABLES
  protected,
  l,                    \* createRetryingImage; index 0 is a null attempt
  img,                  \* the element: its source, how far it is, its event
  v, events,            \* ViewerVideoLayer with its element, the media events
  failures, kept        \* history: sources that failed since the last reset,
                        \* and whether that reset left the element as it was

mediaVars == <<protected, l, img, v, events, failures, kept>>
photoVars == <<l, img, failures, kept>>
videoVars == <<v, events>>

IsVideo(z) == z.index \in Videos
Sizes(z) == IF Zoomed(z) THEN <<"fullsize", "preview", "thumbnail">>
                         ELSE <<"preview", "thumbnail">>
NoSrc == [asset |-> 0, size |-> "", retry |-> FALSE]
SrcOf(a, z) ==
  IF a.index = 0 THEN NoSrc
  ELSE [asset |-> z.index, size |-> Sizes(z)[a.index], retry |-> a.retry]

NoElement == [src |-> NoSrc, st |-> "none", event |-> "none"]
\* The element of a slide: none for a video or the placeholder; one whose source
\* changes starts over, a canvas whenever an attempt is set.
ElementFor(a, z) ==
  IF IsVideo(z) \/ a.index = 0 THEN NoElement
  ELSE IF img.src = SrcOf(a, z) /\ ~protected THEN img
  ELSE [src |-> SrcOf(a, z), st |-> "loading", event |-> "none"]

FirstAttempt == [index |-> 1, retry |-> FALSE, timer |-> 0, loaded |-> FALSE]
\* missed is history: the bar has not been set since it was held while the time of
\* the element changed.
FreshVideo == [meta |-> FALSE, paused |-> TRUE, time |-> 0,
               playing |-> FALSE, progress |-> 0, scrubbing |-> FALSE, missed |-> FALSE]

\* Mutated ResetVideo: the bar of the video before is left.
ResetVideoKeepsBar == [FreshVideo EXCEPT !.progress = v.progress]

\* The source of the element changes with the asset, which takes the events that
\* wait away.
ResetVideo == FreshVideo

MediaInit ==
  /\ Init
  /\ protected \in Protected
  /\ l = FirstAttempt
  /\ img = IF IsVideo(s) THEN NoElement
           ELSE [src |-> SrcOf(l, s), st |-> "loading", event |-> "none"]
  /\ v = FreshVideo /\ events = <<>>
  /\ failures = {} /\ kept = FALSE

-----------------------------------------------------------------------------
(* Photos.                                                                 *)

\* Mutated ResetLoader: the timer of a retry survives the reset.
ResetLoaderKeepsTimer(z) ==
  LET same == ~IsVideo(z) /\ ~protected /\ img.src = SrcOf(FirstAttempt, z) IN
  /\ l' = [FirstAttempt EXCEPT !.timer = l.timer,
                               !.loaded = same /\ img.st = "ok"]
  /\ img' = ElementFor(FirstAttempt, z)
  /\ failures' = (IF same THEN failures \intersect {img.src} ELSE {})
  /\ kept' = same

\* Mutated ResetLoader: a slide that was loaded stays so.
ResetLoaderKeepsLoaded(z) ==
  LET same == ~IsVideo(z) /\ ~protected /\ img.src = SrcOf(FirstAttempt, z) IN
  /\ l' = [FirstAttempt EXCEPT !.loaded = l.loaded]
  /\ img' = ElementFor(FirstAttempt, z)
  /\ failures' = (IF same THEN failures \intersect {img.src} ELSE {})
  /\ kept' = same

\* The reset on a new key or ladder.  An element whose source stays the same is
\* not loaded again: checkAlreadyComplete tells whether it is complete.
ResetLoader(z) ==
  LET same == ~IsVideo(z) /\ ~protected /\ img.src = SrcOf(FirstAttempt, z) IN
  /\ l' = [FirstAttempt EXCEPT !.loaded = same /\ img.st = "ok"]
  /\ img' = ElementFor(FirstAttempt, z)
  /\ failures' = (IF same THEN failures \intersect {img.src} ELSE {})
  /\ kept' = same

Attempt(a) == l' = a /\ img' = ElementFor(a, s)

\* The browser ends a download and tells by an event.
Fetch(st) ==
  /\ img.st = "loading"
  /\ img' = [img EXCEPT !.st = st, !.event = IF st = "ok" THEN "load" ELSE "error"]
  /\ failures' = IF st = "ok" THEN failures ELSE failures \union {img.src}
  /\ UNCHANGED <<vars, protected, l, videoVars, kept>>

OnLoad ==
  /\ img.event = "load"
  /\ img' = [img EXCEPT !.event = "none"]
  /\ l' = [l EXCEPT !.loaded = TRUE]
  /\ UNCHANGED <<vars, protected, videoVars, failures, kept>>

\* Mutated OnError: the last size has no retry, and no placeholder after it.
OnErrorStops ==
  /\ img.event = "error"
  /\ IF l.timer # 0 \/ l.index = Len(Sizes(s))
       THEN UNCHANGED l /\ img' = [img EXCEPT !.event = "none"]
     ELSE IF ~l.retry
       THEN l' = [l EXCEPT !.timer = l.index] /\ img' = [img EXCEPT !.event = "none"]
     ELSE Attempt([l EXCEPT !.index = @ + 1, !.retry = FALSE])
  /\ UNCHANGED <<vars, protected, videoVars, failures, kept>>

OnError ==
  /\ img.event = "error"
  /\ IF l.index = 0 \/ l.timer # 0
       THEN UNCHANGED l /\ img' = [img EXCEPT !.event = "none"]
     ELSE IF ~l.retry
       THEN l' = [l EXCEPT !.timer = l.index] /\ img' = [img EXCEPT !.event = "none"]
     ELSE IF l.index < Len(Sizes(s))
       THEN Attempt([l EXCEPT !.index = @ + 1, !.retry = FALSE])
     ELSE Attempt([l EXCEPT !.index = 0, !.retry = FALSE])
  /\ UNCHANGED <<vars, protected, videoVars, failures, kept>>

RetryTimer ==
  /\ l.timer # 0
  /\ Attempt([l EXCEPT !.index = l.timer, !.retry = TRUE, !.timer = 0])
  /\ UNCHANGED <<vars, protected, videoVars, failures, kept>>

-----------------------------------------------------------------------------
(* Videos.  The media element queues its events.                           *)

OnVideo == IsVideo(s) /\ Len(events) < MaxEvents
           /\ UNCHANGED <<vars, protected, photoVars>>

LoadMetadata ==
  /\ OnVideo /\ ~v.meta
  /\ v' = [v EXCEPT !.meta = TRUE]
  /\ UNCHANGED events

\* By a pointer or a key, while the bar is held or not.
TogglePlay ==
  /\ OnVideo
  /\ IF v.paused
       THEN /\ v' = [v EXCEPT !.paused = FALSE, !.time = IF @ = End THEN 0 ELSE @]
            /\ events' = events \o IF v.time = End THEN <<"play", "timeupdate">> ELSE <<"play">>
       ELSE /\ v' = [v EXCEPT !.paused = TRUE]
            /\ events' = events \o <<"timeupdate", "pause">>

Playback ==
  /\ OnVideo /\ v.meta /\ ~v.paused
  /\ IF v.time + 1 < End
       THEN /\ v' = [v EXCEPT !.time = @ + 1]
            /\ events' = Append(events, "timeupdate")
       ELSE /\ v' = [v EXCEPT !.time = End, !.paused = TRUE]
            /\ events' = events \o <<"timeupdate", "pause", "ended">>

Seek(w, p) ==
  IF w.meta THEN [w EXCEPT !.time = p, !.progress = p, !.missed = FALSE] ELSE w
Sought == IF v.meta THEN Append(events, "timeupdate") ELSE events

OnBarPointerDown(p) ==
  /\ OnVideo
  /\ v' = Seek([v EXCEPT !.scrubbing = TRUE], p) /\ events' = Sought

OnBarPointerMove(p) ==
  /\ OnVideo /\ v.scrubbing
  /\ v' = Seek(v, p) /\ events' = Sought

OnBarPointerUp ==
  /\ OnVideo /\ v.scrubbing
  /\ v' = [v EXCEPT !.scrubbing = FALSE]
  /\ UNCHANGED events

\* onPlay, onPause, onEnded and onTimeUpdate.
Handled(w, event) ==
  CASE event = "play" -> [w EXCEPT !.playing = TRUE]
    [] event = "pause" -> [w EXCEPT !.playing = FALSE]
    [] event = "ended" -> [w EXCEPT !.playing = FALSE, !.progress = 0]
    [] event = "timeupdate" ->
         IF ~w.meta THEN w
         ELSE IF w.scrubbing THEN [w EXCEPT !.missed = TRUE]
         ELSE [w EXCEPT !.progress = w.time, !.missed = FALSE]

MediaEvent ==
  /\ events # <<>> /\ events' = Tail(events)
  /\ v' = Handled(v, Head(events))
  /\ UNCHANGED <<vars, protected, photoVars>>

\* Mutated RenewVideo: the element plays on.
RenewVideoPlaying ==
  /\ Len(events) < MaxEvents
  /\ v' = [v EXCEPT !.playing = FALSE, !.progress = 0, !.scrubbing = FALSE, !.missed = FALSE,
                    !.time = 0]
  /\ events' = Sought

\* The effect of ViewerVideoLayer runs again for the asset it has: the element is
\* paused and taken to its start, and its events wait behind those of before.
RenewVideo ==
  /\ Len(events) < MaxEvents
  /\ v' = [v EXCEPT !.playing = FALSE, !.progress = 0, !.scrubbing = FALSE, !.missed = FALSE,
                    !.paused = TRUE, !.time = 0]
  /\ events' = events \o (IF v.paused THEN <<>> ELSE <<"timeupdate", "pause">>)
                      \o (IF v.meta THEN <<"timeupdate">> ELSE <<>>)

-----------------------------------------------------------------------------
\* A step of the stage: a new asset resets the video and, as a new ladder does,
\* the loader.
StageStep ==
  /\ StageMoves
  /\ IF s'.index = s.index THEN UNCHANGED videoVars
     ELSE v' = ResetVideo /\ events' = <<>>
  /\ IF s'.index = s.index /\ Sizes(s') = Sizes(s)
       THEN l' = l /\ UNCHANGED <<img, failures, kept>>
       ELSE ResetLoader(s')
  /\ UNCHANGED protected

\* A renewed list resets both for the asset they have.
RenewalStep ==
  /\ ListRenewed
  /\ IF IsVideo(s) THEN RenewVideo ELSE UNCHANGED videoVars
  /\ ResetLoader(s')
  /\ UNCHANGED protected

PhotoStep == (\E st \in {"ok", "broken"} : Fetch(st)) \/ OnLoad \/ OnError \/ RetryTimer

VideoStep ==
  \/ LoadMetadata \/ TogglePlay \/ Playback \/ OnBarPointerUp \/ MediaEvent
  \/ \E p \in 0 .. End : OnBarPointerDown(p) \/ OnBarPointerMove(p)

MediaNext == StageStep \/ RenewalStep \/ PhotoStep \/ VideoStep

MediaSpec == MediaInit /\ [][MediaNext]_<<vars, mediaVars>>
FairMediaSpec == MediaSpec /\ WF_vars(FallbackTimer /\ StageStep)

-----------------------------------------------------------------------------
(* Properties.                                                             *)

\* The loader is within the ladder of its slide, a retry is one of the size that
\* failed, and the element is the one of the attempt.
MediaTypeOK ==
  /\ l.index \in 0 .. Len(Sizes(s)) /\ l.timer \in {0, l.index}
  /\ {l.retry, l.loaded, protected, kept} \subseteq BOOLEAN
  /\ img.st \in {"none", "loading", "ok", "broken"}
  /\ img.event \in {"none", "load", "error"}
  /\ img.src = IF IsVideo(s) THEN NoSrc ELSE SrcOf(l, s)
  /\ {v.time, v.progress} \subseteq 0 .. End /\ {v.meta, v.paused, v.playing} \subseteq BOOLEAN

\* A slide that says it is loaded shows the photo of its own asset, whatever
\* was loaded, failed or waited for in it before.
LoadedIsShown ==
  l.loaded /\ ~IsVideo(s) => img.st = "ok" /\ img.src = SrcOf(l, s)

\* A size is given up only when it and its retry have failed for this asset.
NoSizeSkipped ==
  LET tried == IF l.index = 0 THEN Len(Sizes(s)) ELSE l.index - 1 IN
  ~IsVideo(s) =>
    \A i \in 1 .. tried, retry \in BOOLEAN :
      [asset |-> s.index, size |-> Sizes(s)[i], retry |-> retry] \in failures

\* When nothing is under way the photo is loaded or its placeholder shown.
PhotoSettled ==
  ~IsVideo(s) /\ img.st # "loading" /\ img.event = "none" /\ l.timer = 0
    => l.loaded \/ l.index = 0

\* The same unless the last reset left the element as it was: a broken one tells
\* of no error again.
PhotoSettledUnlessKept == PhotoSettled \/ kept

\* What a slide shows is of its photo, at the best size that could be loaded, or
\* it says that there is none.
PhotoHonest == MediaTypeOK /\ LoadedIsShown /\ NoSizeSkipped /\ PhotoSettledUnlessKept

\* With no event waiting the button tells whether the video plays, and the bar of
\* one that rests tells where it is, or its start after an end, although a reset
\* may fall between an event and its handler.  A bar is excused that was held when
\* the time of the element changed otherwise, and has not been set since.
VideoControlsTell ==
  events = <<>> =>
    /\ v.playing = ~v.paused
    /\ v.paused /\ ~v.scrubbing /\ v.meta =>
         \/ v.progress = v.time
         \/ v.progress = 0 /\ v.time = End
         \/ v.missed
=============================================================================
