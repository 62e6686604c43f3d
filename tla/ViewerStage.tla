----------------------------- MODULE ViewerStage -----------------------------
(***************************************************************************)
(* The stage of the viewer: a carousel that is swiped and stepped          *)
(* (useViewerCarousel.ts) and a zoom that is pinched, panned and wheeled    *)
(* (useViewerZoom.ts) share the pointers of the visitor.  The viewer asks  *)
(* the zoom first and withdraws the gesture from the carousel when the     *)
(* zoom owns it.  Distances are cut down to what decides: a track that is  *)
(* dragged past the threshold to a side, -1 or 1, or is not, 0; scales     *)
(* count from 1, unzoomed.                                                 *)
(***************************************************************************)
EXTENDS Integers, FiniteSets

CONSTANTS
  Count, Videos,        \* the assets of the list, 1 .. Count, and its videos
  Fingers,              \* pointers of the visitor
  MaxScale

ASSUME StageAssumption ==
  /\ Count \in Nat \ {0} /\ Videos \subseteq 1 .. Count
  /\ IsFiniteSet(Fingers) /\ MaxScale \in Nat \ {0}

VARIABLES
  s,                    \* the state of both hooks
  down,                 \* the fingers on the stage
  expected              \* history: where the steps of the visitor lead

vars == <<s, down, expected>>

Zoomed(z) == z.scale > 1
Enabled(z) == z.index \notin Videos
HasNext(z) == z.index < Count
HasPrev(z) == z.index > 1
InReach(z, dir) == z.index + dir \in 1 .. Count

-----------------------------------------------------------------------------
(* The hooks, as functions of their state.                                 *)

ClearTransitionFallback(z) == [z EXCEPT !.fallback = FALSE]
ResetMotion(z) == [ClearTransitionFallback(z) EXCEPT !.dx = 0, !.pending = 0, !.anim = FALSE]
\* Mutated CancelGesture: the track stays where it was dragged to.
CancelGestureInPlace(z) == [z EXCEPT !.drag = FALSE, !.pending = 0]

CancelGesture(z) == [ResetMotion(z) EXCEPT !.drag = FALSE]
ZoomReset(z) == [z EXCEPT !.fingers = {}, !.gesture = FALSE, !.scale = 1]

\* A new index resets the motion and, with the asset, the zoom.
GoToIndex(z, i) ==
  IF i \notin 1 .. Count \/ i = z.index THEN z
  ELSE ZoomReset(ResetMotion([z EXCEPT !.index = i]))

CommitPendingStep(z) ==
  IF z.pending = 0 THEN [z EXCEPT !.anim = FALSE]
  ELSE GoToIndex([z EXCEPT !.pending = 0, !.anim = FALSE, !.dx = 0], z.index + z.pending)

\* Mutated Landed: the new step or drag takes the place of the one in flight.
LandedOver(z) == [ClearTransitionFallback(z) EXCEPT !.pending = 0]

\* A step in flight is committed before another is taken up.
Landed(z) == IF z.pending = 0 THEN z ELSE CommitPendingStep(ClearTransitionFallback(z))

StepNow(z, dir) ==
  IF ~InReach(Landed(z), dir) THEN Landed(z)
  ELSE GoToIndex([ClearTransitionFallback(Landed(z)) EXCEPT
                    !.pending = 0, !.anim = FALSE, !.dx = 0], Landed(z).index + dir)

\* Mutated StepAnimated: the end of the transition is relied on.
StepAnimatedBare(z, dir) ==
  IF ~InReach(Landed(z), dir) THEN Landed(z)
  ELSE [Landed(z) EXCEPT !.pending = dir, !.anim = TRUE, !.dx = -dir]

StepAnimated(z, dir) ==
  IF ~InReach(Landed(z), dir) THEN Landed(z)
  ELSE [Landed(z) EXCEPT !.pending = dir, !.anim = TRUE, !.dx = -dir, !.fallback = TRUE]

CarouselDown(z, onControl) ==
  IF onControl THEN z ELSE [Landed(z) EXCEPT !.drag = TRUE, !.anim = FALSE]

CarouselMove(z, side) == IF z.drag THEN [z EXCEPT !.dx = side] ELSE z

CarouselUp(z) ==
  LET free == [z EXCEPT !.drag = FALSE] IN
  IF ~z.drag THEN z
  ELSE IF z.dx = -1 /\ HasNext(z) THEN StepAnimated(free, 1)
  ELSE IF z.dx = 1 /\ HasPrev(z) THEN StepAnimated(free, -1)
  ELSE [free EXCEPT !.anim = TRUE, !.dx = 0]

\* The zoom's part of a pointer event; it owns the event if the gesture is on
\* or, at the end of one, the asset is zoomed.
ZoomDown(z, f) ==
  IF ~Enabled(z) THEN z
  ELSE LET held == [z EXCEPT !.fingers = @ \union {f}] IN
       IF Cardinality(held.fingers) >= 2 \/ Zoomed(z) THEN [held EXCEPT !.gesture = TRUE]
       ELSE held
OwnsDown(z, f) ==
  Enabled(z) /\ (Cardinality(z.fingers \union {f}) >= 2 \/ Zoomed(z))

Pinching(z, f) == f \in z.fingers /\ Cardinality(z.fingers) >= 2
OwnsMove(z, f) == f \in z.fingers /\ (Pinching(z, f) \/ z.gesture)

ZoomUp(z, f) ==
  LET left == z.fingers \ {f} IN
  [z EXCEPT !.fingers = left, !.gesture = @ /\ left # {}]
OwnsUp(z) == z.gesture \/ Zoomed(z)

-----------------------------------------------------------------------------
Init ==
  /\ \E i \in 1 .. Count :
       /\ s = [index |-> i, pending |-> 0, fallback |-> FALSE, anim |-> FALSE, dx |-> 0,
               drag |-> FALSE, scale |-> 1, fingers |-> {}, gesture |-> FALSE]
       /\ expected = i
  /\ down = {}

\* What the visitor may expect: a step in reach is taken; one in flight is only
\* given up when the zoom takes the gesture.
Expect(dir) == expected' = IF expected + dir \in 1 .. Count THEN expected + dir ELSE expected
Withdrawn == expected' = s.index

\* Mutated HandlePointerDown: the carousel keeps what it had begun.
HandlePointerDownShared(f, onControl) ==
  /\ f \notin down
  /\ down' = down \union {f}
  /\ s' = IF OwnsDown(s, f) THEN ZoomDown(s, f)
          ELSE CarouselDown(ZoomDown(s, f), onControl)
  /\ UNCHANGED expected

HandlePointerDown(f, onControl) ==
  /\ f \notin down
  /\ down' = down \union {f}
  /\ IF OwnsDown(s, f)
       THEN s' = CancelGesture(ZoomDown(s, f)) /\ Withdrawn
       ELSE s' = CarouselDown(ZoomDown(s, f), onControl) /\ UNCHANGED expected

HandlePointerMove(f, side, scale) ==
  /\ f \in down
  /\ IF OwnsMove(s, f)
       THEN /\ s' = CancelGesture(IF Pinching(s, f) THEN [s EXCEPT !.scale = scale] ELSE s)
            /\ Withdrawn
       ELSE s' = CarouselMove(s, side) /\ UNCHANGED expected
  /\ UNCHANGED down

\* pointerup and pointercancel.
HandlePointerUp(f) ==
  /\ f \in down /\ down' = down \ {f}
  /\ IF OwnsUp(s)
       THEN s' = CancelGesture(ZoomUp(s, f)) /\ Withdrawn
       ELSE /\ s' = CarouselUp(ZoomUp(s, f))
            /\ IF s.drag /\ s.dx # 0 THEN Expect(-s.dx) ELSE UNCHANGED expected

\* The arrow keys and the arrows beside the stage.
HandleArrow(dir) ==
  /\ ~Zoomed(s)
  /\ s' = StepNow(s, dir)
  /\ Expect(dir)
  /\ UNCHANGED down

\* The wheel, the buttons and the keys of the zoom; 1 is also Escape's, 0's
\* and a double click's way out, which forgets the fingers.
SetScale(scale, reset) ==
  /\ Enabled(s) /\ scale # s.scale
  /\ s' = IF reset THEN ZoomReset(s) ELSE [s EXCEPT !.scale = scale]
  /\ reset => scale = 1
  /\ UNCHANGED <<down, expected>>

\* The viewer goes to another entry of the history.
AssetChanges(i) ==
  /\ i # s.index
  /\ s' = GoToIndex(s, i)
  /\ expected' = i
  /\ UNCHANGED down

\* The list has changed under the viewer, where the asset is still at its place: its
\* details were merged into it, or the share was refreshed.  The effect of the zoom
\* runs again.
ListRenewed == s' = ZoomReset(s) /\ UNCHANGED <<down, expected>>

\* The slide of the track is over, if the browser tells.
OnTransitionEnd ==
  /\ s.anim
  /\ s' = CommitPendingStep(ClearTransitionFallback(s))
  /\ UNCHANGED <<down, expected>>

FallbackTimer ==
  /\ s.fallback
  /\ s' = CommitPendingStep(ClearTransitionFallback(s))
  /\ UNCHANGED <<down, expected>>

StageMoves ==
  \/ \E f \in Fingers, onControl \in BOOLEAN : HandlePointerDown(f, onControl)
  \/ \E f \in Fingers, side \in {-1, 0, 1}, scale \in 1 .. MaxScale :
       HandlePointerMove(f, side, scale)
  \/ \E f \in Fingers : HandlePointerUp(f)
  \/ \E dir \in {-1, 1} : HandleArrow(dir)
  \/ \E scale \in 1 .. MaxScale, reset \in BOOLEAN : SetScale(scale, reset)
  \/ \E i \in 1 .. Count : AssetChanges(i)
  \/ OnTransitionEnd \/ FallbackTimer

Next == StageMoves \/ ListRenewed

Spec == Init /\ [][Next]_vars

\* Only the timer is sure to come: a transition that is cut short has no end.
FairSpec == Spec /\ WF_vars(FallbackTimer)

-----------------------------------------------------------------------------
(* Properties.                                                             *)

\* The zoom knows no finger that is not down, a step in flight leads to a slide,
\* and a fallback waits only for a step.
TypeOK ==
  /\ {s.index, expected} \subseteq 1 .. Count /\ s.scale \in 1 .. MaxScale
  /\ {s.pending, s.dx} \subseteq {-1, 0, 1} /\ s.index + s.pending \in 1 .. Count
  /\ {s.anim, s.drag, s.fallback, s.gesture} \subseteq BOOLEAN
  /\ s.fallback = (s.pending # 0)
  /\ s.fingers \subseteq down /\ down \subseteq Fingers

\* A pinch or a pan has the stage for itself: nothing is dragged, and no step
\* slides under it.
GestureOwnsStage == s.gesture => ~s.drag /\ s.dx = 0 /\ s.pending = 0

\* Every swipe and every key lands: the photo shown, with the step in flight,
\* is where the visitor's steps lead, however fast they follow each other.
NoStepLost == s.index + s.pending = expected

\* A track that nobody drags and that has no step in flight is centred.
TrackCentred == ~s.drag /\ s.pending = 0 => s.dx = 0

\* Gestures, drags and steps share one stage without taking from each other:
\* each has it alone, every step arrives, and the track comes back to its place.
StageSound == TypeOK /\ GestureOwnsStage /\ NoStepLost /\ TrackCentred

\* A step in flight comes to its end although the browser may not tell.
StepsEnd == s.pending # 0 ~> s.pending = 0

\* Two fingers on a photo are a pinch.
TwoFingersPinch ==
  [][\A f \in Fingers : down' = down \union {f} /\ down' # down
       /\ Cardinality(down') = 2 /\ Enabled(s) /\ s'.index = s.index => s'.gesture]_vars
=============================================================================
