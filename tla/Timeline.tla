------------------------------ MODULE Timeline ------------------------------
(***************************************************************************)
(* The gallery of a share: the rows in the DOM, the rows whose images are  *)
(* loaded, and the scrubber that jumps through them (AssetTimeline.tsx,    *)
(* TimelineScrubber.tsx).  Everything is derived from a scroll position    *)
(* that is read one animation frame late and from an offset of the box     *)
(* that is measured now and then; a scrubber drag freezes image loads      *)
(* until a timer has found the position at rest.                           *)
(***************************************************************************)
EXTENDS TimelineLayout

CONSTANTS
  Albums,               \* the asset lists a share may have
  Widths, ViewportH,    \* sizes of the box, height of the viewport
  BoxTops,              \* offsets of the box as the top bar collapses
  Metrics,              \* readMetrics: rowHeight, gap, headerHeight, groupSpacing
  Positions,            \* places the user may scroll to
  GroupTopBias, BottomBias,
  MaxMoves              \* bound on what the user does

\* Every asset is known by its place in its album; a row holds a narrow photo
\* and gaps are thin beside it, and the top bar is no higher than what is
\* rendered beyond the viewport.
ASSUME TimelineAssumption ==
  /\ \A a \in Albums : a \in Seq(Asset) /\ a # <<>> /\ \A i \in DOMAIN a : a[i].id = i
  /\ Metrics \in LayoutMetrics /\ Metrics.rowHeight >= 3
  /\ 3 * Metrics.gap <= Metrics.rowHeight
  /\ \A w \in Widths : w \in Nat /\ w >= 3 * Metrics.gap + 11
  /\ ViewportH \in Nat /\ MaxMoves \in Nat /\ Positions \subseteq Int
  /\ GroupTopBias \in Int /\ BottomBias \in Int
  /\ \A t, u \in BoxTops : t \in Nat /\ t - u <= (3 * ViewportH) \div 2

VARIABLES
  album,
  boxWidth, boxTop, scrollTop,      \* the browser's
  width, layout, cachedTop,         \* as last measured
  scrolled,                         \* layoutScrollTop
  fast, load, settle,               \* fastScroll, loadRange, the settle timer
  frames,                           \* animation frame callbacks, oldest first
  pointer,                          \* what holds the scrubber
  dragging, bubble,                 \* isDragging, the date in the bubble
  moves,
  \* history
  quiet,                            \* no jump since the settle timer last fired
  relaid,                           \* resized or put back since it was scrolled
  reading, captured                 \* where a gallery at rest was when it was resized,
                                    \* and whether captureAnchor found it
browserVars == <<boxWidth, boxTop, scrollTop>>
measureVars == <<width, layout, cachedTop>>
loadVars == <<scrolled, fast, load, settle>>
scrubVars == <<pointer, dragging, bubble>>
readVars == <<relaid, reading, captured>>
histVars == <<quiet, readVars>>
vars == <<album, browserVars, measureVars, loadVars, frames, scrubVars, moves, histVars>>

Overscan == (3 * ViewportH) \div 2
RangeAt(l, top) == ComputeRowRange(l, top - Overscan, top + ViewportH + Overscan)
RenderRange == RangeAt(layout, scrolled)
LayoutFor(w) == ComputeTimelineLayout(GroupAssetsByDate(album), w, Metrics)

\* The first asset row that ends below a position, and where the position is in
\* it; history of the properties, so what captureAnchor should have found.
TopAnchor(l, top) ==
  LET below == {i \in DOMAIN l.rows :
                  l.rows[i].kind = "assets" /\ l.rows[i].top + l.rows[i].height > top}
      row == l.rows[Min(below)]
  IN IF below = {} THEN NoAnchor ELSE [id |-> row.items[1].id, offset |-> top - row.top]

MaxScroll(l, top) == Max({0, top + l.totalHeight - ViewportH})
Clamped(p, l, top) == Max({0, Min({p, MaxScroll(l, top)})})

-----------------------------------------------------------------------------
(* The derivations of a position: each action ends with one of them.       *)

Sync == [kind |-> "sync", anchor |-> NoAnchor]
Settle == [kind |-> "settle", anchor |-> NoAnchor]
Restore(a) == [kind |-> "anchor", anchor |-> a]

Scheduled(q, call) ==
  IF \E i \in DOMAIN q : q[i].kind = call.kind THEN q ELSE Append(q, call)
ScheduleSync(q) == Scheduled(q, Sync)

SyncsOf(q) == {i \in DOMAIN q : q[i].kind = "sync"}
CancelSync(q) == IF SyncsOf(q) = {} THEN q ELSE RemoveAt(q, Min(SyncsOf(q)))

\* The effect that lets the loads catch up with the rows unless frozen.
CatchUp(l, top) == load' = IF fast' THEN load ELSE RangeAt(l, top)

Teleports(top) ==
  (IF top > scrolled THEN top - scrolled ELSE scrolled - top) > (3 * ViewportH) \div 4

\* Mutated SyncScroll: a position that jumps is not followed until it rests.
SyncScrollHeld(top) ==
  /\ scrolled' = IF Teleports(top) THEN scrolled ELSE top
  /\ quiet' = (quiet /\ ~Teleports(top))
  /\ fast' = (fast \/ Teleports(top))
  /\ settle' = (settle \/ Teleports(top))

SyncScroll(top) ==
  /\ scrolled' = top
  /\ quiet' = (quiet /\ ~Teleports(top))
  /\ fast' = (fast \/ Teleports(top))
  /\ settle' = (settle \/ Teleports(top))

\* The date group at a position of the container, for a box at an offset; the
\* last one at its end.
GroupAt(p, top, bottom) ==
  IF p >= bottom - BottomBias THEN layout.groups[Len(layout.groups)].date
  ELSE FindGroupAt(layout, p - top + GroupTopBias).date
GroupAtScrollTop(p) == GroupAt(p, cachedTop, MaxScroll(layout, boxTop))

\* Mutated ScrolledTo: one pending frame is taken to be enough.
ScrolledToOnce(p, q) ==
  /\ scrollTop' = p
  /\ frames' = IF p = scrollTop \/ q # <<>> THEN q
               ELSE Scheduled(ScheduleSync(q), [Sync EXCEPT !.kind = "bubble"])

\* The container is at p, by whatever hand: its scroll event schedules a sync
\* of the rows and, unless a drag is on, an update of the bubble.
ScrolledTo(p, q) ==
  /\ scrollTop' = p
  /\ frames' = IF p = scrollTop THEN q
               ELSE IF dragging THEN ScheduleSync(q)
               ELSE Scheduled(ScheduleSync(q), [Sync EXCEPT !.kind = "bubble"])

-----------------------------------------------------------------------------
Init ==
  /\ album \in Albums
  /\ boxWidth \in Widths /\ width = boxWidth
  /\ boxTop \in BoxTops /\ cachedTop = boxTop
  /\ layout = LayoutFor(width)
  /\ scrollTop = 0 /\ scrolled = -cachedTop
  /\ fast = FALSE /\ settle = FALSE
  /\ load = RenderRange
  /\ frames = <<>>
  /\ pointer = "none" /\ dragging = FALSE /\ bubble = GroupAtScrollTop(0)
  /\ moves = 0
  /\ quiet = TRUE /\ relaid = FALSE /\ reading = NoAnchor /\ captured = FALSE

\* The user scrolls the gallery, which the shield of a drag prevents; the top
\* bar may collapse or come back.
Scroll(p) ==
  /\ ~dragging
  /\ moves < MaxMoves /\ moves' = moves + 1
  /\ boxTop' \in BoxTops
  /\ relaid' = FALSE /\ reading' = NoAnchor /\ captured' = FALSE
  /\ Clamped(p, layout, boxTop') # scrollTop
  /\ ScrolledTo(Clamped(p, layout, boxTop'), frames)
  /\ UNCHANGED <<album, boxWidth, measureVars, loadVars, scrubVars, quiet>>

\* Mutated RunSync: the loads follow the position while it jumps.
RunSyncUnfrozen ==
  /\ frames # <<>> /\ Head(frames).kind = "sync"
  /\ frames' = Tail(frames)
  /\ SyncScroll(scrollTop - cachedTop) /\ load' = RangeAt(layout, scrolled')
  /\ UNCHANGED <<album, browserVars, measureVars, scrubVars, moves, readVars>>

RunSync ==
  /\ frames # <<>> /\ Head(frames).kind = "sync"
  /\ frames' = Tail(frames)
  /\ SyncScroll(scrollTop - cachedTop) /\ CatchUp(layout, scrolled')
  /\ UNCHANGED <<album, browserVars, measureVars, scrubVars, moves, readVars>>

SettleTimer ==
  /\ settle
  /\ settle' = FALSE /\ quiet' = TRUE
  /\ frames' = Append(frames, Settle)
  /\ UNCHANGED <<album, browserVars, measureVars, scrolled, fast, load, scrubVars, moves, readVars>>

\* Mutated RunSettle: a timer that was armed again while its frame waited
\* leaves the gallery frozen, and the position is taken for the rest.
RunSettleFrozen ==
  /\ frames # <<>> /\ Head(frames).kind = "settle"
  /\ frames' = Tail(frames)
  /\ scrolled' = scrollTop - boxTop /\ cachedTop' = boxTop
  /\ settle' = (settle /\ fast)
  /\ UNCHANGED <<fast, load, quiet>>
  /\ UNCHANGED <<album, browserVars, width, layout, scrubVars, moves, readVars>>

RunSettle ==
  /\ frames # <<>> /\ Head(frames).kind = "settle"
  /\ frames' = Tail(frames)
  /\ IF settle THEN UNCHANGED <<cachedTop, loadVars, quiet>>
     ELSE LET top == scrollTop - boxTop IN
          /\ cachedTop' = boxTop
          /\ scrolled' = top
          /\ settle' = Teleports(top)
          /\ fast' = Teleports(top)
          /\ quiet' = (quiet /\ ~Teleports(top))
          /\ CatchUp(layout, top)
  /\ UNCHANGED <<album, browserVars, width, layout, scrubVars, moves, readVars>>

-----------------------------------------------------------------------------
(* A width change: the asset at the top is remembered by measure and put   *)
(* back in the next frame.                                                 *)

\* Mutated Measure: the anchor is looked for in the layout of the new width.
MeasureLate(q) ==
  LET anchor == IF boxWidth' = width \/ width = 0 THEN NoAnchor
                ELSE CaptureAnchor(LayoutFor(boxWidth'), scrolled)
  IN /\ width' = boxWidth'
     /\ layout' = LayoutFor(width')
     /\ cachedTop' = boxTop
     /\ CatchUp(layout', scrolled)
     /\ ScrolledTo(Clamped(scrollTop, layout', boxTop),
                   IF anchor = NoAnchor THEN q ELSE Append(q, Restore(anchor)))

Measure(q) ==
  LET anchor == IF boxWidth' = width \/ width = 0 THEN NoAnchor
                ELSE CaptureAnchor(layout, scrolled)
  IN /\ width' = boxWidth'
     /\ layout' = LayoutFor(width')
     /\ cachedTop' = boxTop
     /\ CatchUp(layout', scrolled)
     /\ ScrolledTo(Clamped(scrollTop, layout', boxTop),
                   IF anchor = NoAnchor THEN q ELSE Append(q, Restore(anchor)))

\* The window is resized (onResize), or only the box (ResizeObserver).
Resize(w, ofWindow) ==
  /\ moves < MaxMoves /\ moves' = moves + 1
  /\ w # boxWidth /\ boxWidth' = w
  /\ UNCHANGED <<scrolled, fast, settle>>
  /\ relaid' = TRUE
  /\ reading' = IF frames # <<>> \/ fast THEN NoAnchor ELSE TopAnchor(layout, scrolled)
  /\ captured' = (CaptureAnchor(layout, scrolled) # NoAnchor)
  /\ Measure(IF ofWindow THEN ScheduleSync(frames) ELSE frames)
  /\ UNCHANGED <<album, boxTop, scrubVars, quiet>>

\* settleNow: no timer, no sync pending, the position as it is.
RunRestore ==
  /\ frames # <<>> /\ Head(frames).kind = "anchor"
  /\ LET a == Head(frames).anchor
         p == Clamped(RestoreAnchor(layout, a) + boxTop, layout, boxTop)
     IN IF AnchorRows(layout, a) = {}
          THEN frames' = Tail(frames) /\ UNCHANGED <<scrollTop, cachedTop, loadVars, quiet>>
          ELSE /\ ScrolledTo(p, CancelSync(Tail(frames)))
               /\ cachedTop' = boxTop
               /\ scrolled' = p - boxTop
               /\ settle' = Teleports(p - boxTop)
               /\ fast' = FALSE /\ quiet' = TRUE
               /\ CatchUp(layout, p - boxTop)
  /\ relaid' = TRUE
  /\ UNCHANGED <<album, boxWidth, boxTop, width, layout, scrubVars, moves, reading, captured>>

-----------------------------------------------------------------------------
(* The scrubber.                                                           *)

\* updateScrubberPosition with isDrag: the bubble first, then the container.
DragTo(p) ==
  LET target == Clamped(p, layout, boxTop) IN
  /\ moves < MaxMoves /\ moves' = moves + 1
  /\ bubble' = GroupAtScrollTop(target)
  /\ scrollTop' = target
  /\ relaid' = FALSE /\ reading' = NoAnchor /\ captured' = FALSE
  /\ frames' = IF target = scrollTop THEN frames ELSE ScheduleSync(frames)
  /\ UNCHANGED <<album, boxWidth, boxTop, measureVars, loadVars, quiet>>

Press(hand, p) ==
  /\ Len(layout.groups) > 1
  /\ pointer = "none" /\ pointer' = hand
  /\ dragging' = TRUE
  /\ DragTo(p)

Drag(p) ==
  /\ pointer # "none"
  /\ DragTo(p)
  /\ UNCHANGED <<pointer, dragging>>

\* mouseup and touchend; a touch that the browser cancels has no handler.
Release ==
  /\ pointer # "none" /\ pointer' = "none"
  /\ dragging' = FALSE
  /\ UNCHANGED <<album, browserVars, measureVars, loadVars, frames, bubble, moves, histVars>>

TouchCancel ==
  /\ pointer = "touch" /\ pointer' = "none"
  /\ UNCHANGED <<album, browserVars, measureVars, loadVars, frames, dragging, bubble>>
  /\ UNCHANGED <<moves, histVars>>

\* updateScrollPosition, in the frame handleScroll asked for.
RunBubble ==
  /\ frames # <<>> /\ Head(frames).kind = "bubble"
  /\ frames' = Tail(frames)
  /\ bubble' = GroupAtScrollTop(scrollTop)
  /\ UNCHANGED <<album, browserVars, measureVars, loadVars, pointer, dragging, moves, histVars>>

Frame == RunSync \/ RunSettle \/ RunRestore \/ RunBubble

Next ==
  \/ \E p \in Positions : Scroll(p)
  \/ \E w \in Widths, ofWindow \in BOOLEAN : Resize(w, ofWindow)
  \/ \E hand \in {"mouse", "touch"}, p \in Positions : Press(hand, p)
  \/ \E p \in Positions : Drag(p)
  \/ Release \/ TouchCancel
  \/ SettleTimer \/ Frame

Spec == Init /\ [][Next]_vars

\* Frames and timers come, and a pointer is let go; the user need do nothing.
FairSpec == Spec /\ WF_vars(Frame) /\ WF_vars(SettleTimer) /\ WF_vars(Release)

-----------------------------------------------------------------------------
(* Properties.                                                             *)

Waiting(kind) == {i \in DOMAIN frames : frames[i].kind = kind}

\* The layout is the one of the album and the measured width, the browser is
\* never past its ends, calls of one kind share a frame, and what is frozen has
\* the timer or the frame that will thaw it.
TypeOK ==
  /\ album \in Albums /\ {boxWidth, width} \subseteq Widths /\ layout = LayoutFor(width)
  /\ {boxTop, cachedTop} \subseteq BoxTops /\ scrollTop = Clamped(scrollTop, layout, boxTop)
  /\ {fast, settle, dragging, quiet, relaid, captured} \subseteq BOOLEAN
  /\ {load.start, load.end} \subseteq Int
  /\ \A kind \in {"sync", "bubble"} : \A i, j \in Waiting(kind) : i = j
  /\ fast => settle \/ Waiting("settle") # {}
  /\ pointer \in {"none", "mouse", "touch"} /\ (pointer # "none" => dragging)
  /\ bubble \in {a.day : a \in Range(album)} /\ moves \in 0 .. MaxMoves

\* A layout has every asset of the album once, newest day first and newest asset
\* of a day first, in rows that do not overlap, stay within the width and within
\* twice the target height (computeTimelineLayout).
ShownBefore(i, j) ==
  \/ album[i].day > album[j].day
  \/ album[i].day = album[j].day /\ Newer(album, i, j)
LayoutSound ==
  LET rows == layout.rows IN
  /\ \A a \in Range(album) : AnchorRows(layout, a) # {}
  /\ \A i, j \in DOMAIN rows : \A k \in DOMAIN rows[i].items, n \in DOMAIN rows[j].items :
       i < j \/ (i = j /\ k < n) => ShownBefore(rows[i].items[k].id, rows[j].items[n].id)
  /\ \A i, j \in DOMAIN rows : i < j => rows[i].top + rows[i].height <= rows[j].top
  /\ \A i \in DOMAIN rows : rows[i].kind = "assets" => rows[i].height <= 2 * Metrics.rowHeight
  /\ \A i \in DOMAIN rows : \A k, n \in DOMAIN rows[i].items :
       LET item == rows[i].items[k] IN
       /\ item.left + item.width <= width
       /\ k < n => item.left + item.width <= rows[i].items[n].left

\* The gallery stands on a sound layout and its bookkeeping.
GallerySound == TypeOK /\ LayoutSound

\* Once the frames have run, every row the viewport shows is in the DOM,
\* although the position is read late and the top bar may have collapsed since
\* the box was measured.
VisibleRowsRendered ==
  frames = <<>> =>
    \A i \in DOMAIN layout.rows :
      LET top == layout.rows[i].top + boxTop - scrollTop IN
      top < ViewportH /\ top + layout.rows[i].height > 0
        => i \in RenderRange.start .. RenderRange.end

\* Images start to load only where the gallery is, and after a jump only once
\* a settle timer has gone off without another jump since.
LoadsAtRest ==
  [][load' # load /\ layout' = layout => quiet' /\ scrolled' = scrollTop' - cachedTop']_vars

\* When a gallery at rest was resized, the row at its top is where it was once
\* the frames have run, as far as the gallery can scroll.
TopRowKept ==
  frames = <<>> /\ reading # NoAnchor =>
    scrollTop = Clamped(RestoreAnchor(layout, reading) + boxTop, layout, boxTop)

\* The same where captureAnchor found an asset.
CapturedRowKept == captured => TopRowKept

\* Once the frames have run, the bubble of the scrubber names the day the gallery
\* is at, unless a relayout moved the days under it since; the offset of the box
\* it was found with may be of before the top bar moved.
BubbleNamesDay ==
  frames = <<>> /\ ~relaid =>
    \E top, bottom \in BoxTops :
      bubble = GroupAt(scrollTop, top, MaxScroll(layout, bottom))

\* A frozen gallery thaws, and the images it loads catch up with the rows.
LoadsCatchUp == fast ~> (~fast /\ load = RenderRange)

\* What the frames leave behind fits the position: the rows in the DOM, the day
\* the scrubber names, the row that was put back.
FramesCatchUp == VisibleRowsRendered /\ BubbleNamesDay /\ CapturedRowKept

\* The shield over the photos is there only while a pointer holds the scrubber.
ShieldOnlyWhileDragging == dragging => pointer # "none"
=============================================================================
