-------------------------------- MODULE Viewer --------------------------------
(***************************************************************************)
(* Opening, leafing through and closing the photo viewer (AssetViewer.tsx) *)
(* over the session history of the browser, where every photo looked at is *)
(* an entry, and the view transitions that carry the opening and the       *)
(* closing (utils/viewTransitions.ts).  Photos are numbered by their place *)
(* in the album and 0 is no photo: the gallery.  A traversal of the        *)
(* history, the push of an entry and the update of a transition all come   *)
(* later than they are asked for.                                          *)
(***************************************************************************)
EXTENDS Integers, Sequences

CONSTANTS
  PhotoCount,           \* photos of the album
  MaxMoves              \* bound on what the user does

ASSUME SizesAssumption == PhotoCount \in Nat \ {0} /\ MaxMoves \in Nat

VARIABLES
  entries, pos, hops,   \* the browser's history, and the traversals it owes, with
                        \* the move of the user a lone close is of
  selected,             \* selectedAssetIndex: the viewer is mounted when not 0
  viewerDepth, lastHistoryId,
  push,                 \* the photo historyPushTimer will push
  opened,               \* how far onMount came: see Mount
  sequence, sessions,   \* transitionSequence, the transitions not finished
  styled,               \* data-viewer-transition is on the document
  moves,
  \* history
  newest,               \* what was asked of the newest transition
  lost                  \* the last photo shown was left without an entry

historyVars == <<entries, pos, hops>>
viewerVars == <<selected, viewerDepth, lastHistoryId, push, opened>>
transitionVars == <<sequence, sessions, styled, newest>>
allVars == <<historyVars, viewerVars, transitionVars, moves, lost>>

Photos == 1 .. PhotoCount
Gallery == [photo |-> 0, depth |-> 0]
Outside == [photo |-> 0, depth |-> -1]      \* the page before the share

AssetIdFromHash(entry) == entry.photo
HasLeft == entries[pos] = Outside

\* The page was left, or the listeners of a viewer that was not opened as a whole
\* have outlived it: nothing is said of what they do from then on.
Over == HasLeft \/ opened = "leaked"
Spend == moves < MaxMoves /\ ~Over /\ moves' = moves + 1

-----------------------------------------------------------------------------
(* The viewer and its entries.                                             *)

PushEntry(photo, depth) ==
  /\ entries' = Append(SubSeq(entries, 1, pos), [photo |-> photo, depth |-> depth])
  /\ pos' = pos + 1

\* closeViewer.  onCleanup is registered after the first push.
Unmount ==
  /\ selected' = 0 /\ push' = 0
  /\ opened' = IF opened = "whole" THEN opened ELSE "leaked"

\* selectAsset in the gallery mounts the viewer.  onMount counts its entry and
\* pushes it; when pushState throws, the rest of onMount and of selectAsset is
\* skipped: the viewer is on the screen with no index ("blank"), and will never
\* arm a push.
Mount(i) ==
  /\ selected' = i /\ push' = 0
  /\ viewerDepth' = 1 /\ lastHistoryId' = i
  /\ \/ PushEntry(i, 1) /\ opened' = "whole"
     \/ UNCHANGED <<entries, pos>> /\ opened' = "blank"

\* Mutated Show: the push that is due is kept when the user leafs on.
ShowFirst(i) ==
  /\ selected' = i
  /\ lastHistoryId' = i
  /\ push' = IF push # 0 THEN push ELSE i
  /\ UNCHANGED <<entries, pos, viewerDepth, opened>>

\* selectAsset while the viewer is open, and the effect that arms the push, unless
\* the first one was refused.  A blank viewer has its index from now on.
Show(i) ==
  /\ selected' = i
  /\ IF opened = "whole"
       THEN /\ lastHistoryId' = i
            /\ push' = IF i = lastHistoryId THEN push ELSE i
            /\ UNCHANGED opened
       ELSE opened' = "lame" /\ UNCHANGED <<lastHistoryId, push>>
  /\ UNCHANGED <<entries, pos, viewerDepth>>

SelectAsset(i) == IF selected = 0 THEN Mount(i) ELSE Show(i)

\* The state change a transition is asked for: a photo, or 0 for closeViewer.
Perform(update) ==
  IF update = 0 THEN Unmount /\ UNCHANGED <<entries, pos, viewerDepth, lastHistoryId>>
                ELSE SelectAsset(update)

-----------------------------------------------------------------------------
(* View transitions.  A session names the tile that is to travel: before   *)
(* the update when the viewer opens, from the update on when it closes,    *)
(* and never the tile of a video or one that is not in the DOM.  The other *)
(* end, the photo in the viewer, is named by the style sheet for as long   *)
(* as the attribute is on the document.                                    *)

Names(update, element) ==
  CASE element = "old" -> IF update # 0 THEN {"old", "none"} ELSE {"none"}
    [] element = "new" -> IF update = 0 THEN {"new", "none"} ELSE {"none"}

Cleaned == {[s EXCEPT !.named = "none"] : s \in sessions}

\* A session records whether the viewer was on the screen when it was asked for.
Sessions(update) ==
  {[seq |-> sequence + 1, update |-> update, updated |-> FALSE, named |-> name,
    over |-> selected # 0] : name \in Names(update, "old")}

\* Where transitions are missing, unwanted or throw, the update runs at once.
RunAtOnce(update) ==
  /\ sessions' = Cleaned /\ styled' = FALSE
  /\ Perform(update)

\* Mutated StartTransition: the session before keeps the name.
StartTransitionOver(update) ==
  /\ \E s \in Sessions(update) : sessions' = sessions \union {s}
  /\ styled' = TRUE
  /\ UNCHANGED <<entries, pos, viewerVars>>

\* Otherwise in the callback; the old session has been cleaned by then.
StartTransition(update) ==
  /\ \E s \in Sessions(update) : sessions' = Cleaned \union {s}
  /\ styled' = TRUE
  /\ UNCHANGED <<entries, pos, viewerVars>>

RunViewerTransition(update) ==
  /\ sequence' = sequence + 1
  /\ newest' = update
  /\ RunAtOnce(update) \/ StartTransition(update)

\* closeWithTransition, by a visitor or by the history: the push that is pending
\* has been cancelled before.
CloseWithTransition ==
  /\ sequence' = sequence + 1
  /\ newest' = 0
  /\ \/ sessions' = Cleaned /\ styled' = FALSE /\ Unmount
     \/ /\ \E s \in Sessions(0) : sessions' = Cleaned \union {s}
        /\ styled' = TRUE
        /\ push' = 0
        /\ UNCHANGED <<selected, opened>>
  /\ UNCHANGED lastHistoryId

CalledBack(s, name) == [s EXCEPT !.updated = TRUE, !.named = name]

\* Mutated UpdateCallback: every session that is called back performs.
UpdateCallbackStale(s) ==
  /\ ~s.updated /\ ~Over
  /\ Perform(s.update)
  /\ sessions' = (sessions \ {s}) \union {CalledBack(s, "none")}
  /\ UNCHANGED <<hops, sequence, styled, newest, moves, lost>>

\* Mutated UpdateCallback: the old element keeps its name.
UpdateCallbackNamed(s) ==
  /\ ~s.updated /\ ~Over
  /\ IF s.seq = sequence THEN Perform(s.update)
                         ELSE UNCHANGED <<entries, pos, viewerVars>>
  /\ sessions' = (sessions \ {s}) \union {CalledBack(s, s.named)}
  /\ UNCHANGED <<hops, sequence, styled, newest, moves, lost>>

\* The browser calls back, in any order; only the newest does anything.
UpdateCallback(s) ==
  /\ ~s.updated /\ ~Over
  /\ LET current == s.seq = sequence IN
     /\ IF current THEN Perform(s.update)
        ELSE UNCHANGED <<entries, pos, viewerVars>>
     /\ \E name \in IF current THEN Names(s.update, "new") ELSE {"none"} :
          sessions' = (sessions \ {s}) \union {CalledBack(s, name)}
  /\ UNCHANGED <<hops, sequence, styled, newest, moves, lost>>

\* The newest session takes the attribute with it.
Finished(s) ==
  /\ s.updated /\ ~Over
  /\ sessions' = sessions \ {s}
  /\ styled' = (styled /\ s.seq # sequence)
  /\ UNCHANGED <<historyVars, viewerVars, sequence, newest, moves, lost>>

-----------------------------------------------------------------------------
\* A share is opened at its gallery, or by a link to one of its photos: then
\* the hash is taken off the entry before the viewer adds its own.  A push that is
\* refused there fails the load of the share.
ViewerInit ==
  /\ \/ entries = <<Outside, Gallery>> /\ selected = 0
     \/ \E i \in Photos :
          entries = <<Outside, Gallery, [photo |-> i, depth |-> 1]>> /\ selected = i
  /\ pos = Len(entries) /\ hops = <<>>
  /\ viewerDepth = (IF selected = 0 THEN 0 ELSE 1)
  /\ lastHistoryId = selected /\ push = 0 /\ opened = "whole"
  /\ sequence = 0 /\ sessions = {} /\ styled = FALSE /\ newest = selected
  /\ moves = 0 /\ lost = FALSE

\* handleAssetActivation, in the gallery or, by the keyboard, on a tile under the
\* viewer.  A viewer that was about to close then stays, where the address has no
\* photo any more.
OpenAsset(i) ==
  /\ Spend
  /\ RunViewerTransition(i)
  /\ lost' = (lost \/ (selected # 0 /\ newest = 0))
  /\ UNCHANGED hops

\* The carousel has a new index; the index of a blank viewer is before the first.
Step(dir) ==
  /\ Spend /\ selected # 0
  /\ LET i == (IF opened = "blank" THEN 0 ELSE selected) + dir IN
     i \in Photos /\ Show(i)
  /\ UNCHANGED <<hops, transitionVars, lost>>

\* The pending push is cancelled.  A viewer without entries is at the gallery, whose
\* address has no hash to take off.
RequestClose ==
  /\ Spend /\ selected # 0
  /\ IF viewerDepth > 0
       THEN /\ hops' = Append(hops, [by |-> "close", delta |-> -viewerDepth,
                                  at |-> IF hops = <<>> THEN moves' ELSE 0])
            /\ push' = 0
            /\ UNCHANGED <<selected, lastHistoryId, opened, transitionVars>>
       ELSE CloseWithTransition /\ UNCHANGED hops
  /\ UNCHANGED <<entries, pos, viewerDepth, lost>>

\* Back and Forward of the browser.
Browse(delta) ==
  /\ Spend
  /\ hops' = Append(hops, [by |-> "user", delta |-> delta, at |-> 0])
  /\ UNCHANGED <<entries, pos, viewerVars, transitionVars, lost>>

\* Mutated OnPopState: the depth is counted, not read from the entry.
OnPopStateCounts(entry) ==
  IF AssetIdFromHash(entry) # 0
    THEN /\ selected' = entry.photo /\ lastHistoryId' = entry.photo
         /\ viewerDepth' = viewerDepth - 1 /\ push' = 0
         /\ opened' = IF opened = "whole" THEN opened ELSE "lame"
         /\ UNCHANGED transitionVars
    ELSE viewerDepth' = 0 /\ CloseWithTransition

\* onPopState at an entry.
OnPopState(entry) ==
  IF AssetIdFromHash(entry) # 0
    THEN /\ selected' = entry.photo /\ lastHistoryId' = entry.photo
         /\ viewerDepth' = entry.depth /\ push' = 0
         /\ opened' = IF opened = "whole" THEN opened ELSE "lame"
         /\ UNCHANGED transitionVars
    ELSE viewerDepth' = 0 /\ CloseWithTransition

\* The browser carries out a traversal; one that leads nowhere is dropped, and
\* one to another page ends this one.
Traverse ==
  /\ hops # <<>> /\ ~Over /\ hops' = Tail(hops)
  /\ LET target == pos + Head(hops).delta IN
     IF target \notin DOMAIN entries
       THEN UNCHANGED <<entries, pos, viewerVars, transitionVars, lost>>
       ELSE /\ pos' = target /\ UNCHANGED entries
            /\ IF selected = 0 \/ entries[target] = Outside
                 THEN UNCHANGED <<viewerVars, transitionVars, lost>>
                 ELSE OnPopState(entries[target]) /\ lost' = FALSE
  /\ UNCHANGED moves

\* The photo the user settled on gets its entry, unless pushState throws.
PushTimer ==
  /\ push # 0 /\ ~Over /\ push' = 0
  /\ \/ /\ viewerDepth' = viewerDepth + 1
        /\ PushEntry(push, viewerDepth + 1)
        /\ lost' = FALSE
     \/ /\ lost' = TRUE
        /\ UNCHANGED <<entries, pos, viewerDepth>>
  /\ UNCHANGED <<hops, selected, lastHistoryId, opened, transitionVars, moves>>

ViewerNext ==
  \/ \E i \in Photos : OpenAsset(i)
  \/ \E dir \in {-1, 1} : Step(dir) \/ Browse(dir)
  \/ RequestClose \/ Traverse \/ PushTimer
  \/ \E s \in sessions : UpdateCallback(s) \/ Finished(s)

ViewerSpec == ViewerInit /\ [][ViewerNext]_allVars

-----------------------------------------------------------------------------
(* Properties.                                                             *)

\* Entries of one share; photos of the album; at most one transition per request;
\* only a viewer that was opened as a whole pushes.
ViewerTypeOK ==
  /\ \A i \in DOMAIN entries : entries[i].photo \in 0 .. PhotoCount
  /\ entries[1] = Outside /\ pos \in DOMAIN entries
  /\ {selected, lastHistoryId, push, newest} \subseteq 0 .. PhotoCount
  /\ viewerDepth \in 0 .. Len(entries) /\ Len(hops) <= MaxMoves /\ moves \in 0 .. MaxMoves
  /\ opened \in {"whole", "blank", "lame", "leaked"} /\ styled \in BOOLEAN
  /\ \A s \in sessions : s.seq <= sequence /\ s.named \in {"none", "old", "new"}
  /\ \A s, t \in sessions : s.seq = t.seq => s = t
  /\ push # 0 => selected # 0 /\ opened = "whole"

\* The depth the viewer will unwind by is the one of the entry the browser is
\* at, whatever was pushed, refused, gone back to or truncated.  A viewer whose
\* first entry was refused has counted it all the same, and is excused.
DepthMirrorsHistory ==
  selected # 0 /\ opened = "whole" /\ ~HasLeft => viewerDepth = entries[pos].depth

\* What the comment at the declaration of viewerDepth promises of every viewer
\* (AssetViewer.tsx:136-138).
DepthAlwaysMirrors == selected # 0 /\ ~HasLeft => viewerDepth = entries[pos].depth

\* A photo on the screen is the one the address names, once its push is done
\* and no close is under way; only a refused push breaks this, and a photo that
\* was activated under the viewer while that was closing.
AddressNamesPhoto ==
  selected # 0 /\ opened = "whole" /\ ~HasLeft /\ push = 0 /\ ~lost
    /\ (\A i \in DOMAIN hops : hops[i].by = "user")
    /\ (\A s \in sessions : s.updated \/ s.seq # sequence)
    => entries[pos].photo = selected

\* The viewer's own count of its entries, the history and the address agree.
HistoryMirrored == ViewerTypeOK /\ DepthMirrorsHistory /\ AddressNamesPhoto

\* The viewer is opened or closed by a transition only as the newest one was
\* asked to, in whatever order the browser calls back ("the latest requested
\* state update is always performed").
LatestUpdateWins ==
  [][sessions' # sessions /\ hops' = hops /\ selected' # selected
       => selected' = newest']_allVars

\* Never do two elements carry the name of the travelling photo: a tile has it by
\* one session at most, and none has it beside the photo in the viewer, which the
\* style sheet names while a transition lasts (styles/album-viewer.css:29-31).  The
\* old tile of a photo that was activated under the viewer is excused: the browser
\* skips that transition.
OneNamedElement ==
  /\ \A s, t \in sessions : s.named # "none" /\ t.named # "none" => s = t
  /\ \A s \in sessions :
       styled /\ selected # 0 /\ s.named # "none" => s.over /\ s.named = "old"

\* The same without the excuse (viewTransitions.ts:109-111).
NeverTwoNames ==
  \A s \in sessions : styled /\ selected # 0 => s.named = "none"

\* A close that nothing else races leads to the gallery.
CloseLandsOnGallery ==
  [][hops # <<>> /\ Head(hops).by = "close" /\ Head(hops).at = moves
       /\ hops' = Tail(hops) /\ pos' # pos => entries'[pos'] = Gallery]_allVars
=============================================================================
