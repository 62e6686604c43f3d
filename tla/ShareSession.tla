------------------------------ MODULE ShareSession ------------------------------
(***************************************************************************)
(* What a visitor of the web client has before them: the share the address *)
(* names, loaded by SharePage.tsx, its assets, viewer and selection in the *)
(* signals of store/share.ts, the prompt of a locked share and the gallery *)
(* gestures that select.  Loads, refreshes after an upload, details of a   *)
(* photo and passwords are answered in any order, and only a load checks   *)
(* that it is still wanted.                                                *)
(***************************************************************************)
EXTENDS Integers, SequencesExt

CONSTANTS
  Keys, Locked,         \* the shares, and those with a password
  Listings,             \* per share, what its album goes through: sequences of ids
  Day, DetailDay,       \* the day of a photo in a listing, and in its details
  MaxMoves              \* bound on what the visitor does

ASSUME KeysAssumption == Locked \subseteq Keys /\ MaxMoves \in Nat

\* Every share has a listing to begin with; 0 is no photo.
ASSUME ListingsAssumption ==
  /\ 0 \notin DOMAIN Day
  /\ \A k \in Keys : Listings[k] \in Seq(Seq(DOMAIN Day)) /\ Listings[k] # <<>>

VARIABLES
  key, hash,            \* the address: params.key, the photo after the # or 0
  served, unlocked,     \* the proxy's: the listing of each share, the cookies
  loadSeq, calls,       \* loads begun, requests in flight
  isLoading, error, passwordRequired, link,
  selectedAsset, selectedAssetIndex, requested,     \* requested: detailsRequested
  selectedAssets, isSelectionMode,
  touch,                \* long presses: the asset, its timer, timers it has lost,
                        \* and the asset of one that outlived the gallery
  moves,
  \* history
  strayed,              \* a refresh of another share came in
  listed, foreign,      \* photos listed since the load, selected by a lost timer
  moved                 \* refreshed since the viewer was opened

addressVars == <<key, hash>>
proxyVars == <<served, unlocked>>
pageVars == <<loadSeq, isLoading, error, passwordRequired, link, strayed, listed>>
viewerVars == <<selectedAsset, selectedAssetIndex, moved>>
selectionVars == <<selectedAssets, isSelectionMode, foreign>>
vars == <<addressVars, proxyVars, pageVars, calls, viewerVars, requested, selectionVars,
          touch, moves>>

NoLink == [key |-> "none", n |-> 0, assets |-> <<>>]
Listed(k, n) ==
  [key |-> k, n |-> n,
   assets |-> [i \in DOMAIN Listings[k][n] |->
                 [id |-> Listings[k][n][i], day |-> Day[Listings[k][n][i]], exif |-> FALSE]]]
Assets == link.assets
Ids(l) == {l.assets[i].id : i \in DOMAIN l.assets}
IndexOf(l, id) == SelectInSeq(l.assets, LAMBDA a : a.id = id)

Gallery == ~isLoading /\ ~passwordRequired /\ ~error /\ link # NoLink
Mounted == Gallery /\ selectedAsset # 0
Browsing == Gallery /\ ~Mounted
Current ==
  IF selectedAssetIndex \in DOMAIN Assets THEN Assets[selectedAssetIndex]
  ELSE [id |-> selectedAsset, day |-> Day[selectedAsset], exif |-> FALSE]

Spend == moves < MaxMoves /\ moves' = moves + 1
Call(kind, id) ==
  [kind |-> kind, key |-> key', seq |-> loadSeq', id |-> id,
   from |-> served'[key'], open |-> key' \in unlocked']

-----------------------------------------------------------------------------
(* What follows from every change of the signals: the viewer fetches the   *)
(* details of the photo it shows, once for as long as it is mounted, and a *)
(* gallery that goes clears the timer of its long press.                   *)

NoTouch == [asset |-> 0, timer |-> FALSE, lost |-> 0, stray |-> 0]
GalleryGone ==
  [NoTouch EXCEPT !.stray = IF touch.lost > 0 /\ touch.asset # 0 THEN touch.asset
                            ELSE touch.stray]

Effects(pending) ==
  LET wanted == Mounted' /\ ~Current'.exif /\ Current'.id \notin requested
      had == IF Mounted' THEN requested ELSE {}
  IN /\ requested' = IF wanted THEN had \union {Current'.id} ELSE had
     /\ calls' = IF wanted THEN pending \union {Call("details", Current'.id)} ELSE pending
     /\ touch' = IF Gallery /\ ~Gallery' THEN GalleryGone ELSE touch

-----------------------------------------------------------------------------
(* Loading.                                                                *)

\* Mutated Load: a request for the same share that is under way is not repeated.
LoadOnce(pending) ==
  /\ loadSeq' = loadSeq + 1
  /\ isLoading' = TRUE /\ error' = FALSE /\ passwordRequired' = FALSE
  /\ link' = NoLink /\ strayed' = FALSE /\ listed' = {}
  /\ Effects(IF \E c \in pending : c.kind = "load" /\ c.key = key' THEN pending
             ELSE pending \union {Call("load", 0)})

\* loadSharedLink, up to its request.
Load(pending) ==
  /\ loadSeq' = loadSeq + 1
  /\ isLoading' = TRUE /\ error' = FALSE /\ passwordRequired' = FALSE
  /\ link' = NoLink /\ strayed' = FALSE /\ listed' = {}
  /\ Effects(pending \union {Call("load", 0)})

Init ==
  /\ key \in Keys /\ hash \in {0} \union DOMAIN Day
  /\ served = [k \in Keys |-> 1] /\ unlocked = {}
  /\ loadSeq = 1
  /\ calls = {[kind |-> "load", key |-> key, seq |-> 1, id |-> 0, from |-> 1, open |-> FALSE]}
  /\ isLoading = TRUE /\ error = FALSE /\ passwordRequired = FALSE
  /\ link = NoLink /\ strayed = FALSE /\ listed = {}
  /\ selectedAsset = 0 /\ selectedAssetIndex = 0 /\ moved = FALSE /\ requested = {}
  /\ selectedAssets = {} /\ isSelectionMode = FALSE /\ foreign = {}
  /\ touch = NoTouch /\ moves = 0

\* The effect on params.key.
Navigate(k, h) ==
  /\ Spend /\ k # key
  /\ key' = k /\ hash' = h
  /\ UNCHANGED <<proxyVars, viewerVars, selectionVars>>
  /\ Load(calls)

TryAgain ==
  /\ Spend /\ ~isLoading /\ ~passwordRequired /\ error
  /\ UNCHANGED <<addressVars, proxyVars, viewerVars, selectionVars>>
  /\ Load(calls)

\* Mutated SetLoadedSharedLink: the selection of the share before is kept.
SetLoadedSharedLinkSelected(l) ==
  /\ link' = l /\ listed' = Ids(l) /\ strayed' = FALSE
  /\ IF IndexOf(l, hash) # 0
       THEN selectedAsset' = hash /\ selectedAssetIndex' = IndexOf(l, hash)
       ELSE selectedAsset' = 0 /\ selectedAssetIndex' = 0
  /\ moved' = FALSE
  /\ UNCHANGED selectionVars

\* The share has come: it is shown with no viewer or selection of before, and
\* opened at the photo of a deep link.
SetLoadedSharedLink(l) ==
  /\ link' = l /\ listed' = Ids(l) /\ strayed' = FALSE
  /\ IF IndexOf(l, hash) # 0
       THEN selectedAsset' = hash /\ selectedAssetIndex' = IndexOf(l, hash)
       ELSE selectedAsset' = 0 /\ selectedAssetIndex' = 0
  /\ moved' = FALSE
  /\ selectedAssets' = {} /\ isSelectionMode' = FALSE /\ foreign' = {}

Linked(c) == c.key \notin Locked \/ c.key \in unlocked
Refused(c) == c.key \in Locked /\ ~c.open
Versions(c) == c.from .. served[c.key]

\* Mutated Wanted: while the page loads, any answer is taken for its own.
WantedWhileLoading(c) == isLoading

Wanted(c) == c.seq = loadSeq /\ c.key = key

LoadAnswer(c, answer, n) ==
  /\ c.kind = "load"
  /\ CASE answer = "link" -> Linked(c) /\ n \in Versions(c)
       [] answer = "locked" -> Refused(c)
       [] answer = "failed" -> TRUE
  /\ UNCHANGED <<addressVars, proxyVars, loadSeq, moves>>
  /\ isLoading' = (isLoading /\ ~Wanted(c))
  /\ passwordRequired' = (passwordRequired \/ (Wanted(c) /\ answer = "locked"))
  /\ error' = (error \/ (Wanted(c) /\ answer = "failed"))
  /\ IF Wanted(c) /\ answer = "link" THEN SetLoadedSharedLink(Listed(c.key, n))
     ELSE UNCHANGED <<link, strayed, listed, viewerVars, selectionVars>>
  /\ Effects(calls \ {c})

-----------------------------------------------------------------------------
(* The password.                                                           *)

SubmitPassword ==
  /\ Spend /\ ~isLoading /\ passwordRequired
  /\ \A c \in calls : c.kind = "password" => c.seq # loadSeq
  /\ UNCHANGED <<addressVars, proxyVars, pageVars, viewerVars, selectionVars>>
  /\ Effects(calls \union {Call("password", 0)})

\* The prompt may be gone by now: the page loads what its address names.
PasswordAnswer(c, valid) ==
  /\ c.kind = "password"
  /\ UNCHANGED <<addressVars, served, viewerVars, selectionVars, moves>>
  /\ IF valid
       THEN unlocked' = unlocked \union {c.key} /\ Load(calls \ {c})
       ELSE UNCHANGED <<unlocked, pageVars>> /\ Effects(calls \ {c})

-----------------------------------------------------------------------------
(* Uploads and details.                                                    *)

\* The upload queue drains with files of this album: refreshSharedLink.
UploadsSettled(added) ==
  /\ Spend /\ Gallery
  /\ served' = IF added THEN [served EXCEPT ![key] = @ + 1] ELSE served
  /\ served'[key] \in DOMAIN Listings[key]
  /\ UNCHANGED <<addressVars, unlocked, pageVars, viewerVars, selectionVars>>
  /\ Effects(calls \union {Call("refresh", 0)})

\* Whatever has been opened or loaded since.
RefreshAnswer(c, ok, n) ==
  /\ c.kind = "refresh"
  /\ IF ok
       THEN /\ n \in Versions(c)
            /\ link' = Listed(c.key, n)
            /\ strayed' = (c.key # key)
            /\ listed' = listed \union Ids(link')
            /\ moved' = TRUE
       ELSE UNCHANGED <<link, strayed, listed, moved>>
  /\ UNCHANGED <<addressVars, proxyVars, loadSeq, isLoading, error, passwordRequired,
                 selectedAsset, selectedAssetIndex, selectionVars, moves>>
  /\ Effects(calls \ {c})

\* Mutated Merged: the details bring their own day.
MergedWhole(a, id) == IF a.id = id THEN [a EXCEPT !.exif = TRUE, !.day = DetailDay] ELSE a

\* mergeAssetDetails: everything but the keys of the timeline.
Merged(a, id) == IF a.id = id THEN [a EXCEPT !.exif = TRUE] ELSE a

DetailsAnswer(c, ok) ==
  /\ c.kind = "details"
  /\ link' = IF ok THEN [link EXCEPT !.assets =
                           [i \in DOMAIN Assets |-> Merged(Assets[i], c.id)]]
             ELSE link
  /\ UNCHANGED <<addressVars, proxyVars, loadSeq, isLoading, error, passwordRequired,
                 strayed, listed, viewerVars, selectionVars, moves>>
  /\ Effects(calls \ {c})

-----------------------------------------------------------------------------
(* The viewer, as far as the page is concerned.                            *)

SelectAsset(i) ==
  /\ selectedAsset' = Assets[i].id /\ selectedAssetIndex' = i /\ moved' = FALSE

Open(i) ==
  /\ Spend /\ Browsing /\ ~isSelectionMode /\ i \in DOMAIN Assets
  /\ SelectAsset(i) /\ hash' = Assets[i].id
  /\ UNCHANGED <<key, proxyVars, pageVars, selectionVars>>
  /\ Effects(calls)

\* The address follows later, if the visitor stays.
Leaf(i) ==
  /\ Spend /\ Mounted /\ i \in DOMAIN Assets /\ i # selectedAssetIndex
  /\ SelectAsset(i) /\ hash' \in {hash, Assets[i].id}
  /\ UNCHANGED <<key, proxyVars, pageVars, selectionVars>>
  /\ Effects(calls)

CloseViewer ==
  /\ Spend /\ Mounted
  /\ selectedAsset' = 0 /\ selectedAssetIndex' = 0 /\ moved' = FALSE /\ hash' = 0
  /\ UNCHANGED <<key, proxyVars, pageVars, selectionVars>>
  /\ Effects(calls)

-----------------------------------------------------------------------------
(* The selection.                                                          *)

Gesture ==
  /\ Spend /\ Browsing
  /\ UNCHANGED <<addressVars, proxyVars, pageVars, calls, viewerVars, requested>>

Flip(set, id) == IF id \in set THEN set \ {id} ELSE set \union {id}
\* A selection turns selection mode on, and never off.
Select(set) ==
  /\ selectedAssets' = set
  /\ isSelectionMode' = (isSelectionMode \/ set # {})

ToggleAssetSelection(id) ==
  /\ Gesture /\ isSelectionMode /\ id \in Ids(link)
  /\ Select(Flip(selectedAssets, id))
  /\ UNCHANGED <<foreign, touch>>

SelectAllFromDate(d) ==
  /\ Gesture /\ isSelectionMode
  /\ LET ofDate == {Assets[i].id : i \in {j \in DOMAIN Assets : Assets[j].day = d}} IN
     /\ ofDate # {}
     /\ Select(IF ofDate \subseteq selectedAssets THEN selectedAssets \ ofDate
               ELSE selectedAssets \union ofDate)
  /\ UNCHANGED <<foreign, touch>>

\* The button counts: it takes as many selected as there are for all of them.
ToggleAll ==
  /\ Gesture /\ isSelectionMode
  /\ Select(IF Cardinality(selectedAssets) = Len(Assets) THEN {} ELSE Ids(link))
  /\ UNCHANGED <<foreign, touch>>

EnterSelectionMode ==
  /\ Gesture /\ Assets # <<>> /\ isSelectionMode' = TRUE
  /\ UNCHANGED <<selectedAssets, foreign, touch>>

ExitSelect ==
  /\ Gesture /\ isSelectionMode
  /\ selectedAssets' = {} /\ isSelectionMode' = FALSE
  /\ UNCHANGED <<foreign, touch>>

\* A second finger starts a timer over the one that runs, which is lost.
TouchStart(id) ==
  /\ Gesture /\ id \in Ids(link)
  /\ touch' = [touch EXCEPT !.asset = id, !.timer = TRUE,
                            !.lost = IF touch.timer THEN @ + 1 ELSE @]
  /\ UNCHANGED selectionVars

\* The end of a touch whose element has left the page reaches no handler.
TouchEnd ==
  /\ touch.asset # 0
  /\ touch' = [touch EXCEPT !.asset = 0, !.timer = FALSE]
  /\ UNCHANGED <<addressVars, proxyVars, pageVars, calls, viewerVars, requested,
                 selectionVars, moves>>

\* Either timer fires for the asset touched last.
LongPress(ofLost) ==
  /\ Gallery /\ IF ofLost THEN touch.lost > 0 ELSE touch.timer
  /\ touch' = IF ofLost THEN [touch EXCEPT !.lost = @ - 1, !.asset = 0]
              ELSE [touch EXCEPT !.timer = FALSE, !.asset = 0]
  /\ IF touch.asset = 0 THEN UNCHANGED selectionVars
     ELSE Select(Flip(selectedAssets, touch.asset)) /\ UNCHANGED foreign
  /\ UNCHANGED <<addressVars, proxyVars, pageVars, calls, viewerVars, requested, moves>>

\* One that was lost fires after its gallery has gone.
StrayPress ==
  /\ touch.stray # 0
  /\ touch' = [touch EXCEPT !.stray = 0]
  /\ Select(Flip(selectedAssets, touch.stray))
  /\ foreign' = foreign \union {touch.stray}
  /\ UNCHANGED <<addressVars, proxyVars, pageVars, calls, viewerVars, requested, moves>>

-----------------------------------------------------------------------------
Answer(c) ==
  \/ \E answer \in {"link", "locked", "failed"}, n \in Versions(c) : LoadAnswer(c, answer, n)
  \/ \E valid \in BOOLEAN : PasswordAnswer(c, valid)
  \/ \E ok \in BOOLEAN, n \in Versions(c) : RefreshAnswer(c, ok, n)
  \/ \E ok \in BOOLEAN : DetailsAnswer(c, ok)

Visit ==
  \/ \E k \in Keys, h \in {0} \union DOMAIN Day : Navigate(k, h)
  \/ TryAgain \/ SubmitPassword
  \/ \E added \in BOOLEAN : UploadsSettled(added)
  \/ \E i \in DOMAIN Assets : Open(i) \/ Leaf(i)
  \/ CloseViewer

Pick ==
  \/ \E id \in Ids(link) : ToggleAssetSelection(id) \/ TouchStart(id)
  \/ \E d \in {Day[id] : id \in DOMAIN Day} : SelectAllFromDate(d)
  \/ ToggleAll \/ EnterSelectionMode \/ ExitSelect
  \/ TouchEnd \/ StrayPress \/ \E ofLost \in BOOLEAN : LongPress(ofLost)

Next == Visit \/ Pick \/ \E c \in calls : Answer(c)

Spec == Init /\ [][Next]_vars

\* Requests are answered, if only by a failure of the network.
FairSpec == Spec /\ WF_vars(\E c \in calls : Answer(c))

-----------------------------------------------------------------------------
(* Properties.                                                             *)

\* Requests are of the loads begun, an error or the prompt waits for the end of its
\* load, a timer goes with its gallery unless it was lost, and details are asked for
\* by a mounted viewer only.
TypeOK ==
  /\ key \in Keys /\ hash \in {0} \union DOMAIN Day /\ unlocked \subseteq Locked
  /\ \A k \in Keys : served[k] \in DOMAIN Listings[k]
  /\ \A c \in calls : /\ c.kind \in {"load", "password", "refresh", "details"}
                        /\ c.key \in Keys /\ c.seq \in 1 .. loadSeq
  /\ {isLoading, error, passwordRequired, isSelectionMode, strayed, moved} \subseteq BOOLEAN
  /\ link = NoLink \/ link.key \in Keys
  /\ isLoading => ~error /\ ~passwordRequired
  /\ selectedAsset \in {0} \union DOMAIN Day /\ (selectedAsset = 0) = (selectedAssetIndex = 0)
  /\ ~Mounted => requested = {}
  /\ touch.timer => Gallery
  /\ moves \in 0 .. MaxMoves

\* The gallery on the screen is the one the address names, whatever loads were
\* under way; only a refresh that another share was left with breaks this.
AddressedShare == Gallery => link.key = key \/ strayed

\* The gallery has exactly the photos of one answer of the proxy, each on the
\* day of the listing: details that come late neither move, lose nor bring back
\* one.
GalleryAsListed ==
  link # NoLink =>
    LET shown == Listed(link.key, link.n).assets IN
    [i \in DOMAIN Assets |-> <<Assets[i].id, Assets[i].day>>]
      = [i \in DOMAIN shown |-> <<shown[i].id, shown[i].day>>]

\* What is open and what is selected is of the share on the screen, and there is
\* no selection without the mode that shows it; only a lost timer selects
\* another's, and only a refresh puts another photo in the viewer.
StateOfShare ==
  /\ TypeOK
  /\ Gallery => selectedAssets \subseteq listed \union foreign
  /\ selectedAssets # {} => isSelectionMode
  /\ Mounted => selectedAsset \in listed /\ (moved \/ Current.id = selectedAsset)

\* Every load ends, with a gallery, the prompt or an error.
LoadSettles == isLoading ~> ~isLoading
=============================================================================
