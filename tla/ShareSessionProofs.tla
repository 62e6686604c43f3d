-------------------------- MODULE ShareSessionProofs --------------------------
(***************************************************************************)
(* Whatever order loads, refreshes, details and passwords are answered in, *)
(* the gallery, the viewer and the selection are of the share that the     *)
(* address names: for any shares, listings and number of moves.            *)
(***************************************************************************)
EXTENDS ShareSession, WellFoundedInduction, TLAPS

Photos == [id : DOMAIN Day, day : {Day[id] : id \in DOMAIN Day}, exif : BOOLEAN]
Asset == {0} \union DOMAIN Day

\* A share as an answer of the proxy lists it, with or without details.
AsListed(l) ==
  /\ l \in [key : Keys, n : Nat \ {0}, assets : Seq(Photos)]
  /\ l.n \in DOMAIN Listings[l.key]
  /\ DOMAIN l.assets = DOMAIN Listings[l.key][l.n]
  /\ \A i \in DOMAIN l.assets :
       /\ l.assets[i].id = Listings[l.key][l.n][i]
       /\ l.assets[i].day = Day[Listings[l.key][l.n][i]]

Requests == [kind : {"load", "password", "refresh", "details"}, key : Keys, seq : 1 .. loadSeq,
             id : Asset, from : Nat \ {0}, open : BOOLEAN]
\* Passwords are sent to a share that has one.
Sent == {c \in Requests : c.kind = "password" => c.key \in Locked}

ProxyInv ==
  /\ key \in Keys /\ hash \in Asset
  /\ served \in [Keys -> Nat] /\ \A k \in Keys : served[k] \in DOMAIN Listings[k]
  /\ unlocked \subseteq Locked
  /\ moves \in 0 .. MaxMoves

PageInv ==
  /\ loadSeq \in Nat \ {0}
  /\ isLoading \in BOOLEAN /\ error \in BOOLEAN /\ passwordRequired \in BOOLEAN
  /\ strayed \in BOOLEAN /\ moved \in BOOLEAN
  /\ isLoading => ~error /\ ~passwordRequired
  /\ passwordRequired => key \in Locked
  /\ link = NoLink \/ AsListed(link)

\* Of requests, the newest load is in flight only while the page loads, and once.
Orderly(requests, seq, of, loading) ==
  LET newest == {c \in requests : c.kind = "load" /\ c.seq = seq} IN
  /\ \A c \in newest : loading /\ c.key = of
  /\ \A c, d \in newest : c = d
CallsInv == calls \subseteq Sent /\ Orderly(calls, loadSeq, key, isLoading)

\* A share that is there is the one of the address, and its photos were listed
\* since it was loaded.
LinkInv == link # NoLink => (link.key = key \/ strayed) /\ Ids(link) \subseteq listed

\* Nothing of an unmounted viewer is remembered.
OpenInv ==
  /\ selectedAsset \in Asset /\ selectedAssetIndex \in Nat
  /\ (selectedAsset = 0) = (selectedAssetIndex = 0)
RequestedInv == ~Mounted => requested = {}

\* A touch that has an asset, or a timer, is in a gallery.
TouchInv ==
  /\ touch \in [asset : Asset, timer : BOOLEAN, lost : Nat, stray : Asset]
  /\ touch.timer => Gallery
  /\ touch.asset # 0 => Gallery /\ touch.asset \in listed

\* Once a load has come to its end without an error or a prompt, what is selected
\* or open is of what it brought; until then what was is still there.
Settled == ~isLoading /\ ~error /\ ~passwordRequired
SelectionInv ==
  /\ isSelectionMode \in BOOLEAN
  /\ Settled => selectedAssets \subseteq listed \union foreign
  /\ selectedAssets # {} => isSelectionMode
  /\ Settled /\ selectedAsset # 0 =>
       selectedAsset \in listed /\ (moved \/ Current.id = selectedAsset)

IInv ==
  /\ ProxyInv /\ PageInv /\ CallsInv /\ LinkInv
  /\ OpenInv /\ RequestedInv /\ TouchInv /\ SelectionInv

-----------------------------------------------------------------------------
(* The model's helpers.                                                    *)

LEMMA LeastNumber == ASSUME NEW S \in SUBSET Nat, S # {} PROVE Min(S) \in S
  <1> DEFINE R == OpToRel(<, Nat)
  <1>1. IsWellFoundedOn(R, Nat)  BY NatLessThanWellFounded
  <1>2. PICK x \in S : \A y \in S : ~(<<y, x>> \in R)
    <2> HIDE DEF R
    <2> QED  BY <1>1, WFMin
  <1>3. \A y \in S : ~(y < x)  BY <1>2 DEF OpToRel
  <1>4. \A y \in S : x <= y  BY <1>3
  <1> QED  BY <1>4 DEF Min

\* IndexOf finds a photo with the id it was asked for, or nothing.
LEMMA IndexFound ==
  ASSUME NEW l, NEW id, NEW n \in Nat, DOMAIN l.assets = 1 .. n, IndexOf(l, id) # 0
  PROVE  IndexOf(l, id) \in DOMAIN l.assets /\ l.assets[IndexOf(l, id)].id = id
  <1> DEFINE I == {i \in 1 .. n : l.assets[i].id = id}
  <1>1. Len(l.assets) = n  BY DEF Len
  <1>2. IndexOf(l, id) = IF I = {} THEN 0 ELSE Min(I)
    BY <1>1 DEF IndexOf, SelectInSeq
  <1>3. I \in SUBSET Nat  OBVIOUS
  <1>4. I # {} => Min(I) \in I
    <2> HIDE DEF I
    <2> QED  BY <1>3, LeastNumber
  <1>5. IndexOf(l, id) \in I  BY <1>2, <1>4
  <1> QED  BY <1>5

\* What the proxy lists is as an answer lists it.
LEMMA ListedIsAsListed ==
  ASSUME NEW k \in Keys, NEW n \in DOMAIN Listings[k]
  PROVE  AsListed(Listed(k, n)) /\ Listed(k, n) # NoLink /\ Listed(k, n).key = k
  <1> DEFINE s == Listings[k][n]
             a == [i \in DOMAIN s |-> [id |-> s[i], day |-> Day[s[i]], exif |-> FALSE]]
  <1>1. Listings[k] \in Seq(Seq(DOMAIN Day))  BY ListingsAssumption
  <1>2. n \in Nat \ {0} /\ s \in Seq(DOMAIN Day)  BY <1>1
  <1>3. DOMAIN s = 1 .. Len(s) /\ Len(s) \in Nat /\ \A i \in DOMAIN s : s[i] \in DOMAIN Day
    BY <1>2
  <1>4. \A i \in DOMAIN s : a[i] \in Photos  BY <1>3 DEF Photos
  <1>5. a \in Seq(Photos)
    <2> a \in [1 .. Len(s) -> Photos]  BY <1>3, <1>4
    <2> QED  BY <1>3
  <1>6. Listed(k, n) = [key |-> k, n |-> n, assets |-> a]  BY DEF Listed
  <1>7. Listed(k, n) # NoLink  BY <1>2, <1>6 DEF NoLink
  <1>8. AsListed(Listed(k, n))
    <2> HIDE DEF a
    <2>1. Listed(k, n) \in [key : Keys, n : Nat \ {0}, assets : Seq(Photos)]
      BY <1>2, <1>5, <1>6
    <2>2. DOMAIN a = DOMAIN s /\ \A i \in DOMAIN a : a[i].id = s[i] /\ a[i].day = Day[s[i]]
      BY DEF a
    <2> QED  BY <1>6, <2>1, <2>2 DEF AsListed
  <1> QED  BY <1>6, <1>7, <1>8

\* Its photos are photos.
LEMMA ListedPhotos ==
  ASSUME NEW l, l = NoLink \/ AsListed(l)
  PROVE  /\ l.assets \in Seq(Photos)
         /\ \E m \in Nat : DOMAIN l.assets = 1 .. m
         /\ \A i \in DOMAIN l.assets :
              /\ i \in Nat \ {0} /\ l.assets[i].id \in DOMAIN Day
              /\ l.assets[i].id # 0 /\ l.assets[i].id \in Ids(l)
  <1>1. l.assets \in Seq(Photos)
    <2>1. CASE l = NoLink  BY <2>1 DEF NoLink
    <2>2. CASE AsListed(l)
      <3>1. l \in [key : Keys, n : Nat \ {0}, assets : Seq(Photos)]  BY <2>2 DEF AsListed
      <3> HIDE DEF Photos
      <3> QED  BY <3>1
    <2> QED  BY <2>1, <2>2
  <1>2. DOMAIN l.assets = 1 .. Len(l.assets) /\ Len(l.assets) \in Nat
    BY <1>1
  <1>3. \A i \in DOMAIN l.assets : l.assets[i] \in Photos  BY <1>1
  <1> QED  BY <1>1, <1>2, <1>3, ListingsAssumption DEF Photos, Ids

-----------------------------------------------------------------------------
(* What the effects keep, whatever the step was.                           *)

LEMMA CallIsSent ==
  ASSUME ProxyInv', PageInv', NEW id \in Asset,
         NEW kind \in {"load", "password", "refresh", "details"},
         kind = "password" => key' \in Locked
  PROVE  /\ Call(kind, id) \in Sent'
         /\ Call(kind, id).kind = kind /\ Call(kind, id).key = key'
         /\ Call(kind, id).seq = loadSeq'
  <1>1. Listings[key'] \in Seq(Seq(DOMAIN Day))  BY ListingsAssumption DEF ProxyInv
  <1>2. served'[key'] \in Nat \ {0}  BY <1>1 DEF ProxyInv
  <1>3. key' \in Keys /\ loadSeq' \in 1 .. loadSeq'  BY DEF ProxyInv, PageInv
  <1>4. (key' \in unlocked') \in BOOLEAN  OBVIOUS
  <1> QED  BY <1>2, <1>3, <1>4 DEF Call, Sent, Requests

LEMMA CurrentIsAnAsset == ASSUME PageInv', OpenInv' PROVE Current'.id \in Asset
  <1>1. \A i \in DOMAIN link'.assets : link'.assets[i].id \in DOMAIN Day
    BY ListedPhotos DEF PageInv
  <1> QED  BY <1>1 DEF Current, Assets, OpenInv, Asset

LEMMA CallsFollow ==
  ASSUME NEW pending, Effects(pending), ProxyInv', PageInv', OpenInv',
         pending \subseteq Sent', Orderly(pending, loadSeq', key', isLoading')
  PROVE  CallsInv'
  <1> DEFINE d == Call("details", Current'.id)
  <1>1. d \in Sent' /\ d.kind = "details"  BY CallIsSent, CurrentIsAnAsset
  <1>2. calls' = pending \/ calls' = pending \union {d}  BY DEF Effects
  <1>3. Orderly(calls', loadSeq', key', isLoading')
    <2> HIDE DEF d
    <2> QED  BY <1>1, <1>2 DEF Orderly
  <1>4. calls' \subseteq Sent'  BY <1>1, <1>2
  <1> QED  BY <1>3, <1>4 DEF CallsInv

LEMMA RequestedFollow == ASSUME NEW pending, Effects(pending) PROVE RequestedInv'
  BY DEF Effects, RequestedInv

LEMMA TouchFollows ==
  ASSUME NEW pending, Effects(pending), TouchInv,
         Gallery /\ Gallery' => listed \subseteq listed'
  PROVE  TouchInv'
  <1>1. touch' = IF Gallery /\ ~Gallery' THEN GalleryGone ELSE touch  BY DEF Effects
  <1>2. touch \in [asset : Asset, timer : BOOLEAN, lost : Nat, stray : Asset]
    BY DEF TouchInv
  <1>3. CASE Gallery /\ ~Gallery'
    <2>1. GalleryGone \in [asset : Asset, timer : BOOLEAN, lost : Nat, stray : Asset]
             /\ GalleryGone.asset = 0 /\ GalleryGone.timer = FALSE
      BY <1>2 DEF GalleryGone, NoTouch, Asset
    <2> QED  BY <1>1, <1>3, <2>1 DEF TouchInv
  <1>4. CASE Gallery /\ Gallery'  BY <1>1, <1>2, <1>4 DEF TouchInv
  <1>5. CASE ~Gallery  BY <1>1, <1>2, <1>5 DEF TouchInv
  <1> QED  BY <1>3, <1>4, <1>5

-----------------------------------------------------------------------------
(* Loading.                                                                *)

LEMMA LoadKeeps ==
  ASSUME IInv, NEW pending \in SUBSET calls, Load(pending),
         ProxyInv', UNCHANGED <<viewerVars, selectionVars>>
  PROVE  IInv'
  <1> USE DEF IInv
  <1>1. loadSeq \in Nat \ {0} /\ calls \subseteq Sent  BY DEF PageInv, CallsInv
  <1>2. PageInv'
    <2>1. loadSeq' \in Nat \ {0} /\ link' = NoLink  BY <1>1 DEF Load
    <2>2. moved \in BOOLEAN /\ moved' = moved  BY DEF PageInv, viewerVars
    <2>3. isLoading' = TRUE /\ error' = FALSE /\ passwordRequired' = FALSE /\ strayed' = FALSE
      BY DEF Load
    <2> QED  BY <2>1, <2>2, <2>3 DEF PageInv
  <1>3. OpenInv'  BY DEF OpenInv, viewerVars
  <1> DEFINE new == Call("load", 0)
  <1>4. new \in Sent' /\ new.key = key' /\ new.seq = loadSeq' /\ new.kind = "load"
    BY <1>2, CallIsSent DEF Asset
  <1>5. Effects(pending \union {new}) /\ loadSeq' = loadSeq + 1 /\ isLoading' = TRUE
    BY DEF Load
  <1>6. \A c \in pending : c \in Sent' /\ c.seq # loadSeq'
    BY <1>1, <1>5 DEF Sent, Requests
  <1>7. CallsInv'
    <2> HIDE DEF new
    <2>1. Orderly(pending \union {new}, loadSeq', key', isLoading')
      BY <1>4, <1>5, <1>6 DEF Orderly
    <2> QED  BY <1>2, <1>3, <1>4, <1>5, <1>6, <2>1, CallsFollow
  <1>8. RequestedInv'  BY <1>5, RequestedFollow
  <1>9. ~Gallery' /\ ~Settled' /\ link' = NoLink  BY DEF Load, Gallery, Settled
  <1>10. TouchInv'  BY <1>5, <1>9, TouchFollows
  <1>11. LinkInv' /\ SelectionInv'
    BY <1>9 DEF LinkInv, SelectionInv, selectionVars
  <1> QED  BY <1>2, <1>3, <1>7, <1>8, <1>10, <1>11

\* The answer of the newest load ends it, and what is before the visitor starts
\* anew; that of an older one is dropped.
LEMMA LoadAnswerKeeps ==
  ASSUME IInv, NEW c \in calls, NEW answer \in {"link", "locked", "failed"},
         NEW n, LoadAnswer(c, answer, n)
  PROVE  IInv'
  <1> USE DEF IInv
  <1>1. c \in Sent /\ c.key \in Keys  BY DEF CallsInv, Sent, Requests
  <1>2. /\ Effects(calls \ {c})
        /\ UNCHANGED <<addressVars, proxyVars, loadSeq, moves>>
        /\ isLoading' = (isLoading /\ ~Wanted(c))
        /\ c.kind = "load"
    BY DEF LoadAnswer
  <1>3. ProxyInv'  BY <1>2 DEF ProxyInv, addressVars, proxyVars
  <1>4. Wanted(c) => isLoading
    BY <1>2 DEF Wanted, CallsInv, Orderly
  <1>5. Orderly(calls \ {c}, loadSeq', key', isLoading')
    <2>1. loadSeq' = loadSeq /\ key' = key  BY <1>2 DEF addressVars
    <2>2. Orderly(calls, loadSeq, key, isLoading)  BY DEF CallsInv
    <2>3. CASE Wanted(c)
      <3>1. \A d \in calls \ {c} : ~(d.kind = "load" /\ d.seq = loadSeq)
        BY <1>2, <2>2, <2>3 DEF Orderly, Wanted
      <3> QED  BY <2>1, <3>1 DEF Orderly
    <2>4. CASE ~Wanted(c)
      <3>1. isLoading' = isLoading  BY <1>2, <2>4 DEF PageInv
      <3> QED  BY <2>1, <2>2, <3>1 DEF Orderly
    <2> QED  BY <2>3, <2>4
  <1>6. calls \ {c} \subseteq Sent'  BY <1>2 DEF CallsInv, Sent, Requests
  <1>7. RequestedInv'  BY <1>2, RequestedFollow
  <1>8. CASE Wanted(c) /\ answer = "link"
    <2> DEFINE l == Listed(c.key, n)
    <2>1. c.key = key /\ n \in c.from .. served[c.key] /\ SetLoadedSharedLink(l)
      BY <1>8 DEF LoadAnswer, Wanted, Versions
    <2>2. n \in DOMAIN Listings[c.key]
      <3>1. c.from \in Nat \ {0} /\ served[c.key] \in DOMAIN Listings[c.key]
        BY <1>1 DEF Sent, Requests, ProxyInv
      <3>2. Listings[c.key] \in Seq(Seq(DOMAIN Day))  BY <1>1, ListingsAssumption
      <3>3. DOMAIN Listings[c.key] = 1 .. Len(Listings[c.key])
              /\ Len(Listings[c.key]) \in Nat
        BY <3>2
      <3> HIDE <3>2
      <3> QED  BY <2>1, <3>1, <3>3
    <2>3. AsListed(l) /\ l.key = c.key  BY <1>1, <2>2, ListedIsAsListed
    <2> HIDE DEF l
    <2>4. /\ link' = l /\ listed' = Ids(l) /\ strayed' = FALSE /\ moved' = FALSE
          /\ selectedAssets' = {} /\ isSelectionMode' = FALSE
      BY <2>1 DEF SetLoadedSharedLink
    <2>5. ~isLoading' /\ ~Gallery
      BY <1>2, <1>4, <1>8 DEF Gallery
    <2>6. error' = error /\ passwordRequired' = passwordRequired
      <3>1. error' = (error \/ (Wanted(c) /\ answer = "failed"))
               /\ passwordRequired' = (passwordRequired \/ (Wanted(c) /\ answer = "locked"))
        BY DEF LoadAnswer
      <3>2. error \in BOOLEAN /\ passwordRequired \in BOOLEAN  BY DEF PageInv
      <3> QED  BY <1>8, <3>1, <3>2
    <2>7. PageInv'
      <3>1. isLoading' \in BOOLEAN /\ strayed' \in BOOLEAN /\ moved' \in BOOLEAN
        BY <1>2, <2>4
      <3>2. error' \in BOOLEAN /\ passwordRequired' \in BOOLEAN
        BY <2>6 DEF PageInv
      <3>3. loadSeq' \in Nat \ {0} /\ (link' = NoLink \/ AsListed(link'))
        BY <1>2, <2>3, <2>4 DEF PageInv
      <3>4. passwordRequired' => key' \in Locked
        BY <1>2, <2>6 DEF PageInv, addressVars
      <3> QED  BY <2>5, <3>1, <3>2, <3>3, <3>4 DEF PageInv
    <2>8. LinkInv'  BY <1>2, <2>1, <2>3, <2>4 DEF LinkInv, addressVars
    <2>9. \/ selectedAsset' = 0 /\ selectedAssetIndex' = 0
          \/ /\ selectedAssetIndex' \in DOMAIN l.assets
             /\ l.assets[selectedAssetIndex'].id = selectedAsset'
      <3>1. PICK m \in Nat : DOMAIN l.assets = 1 .. m  BY <2>3, ListedPhotos
      <3>2. IndexOf(l, hash) # 0 =>
              IndexOf(l, hash) \in DOMAIN l.assets /\ l.assets[IndexOf(l, hash)].id = hash
        BY <3>1, IndexFound
      <3> QED  BY <2>1, <3>2 DEF SetLoadedSharedLink
    <2>10. \A i \in DOMAIN l.assets :
             /\ i \in Nat \ {0} /\ l.assets[i].id \in DOMAIN Day
             /\ l.assets[i].id # 0 /\ l.assets[i].id \in Ids(l)
      BY <2>3, ListedPhotos
    <2>11. OpenInv'  BY <2>9, <2>10 DEF OpenInv, Asset
    <2>12. SelectionInv'
      <3>1. selectedAsset' # 0 =>
              selectedAsset' \in listed' /\ Current'.id = selectedAsset'
        BY <2>4, <2>9, <2>10 DEF Current, Assets
      <3> QED  BY <2>4, <3>1 DEF SelectionInv
    <2>13. TouchInv'  BY <1>2, <2>5, TouchFollows
    <2>14. CallsInv'  BY <1>2, <1>3, <1>5, <1>6, <2>7, <2>11, CallsFollow
    <2> QED  BY <1>3, <1>7, <2>7, <2>8, <2>11, <2>12, <2>13, <2>14
  <1>9. CASE ~(Wanted(c) /\ answer = "link")
    <2>1. UNCHANGED <<link, strayed, listed, viewerVars, selectionVars>>
      BY <1>9 DEF LoadAnswer
    <2>2. /\ passwordRequired' = (passwordRequired \/ (Wanted(c) /\ answer = "locked"))
          /\ error' = (error \/ (Wanted(c) /\ answer = "failed"))
      BY DEF LoadAnswer
    <2>3. isLoading' \in BOOLEAN /\ error' \in BOOLEAN /\ passwordRequired' \in BOOLEAN
      BY <1>2, <2>2
    <2>4. isLoading' => ~error' /\ ~passwordRequired'
      BY <1>2, <2>2 DEF PageInv
    <2>5. PageInv'
      <3>1. strayed' = strayed /\ moved' = moved /\ link' = link /\ loadSeq' = loadSeq
        BY <1>2, <2>1 DEF viewerVars
      <3>2. strayed' \in BOOLEAN /\ moved' \in BOOLEAN  BY <3>1 DEF PageInv
      <3>3. loadSeq' \in Nat \ {0} /\ (link' = NoLink \/ AsListed(link'))
        BY <3>1 DEF PageInv
      <3>4. passwordRequired' => key' \in Locked
        <4>1. answer = "locked" /\ Wanted(c) => key \in Locked
          BY DEF LoadAnswer, Refused, Wanted
        <4> QED  BY <1>2, <2>2, <4>1 DEF PageInv, addressVars
      <3> QED  BY <2>3, <2>4, <3>2, <3>3, <3>4 DEF PageInv
    <2>6. OpenInv'  BY <2>1 DEF OpenInv, viewerVars
    <2>7. LinkInv'  BY <1>2, <2>1 DEF LinkInv, addressVars
    <2>8. Settled' => Settled
      <3>1. Wanted(c) => error' \/ passwordRequired'
        BY <1>9, <2>2
      <3>2. ~Wanted(c) => isLoading' = isLoading  BY <1>2 DEF PageInv
      <3> QED  BY <2>2, <3>1, <3>2 DEF Settled
    <2>9. SelectionInv'
      <3>1. Current' = Current  BY <2>1 DEF Current, Assets, viewerVars
      <3> QED  BY <2>1, <2>8, <3>1 DEF SelectionInv, viewerVars, selectionVars
    <2>10. TouchInv'  BY <1>2, <2>1, TouchFollows
    <2>11. CallsInv'  BY <1>2, <1>3, <1>5, <1>6, <2>5, <2>6, CallsFollow
    <2> QED  BY <1>3, <1>7, <2>5, <2>6, <2>7, <2>9, <2>10, <2>11
  <1> QED  BY <1>8, <1>9

-----------------------------------------------------------------------------
(* The steps within one load.                                              *)

LEMMA StepKeeps ==
  ASSUME IInv, NEW pending, Effects(pending),
         ProxyInv', PageInv', OpenInv', LinkInv', SelectionInv',
         UNCHANGED <<key, loadSeq, isLoading>>, listed \subseteq listed',
         \A c \in pending : c \in calls \/ (c \in Sent' /\ c.kind # "load")
  PROVE  IInv'
  <1> USE DEF IInv
  <1>1. pending \subseteq Sent'  BY DEF CallsInv, Sent, Requests
  <1>2. Orderly(pending, loadSeq', key', isLoading')  BY DEF CallsInv, Orderly
  <1>3. CallsInv'  BY <1>1, <1>2, CallsFollow
  <1>4. RequestedInv' /\ TouchInv'  BY RequestedFollow, TouchFollows
  <1> QED  BY <1>3, <1>4

\* Most steps leave the share and its selection as they are; some move the viewer.
LEMMA ViewerStepKeeps ==
  ASSUME IInv, NEW pending, Effects(pending), ProxyInv', OpenInv', moved' \in BOOLEAN,
         UNCHANGED <<key, pageVars, selectionVars>>,
         \A c \in pending : c \in calls \/ (c \in Sent' /\ c.kind # "load"),
         Settled /\ selectedAsset' # 0 =>
           selectedAsset' \in listed /\ (moved' \/ Current'.id = selectedAsset')
  PROVE  IInv'
  <1> USE DEF IInv
  <1>1. PageInv'
    <2>1. UNCHANGED <<loadSeq, isLoading, error, passwordRequired, link, strayed>>
      BY DEF pageVars
    <2> QED  BY <2>1 DEF PageInv
  <1>2. LinkInv'  BY DEF LinkInv, pageVars
  <1>3. SelectionInv'
    <2>1. Settled' = Settled  BY DEF Settled, pageVars
    <2> QED  BY <2>1 DEF SelectionInv, pageVars, selectionVars
  <1> QED  BY <1>1, <1>2, <1>3, StepKeeps DEF pageVars

LEMMA SameViewer ==
  ASSUME IInv, UNCHANGED <<pageVars, viewerVars>>
  PROVE  /\ OpenInv' /\ moved' \in BOOLEAN
         /\ Settled /\ selectedAsset' # 0 =>
              selectedAsset' \in listed /\ (moved' \/ Current'.id = selectedAsset')
  <1> USE DEF IInv
  <1>1. Current' = Current  BY DEF Current, Assets, pageVars, viewerVars
  <1>2. moved' \in BOOLEAN  BY DEF PageInv, viewerVars
  <1> QED  BY <1>1, <1>2 DEF SelectionInv, OpenInv, viewerVars

LEMMA SpendCounts == ASSUME ProxyInv, Spend PROVE moves' \in 0 .. MaxMoves
  BY KeysAssumption DEF ProxyInv, Spend

LEMMA PasswordsKeep ==
  ASSUME IInv,
         \/ SubmitPassword
         \/ \E c \in calls, valid \in BOOLEAN : PasswordAnswer(c, valid)
  PROVE  IInv'
  <1> USE DEF IInv
  <1>1. CASE SubmitPassword
    <2>1. ProxyInv'
      <3>1. moves' \in 0 .. MaxMoves  BY <1>1, SpendCounts DEF SubmitPassword
      <3> QED  BY <1>1, <3>1 DEF SubmitPassword, ProxyInv, addressVars, proxyVars
    <2>2. UNCHANGED <<key, pageVars, viewerVars, selectionVars>>
             /\ Effects(calls \union {Call("password", 0)})
      BY <1>1 DEF SubmitPassword, addressVars
    <2>3. PageInv'
      <3>1. UNCHANGED <<loadSeq, isLoading, error, passwordRequired, link, strayed, moved>>
        BY <2>2 DEF pageVars, viewerVars
      <3> QED  BY <2>2, <3>1 DEF PageInv
    <2>4. key' \in Locked  BY <1>1, <2>2 DEF SubmitPassword, PageInv
    <2>5. Call("password", 0) \in Sent' /\ Call("password", 0).kind # "load"
      BY <2>1, <2>3, <2>4, CallIsSent DEF Asset
    <2> QED  BY <2>1, <2>2, <2>5, SameViewer, ViewerStepKeeps
  <1>2. ASSUME NEW c \in calls, PasswordAnswer(c, TRUE) PROVE IInv'
    <2>1. Load(calls \ {c}) /\ UNCHANGED <<viewerVars, selectionVars>>
      BY <1>2 DEF PasswordAnswer
    <2>3. c.key \in Locked  BY <1>2 DEF PasswordAnswer, CallsInv, Sent
    <2>4. unlocked' \subseteq Locked  BY <1>2, <2>3 DEF PasswordAnswer, ProxyInv
    <2>5. ProxyInv'  BY <1>2, <2>4 DEF PasswordAnswer, ProxyInv, addressVars
    <2> QED  BY <2>1, <2>5, LoadKeeps
  <1>3. ASSUME NEW c \in calls, PasswordAnswer(c, FALSE) PROVE IInv'
    <2>1. UNCHANGED <<addressVars, proxyVars, pageVars, viewerVars, selectionVars, moves>>
             /\ Effects(calls \ {c})
      BY <1>3 DEF PasswordAnswer, proxyVars
    <2>2. ProxyInv'  BY <2>1 DEF ProxyInv, addressVars, proxyVars
    <2> QED  BY <2>1, <2>2, SameViewer, ViewerStepKeeps DEF addressVars
  <1> QED  BY <1>1, <1>2, <1>3

\* Between its request and its answer a refresh has the listing of one moment.
LEMMA VersionsExist ==
  ASSUME ProxyInv, NEW c \in Sent, NEW n \in Versions(c)
  PROVE  n \in DOMAIN Listings[c.key]
  <1>1. c.key \in Keys /\ c.from \in Nat \ {0}  BY DEF Sent, Requests
  <1>2. Listings[c.key] \in Seq(Seq(DOMAIN Day))  BY <1>1, ListingsAssumption
  <1>3. DOMAIN Listings[c.key] = 1 .. Len(Listings[c.key]) /\ Len(Listings[c.key]) \in Nat
    BY <1>2
  <1>4. n \in c.from .. served[c.key] /\ served[c.key] \in 1 .. Len(Listings[c.key])
    BY <1>1, <1>3 DEF Versions, ProxyInv
  <1> HIDE <1>2
  <1> QED  BY <1>1, <1>3, <1>4

LEMMA RefreshesKeep ==
  ASSUME IInv,
         \/ \E added \in BOOLEAN : UploadsSettled(added)
         \/ \E c \in calls, ok \in BOOLEAN : \E n \in Versions(c) : RefreshAnswer(c, ok, n)
  PROVE  IInv'
  <1> USE DEF IInv
  <1>1. ASSUME NEW added \in BOOLEAN, UploadsSettled(added) PROVE IInv'
    <2>1. ProxyInv'
      <3>1. moves' \in 0 .. MaxMoves  BY <1>1, SpendCounts DEF UploadsSettled
      <3>2. /\ served' = IF added THEN [served EXCEPT ![key] = @ + 1] ELSE served
            /\ served'[key] \in DOMAIN Listings[key]
            /\ key' = key /\ hash' = hash /\ unlocked' = unlocked
        BY <1>1 DEF UploadsSettled, addressVars
      <3>3. key \in Keys /\ served \in [Keys -> Nat]  BY DEF ProxyInv
      <3>4. served' \in [Keys -> Nat] /\ \A k \in Keys : k # key => served'[k] = served[k]
        BY <3>2, <3>3
      <3>5. \A k \in Keys : served'[k] \in DOMAIN Listings[k]
        BY <3>2, <3>4 DEF ProxyInv
      <3> QED  BY <3>1, <3>2, <3>4, <3>5 DEF ProxyInv
    <2>2. UNCHANGED <<key, pageVars, viewerVars, selectionVars>>
             /\ Effects(calls \union {Call("refresh", 0)})
      BY <1>1 DEF UploadsSettled, addressVars
    <2>3. PageInv'
      <3>1. UNCHANGED <<loadSeq, isLoading, error, passwordRequired, link, strayed, moved>>
        BY <2>2 DEF pageVars, viewerVars
      <3> QED  BY <2>2, <3>1 DEF PageInv
    <2>4. Call("refresh", 0) \in Sent' /\ Call("refresh", 0).kind # "load"
      BY <2>1, <2>3, CallIsSent DEF Asset
    <2> QED  BY <2>1, <2>2, <2>4, SameViewer, ViewerStepKeeps
  <1>2. ASSUME NEW c \in calls, NEW n \in Versions(c), RefreshAnswer(c, FALSE, n)
        PROVE  IInv'
    <2>1. UNCHANGED <<addressVars, proxyVars, pageVars, viewerVars, selectionVars, moves>>
             /\ Effects(calls \ {c})
      BY <1>2 DEF RefreshAnswer, pageVars, viewerVars
    <2>2. ProxyInv'  BY <2>1 DEF ProxyInv, addressVars, proxyVars
    <2> QED  BY <2>1, <2>2, SameViewer, ViewerStepKeeps DEF addressVars
  <1>3. ASSUME NEW c \in calls, NEW n \in Versions(c), RefreshAnswer(c, TRUE, n)
        PROVE  IInv'
    <2> DEFINE l == Listed(c.key, n)
    <2>1. c \in Sent /\ c.key \in Keys  BY DEF CallsInv, Sent, Requests
    <2>2. AsListed(l) /\ l.key = c.key
      BY <2>1, VersionsExist, ListedIsAsListed
    <2>3. /\ link' = l /\ strayed' = (c.key # key) /\ listed' = listed \union Ids(link')
          /\ moved' = TRUE
          /\ UNCHANGED <<addressVars, proxyVars, loadSeq, isLoading, error,
                         passwordRequired, selectedAsset, selectedAssetIndex,
                         selectionVars, moves>>
          /\ Effects(calls \ {c})
      BY <1>3 DEF RefreshAnswer
    <2> HIDE DEF l
    <2>4. ProxyInv'  BY <2>3 DEF ProxyInv, addressVars, proxyVars
    <2>5. PageInv'
      <3>1. strayed' \in BOOLEAN /\ moved' \in BOOLEAN /\ AsListed(link')
        BY <2>2, <2>3
      <3>2. UNCHANGED <<loadSeq, isLoading, error, passwordRequired, key>>
        BY <2>3 DEF addressVars
      <3> QED  BY <3>1, <3>2 DEF PageInv
    <2>6. OpenInv'  BY <2>3 DEF OpenInv
    <2>7. LinkInv'
      <3>1. link'.key = key' \/ strayed'  BY <2>2, <2>3 DEF addressVars
      <3> QED  BY <2>3, <3>1 DEF LinkInv
    <2>8. SelectionInv'
      <3>1. Settled' = Settled  BY <2>3 DEF Settled
      <3> QED  BY <2>3, <3>1 DEF SelectionInv, selectionVars
    <2> QED  BY <2>3, <2>4, <2>5, <2>6, <2>7, <2>8, StepKeeps DEF addressVars
  <1> QED  BY <1>1, <1>2, <1>3

\* Details change no photo's id and no photo's day.
LEMMA DetailsKeepListing ==
  ASSUME AsListed(link), NEW id
  PROVE  LET l == [link EXCEPT !.assets = [i \in DOMAIN Assets |-> Merged(Assets[i], id)]]
         IN AsListed(l) /\ l # NoLink /\ l.key = link.key /\ DOMAIN l.assets = DOMAIN Assets
            /\ (\A i \in DOMAIN Assets : l.assets[i].id = Assets[i].id) /\ Ids(l) = Ids(link)
  <1> DEFINE a == [i \in DOMAIN Assets |-> Merged(Assets[i], id)]
             l == [link EXCEPT !.assets = a]
  <1>1. link \in [key : Keys, n : Nat \ {0}, assets : Seq(Photos)]  BY DEF AsListed
  <1>2. Assets \in Seq(Photos)
    <2> HIDE DEF Photos
    <2> QED  BY <1>1 DEF Assets
  <1>3. \A i \in DOMAIN Assets :
          a[i] \in Photos /\ a[i].id = Assets[i].id /\ a[i].day = Assets[i].day
    <2>1. \A i \in DOMAIN Assets : Assets[i] \in Photos  BY <1>2
    <2> QED  BY <2>1 DEF Photos, Merged
  <1>4. a \in Seq(Photos) /\ DOMAIN a = DOMAIN Assets
    <2>1. DOMAIN Assets = 1 .. Len(Assets) /\ Len(Assets) \in Nat  BY <1>2
    <2>2. a \in [1 .. Len(Assets) -> Photos]  BY <1>3, <2>1
    <2> QED  BY <2>1, <2>2
  <1>5. l.key = link.key /\ l.n = link.n /\ l.assets = a
    BY <1>1
  <1>6. l \in [key : Keys, n : Nat \ {0}, assets : Seq(Photos)]
    <2> HIDE DEF a, Photos
    <2> QED  BY <1>1, <1>4
  <1>7. AsListed(l)
    <2> HIDE DEF a, l
    <2> QED  BY <1>3, <1>4, <1>5, <1>6 DEF AsListed, Assets
  <1>8. l # NoLink
    <2>1. l.n # 0  BY <1>1, <1>5
    <2> QED  BY <2>1 DEF NoLink
  <1>9. Ids(l) = Ids(link)
    <2>1. DOMAIN l.assets = DOMAIN Assets /\ \A i \in DOMAIN Assets : l.assets[i].id = Assets[i].id
      BY <1>3, <1>4, <1>5
    <2> HIDE DEF l
    <2> QED  BY <2>1 DEF Ids, Assets
  <1> QED  BY <1>3, <1>4, <1>5, <1>7, <1>8, <1>9

LEMMA DetailsKeep ==
  ASSUME IInv, NEW c \in calls, NEW ok \in BOOLEAN, DetailsAnswer(c, ok)
  PROVE  IInv'
  <1> USE DEF IInv
  <1> DEFINE l == [link EXCEPT !.assets = [i \in DOMAIN Assets |-> Merged(Assets[i], c.id)]]
  <1>1. /\ link' = IF ok THEN l ELSE link
        /\ UNCHANGED <<addressVars, proxyVars, loadSeq, isLoading, error, passwordRequired,
                       strayed, listed, viewerVars, selectionVars, moves>>
        /\ Effects(calls \ {c})
    BY DEF DetailsAnswer
  <1>2. /\ link' = NoLink \/ AsListed(link')
        /\ link' # NoLink => link # NoLink
        /\ link'.key = link.key /\ Ids(link') = Ids(link)
        /\ DOMAIN link'.assets = DOMAIN Assets
        /\ \A i \in DOMAIN Assets : link'.assets[i].id = Assets[i].id
    <2>1. CASE ~ok  BY <1>1, <2>1 DEF PageInv, Assets
    <2>2. CASE ok /\ link = NoLink
      <3>1. l = NoLink  BY <2>2 DEF NoLink, Assets
      <3> QED  BY <1>1, <2>2, <3>1 DEF Assets
    <2>3. CASE ok /\ link # NoLink
      <3>1. AsListed(link)  BY <2>3 DEF PageInv
      <3>2. /\ AsListed(l) /\ l.key = link.key /\ Ids(l) = Ids(link)
            /\ DOMAIN l.assets = DOMAIN Assets
            /\ \A i \in DOMAIN Assets : l.assets[i].id = Assets[i].id
        BY <3>1, DetailsKeepListing
      <3> HIDE DEF l
      <3> QED  BY <1>1, <2>3, <3>2
    <2> QED  BY <2>1, <2>2, <2>3
  <1> HIDE DEF l
  <1>3. ProxyInv'  BY <1>1 DEF ProxyInv, addressVars, proxyVars
  <1>4. PageInv'
    <2>1. UNCHANGED <<key, loadSeq, isLoading, error, passwordRequired, strayed, moved>>
      BY <1>1 DEF addressVars, viewerVars
    <2> QED  BY <1>2, <2>1 DEF PageInv
  <1>5. OpenInv'  BY <1>1 DEF OpenInv, viewerVars
  <1>6. LinkInv'  BY <1>1, <1>2 DEF LinkInv, addressVars
  <1>7. SelectionInv'
    <2>1. Current'.id = Current.id
      BY <1>1, <1>2 DEF Current, Assets, viewerVars
    <2>2. Settled' = Settled  BY <1>1 DEF Settled
    <2> QED  BY <1>1, <2>1, <2>2 DEF SelectionInv, viewerVars, selectionVars
  <1> QED  BY <1>1, <1>3, <1>4, <1>5, <1>6, <1>7, StepKeeps DEF addressVars

-----------------------------------------------------------------------------
(* The viewer.                                                             *)

LEMMA ViewersKeep ==
  ASSUME IInv,
         \/ \E i \in DOMAIN Assets : Open(i) \/ Leaf(i)
         \/ CloseViewer
  PROVE  IInv'
  <1> USE DEF IInv
  <1>1. ASSUME NEW i \in DOMAIN Assets, Open(i) \/ Leaf(i) PROVE IInv'
    <2>1. /\ SelectAsset(i) /\ hash' \in {hash, Assets[i].id} /\ Gallery /\ Spend
          /\ UNCHANGED <<key, proxyVars, pageVars, selectionVars>> /\ Effects(calls)
      BY <1>1 DEF Open, Leaf, Browsing, Mounted
    <2>2. i \in Nat \ {0} /\ Assets[i].id \in DOMAIN Day /\ Assets[i].id # 0
             /\ Assets[i].id \in Ids(link)
      BY ListedPhotos DEF PageInv, Assets
    <2>3. ProxyInv'
      <3>1. moves' \in 0 .. MaxMoves  BY <2>1, SpendCounts
      <3>2. hash' \in Asset  BY <2>1, <2>2 DEF ProxyInv, Asset
      <3> QED  BY <2>1, <3>1, <3>2 DEF ProxyInv, proxyVars
    <2>4. OpenInv' /\ moved' \in BOOLEAN  BY <2>1, <2>2 DEF SelectAsset, OpenInv, Asset
    <2>5. selectedAsset' \in listed /\ Current'.id = selectedAsset'
      <3>1. Assets[i].id \in listed  BY <2>1, <2>2 DEF LinkInv, Gallery
      <3>2. Assets' = Assets  BY <2>1 DEF Assets, pageVars
      <3> QED  BY <2>1, <3>1, <3>2 DEF SelectAsset, Current
    <2> QED  BY <2>1, <2>3, <2>4, <2>5, ViewerStepKeeps
  <1>2. ASSUME CloseViewer PROVE IInv'
    <2>1. /\ Spend /\ hash' = 0
          /\ selectedAsset' = 0 /\ selectedAssetIndex' = 0 /\ moved' = FALSE
          /\ UNCHANGED <<key, proxyVars, pageVars, selectionVars>> /\ Effects(calls)
      BY <1>2 DEF CloseViewer
    <2>2. ProxyInv'
      <3>1. moves' \in 0 .. MaxMoves  BY <2>1, SpendCounts
      <3> QED  BY <2>1, <3>1 DEF ProxyInv, proxyVars, Asset
    <2>3. OpenInv' /\ moved' \in BOOLEAN  BY <2>1 DEF OpenInv, Asset
    <2> QED  BY <2>1, <2>2, <2>3, ViewerStepKeeps
  <1> QED  BY <1>1, <1>2

-----------------------------------------------------------------------------
(* The selection and its gestures.                                         *)

LEMMA PickKeeps ==
  ASSUME IInv, ProxyInv', UNCHANGED <<key, pageVars, calls, viewerVars, requested>>,
         touch' \in [asset : Asset, timer : BOOLEAN, lost : Nat, stray : Asset],
         touch'.timer => Gallery,
         touch'.asset # 0 => Gallery /\ touch'.asset \in listed,
         isSelectionMode' \in BOOLEAN, selectedAssets' # {} => isSelectionMode',
         Settled => selectedAssets' \subseteq listed \union foreign'
  PROVE  IInv'
  <1> USE DEF IInv
  <1>1. /\ UNCHANGED <<loadSeq, isLoading, error, passwordRequired, link, strayed, listed>>
        /\ UNCHANGED <<selectedAsset, selectedAssetIndex, moved>>
    BY DEF pageVars, viewerVars
  <1>2. Gallery' = Gallery /\ Mounted' = Mounted /\ Settled' = Settled /\ Current' = Current
    BY <1>1 DEF Gallery, Mounted, Settled, Current, Assets
  <1>3. PageInv'  BY <1>1 DEF PageInv
  <1>4. CallsInv'  BY <1>1 DEF CallsInv, Sent, Requests
  <1>5. LinkInv' /\ OpenInv'  BY <1>1 DEF LinkInv, OpenInv
  <1>6. RequestedInv' /\ TouchInv'  BY <1>1, <1>2 DEF RequestedInv, TouchInv
  <1>7. SelectionInv'  BY <1>1, <1>2 DEF SelectionInv
  <1> QED  BY <1>3, <1>4, <1>5, <1>6, <1>7

\* What the gestures select from is listed.
LEMMA GestureIsInGallery ==
  ASSUME IInv, Gesture
  PROVE  /\ ProxyInv' /\ UNCHANGED <<key, pageVars, calls, viewerVars, requested>>
         /\ Gallery /\ Settled /\ Ids(link) \subseteq listed
         /\ selectedAssets \subseteq listed \union foreign
         /\ \A id \in Ids(link) : id \in Asset
  <1> USE DEF IInv
  <1>1. moves' \in 0 .. MaxMoves  BY SpendCounts DEF Gesture
  <1>2. ProxyInv'  BY <1>1 DEF Gesture, ProxyInv, addressVars, proxyVars
  <1>3. Gallery /\ Settled  BY DEF Gesture, Browsing, Gallery, Settled
  <1>4. \A id \in Ids(link) : id \in Asset
    <2>1. \A i \in DOMAIN link.assets : link.assets[i].id \in DOMAIN Day
      BY ListedPhotos DEF PageInv
    <2> QED  BY <2>1 DEF Ids, Asset
  <1> QED
    BY <1>2, <1>3, <1>4 DEF Gesture, addressVars, Gallery, LinkInv, SelectionInv

LEMMA SelectSets ==
  ASSUME IInv, NEW set, Select(set)
  PROVE  /\ selectedAssets' = set /\ isSelectionMode' \in BOOLEAN
         /\ selectedAssets' # {} => isSelectionMode'
  <1>1. isSelectionMode \in BOOLEAN  BY DEF IInv, SelectionInv
  <1> QED  BY <1>1 DEF Select

LEMMA SelectionsKeep ==
  ASSUME IInv,
         \/ \E id \in Ids(link) : ToggleAssetSelection(id)
         \/ \E d \in {Day[id] : id \in DOMAIN Day} : SelectAllFromDate(d)
         \/ ToggleAll \/ EnterSelectionMode \/ ExitSelect
  PROVE  IInv'
  <1> USE DEF IInv
  <1>1. touch \in [asset : Asset, timer : BOOLEAN, lost : Nat, stray : Asset]
           /\ (touch.timer => Gallery) /\ (touch.asset # 0 => Gallery /\ touch.asset \in listed)
    BY DEF TouchInv
  <1> DEFINE Kept == /\ Gesture /\ touch' = touch /\ foreign' = foreign
                     /\ isSelectionMode' \in BOOLEAN
                     /\ selectedAssets' # {} => isSelectionMode'
                     /\ selectedAssets' \subseteq listed \union foreign
  <1>2. ASSUME NEW id \in Ids(link), ToggleAssetSelection(id) PROVE Kept
    <2>1. Select(Flip(selectedAssets, id)) /\ Gesture /\ UNCHANGED <<foreign, touch>>
      BY <1>2 DEF ToggleAssetSelection
    <2>2. Flip(selectedAssets, id) \subseteq listed \union foreign
      BY <2>1, GestureIsInGallery DEF Flip
    <2> QED  BY <2>1, <2>2, SelectSets
  <1>3. ASSUME NEW d, SelectAllFromDate(d) PROVE Kept
    <2> DEFINE ofDate == {Assets[i].id : i \in {j \in DOMAIN Assets : Assets[j].day = d}}
    <2>1. /\ Gesture /\ UNCHANGED <<foreign, touch>>
          /\ Select(IF ofDate \subseteq selectedAssets THEN selectedAssets \ ofDate
                    ELSE selectedAssets \union ofDate)
      BY <1>3 DEF SelectAllFromDate
    <2>2. ofDate \subseteq Ids(link)  BY DEF Ids, Assets
    <2> HIDE DEF ofDate
    <2> QED  BY <2>1, <2>2, GestureIsInGallery, SelectSets
  <1>4. ASSUME ToggleAll PROVE Kept
    <2>1. /\ Gesture /\ UNCHANGED <<foreign, touch>>
          /\ \/ Select({}) \/ Select(Ids(link))
      BY <1>4 DEF ToggleAll
    <2>2. selectedAssets' = {} \/ selectedAssets' = Ids(link)  BY <2>1, SelectSets
    <2>3. isSelectionMode' \in BOOLEAN /\ (selectedAssets' # {} => isSelectionMode')
      BY <2>1, SelectSets
    <2> QED  BY <2>1, <2>2, <2>3, GestureIsInGallery
  <1>5. ASSUME EnterSelectionMode \/ ExitSelect PROVE Kept
    <2>1. /\ Gesture /\ UNCHANGED <<foreign, touch>> /\ isSelectionMode' \in BOOLEAN
          /\ \/ selectedAssets' = selectedAssets /\ isSelectionMode' = TRUE
             \/ selectedAssets' = {}
      BY <1>5 DEF EnterSelectionMode, ExitSelect
    <2> QED  BY <2>1, GestureIsInGallery
  <1>6. Kept  BY <1>2, <1>3, <1>4, <1>5
  <1> QED  BY <1>1, <1>6, GestureIsInGallery, PickKeeps

LEMMA TouchesKeep ==
  ASSUME IInv,
         \/ \E id \in Ids(link) : TouchStart(id)
         \/ TouchEnd \/ StrayPress \/ \E ofLost \in BOOLEAN : LongPress(ofLost)
  PROVE  IInv'
  <1> USE DEF IInv
  <1>1. /\ touch \in [asset : Asset, timer : BOOLEAN, lost : Nat, stray : Asset]
        /\ touch.timer => Gallery
        /\ touch.asset # 0 => Gallery /\ touch.asset \in listed
    BY DEF TouchInv
  <1>2. /\ isSelectionMode \in BOOLEAN /\ (selectedAssets # {} => isSelectionMode)
        /\ Settled => selectedAssets \subseteq listed \union foreign
    BY DEF SelectionInv
  <1>3. ASSUME NEW id \in Ids(link), TouchStart(id) PROVE IInv'
    <2>1. /\ Gesture /\ UNCHANGED selectionVars
          /\ touch' = [touch EXCEPT !.asset = id, !.timer = TRUE,
                                    !.lost = IF touch.timer THEN @ + 1 ELSE @]
      BY <1>3 DEF TouchStart
    <2>2. id \in Asset /\ id \in listed /\ Gallery  BY <2>1, GestureIsInGallery
    <2>3. touch' \in [asset : Asset, timer : BOOLEAN, lost : Nat, stray : Asset]
             /\ touch'.asset = id
      <3>1. CASE touch.timer
        <4>1. touch.lost + 1 \in Nat  BY <1>1
        <4>2. touch' = [touch EXCEPT !.asset = id, !.timer = TRUE, !.lost = @ + 1]
          BY <2>1, <3>1
        <4> QED  BY <1>1, <2>2, <4>1, <4>2
      <3>2. CASE ~touch.timer
        <4>1. touch' = [touch EXCEPT !.asset = id, !.timer = TRUE, !.lost = @]
          BY <2>1, <3>2
        <4> QED  BY <1>1, <2>2, <4>1
      <3> QED  BY <3>1, <3>2
    <2> QED  BY <1>2, <2>1, <2>2, <2>3, GestureIsInGallery, PickKeeps DEF selectionVars
  <1>4. ASSUME TouchEnd PROVE IInv'
    <2>1. /\ touch' = [touch EXCEPT !.asset = 0, !.timer = FALSE]
          /\ UNCHANGED <<addressVars, proxyVars, pageVars, calls, viewerVars, requested,
                         selectionVars, moves>>
      BY <1>4 DEF TouchEnd
    <2>2. touch' \in [asset : Asset, timer : BOOLEAN, lost : Nat, stray : Asset]
             /\ touch'.asset = 0 /\ touch'.timer = FALSE
      BY <1>1, <2>1 DEF Asset
    <2>3. ProxyInv'  BY <2>1 DEF ProxyInv, addressVars, proxyVars
    <2> QED  BY <1>2, <2>1, <2>2, <2>3, PickKeeps DEF addressVars, selectionVars
  <1>5. ASSUME StrayPress PROVE IInv'
    <2>1. /\ touch' = [touch EXCEPT !.stray = 0]
          /\ Select(Flip(selectedAssets, touch.stray))
          /\ foreign' = foreign \union {touch.stray}
          /\ UNCHANGED <<addressVars, proxyVars, pageVars, calls, viewerVars, requested, moves>>
      BY <1>5 DEF StrayPress
    <2>2. touch' \in [asset : Asset, timer : BOOLEAN, lost : Nat, stray : Asset]
             /\ touch'.asset = touch.asset /\ touch'.timer = touch.timer
      BY <1>1, <2>1 DEF Asset
    <2>3. ProxyInv'  BY <2>1 DEF ProxyInv, addressVars, proxyVars
    <2>4. Settled => Flip(selectedAssets, touch.stray) \subseteq listed \union foreign'
      BY <1>2, <2>1 DEF Flip
    <2>5. selectedAssets' = Flip(selectedAssets, touch.stray) /\ isSelectionMode' \in BOOLEAN
             /\ (selectedAssets' # {} => isSelectionMode')
      BY <2>1, SelectSets
    <2> QED  BY <1>1, <2>1, <2>2, <2>3, <2>4, <2>5, PickKeeps DEF addressVars
  <1>6. ASSUME NEW ofLost \in BOOLEAN, LongPress(ofLost) PROVE IInv'
    <2>1. /\ touch' = IF ofLost THEN [touch EXCEPT !.lost = @ - 1, !.asset = 0]
                      ELSE [touch EXCEPT !.timer = FALSE, !.asset = 0]
          /\ Gallery /\ (ofLost => touch.lost > 0)
          /\ IF touch.asset = 0 THEN UNCHANGED selectionVars
             ELSE Select(Flip(selectedAssets, touch.asset)) /\ UNCHANGED foreign
          /\ UNCHANGED <<addressVars, proxyVars, pageVars, calls, viewerVars, requested, moves>>
      BY <1>6 DEF LongPress
    <2>2. touch' \in [asset : Asset, timer : BOOLEAN, lost : Nat, stray : Asset]
             /\ touch'.asset = 0
      <3>1. 0 \in Asset  BY DEF Asset
      <3>2. CASE ofLost
        <4>1. touch.lost - 1 \in Nat  BY <1>1, <2>1, <3>2
        <4>2. touch' = [touch EXCEPT !.lost = @ - 1, !.asset = 0]  BY <2>1, <3>2
        <4> QED  BY <1>1, <3>1, <4>1, <4>2
      <3>3. CASE ~ofLost
        <4>1. touch' = [touch EXCEPT !.timer = FALSE, !.asset = 0]  BY <2>1, <3>3
        <4> QED  BY <1>1, <3>1, <4>1
      <3> QED  BY <3>2, <3>3
    <2>3. ProxyInv'  BY <2>1 DEF ProxyInv, addressVars, proxyVars
    <2>4. CASE touch.asset = 0
      BY <1>1, <1>2, <2>1, <2>2, <2>3, <2>4, PickKeeps DEF addressVars, selectionVars
    <2>5. CASE touch.asset # 0
      <3>1. Select(Flip(selectedAssets, touch.asset)) /\ foreign' = foreign  BY <2>1, <2>5
      <3>2. Settled => Flip(selectedAssets, touch.asset) \subseteq listed \union foreign
        BY <1>1, <1>2, <2>5 DEF Flip
      <3>3. /\ selectedAssets' = Flip(selectedAssets, touch.asset)
            /\ isSelectionMode' \in BOOLEAN /\ (selectedAssets' # {} => isSelectionMode')
        BY <3>1, SelectSets
      <3> QED  BY <2>1, <2>2, <2>3, <3>1, <3>2, <3>3, PickKeeps DEF addressVars
    <2> QED  BY <2>4, <2>5
  <1> QED  BY <1>3, <1>4, <1>5, <1>6

-----------------------------------------------------------------------------
(* What holds of every behaviour.                                          *)

LEMMA InitIInv == Init => IInv
  <1> SUFFICES ASSUME Init PROVE IInv  OBVIOUS
  <1>1. isLoading = TRUE /\ error = FALSE /\ passwordRequired = FALSE /\ strayed = FALSE
          /\ moved = FALSE /\ isSelectionMode = FALSE /\ link = NoLink /\ loadSeq = 1
    BY DEF Init
  <1>2. PageInv /\ ~Gallery /\ ~Settled
    <2>1. isLoading \in BOOLEAN /\ error \in BOOLEAN /\ passwordRequired \in BOOLEAN
             /\ strayed \in BOOLEAN /\ moved \in BOOLEAN
      BY <1>1
    <2>2. ~error /\ ~passwordRequired  BY <1>1
    <2>3. loadSeq \in Nat \ {0} /\ link = NoLink  BY <1>1
    <2>4. PageInv  BY <2>1, <2>2, <2>3 DEF PageInv
    <2> QED  BY <1>1, <2>4 DEF Gallery, Settled
  <1> USE DEF Init
  <1>3. ProxyInv
    <2>1. \A k \in Keys : 1 \in DOMAIN Listings[k]
      <3>1. ASSUME NEW k \in Keys PROVE 1 \in DOMAIN Listings[k]
        <4>1. Listings[k] \in Seq(Seq(DOMAIN Day)) /\ Listings[k] # <<>>
          BY ListingsAssumption
        <4> HIDE DEF Init
        <4> QED  BY <4>1
      <3> QED  BY <3>1
    <2> QED  BY <2>1, KeysAssumption DEF ProxyInv, Asset
  <1>4. CallsInv
    <2>1. calls \subseteq Sent  BY DEF Sent, Requests, Asset
    <2>2. \A c \in calls : c.key = key  OBVIOUS
    <2>3. \A c, d \in calls : c = d  OBVIOUS
    <2> HIDE DEF Init
    <2>4. Orderly(calls, loadSeq, key, isLoading)  BY <1>1, <2>2, <2>3 DEF Orderly
    <2> QED  BY <2>1, <2>4 DEF CallsInv
  <1>5. LinkInv /\ OpenInv  BY DEF LinkInv, OpenInv, Asset
  <1>6. RequestedInv /\ TouchInv  BY DEF RequestedInv, TouchInv, NoTouch, Asset
  <1>7. SelectionInv  BY <1>2 DEF SelectionInv
  <1> QED  BY <1>2, <1>3, <1>4, <1>5, <1>6, <1>7 DEF IInv

LEMMA LoadsKeep ==
  ASSUME IInv,
         \/ \E k \in Keys, h \in {0} \union DOMAIN Day : Navigate(k, h)
         \/ TryAgain
  PROVE  IInv'
  <1>1. ProxyInv  BY DEF IInv
  <1>2. ASSUME NEW k \in Keys, NEW h \in {0} \union DOMAIN Day, Navigate(k, h)
        PROVE  IInv'
    <2>1. /\ Spend /\ key' = k /\ hash' = h
          /\ UNCHANGED <<proxyVars, viewerVars, selectionVars>> /\ Load(calls)
      BY <1>2 DEF Navigate
    <2>2. moves' \in 0 .. MaxMoves  BY <1>1, <2>1, SpendCounts
    <2>3. ProxyInv'  BY <1>1, <2>1, <2>2 DEF ProxyInv, proxyVars, Asset
    <2> QED  BY <2>1, <2>3, LoadKeeps
  <1>3. ASSUME TryAgain PROVE IInv'
    <2>1. /\ Spend /\ Load(calls)
          /\ UNCHANGED <<addressVars, proxyVars, viewerVars, selectionVars>>
      BY <1>3 DEF TryAgain
    <2>2. moves' \in 0 .. MaxMoves  BY <1>1, <2>1, SpendCounts
    <2>3. ProxyInv'  BY <1>1, <2>1, <2>2 DEF ProxyInv, addressVars, proxyVars
    <2> QED  BY <2>1, <2>3, LoadKeeps
  <1> QED  BY <1>2, <1>3

LEMMA NextIInv == IInv /\ [Next]_vars => IInv'
  <1> SUFFICES ASSUME IInv, [Next]_vars PROVE IInv'  OBVIOUS
  <1>1. CASE Visit
    BY <1>1, LoadsKeep, PasswordsKeep, RefreshesKeep, ViewersKeep DEF Visit
  <1>2. CASE Pick  BY <1>2, SelectionsKeep, TouchesKeep DEF Pick
  <1>3. ASSUME NEW c \in calls, Answer(c) PROVE IInv'
    <2>1. CASE \E answer \in {"link", "locked", "failed"}, n \in Versions(c) :
                 LoadAnswer(c, answer, n)
      BY <2>1, LoadAnswerKeeps
    <2>2. CASE \E valid \in BOOLEAN : PasswordAnswer(c, valid)
      BY <2>2, PasswordsKeep
    <2>3. CASE \E ok \in BOOLEAN, n \in Versions(c) : RefreshAnswer(c, ok, n)
      BY <2>3, RefreshesKeep
    <2>4. CASE \E ok \in BOOLEAN : DetailsAnswer(c, ok)
      BY <2>4, DetailsKeep
    <2> QED  BY <1>3, <2>1, <2>2, <2>3, <2>4 DEF Answer
  <1>4. CASE UNCHANGED vars
    <2> USE <1>4 DEF vars, addressVars, proxyVars, pageVars, viewerVars, selectionVars
    <2>1. UNCHANGED <<key, hash, served, unlocked, moves>> /\ UNCHANGED touch
             /\ UNCHANGED <<key, pageVars, calls, viewerVars, requested>>
             /\ UNCHANGED <<selectedAssets, isSelectionMode, foreign>>
      OBVIOUS
    <2>2. ProxyInv /\ TouchInv /\ SelectionInv  BY DEF IInv
    <2>3. ProxyInv'  BY <2>1, <2>2 DEF ProxyInv
    <2> QED  BY <2>1, <2>2, <2>3, PickKeeps DEF TouchInv, SelectionInv
  <1> QED  BY <1>1, <1>2, <1>3, <1>4 DEF Next

LEMMA AlwaysIInv == Spec => []IInv
  BY InitIInv, NextIInv, PTL DEF Spec

\* SharePage.tsx: whatever loads are under way, and in whatever order they come
\* back, the gallery on the screen is the share of the address; only the refresh
\* after an upload, which checks nothing, puts another there.
THEOREM GalleryOfTheAddress == Spec => []AddressedShare
  <1>1. IInv => AddressedShare  BY DEF IInv, LinkInv, Gallery, AddressedShare
  <1> QED  BY <1>1, AlwaysIInv, PTL

\* mergeAssetDetails and setLoadedSharedLink: the photos of the gallery, and their
\* days, are those of one answer of the proxy, however late the details of any of
\* them come.
THEOREM ListingKept == Spec => []GalleryAsListed
  <1>1. IInv => GalleryAsListed
    <2> SUFFICES ASSUME IInv, link # NoLink PROVE GalleryAsListed
      BY DEF GalleryAsListed
    <2> DEFINE s == Listings[link.key][link.n]
    <2>1. AsListed(link)  BY DEF IInv, PageInv
    <2>2. Listed(link.key, link.n).assets
            = [i \in DOMAIN s |-> [id |-> s[i], day |-> Day[s[i]], exif |-> FALSE]]
      BY DEF Listed
    <2>3. DOMAIN Assets = DOMAIN s
             /\ \A i \in DOMAIN s : Assets[i].id = s[i] /\ Assets[i].day = Day[s[i]]
      BY <2>1 DEF AsListed, Assets
    <2>4. [i \in DOMAIN Assets |-> <<Assets[i].id, Assets[i].day>>]
            = [i \in DOMAIN s |-> <<s[i], Day[s[i]]>>]
      BY <2>3
    <2> DEFINE shown == Listed(link.key, link.n).assets
    <2>5. [i \in DOMAIN shown |-> <<shown[i].id, shown[i].day>>]
            = [i \in DOMAIN s |-> <<s[i], Day[s[i]]>>]
      <3>1. DOMAIN shown = DOMAIN s
               /\ \A i \in DOMAIN s : shown[i].id = s[i] /\ shown[i].day = Day[s[i]]
        <4> DEFINE f == [i \in DOMAIN s |-> [id |-> s[i], day |-> Day[s[i]], exif |-> FALSE]]
        <4>1. DOMAIN f = DOMAIN s /\ \A i \in DOMAIN s : f[i].id = s[i] /\ f[i].day = Day[s[i]]
          OBVIOUS
        <4>2. shown = f  BY <2>2
        <4> HIDE DEF f, shown, s
        <4> QED  BY <4>1, <4>2
      <3> HIDE DEF shown, s
      <3> QED  BY <3>1
    <2> QED  BY <2>4, <2>5 DEF GalleryAsListed
  <1> QED  BY <1>1, AlwaysIInv, PTL

\* store/share.ts: what is selected, and what the viewer has open, was listed for
\* the share on the screen since it was loaded, through every load, refresh and
\* late answer; only the press of a timer the gallery lost selects otherwise, and
\* only a refresh puts another photo under an open viewer.
THEOREM StateBelongsToShare == Spec => []StateOfShare
  <1>1. IInv => StateOfShare
    <2> SUFFICES ASSUME IInv PROVE StateOfShare  OBVIOUS
    <2> USE DEF IInv
    <2>1. TypeOK
      <3>1. /\ key \in Keys /\ hash \in {0} \union DOMAIN Day /\ unlocked \subseteq Locked
            /\ \A k \in Keys : served[k] \in DOMAIN Listings[k]
            /\ moves \in 0 .. MaxMoves
        BY DEF ProxyInv, Asset
      <3>2. \A c \in calls : /\ c.kind \in {"load", "password", "refresh", "details"}
                              /\ c.key \in Keys /\ c.seq \in 1 .. loadSeq
        BY DEF CallsInv, Sent, Requests
      <3>3. {isLoading, error, passwordRequired, isSelectionMode, strayed, moved}
              \subseteq BOOLEAN
        <4>1. isLoading \in BOOLEAN /\ error \in BOOLEAN /\ passwordRequired \in BOOLEAN
          BY DEF PageInv
        <4>2. strayed \in BOOLEAN /\ moved \in BOOLEAN /\ isSelectionMode \in BOOLEAN
          BY DEF PageInv, SelectionInv
        <4> QED  BY <4>1, <4>2
      <3>4. link = NoLink \/ link.key \in Keys  BY DEF PageInv, AsListed
      <3>5. isLoading => ~error /\ ~passwordRequired  BY DEF PageInv
      <3>6. selectedAsset \in {0} \union DOMAIN Day
               /\ (selectedAsset = 0) = (selectedAssetIndex = 0)
        BY DEF OpenInv, Asset
      <3>7. (~Mounted => requested = {}) /\ (touch.timer => Gallery)
        BY DEF RequestedInv, TouchInv
      <3> QED  BY <3>1, <3>2, <3>3, <3>4, <3>5, <3>6, <3>7 DEF TypeOK
    <2>2. Gallery => Settled  BY DEF Gallery, Settled
    <2>3. Mounted => Gallery /\ selectedAsset # 0  BY DEF Mounted
    <2> QED  BY <2>1, <2>2, <2>3 DEF StateOfShare, SelectionInv
  <1> QED  BY <1>1, AlwaysIInv, PTL
=============================================================================
