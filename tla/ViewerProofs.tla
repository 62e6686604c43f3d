----------------------------- MODULE ViewerProofs -----------------------------
(***************************************************************************)
(* The viewer, for any album and whatever the visitor does.  First its     *)
(* history: the account it keeps is right, no two elements carry the name  *)
(* of the travelling photo, and the latest transition wins.  Then its      *)
(* stage: carousel and zoom share it without taking from each other, a     *)
(* photo is the one that was loaded for it, and the controls of a video    *)
(* tell what it does.                                                      *)
(***************************************************************************)
EXTENDS Viewer, ViewerMedia, FiniteSetTheorems, SequenceTheorems, TLAPS

-----------------------------------------------------------------------------
(* The history.                                                            *)

Entry == [photo : 0 .. PhotoCount, depth : Int]
Hop == [by : {"user", "close"}, delta : Int, at : Nat]
Session == [seq : Nat, update : 0 .. PhotoCount, updated : BOOLEAN,
            named : {"none", "old", "new"}, over : BOOLEAN]

\* The page before the share, its gallery, then photos at most as deep as they
\* are far from the gallery; a close is never of more entries than there are.
EntriesInv ==
  /\ entries \in Seq(Entry) /\ Len(entries) >= 2
  /\ pos \in 1 .. Len(entries)
  /\ entries[1] = Outside /\ entries[2] = Gallery
  /\ \A i \in 3 .. Len(entries) : entries[i].photo # 0 /\ entries[i].depth \in 1 .. i - 2

HopsInv ==
  /\ hops \in Seq(Hop) /\ Len(hops) <= moves
  /\ moves \in 0 .. MaxMoves
  /\ \A i \in 1 .. Len(hops) : hops[i].by = "close" => hops[i].delta < 0

\* The newest transition is the only one that may have named a tile: the old one until
\* it is called back, the new one when the viewer is closed; and one that is still to
\* open the viewer finds it closed, unless it was asked for over it.
SessionsInv ==
  /\ sequence \in Nat /\ newest \in 0 .. PhotoCount /\ styled \in BOOLEAN
  /\ sessions \subseteq Session
  /\ \A x \in sessions : x.seq <= sequence
  /\ \A x, t \in sessions : x.seq = t.seq => x = t
  /\ \A x \in sessions : x.named # "none" => x.seq = sequence
  /\ \A x \in sessions : x.named = "old" => ~x.updated /\ x.update # 0
  /\ \A x \in sessions : x.named = "new" => x.updated /\ selected = 0
  /\ \A x \in sessions : x.seq = sequence => x.update = newest
  /\ \A x \in sessions :
       x.seq = sequence /\ ~x.updated /\ x.update # 0 /\ ~x.over => selected = 0

\* A photo that the address does not name although nothing is left to be done but,
\* perhaps, an opening over it.
Settled == \A x \in sessions : x.updated \/ x.seq # sequence
Astray ==
  /\ selected # 0 /\ opened = "whole" /\ pos # 1 /\ push = 0 /\ ~lost
  /\ newest # 0 \/ Settled
  /\ entries[pos].photo # selected

\* A close that will lead back to an entry: what makes a photo astray again right.
CloseUnderWay ==
  \E i \in 1 .. Len(hops) : hops[i].by = "close" /\ pos + hops[i].delta >= 1

ViewerInv ==
  /\ selected \in 0 .. PhotoCount /\ lastHistoryId \in 0 .. PhotoCount
  /\ viewerDepth \in 0 .. Len(entries)
  /\ opened \in {"whole", "blank", "lame", "leaked"}
  /\ push \in {0, selected} /\ (push # 0 => opened = "whole") /\ lost \in BOOLEAN
  /\ selected # 0 /\ opened = "whole" => lastHistoryId = selected
  /\ selected # 0 /\ opened = "whole" /\ pos # 1 => viewerDepth = entries[pos].depth
  /\ Astray => CloseUnderWay

HistoryInv == EntriesInv /\ HopsInv /\ SessionsInv /\ ViewerInv

-----------------------------------------------------------------------------
LEMMA AtOutside == ASSUME EntriesInv PROVE HasLeft <=> pos = 1
  BY DEF EntriesInv, HasLeft, Outside, Gallery

LEMMA EntriesStay == ASSUME EntriesInv, UNCHANGED <<entries, pos>> PROVE EntriesInv'
  BY DEF EntriesInv

LEMMA InitHistoryInv == ViewerInit => HistoryInv
  <1> SUFFICES ASSUME ViewerInit PROVE HistoryInv
    OBVIOUS
  <1>1. CASE entries = <<Outside, Gallery>> /\ selected = 0
    <2>1. EntriesInv
      BY <1>1, SizesAssumption DEF ViewerInit, EntriesInv, Entry, Outside, Gallery, SizesAssumption
    <2>2. HopsInv /\ SessionsInv
      <3>1. HopsInv
        BY <1>1, SizesAssumption DEF ViewerInit, HopsInv, SizesAssumption
      <3>2. sequence \in Nat /\ newest \in 0 .. PhotoCount
        BY <1>1, SizesAssumption DEF ViewerInit, SizesAssumption
      <3>3. sessions = {} /\ styled \in BOOLEAN
        BY Zenon DEF ViewerInit
      <3> QED BY <3>1, <3>2, <3>3, Zenon DEF SessionsInv
    <2>3. ViewerInv
      <3>1. selected = 0 /\ viewerDepth = 0 /\ lastHistoryId = 0 /\ push = 0 /\ lost = FALSE
            /\ opened = "whole"
        BY <1>1 DEF ViewerInit
      <3>2. Len(entries) = 2
        BY <1>1
      <3>3. ~Astray /\ lost \in BOOLEAN
        BY <3>1 DEF Astray
      <3> QED BY <3>1, <3>2, <3>3, SizesAssumption DEF ViewerInv, SizesAssumption
    <2> QED BY <2>1, <2>2, <2>3 DEF HistoryInv
  <1>2. ASSUME NEW i \in Photos,
               entries = <<Outside, Gallery, [photo |-> i, depth |-> 1]>>, selected = i
        PROVE  HistoryInv
    <2>1. EntriesInv
      BY <1>2, SizesAssumption
         DEF ViewerInit, EntriesInv, Entry, Outside, Gallery, Photos, SizesAssumption
    <2>2. HopsInv /\ SessionsInv
      <3>1. HopsInv
        BY <1>2, SizesAssumption DEF ViewerInit, HopsInv, SizesAssumption
      <3>2. sequence \in Nat /\ newest \in 0 .. PhotoCount
        BY <1>2, SizesAssumption DEF ViewerInit, Photos, SizesAssumption
      <3>3. sessions = {} /\ styled \in BOOLEAN
        BY Zenon DEF ViewerInit
      <3> QED BY <3>1, <3>2, <3>3, Zenon DEF SessionsInv
    <2>3. ViewerInv
      <3>1. /\ selected = i /\ viewerDepth = 1 /\ lastHistoryId = i /\ push = 0
            /\ lost = FALSE /\ i \in 1 .. PhotoCount /\ opened = "whole"
        BY <1>2 DEF ViewerInit, Photos
      <3>2. Len(entries) = 3 /\ pos = 3 /\ entries[3] = [photo |-> i, depth |-> 1]
        BY <1>2 DEF ViewerInit
      <3>3. entries[pos].photo = selected
        BY <3>1, <3>2
      <3>4. ~Astray /\ lost \in BOOLEAN
        BY <3>1, <3>3 DEF Astray
      <3> QED BY <3>1, <3>2, <3>4, SizesAssumption DEF ViewerInv, SizesAssumption
    <2> QED BY <2>1, <2>2, <2>3 DEF HistoryInv
  <1> QED BY <1>1, <1>2 DEF ViewerInit

-----------------------------------------------------------------------------
(* The viewer and its entries.                                             *)

\* An entry is pushed on top of the one the browser is at.
LEMMA PushEntryKeeps ==
  ASSUME EntriesInv, pos # 1, NEW photo \in Photos, NEW depth \in 1 .. pos - 1,
         PushEntry(photo, depth)
  PROVE  /\ EntriesInv' /\ pos' # 1 /\ pos' = Len(entries')
         /\ entries'[pos'] = [photo |-> photo, depth |-> depth]
  <1> DEFINE base == SubSeq(entries, 1, pos)
             e == [photo |-> photo, depth |-> depth]
  <1>1. pos \in 2 .. Len(entries) /\ Len(entries) \in Nat /\ entries \in Seq(Entry)
    BY DEF EntriesInv
  <1>2. /\ base \in Seq(Entry) /\ Len(base) = pos
        /\ \A i \in 1 .. pos : base[i] = entries[i]
    <2>1. \A i \in 1 .. pos : entries[i] \in Entry
      BY <1>1
    <2> QED BY <1>1, <2>1, SubSeqProperties
  <1>3. e \in Entry
    BY <1>1, SizesAssumption DEF Entry, Photos, SizesAssumption
  <1> HIDE DEF base, e
  <1>4. /\ entries' = Append(base, e) /\ pos' = pos + 1
    BY DEF PushEntry, base, e
  <1>5. /\ entries' \in Seq(Entry) /\ Len(entries') = pos + 1
        /\ entries'[pos + 1] = e
        /\ \A i \in 1 .. pos : entries'[i] = entries[i]
    BY <1>1, <1>2, <1>3, <1>4
  <1>6. e.photo # 0 /\ e.depth \in 1 .. pos - 1
    BY DEF e, Photos
  <1>7. EntriesInv'
    <2>1. \A i \in 3 .. Len(entries') :
            entries'[i].photo # 0 /\ entries'[i].depth \in 1 .. i - 2
      <3> SUFFICES ASSUME NEW i \in 3 .. pos + 1
                   PROVE  entries'[i].photo # 0 /\ entries'[i].depth \in 1 .. i - 2
        BY <1>1, <1>5
      <3>1. CASE i = pos + 1
        BY <1>1, <1>5, <1>6, <3>1
      <3>2. CASE i \in 3 .. pos
        <4>1. i \in 1 .. pos /\ i \in 3 .. Len(entries)
          BY <1>1, <3>2
        <4>2. entries'[i] = entries[i]
          BY <1>5, <4>1
        <4> QED BY <4>1, <4>2 DEF EntriesInv
      <3> QED BY <1>1, <3>1, <3>2
    <2>2. entries'[1] = Outside /\ entries'[2] = Gallery
      BY <1>1, <1>5 DEF EntriesInv
    <2> QED BY <1>1, <1>4, <1>5, <2>1, <2>2 DEF EntriesInv
  <1> QED BY <1>1, <1>4, <1>5, <1>7 DEF e

\* A photo that is mounted or pushed is at its own entry.
LEMMA AtItsEntry ==
  ASSUME entries'[pos'].photo = selected' PROVE ~Astray'
  BY DEF Astray

LEMMA MountKeeps ==
  ASSUME EntriesInv, ViewerInv, pos # 1, NEW i \in Photos, Mount(i), lost' \in BOOLEAN
  PROVE  EntriesInv' /\ ViewerInv' /\ pos' # 1 /\ selected' = i
  <1>1. pos \in 2 .. Len(entries) /\ Len(entries) \in Nat /\ 1 \in 1 .. pos - 1
    BY DEF EntriesInv
  <1>2. i \in 1 .. PhotoCount /\ i \in 0 .. PhotoCount
    BY SizesAssumption DEF Photos, SizesAssumption
  <1>3. CASE PushEntry(i, 1) /\ opened' = "whole"
    <2>1. /\ EntriesInv' /\ pos' # 1 /\ pos' = Len(entries')
          /\ entries'[pos'] = [photo |-> i, depth |-> 1]
      BY <1>1, <1>3, PushEntryKeeps
    <2>2. entries'[pos'].photo = selected' /\ entries'[pos'].depth = viewerDepth'
      BY <2>1 DEF Mount
    <2>3. ~Astray'
      BY <2>2, AtItsEntry
    <2>4. viewerDepth' \in 0 .. Len(entries')
      BY <2>1 DEF Mount, EntriesInv
    <2> QED BY <1>2, <1>3, <2>1, <2>2, <2>3, <2>4 DEF Mount, ViewerInv
  <1>4. CASE UNCHANGED <<entries, pos>> /\ opened' = "blank"
    <2>1. ~Astray'
      BY <1>4 DEF Astray
    <2>2. viewerDepth' \in 0 .. Len(entries')
      BY <1>1, <1>4 DEF Mount
    <2> QED BY <1>2, <1>4, <2>1, <2>2, EntriesStay DEF Mount, ViewerInv
  <1> QED BY <1>3, <1>4 DEF Mount

LEMMA UnmountKeeps ==
  ASSUME EntriesInv, ViewerInv, Unmount, lost' \in BOOLEAN,
         UNCHANGED <<entries, pos, viewerDepth, lastHistoryId>>
  PROVE  EntriesInv' /\ ViewerInv' /\ selected' = 0
  <1>1. EntriesInv'
    BY DEF EntriesInv
  <1>2. ~Astray'
    BY DEF Unmount, Astray
  <1> QED BY <1>1, <1>2, SizesAssumption DEF Unmount, ViewerInv, SizesAssumption

\* A photo that was not astray is shown again, or one that will get its entry.
LEMMA ShowKeeps ==
  ASSUME EntriesInv, ViewerInv, selected # 0, NEW i \in Photos, Show(i),
         lost' \in BOOLEAN, lost => lost', newest # 0 \/ lost', UNCHANGED hops
  PROVE  EntriesInv' /\ ViewerInv' /\ UNCHANGED pos /\ selected' = i
  <1>1. i \in 1 .. PhotoCount /\ i \in 0 .. PhotoCount /\ i # 0
    BY SizesAssumption DEF Photos, SizesAssumption
  <1>2. selected' = i /\ UNCHANGED <<entries, pos, viewerDepth>>
    BY DEF Show
  <1>3. CASE opened = "whole"
    <2>1. /\ opened' = "whole" /\ lastHistoryId' = i /\ lastHistoryId = selected
          /\ push' = IF i = selected THEN push ELSE i
      BY <1>3 DEF Show, ViewerInv
    <2>2. Astray' => CloseUnderWay'
      <3> SUFFICES ASSUME Astray' PROVE CloseUnderWay'
        OBVIOUS
      <3>1. i = selected /\ push = 0
        BY <1>1, <2>1 DEF Astray
      <3>2. Astray
        BY <1>2, <1>3, <3>1 DEF Astray
      <3> QED BY <1>2, <3>2 DEF ViewerInv, CloseUnderWay
    <2> QED BY <1>1, <1>2, <1>3, <2>1, <2>2, EntriesStay DEF ViewerInv
  <1>4. CASE opened # "whole"
    <2>1. opened' = "lame" /\ UNCHANGED <<lastHistoryId, push>> /\ push = 0
      BY <1>4 DEF Show, ViewerInv
    <2>2. ~Astray'
      BY <2>1 DEF Astray
    <2> QED BY <1>1, <1>2, <2>1, <2>2, EntriesStay DEF ViewerInv
  <1> QED BY <1>3, <1>4

\* What a transition performs.
LEMMA PerformKeeps ==
  ASSUME EntriesInv, ViewerInv, pos # 1, NEW update \in 0 .. PhotoCount, Perform(update),
         lost' \in BOOLEAN, lost => lost', UNCHANGED hops,
         update # 0 /\ selected # 0 => newest # 0 \/ lost'
  PROVE  EntriesInv' /\ ViewerInv' /\ selected' = update
  <1>1. CASE update = 0
    BY <1>1, UnmountKeeps DEF Perform
  <1>2. CASE update # 0
    <2>1. update \in Photos /\ SelectAsset(update)
      BY <1>2, SizesAssumption DEF Perform, Photos, SizesAssumption
    <2>2. CASE selected = 0
      BY <2>1, <2>2, MountKeeps DEF SelectAsset
    <2>3. CASE selected # 0
      BY <1>2, <2>1, <2>3, ShowKeeps DEF SelectAsset
    <2> QED BY <2>2, <2>3
  <1> QED BY <1>1, <1>2

-----------------------------------------------------------------------------
(* The transitions.                                                        *)

\* After a request the sessions before are of the past and name nothing.
LEMMA CleanedSessions ==
  ASSUME SessionsInv
  PROVE  /\ Cleaned \subseteq Session
         /\ \A x \in Cleaned : x.seq <= sequence /\ x.named = "none"
         /\ \A x, t \in Cleaned : x.seq = t.seq => x = t
  BY DEF SessionsInv, Cleaned, Session

LEMMA AtOnceSessions ==
  ASSUME SessionsInv, NEW update \in 0 .. PhotoCount, sessions' = Cleaned,
         sequence' = sequence + 1, newest' = update, styled' = FALSE
  PROVE  SessionsInv'
  <1>1. /\ sessions' \subseteq Session /\ sequence \in Nat
        /\ \A x \in sessions' : x.seq < sequence' /\ x.named = "none"
        /\ \A x, t \in sessions' : x.seq = t.seq => x = t
    BY CleanedSessions DEF SessionsInv, Session
  <1>2. \A x \in sessions' : x.seq # sequence' /\ x.seq <= sequence' /\ x.named = "none"
    BY <1>1 DEF Session
  <1>3. sequence' \in Nat /\ newest' \in 0 .. PhotoCount
    BY <1>1
  <1>4. styled' \in BOOLEAN
    BY Zenon
  <1> QED BY <1>1, <1>2, <1>3, <1>4, Zenon DEF SessionsInv

LEMMA StartedSessions ==
  ASSUME SessionsInv, NEW update \in 0 .. PhotoCount, NEW new \in Sessions(update),
         sessions' = Cleaned \union {new}, sequence' = sequence + 1, newest' = update,
         styled' = TRUE, selected' = selected
  PROVE  SessionsInv' /\ ~Settled'
  <1>1. /\ Cleaned \subseteq Session /\ sequence \in Nat
        /\ \A x \in Cleaned : x.seq < sequence' /\ x.named = "none"
        /\ \A x, t \in Cleaned : x.seq = t.seq => x = t
    BY CleanedSessions DEF SessionsInv, Session
  <1>2. PICK name \in {"old", "none"} :
          /\ new = [seq |-> sequence + 1, update |-> update, updated |-> FALSE,
                    named |-> name, over |-> selected # 0]
          /\ name = "old" => update # 0
    BY DEF Sessions, Names
  <1>3. /\ new \in Session /\ new.seq = sequence' /\ new.update = newest'
        /\ ~new.updated /\ new.named # "new" /\ (new.named = "old" => new.update # 0)
        /\ (~new.over => selected' = 0)
    <2>1. /\ new.seq = sequence' /\ new.update = newest' /\ new.updated = FALSE
          /\ new.named = name /\ new.over = (selected # 0)
      BY <1>2
    <2>2. new \in Session
      <3>1. sequence + 1 \in Nat /\ (selected # 0) \in BOOLEAN
        BY <1>1
      <3> QED BY <1>2, <3>1 DEF Session
    <2> QED BY <1>2, <2>1, <2>2
  <1>4. \A x \in Cleaned : x.seq # sequence' /\ x.seq <= sequence'
    BY <1>1 DEF Session
  <1>5. \A x, t \in sessions' : x.seq = t.seq => x = t
    BY <1>1, <1>3, <1>4
  <1>6. SessionsInv'
    <2>1. sequence' \in Nat /\ newest' \in 0 .. PhotoCount /\ styled' \in BOOLEAN
      BY <1>1
    <2>2. sessions' \subseteq Session
      BY <1>1, <1>3
    <2>3. \A x \in sessions' : x.seq <= sequence'
      BY <1>1, <1>3, <1>4
    <2>4. \A x \in sessions' :
            /\ x.named # "none" => x.seq = sequence'
            /\ x.named = "old" => ~x.updated /\ x.update # 0
            /\ x.named # "new"
      BY <1>1, <1>3
    <2>5. \A x \in sessions' : x.seq = sequence' =>
            x.update = newest' /\ (~x.over => selected' = 0)
      BY <1>3, <1>4
    <2> QED BY <1>5, <2>1, <2>2, <2>3, <2>4, <2>5 DEF SessionsInv
  <1>7. ~Settled'
    BY <1>3 DEF Settled
  <1> QED BY <1>6, <1>7

\* A session that was called back.
LEMMA UpdatedSessions ==
  ASSUME SessionsInv, NEW x \in sessions, ~x.updated, NEW named \in {"none", "new"},
         sessions' = (sessions \ {x}) \union {CalledBack(x, named)},
         UNCHANGED <<sequence, newest, styled>>,
         named = "new" => x.seq = sequence /\ selected' = 0,
         x.seq = sequence \/ selected' = selected
  PROVE  SessionsInv'
  <1> DEFINE done == CalledBack(x, named)
  <1>1. /\ done \in Session /\ done.seq = x.seq /\ done.update = x.update
        /\ done.updated = TRUE /\ done.named = named
    BY DEF SessionsInv, Session, CalledBack
  <1> HIDE DEF done
  <1>2. sessions' = (sessions \ {x}) \union {done}
    BY DEF done
  <1>3. \A t \in sessions \ {x} : t.seq # x.seq
    BY DEF SessionsInv
  <1>4. \A t, u \in sessions' : t.seq = u.seq => t = u
    BY <1>1, <1>2, <1>3 DEF SessionsInv
  <1>5. /\ sessions' \subseteq Session
        /\ \A t \in sessions' : t.seq <= sequence'
        /\ \A t \in sessions' : t.named # "none" => t.seq = sequence'
        /\ \A t \in sessions' : t.named = "old" => ~t.updated /\ t.update # 0
        /\ \A t \in sessions' : t.seq = sequence' => t.update = newest'
    BY <1>1, <1>2 DEF SessionsInv
  <1>6. \A t \in sessions' : t.named = "new" => t.updated /\ selected' = 0
    <2> SUFFICES ASSUME NEW t \in sessions \ {x}, t.named = "new"
                 PROVE  t.updated /\ selected' = 0
      BY <1>1, <1>2
    <2>1. t.seq = sequence /\ t.updated /\ selected = 0
      BY DEF SessionsInv
    <2> QED BY <1>3, <2>1
  <1>7. \A t \in sessions' :
          t.seq = sequence' /\ ~t.updated /\ t.update # 0 /\ ~t.over => selected' = 0
    <2> SUFFICES ASSUME NEW t \in sessions', t.seq = sequence', ~t.updated, t.update # 0, ~t.over
                 PROVE  selected' = 0
      OBVIOUS
    <2>1. t \in sessions \ {x} /\ x.seq # sequence
      BY <1>1, <1>2, <1>3
    <2> QED BY <2>1 DEF SessionsInv
  <1> QED BY <1>4, <1>5, <1>6, <1>7 DEF SessionsInv

-----------------------------------------------------------------------------
(* The actions.                                                            *)

LEMMA ViewerStays ==
  ASSUME ViewerInv, UNCHANGED <<entries, pos, viewerVars, newest, lost>>,
         Settled' => Settled, CloseUnderWay => CloseUnderWay'
  PROVE  ViewerInv'
  <1>1. Astray' => CloseUnderWay'
    BY DEF ViewerInv, Astray, viewerVars
  <1> QED BY <1>1 DEF ViewerInv, viewerVars

\* A request to open, at once or by a session.
LEMMA TransitionKeeps ==
  ASSUME EntriesInv, SessionsInv, ViewerInv, pos # 1, NEW i \in Photos,
         RunViewerTransition(i), lost' = (lost \/ (selected # 0 /\ newest = 0)),
         UNCHANGED hops
  PROVE  EntriesInv' /\ SessionsInv' /\ ViewerInv'
  <1>1. i \in 0 .. PhotoCount /\ i # 0
    BY SizesAssumption DEF Photos, SizesAssumption
  <1>2. lost' \in BOOLEAN /\ (lost => lost') /\ (selected # 0 => newest # 0 \/ lost')
    BY DEF ViewerInv
  <1>3. CASE RunAtOnce(i)
    BY <1>1, <1>2, <1>3, PerformKeeps, AtOnceSessions DEF RunViewerTransition, RunAtOnce
  <1>4. CASE StartTransition(i)
    <2>1. UNCHANGED <<entries, pos, viewerVars>> /\ selected' = selected
      BY <1>4 DEF StartTransition, viewerVars
    <2>2. SessionsInv'
      BY <1>1, <1>4, <2>1, StartedSessions DEF StartTransition, RunViewerTransition
    <2>3. Astray' => CloseUnderWay'
      <3> SUFFICES ASSUME Astray' PROVE CloseUnderWay'
        OBVIOUS
      <3>1. selected # 0 /\ newest # 0 /\ ~lost
        BY <1>2, <2>1 DEF Astray
      <3>2. Astray
        BY <2>1, <3>1 DEF Astray, viewerVars
      <3> QED BY <2>1, <3>2 DEF ViewerInv, CloseUnderWay
    <2>4. ViewerInv'
      BY <1>2, <2>1, <2>3 DEF viewerVars, ViewerInv
    <2> QED BY <2>1, <2>2, <2>4, EntriesStay
  <1> QED BY <1>3, <1>4 DEF RunViewerTransition

\* A request to close, likewise.
LEMMA CloseKeeps ==
  ASSUME SessionsInv, ViewerInv, CloseWithTransition
  PROVE  /\ SessionsInv' /\ push' = 0 /\ ~Astray'
         /\ lastHistoryId' = lastHistoryId
         /\ opened' \in {"whole", "blank", "lame", "leaked"}
         /\ \/ selected' = 0
            \/ UNCHANGED <<selected, opened>>
  <1>1. sequence' = sequence + 1 /\ newest' = 0 /\ lastHistoryId' = lastHistoryId
        /\ 0 \in 0 .. PhotoCount
    BY SizesAssumption DEF CloseWithTransition, SizesAssumption
  <1>2. CASE sessions' = Cleaned /\ styled' = FALSE /\ Unmount
    BY <1>1, <1>2, AtOnceSessions DEF Unmount, Astray, ViewerInv
  <1>3. CASE /\ \E x \in Sessions(0) : sessions' = Cleaned \union {x}
             /\ styled' = TRUE /\ push' = 0 /\ UNCHANGED <<selected, opened>>
    <2>1. SessionsInv' /\ ~Settled'
      BY <1>1, <1>3, StartedSessions
    <2>2. ~Astray'
      BY <1>1, <2>1 DEF Astray
    <2> QED BY <1>1, <1>3, <2>1, <2>2 DEF ViewerInv
  <1> QED BY <1>2, <1>3 DEF CloseWithTransition

LEMMA SpendKeeps == ASSUME HopsInv, Spend, UNCHANGED hops PROVE HopsInv'
  BY SizesAssumption DEF HopsInv, Spend, SizesAssumption

LEMMA OpenAssetKeeps == ASSUME HistoryInv, NEW i \in Photos, OpenAsset(i) PROVE HistoryInv'
  <1>1. pos # 1 /\ i \in 0 .. PhotoCount
    BY AtOutside, SizesAssumption
       DEF OpenAsset, Spend, Over, HistoryInv, Photos, SizesAssumption
  <1>2. EntriesInv' /\ SessionsInv' /\ ViewerInv'
    BY <1>1, TransitionKeeps DEF OpenAsset, HistoryInv
  <1> QED BY <1>2, SpendKeeps DEF OpenAsset, HistoryInv

LEMMA StepKeeps == ASSUME HistoryInv, NEW dir \in {-1, 1}, Step(dir) PROVE HistoryInv'
  <1> DEFINE i == (IF opened = "blank" THEN 0 ELSE selected) + dir
  <1>1. /\ selected \in 0 .. PhotoCount /\ selected # 0 /\ i \in Photos /\ Show(i)
        /\ UNCHANGED <<hops, transitionVars, lost>>
    BY DEF Step, HistoryInv, ViewerInv
  <1>2. i \in 1 .. PhotoCount /\ i # 0 /\ (opened = "whole" => i # selected)
    BY <1>1, SizesAssumption DEF Photos, SizesAssumption
  <1> HIDE DEF i
  <1>3. /\ selected' = i /\ UNCHANGED <<entries, pos, viewerDepth>>
        /\ IF opened = "whole"
             THEN lastHistoryId' = i /\ push' = i /\ opened' = opened
             ELSE opened' = "lame" /\ UNCHANGED <<lastHistoryId, push>> /\ push = 0
    BY <1>1, <1>2 DEF Show, HistoryInv, ViewerInv
  <1>4. ~Astray'
    BY <1>2, <1>3 DEF Astray
  <1>5. ViewerInv'
    <2>1. i \in 0 .. PhotoCount /\ lost' \in BOOLEAN
      BY <1>1, <1>2, SizesAssumption DEF SizesAssumption, HistoryInv, ViewerInv
    <2>2. /\ viewerDepth' \in 0 .. Len(entries') /\ lastHistoryId' \in 0 .. PhotoCount
          /\ opened' \in {"whole", "blank", "lame", "leaked"}
      BY <1>3, <2>1 DEF HistoryInv, ViewerInv
    <2>3. /\ push' \in {0, selected'} /\ (push' # 0 => opened' = "whole")
          /\ opened' = "whole" => opened = "whole" /\ lastHistoryId' = selected'
      BY <1>3
    <2>4. opened' = "whole" /\ pos' # 1 => viewerDepth' = entries'[pos'].depth
      BY <1>1, <1>3, <2>3 DEF HistoryInv, ViewerInv
    <2> QED BY <1>3, <1>4, <2>1, <2>2, <2>3, <2>4 DEF ViewerInv
  <1>6. SessionsInv'
    BY <1>1, <1>2, <1>3 DEF HistoryInv, SessionsInv, transitionVars
  <1> QED BY <1>1, <1>3, <1>5, <1>6, EntriesStay, SpendKeeps DEF Step, HistoryInv

\* A traversal that is asked for comes after those that are due.
LEMMA AppendHop ==
  ASSUME HopsInv, Spend, NEW hop \in Hop, hops' = Append(hops, hop),
         hop.by = "close" => hop.delta < 0, pos' = pos
  PROVE  /\ HopsInv'
         /\ CloseUnderWay => CloseUnderWay'
         /\ hop.by = "close" /\ pos + hop.delta >= 1 => CloseUnderWay'
  <1>1. /\ hops \in Seq(Hop) /\ hops' \in Seq(Hop) /\ Len(hops') = Len(hops) + 1
        /\ hops'[Len(hops) + 1] = hop /\ Len(hops) \in Nat
        /\ \A i \in 1 .. Len(hops) : hops'[i] = hops[i]
    BY DEF HopsInv
  <1>2. HopsInv'
    <2>1. \A i \in 1 .. Len(hops') : hops'[i].by = "close" => hops'[i].delta < 0
      <3> SUFFICES ASSUME NEW i \in 1 .. Len(hops) + 1, hops'[i].by = "close"
                   PROVE  hops'[i].delta < 0
        BY <1>1
      <3>1. CASE i = Len(hops) + 1
        BY <1>1, <3>1
      <3>2. CASE i \in 1 .. Len(hops)
        BY <1>1, <3>2 DEF HopsInv
      <3> QED BY <1>1, <3>1, <3>2
    <2> QED BY <1>1, <2>1, SizesAssumption DEF HopsInv, Spend, SizesAssumption
  <1>3. CloseUnderWay => CloseUnderWay'
    BY <1>1 DEF CloseUnderWay
  <1>4. hop.by = "close" /\ pos + hop.delta >= 1 => CloseUnderWay'
    BY <1>1 DEF CloseUnderWay
  <1> QED BY <1>2, <1>3, <1>4

\* The viewer is as deep as its entry, which the gallery lies below.
LEMMA DepthInReach ==
  ASSUME EntriesInv, ViewerInv, selected # 0, opened = "whole", pos # 1
  PROVE  viewerDepth \in 0 .. pos - 2
  <1>1. viewerDepth = entries[pos].depth
    BY DEF ViewerInv
  <1>2. CASE pos = 2
    BY <1>1, <1>2 DEF EntriesInv, Gallery
  <1>3. CASE pos \in 3 .. Len(entries)
    BY <1>1, <1>3 DEF EntriesInv
  <1> QED BY <1>2, <1>3 DEF EntriesInv

LEMMA RequestCloseKeeps == ASSUME HistoryInv, RequestClose PROVE HistoryInv'
  <1>1. /\ pos # 1 /\ selected # 0 /\ lost' = lost /\ Spend
        /\ UNCHANGED <<entries, pos, viewerDepth>>
    BY AtOutside DEF RequestClose, Spend, Over, HistoryInv
  <1>2. CASE viewerDepth > 0
    <2> DEFINE hop == [by |-> "close", delta |-> -viewerDepth,
                       at |-> IF hops = <<>> THEN moves' ELSE 0]
    <2>1. viewerDepth \in Nat /\ pos \in Nat /\ moves' \in Nat
      BY <1>1 DEF HistoryInv, EntriesInv, ViewerInv, Spend, HopsInv
    <2>2. hop \in Hop /\ hop.by = "close" /\ hop.delta < 0
      BY <1>2, <2>1 DEF Hop
    <2>3. opened = "whole" => pos + hop.delta >= 1
      BY <1>1, <2>1, DepthInReach DEF HistoryInv
    <2> HIDE DEF hop
    <2>4. /\ hops' = Append(hops, hop) /\ push' = 0
          /\ UNCHANGED <<selected, lastHistoryId, opened, sequence, sessions, styled, newest>>
      BY <1>2 DEF RequestClose, transitionVars, hop
    <2>5. HopsInv' /\ (opened = "whole" => CloseUnderWay')
      BY <1>1, <2>2, <2>3, <2>4, AppendHop DEF HistoryInv
    <2>6. Astray' => CloseUnderWay'
      BY <2>4, <2>5 DEF Astray
    <2>7. ViewerInv'
      BY <1>1, <2>4, <2>6 DEF HistoryInv, ViewerInv
    <2>8. SessionsInv'
      BY <2>4 DEF HistoryInv, SessionsInv
    <2> QED BY <1>1, <2>5, <2>7, <2>8, EntriesStay DEF HistoryInv
  <1>3. CASE ~(viewerDepth > 0)
    <2>1. CloseWithTransition /\ UNCHANGED hops
      BY <1>3 DEF RequestClose
    <2>2. ViewerInv'
      <3>1. 0 \in 0 .. PhotoCount
        BY SizesAssumption DEF SizesAssumption
      <3> QED BY <1>1, <2>1, <3>1, CloseKeeps DEF HistoryInv, ViewerInv
    <2>3. SessionsInv'
      BY <2>1, CloseKeeps DEF HistoryInv
    <2> QED BY <1>1, <2>1, <2>2, <2>3, EntriesStay, SpendKeeps DEF HistoryInv
  <1> QED BY <1>2, <1>3

LEMMA BrowseKeeps == ASSUME HistoryInv, NEW delta \in {-1, 1}, Browse(delta) PROVE HistoryInv'
  <1> DEFINE hop == [by |-> "user", delta |-> delta, at |-> 0]
  <1>1. hop \in Hop /\ hop.by # "close" /\ (Browse(delta) => hops' = Append(hops, hop))
    BY DEF Hop, Browse
  <1> HIDE DEF hop
  <1>2. HopsInv' /\ (CloseUnderWay => CloseUnderWay')
    BY <1>1, AppendHop DEF Browse, HistoryInv
  <1>3. SessionsInv' /\ (Settled' => Settled)
    BY DEF Browse, HistoryInv, SessionsInv, Settled, viewerVars, transitionVars
  <1> QED BY <1>2, <1>3, EntriesStay, ViewerStays DEF Browse, HistoryInv, transitionVars

\* A traversal is done; one that leads nowhere was not the close that a photo
\* astray waits for.
LEMMA TailHop ==
  ASSUME HopsInv, hops # <<>>, hops' = Tail(hops), moves' = moves
  PROVE  /\ HopsInv'
         /\ CloseUnderWay /\ pos' = pos
              => CloseUnderWay' \/ (Head(hops).delta < 0 /\ pos + Head(hops).delta >= 1)
  <1>1. /\ hops \in Seq(Hop) /\ hops' \in Seq(Hop) /\ Len(hops') = Len(hops) - 1
        /\ Len(hops) \in Nat \ {0} /\ hops[1] = Head(hops)
        /\ \A i \in 1 .. Len(hops') : hops'[i] = hops[i + 1]
    BY HeadTailProperties, EmptySeq DEF HopsInv
  <1>2. HopsInv'
    BY <1>1 DEF HopsInv
  <1>3. ASSUME CloseUnderWay, pos' = pos
        PROVE  CloseUnderWay' \/ (Head(hops).delta < 0 /\ pos + Head(hops).delta >= 1)
    <2>1. PICK i \in 1 .. Len(hops) : hops[i].by = "close" /\ pos + hops[i].delta >= 1
      BY <1>3 DEF CloseUnderWay
    <2>2. CASE i = 1
      BY <1>1, <2>1, <2>2 DEF HopsInv
    <2>3. CASE i # 1
      <3>1. i - 1 \in 1 .. Len(hops') /\ hops'[i - 1] = hops[i]
        BY <1>1, <2>1, <2>3
      <3> QED BY <1>3, <2>1, <3>1 DEF CloseUnderWay
    <2> QED BY <2>2, <2>3
  <1> QED BY <1>2, <1>3

LEMMA TraverseKeeps == ASSUME HistoryInv, Traverse PROVE HistoryInv'
  <1> DEFINE target == pos + Head(hops).delta
  <1>1. HopsInv'
    BY TailHop DEF Traverse, HistoryInv
  <1>2. /\ DOMAIN entries = 1 .. Len(entries) /\ Len(entries) \in Nat /\ pos \in Nat
        /\ Head(hops).delta \in Int
    <2>1. Head(hops) \in Hop
      BY HeadTailProperties DEF Traverse, HistoryInv, HopsInv
    <2> QED BY <2>1 DEF HistoryInv, EntriesInv, Hop
  <1>3. CASE target \notin DOMAIN entries
    <2>1. UNCHANGED <<entries, pos, viewerVars, transitionVars, lost>>
      BY <1>3 DEF Traverse
    <2>2. SessionsInv' /\ (Settled' => Settled)
      BY <2>1 DEF HistoryInv, SessionsInv, Settled, viewerVars, transitionVars
    <2>3. CloseUnderWay => CloseUnderWay'
      BY <1>2, <1>3, <2>1, TailHop DEF Traverse, HistoryInv, EntriesInv
    <2> QED BY <1>1, <2>1, <2>2, <2>3, EntriesStay, ViewerStays DEF HistoryInv, transitionVars
  <1>4. CASE target \in DOMAIN entries /\ (selected = 0 \/ entries[target] = Outside)
    <2>1. pos' = target /\ UNCHANGED <<entries, viewerVars, transitionVars, lost>>
      BY <1>4 DEF Traverse
    <2>2. SessionsInv'
      BY <2>1 DEF HistoryInv, SessionsInv, viewerVars, transitionVars
    <2>3. EntriesInv' /\ pos' \in 1 .. Len(entries)
      BY <1>2, <1>4, <2>1 DEF HistoryInv, EntriesInv
    <2>4. selected' = 0 \/ pos' = 1
      BY <1>4, <2>1, <2>3 DEF HistoryInv, EntriesInv, Outside, Gallery, viewerVars
    <2>5. ~Astray'
      BY <2>4 DEF Astray
    <2>6. ViewerInv'
      BY <2>1, <2>4, <2>5 DEF HistoryInv, ViewerInv, viewerVars
    <2> QED BY <1>1, <2>2, <2>3, <2>6 DEF HistoryInv
  <1>5. CASE target \in DOMAIN entries /\ selected # 0 /\ entries[target] # Outside
    <2>1. pos' = target /\ entries' = entries /\ OnPopState(entries[target]) /\ lost' = FALSE
      BY <1>5 DEF Traverse
    <2>2. EntriesInv' /\ pos' \in 2 .. Len(entries) /\ entries[target] \in Entry
      BY <1>2, <1>5, <2>1 DEF HistoryInv, EntriesInv
    <2>3. lost' \in BOOLEAN
      BY <2>1
    <2>4. CASE entries[target].photo # 0
      <3>1. /\ selected' = entries'[pos'].photo /\ lastHistoryId' = selected'
            /\ viewerDepth' = entries'[pos'].depth /\ push' = 0
            /\ opened' \in {opened, "lame"} /\ UNCHANGED transitionVars
        BY <2>1, <2>4 DEF OnPopState, AssetIdFromHash
      <3>2. pos' \in 3 .. Len(entries) /\ viewerDepth' \in 0 .. Len(entries')
        BY <1>2, <2>1, <2>2, <2>4, <3>1 DEF HistoryInv, EntriesInv, Gallery
      <3>3. ~Astray'
        BY <3>1, AtItsEntry
      <3>4. selected' \in 0 .. PhotoCount
        BY <2>1, <2>2, <3>1 DEF Entry
      <3>5. ViewerInv'
        BY <2>3, <3>1, <3>2, <3>3, <3>4 DEF ViewerInv, HistoryInv
      <3>6. SessionsInv'
        BY <1>5, <3>1 DEF HistoryInv, SessionsInv, transitionVars
      <3> QED BY <1>1, <2>2, <3>5, <3>6 DEF HistoryInv
    <2>5. CASE entries[target].photo = 0
      <3>1. viewerDepth' = 0 /\ CloseWithTransition
        BY <2>1, <2>5 DEF OnPopState, AssetIdFromHash
      <3>2. entries'[pos'] = Gallery
        BY <1>2, <2>1, <2>2, <2>5 DEF HistoryInv, EntriesInv
      <3>3. /\ SessionsInv' /\ push' = 0 /\ ~Astray' /\ lastHistoryId' = lastHistoryId
            /\ opened' \in {"whole", "blank", "lame", "leaked"}
            /\ selected' = 0 \/ UNCHANGED <<selected, opened>>
        BY <3>1, CloseKeeps DEF HistoryInv
      <3>4. /\ selected' \in 0 .. PhotoCount
            /\ selected' # 0 /\ opened' = "whole" => lastHistoryId' = selected'
        BY <3>3, SizesAssumption DEF HistoryInv, ViewerInv, SizesAssumption
      <3>5. lastHistoryId' \in 0 .. PhotoCount /\ viewerDepth' \in 0 .. Len(entries')
        BY <1>2, <2>1, <3>1, <3>3 DEF HistoryInv, ViewerInv
      <3>6. ViewerInv'
        BY <2>3, <3>1, <3>2, <3>3, <3>4, <3>5 DEF ViewerInv, Gallery
      <3> QED BY <1>1, <2>2, <3>3, <3>6 DEF HistoryInv
    <2> QED BY <2>4, <2>5
  <1> QED BY <1>3, <1>4, <1>5

LEMMA PushTimerKeeps == ASSUME HistoryInv, PushTimer PROVE HistoryInv'
  <1>1. /\ pos # 1 /\ push = selected /\ selected # 0 /\ selected \in Photos
        /\ viewerDepth \in 0 .. pos - 2 /\ pos \in 2 .. Len(entries) /\ Len(entries) \in Nat
    <2>1. /\ pos # 1 /\ push = selected /\ selected # 0 /\ selected \in Photos
          /\ opened = "whole"
      BY AtOutside, SizesAssumption
         DEF PushTimer, Over, HistoryInv, ViewerInv, Photos, SizesAssumption
    <2>2. viewerDepth \in 0 .. pos - 2
      BY <2>1, DepthInReach DEF HistoryInv
    <2> QED BY <2>1, <2>2 DEF HistoryInv, EntriesInv
  <1>2. /\ UNCHANGED <<hops, selected, lastHistoryId, opened, transitionVars, moves>>
        /\ push' = 0
    BY DEF PushTimer
  <1>3. HopsInv' /\ SessionsInv'
    BY <1>2 DEF HistoryInv, HopsInv, SessionsInv, transitionVars
  <1>4. CASE /\ viewerDepth' = viewerDepth + 1
             /\ PushEntry(push, viewerDepth + 1)
             /\ lost' = FALSE
    <2>1. /\ EntriesInv' /\ pos' = Len(entries')
          /\ entries'[pos'] = [photo |-> selected, depth |-> viewerDepth + 1]
      BY <1>1, <1>4, PushEntryKeeps DEF HistoryInv
    <2>2. /\ entries'[pos'].photo = selected' /\ entries'[pos'].depth = viewerDepth'
      BY <1>2, <1>4, <2>1
    <2>3. ~Astray' /\ lost' \in BOOLEAN
      BY <1>4, <2>2, AtItsEntry
    <2>4. viewerDepth' \in 0 .. Len(entries')
      BY <1>1, <1>4, <2>1 DEF EntriesInv, PushEntry
    <2>5. ViewerInv'
      BY <1>2, <2>2, <2>3, <2>4 DEF HistoryInv, ViewerInv
    <2> QED BY <1>3, <2>1, <2>5 DEF HistoryInv
  <1>5. CASE lost' = TRUE /\ UNCHANGED <<entries, pos, viewerDepth>>
    <2>1. ~Astray' /\ lost' \in BOOLEAN
      BY <1>5 DEF Astray
    <2>2. ViewerInv'
      BY <1>2, <1>5, <2>1 DEF HistoryInv, ViewerInv
    <2> QED BY <1>3, <1>5, <2>2, EntriesStay DEF HistoryInv
  <1> QED BY <1>4, <1>5 DEF PushTimer

LEMMA UpdateCallbackKeeps ==
  ASSUME HistoryInv, NEW x \in sessions, UpdateCallback(x)
  PROVE  HistoryInv'
  <1>1. /\ UNCHANGED <<hops, sequence, styled, newest, moves, lost>> /\ ~x.updated
        /\ pos # 1 /\ x.update \in 0 .. PhotoCount
    BY AtOutside DEF UpdateCallback, Over, HistoryInv, SessionsInv, Session
  <1>2. HopsInv'
    BY <1>1 DEF HistoryInv, HopsInv
  <1>3. CASE x.seq = sequence
    <2>1. Perform(x.update) /\ x.update = newest /\ lost \in BOOLEAN
      BY <1>1, <1>3 DEF UpdateCallback, HistoryInv, SessionsInv, ViewerInv
    <2>2. EntriesInv' /\ ViewerInv' /\ selected' = x.update
      BY <1>1, <2>1, PerformKeeps DEF HistoryInv
    <2>3. PICK named \in Names(x.update, "new") :
            sessions' = (sessions \ {x}) \union {CalledBack(x, named)}
      BY <1>3 DEF UpdateCallback
    <2>4. named \in {"none", "new"} /\ (named = "new" => selected' = 0)
      BY <2>2, <2>3 DEF Names
    <2>5. SessionsInv'
      BY <1>1, <1>3, <2>3, <2>4, UpdatedSessions DEF HistoryInv
    <2> QED BY <1>2, <2>2, <2>5 DEF HistoryInv
  <1>4. CASE x.seq # sequence
    <2>1. /\ UNCHANGED <<entries, pos, viewerVars>>
          /\ sessions' = (sessions \ {x}) \union {CalledBack(x, "none")}
      BY <1>4 DEF UpdateCallback
    <2>2. SessionsInv'
      <3>1. UNCHANGED selected
        BY <2>1 DEF viewerVars
      <3> QED BY <1>1, <1>4, <2>1, <3>1, UpdatedSessions DEF HistoryInv
    <2>3. Settled' => Settled
      BY <1>1, <1>4, <2>1 DEF Settled
    <2>4. CloseUnderWay => CloseUnderWay'
      BY <1>1, <2>1 DEF CloseUnderWay
    <2> QED BY <1>1, <1>2, <2>1, <2>2, <2>3, <2>4, EntriesStay, ViewerStays DEF HistoryInv
  <1> QED BY <1>3, <1>4

LEMMA FinishedKeeps == ASSUME HistoryInv, NEW x \in sessions, Finished(x) PROVE HistoryInv'
  <1>1. /\ sessions' = sessions \ {x} /\ x.updated
        /\ styled' = (styled /\ x.seq # sequence)
        /\ UNCHANGED <<historyVars, viewerVars, sequence, newest, moves, lost>>
    BY DEF Finished
  <1>2. HopsInv' /\ SessionsInv'
    BY <1>1 DEF HistoryInv, HopsInv, SessionsInv, historyVars, viewerVars
  <1>3. (Settled' => Settled) /\ (CloseUnderWay => CloseUnderWay')
    BY <1>1 DEF Settled, CloseUnderWay, historyVars
  <1> QED BY <1>1, <1>2, <1>3, EntriesStay, ViewerStays DEF HistoryInv, historyVars

LEMMA NextHistoryInv == HistoryInv /\ [ViewerNext]_allVars => HistoryInv'
  <1> SUFFICES ASSUME HistoryInv, [ViewerNext]_allVars PROVE HistoryInv'
    OBVIOUS
  <1>1. ASSUME NEW i \in Photos, OpenAsset(i) PROVE HistoryInv'
    BY <1>1, OpenAssetKeeps
  <1>2. ASSUME NEW dir \in {-1, 1}, Step(dir) \/ Browse(dir) PROVE HistoryInv'
    BY <1>2, StepKeeps, BrowseKeeps
  <1>3. CASE RequestClose \/ Traverse \/ PushTimer
    BY <1>3, RequestCloseKeeps, TraverseKeeps, PushTimerKeeps
  <1>4. ASSUME NEW x \in sessions, UpdateCallback(x) \/ Finished(x) PROVE HistoryInv'
    BY <1>4, UpdateCallbackKeeps, FinishedKeeps
  <1>5. CASE UNCHANGED allVars
    <2> USE <1>5 DEF allVars, historyVars, viewerVars, transitionVars
    <2>1. HopsInv' /\ SessionsInv' /\ (Settled' => Settled)
      BY DEF HistoryInv, HopsInv, SessionsInv, Settled
    <2>2. CloseUnderWay => CloseUnderWay'
      BY DEF CloseUnderWay
    <2> QED BY <2>1, <2>2, EntriesStay, ViewerStays DEF HistoryInv
  <1> QED BY <1>1, <1>2, <1>3, <1>4, <1>5 DEF ViewerNext

-----------------------------------------------------------------------------
\* The depth that the viewer would unwind by is that of its entry, and the
\* address names the photo that is shown, however pushes, traversals, closes and
\* transitions (AssetViewer.tsx) follow each other.
THEOREM HistoryIsMirrored == ViewerSpec => []HistoryMirrored
  <1> SUFFICES HistoryInv => HistoryMirrored
    BY InitHistoryInv, NextHistoryInv, PTL DEF ViewerSpec
  <1> SUFFICES ASSUME HistoryInv PROVE HistoryMirrored
    OBVIOUS
  <1>1. ViewerTypeOK
    <2>1. \A i \in DOMAIN entries : entries[i].photo \in 0 .. PhotoCount
      <3>1. \A i \in DOMAIN entries : entries[i] \in Entry
        BY DEF HistoryInv, EntriesInv
      <3> QED BY <3>1 DEF Entry
    <2>2. entries[1] = Outside /\ pos \in DOMAIN entries
      BY DEF HistoryInv, EntriesInv
    <2>3. /\ {selected, lastHistoryId, push, newest} \subseteq 0 .. PhotoCount
          /\ viewerDepth \in 0 .. Len(entries)
          /\ opened \in {"whole", "blank", "lame", "leaked"} /\ styled \in BOOLEAN
          /\ (push # 0 => selected # 0 /\ opened = "whole")
      BY SizesAssumption DEF HistoryInv, ViewerInv, SessionsInv, SizesAssumption
    <2>4. Len(hops) <= MaxMoves /\ moves \in 0 .. MaxMoves
      BY SizesAssumption DEF HistoryInv, HopsInv, SizesAssumption
    <2>5. /\ \A x \in sessions : x.seq <= sequence /\ x.named \in {"none", "old", "new"}
          /\ \A x, t \in sessions : x.seq = t.seq => x = t
      BY DEF HistoryInv, SessionsInv, Session
    <2> QED BY <2>1, <2>2, <2>3, <2>4, <2>5 DEF ViewerTypeOK
  <1>2. DepthMirrorsHistory
    BY AtOutside DEF DepthMirrorsHistory, HistoryInv, ViewerInv
  <1>3. AddressNamesPhoto
    <2> SUFFICES ASSUME selected # 0, opened = "whole", ~HasLeft, push = 0, ~lost,
                        \A i \in DOMAIN hops : hops[i].by = "user",
                        \A x \in sessions : x.updated \/ x.seq # sequence,
                        entries[pos].photo # selected
                 PROVE  FALSE
      BY DEF AddressNamesPhoto
    <2>1. CloseUnderWay
      BY AtOutside DEF HistoryInv, ViewerInv, Astray, Settled
    <2> QED BY <2>1 DEF CloseUnderWay, HistoryInv, HopsInv
  <1> QED BY <1>1, <1>2, <1>3 DEF HistoryMirrored

\* One tile at a time has the name of the travelling photo, and none beside the
\* photo in the viewer, which has it by the style sheet (utils/viewTransitions.ts,
\* album-viewer.css), however sessions overlap; but for a transition that was asked
\* for over the viewer.
THEOREM ElementsNamedOnce == ViewerSpec => []OneNamedElement
  <1>1. ASSUME HistoryInv PROVE OneNamedElement
    <2>1. \A x, t \in sessions : x.named # "none" /\ t.named # "none" => x = t
      BY <1>1 DEF HistoryInv, SessionsInv
    <2>2. ASSUME NEW x \in sessions, selected # 0, x.named # "none"
          PROVE  x.over /\ x.named = "old"
      <3>1. x.named = "old" /\ x.over \in BOOLEAN
        BY <1>1, <2>2 DEF HistoryInv, SessionsInv, Session
      <3>2. x.seq = sequence /\ ~x.updated /\ x.update # 0
        BY <1>1, <2>2, <3>1 DEF HistoryInv, SessionsInv
      <3> QED BY <1>1, <2>2, <3>1, <3>2 DEF HistoryInv, SessionsInv
    <2> QED BY <2>1, <2>2 DEF OneNamedElement
  <1> QED BY <1>1, InitHistoryInv, NextHistoryInv, PTL DEF ViewerSpec

LEMMA TransitionPerforms ==
  ASSUME HistoryInv, pos # 1, NEW i \in Photos, RunViewerTransition(i), UNCHANGED hops,
         lost' = (lost \/ (selected # 0 /\ newest = 0))
  PROVE  selected' \in {selected, i} /\ newest' = i
  <1>1. CASE RunAtOnce(i)
    <2>1. i \in 0 .. PhotoCount /\ lost' \in BOOLEAN /\ (lost => lost')
          /\ (i # 0 /\ selected # 0 => newest # 0 \/ lost')
      <3>1. i \in 0 .. PhotoCount
        BY SizesAssumption DEF Photos, SizesAssumption
      <3> QED BY <3>1, Zenon DEF HistoryInv, ViewerInv
    <2> QED BY <1>1, <2>1, PerformKeeps DEF RunViewerTransition, RunAtOnce, HistoryInv
  <1>2. CASE StartTransition(i)
    BY <1>2 DEF StartTransition, RunViewerTransition, viewerVars
  <1> QED BY <1>1, <1>2 DEF RunViewerTransition

\* "The latest requested state update is always performed", and no other: a
\* callback of the browser that comes late does nothing (AssetViewer.tsx and
\* viewTransitions.ts).
THEOREM LatestWins == ViewerSpec => LatestUpdateWins
  <1> DEFINE Win == sessions' # sessions /\ hops' = hops /\ selected' # selected
                      => selected' = newest'
  <1>1. ASSUME HistoryInv, [ViewerNext]_allVars PROVE [Win]_allVars
    <2> SUFFICES ASSUME ViewerNext, sessions' # sessions, hops' = hops, selected' # selected
                 PROVE  selected' = newest'
      BY <1>1
    <2>1. ASSUME NEW i \in Photos, OpenAsset(i) PROVE selected' = newest'
      <3>1. pos # 1
        BY <1>1, <2>1, AtOutside DEF OpenAsset, Spend, Over, HistoryInv
      <3> QED BY <1>1, <2>1, <3>1, TransitionPerforms DEF OpenAsset
    <2>2. ASSUME NEW dir \in {-1, 1}, Step(dir) \/ Browse(dir) PROVE FALSE
      BY <2>2 DEF Step, Browse, transitionVars
    <2>3. CASE RequestClose
      <3>1. viewerDepth > 0 => UNCHANGED selected
        BY <2>3 DEF RequestClose
      <3>2. CloseWithTransition
        BY <2>3, <3>1 DEF RequestClose
      <3> QED BY <3>2 DEF CloseWithTransition, Unmount
    <2>4. CASE Traverse
      <3>1. Len(Tail(hops)) = Len(hops) - 1 /\ Len(hops) \in Nat
        BY <1>1, <2>4, HeadTailProperties DEF Traverse, HistoryInv, HopsInv
      <3> QED BY <2>4, <3>1 DEF Traverse
    <2>5. CASE PushTimer
      BY <2>5 DEF PushTimer, transitionVars
    <2>6. ASSUME NEW x \in sessions, UpdateCallback(x) PROVE selected' = newest'
      <3>1. /\ pos # 1 /\ x.update \in 0 .. PhotoCount /\ newest' = newest /\ lost' = lost
            /\ ~x.updated /\ lost \in BOOLEAN
        BY <1>1, <2>6, AtOutside
           DEF UpdateCallback, Over, HistoryInv, SessionsInv, Session, ViewerInv
      <3>2. CASE x.seq = sequence
        <4>1. Perform(x.update) /\ x.update = newest
          BY <1>1, <2>6, <3>1, <3>2 DEF UpdateCallback, HistoryInv, SessionsInv
        <4> QED BY <1>1, <3>1, <4>1, PerformKeeps DEF HistoryInv
      <3>3. CASE x.seq # sequence
        BY <2>6, <3>3 DEF UpdateCallback, viewerVars
      <3> QED BY <3>2, <3>3
    <2>7. ASSUME NEW x \in sessions, Finished(x) PROVE FALSE
      BY <2>7 DEF Finished, viewerVars
    <2> QED BY <2>1, <2>2, <2>3, <2>4, <2>5, <2>6, <2>7 DEF ViewerNext
  <1> QED BY <1>1, InitHistoryInv, NextHistoryInv, PTL DEF ViewerSpec, LatestUpdateWins

-----------------------------------------------------------------------------
(* The stage.                                                              *)

Stage == [index : 1 .. Count, pending : {-1, 0, 1}, fallback : BOOLEAN, anim : BOOLEAN,
          dx : {-1, 0, 1}, drag : BOOLEAN, scale : 1 .. MaxScale,
          fingers : SUBSET Fingers, gesture : BOOLEAN]

\* A stage on which nobody has to give way: a drag has no step under it, and a
\* gesture of the zoom has a finger, a photo and no drag or step beside it.
Calm(z) ==
  /\ z \in Stage /\ z.index + z.pending \in 1 .. Count
  /\ z.fallback = (z.pending # 0)
  /\ z.drag => z.pending = 0
  /\ z.gesture => /\ z.fingers # {} /\ z.index \notin Videos
                  /\ ~z.drag /\ z.dx = 0 /\ z.pending = 0
  /\ ~z.drag /\ z.pending = 0 => z.dx = 0

IInv ==
  /\ Calm(s) /\ s.index + s.pending = expected
  /\ s.fingers \subseteq down /\ down \subseteq Fingers

LEMMA InitIInv == Init => IInv
<1> SUFFICES ASSUME Init PROVE IInv
  OBVIOUS
<1>1. PICK i \in 1 .. Count :
        /\ s = [index |-> i, pending |-> 0, fallback |-> FALSE, anim |-> FALSE, dx |-> 0,
                drag |-> FALSE, scale |-> 1, fingers |-> {}, gesture |-> FALSE]
        /\ expected = i
  BY DEF Init
<1>2. s \in Stage
  BY <1>1, StageAssumption DEF StageAssumption, Stage
<1>3. /\ s.index = i /\ s.pending = 0 /\ s.dx = 0 /\ s.fingers = {}
      /\ s.fallback = FALSE /\ s.drag = FALSE /\ s.gesture = FALSE
  BY <1>1
<1>4. s.index + s.pending = i
  BY <1>3
<1>5. s.fallback = (s.pending # 0)
  BY <1>3
<1>6. Calm(s)
  BY <1>1, <1>2, <1>3, <1>4, <1>5 DEF Calm
<1> QED
  BY <1>1, <1>3, <1>4, <1>6 DEF Init, IInv

-----------------------------------------------------------------------------
(* What the functions of the hooks do to a stage.                          *)

LEMMA CancelGestureStage ==
  ASSUME NEW z \in Stage
  PROVE  CancelGesture(z) = [z EXCEPT !.fallback = FALSE, !.dx = 0, !.pending = 0,
                                      !.anim = FALSE, !.drag = FALSE]
  BY DEF CancelGesture, ResetMotion, ClearTransitionFallback, Stage

\* Going to an index leaves the track in place and the zoom reset.
LEMMA GoToIndexStage ==
  ASSUME NEW z \in Stage, NEW i \in 1 .. Count, i # z.index
  PROVE  GoToIndex(z, i) = [z EXCEPT !.index = i, !.fallback = FALSE, !.dx = 0, !.pending = 0,
                                     !.anim = FALSE, !.fingers = {}, !.gesture = FALSE,
                                     !.scale = 1]
  BY DEF GoToIndex, ZoomReset, ResetMotion, ClearTransitionFallback, Stage

LEMMA CommitStage ==
  ASSUME NEW z \in Stage, z.pending # 0, z.index + z.pending \in 1 .. Count
  PROVE  CommitPendingStep(z) =
           [z EXCEPT !.index = z.index + z.pending, !.fallback = FALSE, !.dx = 0, !.pending = 0,
                     !.anim = FALSE, !.fingers = {}, !.gesture = FALSE, !.scale = 1]
<1> DEFINE y == [z EXCEPT !.pending = 0, !.anim = FALSE, !.dx = 0]
           i == z.index + z.pending
<1>1. y \in Stage /\ y.index = z.index
  BY DEF Stage
<1>2. i # y.index
  BY <1>1 DEF Stage
<1>3. CommitPendingStep(z) = GoToIndex(y, i)
  BY DEF CommitPendingStep
<1>4. GoToIndex(y, i) =
        [y EXCEPT !.index = i, !.fallback = FALSE, !.dx = 0, !.pending = 0, !.anim = FALSE,
                  !.fingers = {}, !.gesture = FALSE, !.scale = 1]
  <2> HIDE DEF y, i
  <2> QED BY <1>1, <1>2, GoToIndexStage DEF i
<1> QED
  BY <1>3, <1>4 DEF Stage

\* The zoom withdraws the gesture from the carousel.
LEMMA CancelGestureCalm ==
  ASSUME NEW z \in Stage, z.gesture => z.fingers # {} /\ z.index \notin Videos
  PROVE  /\ Calm(CancelGesture(z))
         /\ CancelGesture(z).index = z.index /\ CancelGesture(z).pending = 0
         /\ CancelGesture(z).fingers = z.fingers
<1>1. CancelGesture(z) = [z EXCEPT !.fallback = FALSE, !.dx = 0, !.pending = 0,
                                   !.anim = FALSE, !.drag = FALSE]
  BY CancelGestureStage
<1> DEFINE c == CancelGesture(z)
<1>2. /\ c \in Stage /\ c.index = z.index /\ c.pending = 0 /\ c.dx = 0
      /\ c.fingers = z.fingers /\ c.fallback = FALSE /\ c.drag = FALSE
      /\ c.gesture = z.gesture
  BY <1>1 DEF Stage
<1>3. c.index + c.pending \in 1 .. Count
  BY <1>2 DEF Stage
<1> HIDE DEF c
<1>4. Calm(c)
  BY <1>2, <1>3 DEF Calm
<1> QED
  BY <1>2, <1>4 DEF c

\* A new index leaves the stage calm, whatever was under way.
LEMMA GoToIndexCalm ==
  ASSUME NEW z, Calm(z), NEW i \in 1 .. Count, i # z.index
  PROVE  /\ Calm(GoToIndex(z, i))
         /\ GoToIndex(z, i).index = i /\ GoToIndex(z, i).pending = 0
         /\ GoToIndex(z, i).fingers \subseteq z.fingers
<1>1. z \in Stage
  BY DEF Calm
<1>2. GoToIndex(z, i) =
        [z EXCEPT !.index = i, !.fallback = FALSE, !.dx = 0, !.pending = 0, !.anim = FALSE,
                  !.fingers = {}, !.gesture = FALSE, !.scale = 1]
  BY <1>1, GoToIndexStage
<1> DEFINE c == GoToIndex(z, i)
<1>3. /\ c \in Stage /\ c.index = i /\ c.pending = 0 /\ c.dx = 0
      /\ c.fingers = {} /\ c.fallback = FALSE /\ c.gesture = FALSE
  <2>1. 1 \in 1 .. MaxScale /\ {} \in SUBSET Fingers
    BY StageAssumption DEF StageAssumption
  <2> QED
    BY <1>1, <1>2, <2>1 DEF Stage
<1>4. c.index + c.pending \in 1 .. Count
  BY <1>3
<1> HIDE DEF c
<1>5. Calm(c)
  BY <1>3, <1>4 DEF Calm
<1> QED
  BY <1>3, <1>5 DEF c

\* The end of a step, told by the browser or by the timer.
LEMMA CommitCalm ==
  ASSUME NEW z, Calm(z), NEW c, c = CommitPendingStep(ClearTransitionFallback(z))
  PROVE  /\ Calm(c) /\ c.index = z.index + z.pending /\ c.pending = 0
         /\ c.fingers \subseteq z.fingers /\ (c.gesture => z.gesture)
<1> DEFINE y == ClearTransitionFallback(z)
<1>1. z \in Stage
  BY DEF Calm
<1>2. /\ y \in Stage /\ y.index = z.index /\ y.pending = z.pending
      /\ y = [z EXCEPT !.fallback = FALSE]
  BY <1>1 DEF ClearTransitionFallback, Stage
<1>3. CASE z.pending = 0
  <2>1. c = [z EXCEPT !.fallback = FALSE, !.anim = FALSE]
    BY <1>2, <1>3 DEF CommitPendingStep
  <2>2. /\ c \in Stage /\ c.index = z.index /\ c.pending = 0 /\ c.dx = z.dx
        /\ c.fingers = z.fingers /\ c.fallback = FALSE /\ c.gesture = z.gesture
        /\ c.drag = z.drag
    BY <1>1, <1>3, <2>1 DEF Stage
  <2>3. c.index + c.pending \in 1 .. Count
    BY <1>3, <2>2 DEF Calm
  <2>4. Calm(c)
    BY <1>3, <2>2, <2>3 DEF Calm
  <2> QED
    BY <1>1, <1>3, <2>2, <2>4 DEF Stage
<1>4. CASE z.pending # 0
  <2>1. c = [y EXCEPT !.index = y.index + y.pending, !.fallback = FALSE, !.dx = 0,
                      !.pending = 0, !.anim = FALSE, !.fingers = {}, !.gesture = FALSE,
                      !.scale = 1]
    <3> HIDE DEF y
    <3> QED BY <1>2, <1>4, CommitStage DEF Calm, y
  <2>2. c = [z EXCEPT !.index = z.index + z.pending, !.fallback = FALSE, !.dx = 0,
                      !.pending = 0, !.anim = FALSE, !.fingers = {}, !.gesture = FALSE,
                      !.scale = 1]
    BY <1>1, <1>2, <2>1 DEF Stage
  <2>3. /\ c \in Stage /\ c.index = z.index + z.pending /\ c.pending = 0 /\ c.dx = 0
        /\ c.fingers = {} /\ c.fallback = FALSE /\ c.gesture = FALSE
    <3>1. 1 \in 1 .. MaxScale /\ {} \in SUBSET Fingers
      BY StageAssumption DEF StageAssumption
    <3>2. z.index + z.pending \in 1 .. Count
      BY DEF Calm
    <3> QED
      BY <1>1, <2>2, <3>1, <3>2 DEF Stage
  <2>4. c.index + c.pending \in 1 .. Count
    BY <2>3 DEF Calm
  <2>5. Calm(c)
    BY <2>3, <2>4 DEF Calm
  <2> QED
    BY <2>3, <2>5
<1> QED
  BY <1>3, <1>4

\* A step in flight is landed before another, or a drag, is taken up.
LEMMA LandedCalm ==
  ASSUME NEW z, Calm(z), NEW c, c = Landed(z)
  PROVE  /\ Calm(c) /\ c.index = z.index + z.pending /\ c.pending = 0
         /\ c.fingers \subseteq z.fingers /\ (c.gesture => z.gesture)
<1>1. CASE z.pending = 0
  BY <1>1 DEF Landed, Calm, Stage
<1>2. CASE z.pending # 0
  BY <1>2, CommitCalm DEF Landed
<1> QED
  BY <1>1, <1>2

\* The keys step at once, and from where the step in flight leads.
LEMMA StepNowCalm ==
  ASSUME NEW z, Calm(z), NEW dir \in {-1, 1}, NEW c, c = StepNow(z, dir),
         NEW e, e = z.index + z.pending
  PROVE  /\ Calm(c) /\ c.fingers \subseteq z.fingers
         /\ c.index + c.pending = IF e + dir \in 1 .. Count THEN e + dir ELSE e
<1> DEFINE r == Landed(z)
<1>1. /\ Calm(r) /\ r.index = e /\ r.pending = 0 /\ r.fingers \subseteq z.fingers
  BY LandedCalm
<1>2. CASE ~InReach(r, dir)
  BY <1>1, <1>2 DEF StepNow, InReach, Calm, Stage
<1>3. CASE InReach(r, dir)
  <2> DEFINE y == [ClearTransitionFallback(r) EXCEPT !.pending = 0, !.anim = FALSE, !.dx = 0]
  <2>1. y = [r EXCEPT !.fallback = FALSE, !.pending = 0, !.anim = FALSE, !.dx = 0]
    BY DEF ClearTransitionFallback
  <2>2. Calm(y) /\ y.index = e /\ y.fingers = r.fingers
    <3> HIDE DEF r, y
    <3> QED BY <1>1, <2>1 DEF Calm, Stage
  <2>3. c = GoToIndex(y, e + dir)
    BY <1>1, <1>3 DEF StepNow
  <2>4. e + dir \in 1 .. Count /\ e + dir # y.index /\ e \in 1 .. Count
    BY <1>1, <1>3, <2>2 DEF InReach, Calm, Stage
  <2> HIDE DEF y, r
  <2>5. /\ Calm(GoToIndex(y, e + dir)) /\ GoToIndex(y, e + dir).index = e + dir
        /\ GoToIndex(y, e + dir).pending = 0 /\ GoToIndex(y, e + dir).fingers \subseteq y.fingers
    BY <2>2, <2>4, GoToIndexCalm
  <2> QED
    BY <1>1, <2>2, <2>3, <2>4, <2>5
<1> QED
  BY <1>2, <1>3

\* A drag is taken up where the step in flight has landed.
LEMMA CarouselDownCalm ==
  ASSUME NEW z, Calm(z), ~z.gesture, NEW onControl \in BOOLEAN,
         NEW c, c = CarouselDown(z, onControl)
  PROVE  /\ Calm(c) /\ c.fingers \subseteq z.fingers
         /\ c.index + c.pending = z.index + z.pending
<1> DEFINE r == Landed(z)
<1>1. /\ Calm(r) /\ r.index = z.index + z.pending /\ r.pending = 0
      /\ r.fingers \subseteq z.fingers /\ ~r.gesture
  BY LandedCalm
<1>2. CASE onControl
  BY <1>2 DEF CarouselDown
<1>3. CASE ~onControl
  <2>1. c = [r EXCEPT !.drag = TRUE, !.anim = FALSE]
    BY <1>3 DEF CarouselDown
  <2> HIDE DEF r
  <2>2. /\ c \in Stage /\ c.index = r.index /\ c.pending = 0 /\ c.drag = TRUE
        /\ c.fingers = r.fingers /\ c.fallback = r.fallback /\ c.gesture = r.gesture
    BY <1>1, <2>1 DEF Calm, Stage
  <2>3. /\ c.index + c.pending \in 1 .. Count
        /\ c.index + c.pending = z.index + z.pending
    BY <1>1, <2>2 DEF Calm, Stage
  <2>4. Calm(c)
    BY <1>1, <2>2, <2>3 DEF Calm
  <2> QED
    BY <1>1, <2>2, <2>3, <2>4
<1> QED
  BY <1>2, <1>3

\* The end of a drag: a step if it went far enough and there is a photo.
LEMMA CarouselUpCalm ==
  ASSUME NEW z, Calm(z), ~z.gesture, NEW c, c = CarouselUp(z)
  PROVE  /\ Calm(c) /\ c.fingers = z.fingers
         /\ c.index + c.pending =
              IF z.drag /\ z.dx # 0 /\ z.index - z.dx \in 1 .. Count
              THEN z.index - z.dx ELSE z.index + z.pending
<1>0. z \in Stage
  BY DEF Calm
<1>n. z.index \in 1 .. Count /\ z.dx \in {-1, 0, 1} /\ Count \in Nat
  BY <1>0, StageAssumption DEF Stage, StageAssumption
<1>1. CASE ~z.drag
  BY <1>1 DEF CarouselUp, Calm
<1>2. CASE z.drag
  <2> DEFINE free == [z EXCEPT !.drag = FALSE]
  <2>1. /\ free \in Stage /\ free.pending = 0 /\ free.index = z.index /\ z.pending = 0
        /\ free.fallback = FALSE /\ free.drag = FALSE /\ free.gesture = z.gesture
        /\ free.fingers = z.fingers /\ free.dx = z.dx
    BY <1>0, <1>2 DEF Calm, Stage
  <2>2. Landed(free) = free
    BY <2>1 DEF Landed
  <2>3. CASE z.dx # 0 /\ z.index - z.dx \in 1 .. Count
    <3>1. PICK d \in {-1, 1} : z.dx = -d /\ z.index + d = z.index - z.dx
      BY <1>0, <2>3 DEF Stage
    <3>2. c = StepAnimated(free, d)
      <4>1. CASE d = 1
        <5>1. z.dx = -1 /\ HasNext(z)
          BY <1>n, <2>3, <3>1, <4>1 DEF HasNext
        <5> QED
          BY <1>2, <4>1, <5>1 DEF CarouselUp
      <4>2. CASE d = -1
        <5>1. z.dx = 1 /\ z.dx # -1 /\ HasPrev(z)
          BY <1>n, <2>3, <3>1, <4>2 DEF HasPrev
        <5> QED
          BY <1>2, <4>2, <5>1 DEF CarouselUp
      <4> QED
        BY <4>1, <4>2
    <3> HIDE DEF free
    <3>3. InReach(free, d)
      BY <2>1, <2>3, <3>1 DEF InReach
    <3>4. c = [free EXCEPT !.pending = d, !.anim = TRUE, !.dx = -d, !.fallback = TRUE]
      BY <2>2, <3>2, <3>3 DEF StepAnimated
    <3>5. /\ c \in Stage /\ c.index = z.index /\ c.pending = d /\ c.drag = FALSE
          /\ c.fingers = z.fingers /\ c.fallback = TRUE /\ c.gesture = z.gesture
      <4>1. d \in {-1, 0, 1} /\ -d \in {-1, 0, 1}
        OBVIOUS
      <4> QED
        BY <2>1, <3>4, <4>1 DEF Stage
    <3>6. c.pending # 0 /\ c.index + c.pending = z.index - z.dx
      BY <3>1, <3>5
    <3>7. Calm(c)
      BY <2>3, <3>5, <3>6 DEF Calm
    <3> QED
      BY <1>2, <2>3, <3>5, <3>6, <3>7
  <2>4. CASE ~(z.dx # 0 /\ z.index - z.dx \in 1 .. Count)
    <3>1. c = [free EXCEPT !.anim = TRUE, !.dx = 0]
      <4>1. ~(z.dx = -1 /\ HasNext(z)) /\ ~(z.dx = 1 /\ HasPrev(z))
        BY <1>n, <2>4 DEF HasNext, HasPrev
      <4> QED
        BY <1>2, <4>1 DEF CarouselUp
    <3> HIDE DEF free
    <3>2. /\ c \in Stage /\ c.index = z.index /\ c.pending = 0 /\ c.drag = FALSE
          /\ c.fingers = z.fingers /\ c.fallback = FALSE /\ c.gesture = z.gesture
          /\ c.dx = 0
      BY <2>1, <3>1 DEF Stage
    <3>3. c.index + c.pending = z.index + z.pending
      BY <2>1, <3>2
    <3>4. Calm(c)
      BY <3>2, <3>3 DEF Calm
    <3> QED
      BY <2>4, <3>2, <3>3, <3>4
  <2> QED
    BY <2>3, <2>4
<1> QED
  BY <1>1, <1>2

\* Another finger, and one that is lifted, as the zoom sees them.
LEMMA ZoomDownStage ==
  ASSUME NEW z, Calm(z), z.fingers \subseteq Fingers, NEW f \in Fingers, f \notin z.fingers,
         NEW y, y = ZoomDown(z, f)
  PROVE  /\ y \in Stage /\ y.index = z.index /\ y.pending = z.pending
         /\ y.fingers \subseteq z.fingers \union {f}
         /\ y.gesture => y.fingers # {} /\ y.index \notin Videos
         /\ ~OwnsDown(z, f) => Calm(y) /\ ~y.gesture
<1>1. z \in Stage
  BY DEF Calm
<1>2. CASE ~Enabled(z)
  BY <1>1, <1>2 DEF ZoomDown, Enabled, Calm
<1>3. CASE Enabled(z)
  <2> DEFINE held == [z EXCEPT !.fingers = z.fingers \union {f}]
  <2>1. /\ held \in Stage /\ held.index = z.index /\ held.pending = z.pending
        /\ held.fingers = z.fingers \union {f} /\ held.gesture = z.gesture
        /\ held.fallback = z.fallback /\ held.drag = z.drag /\ held.dx = z.dx
        /\ held.scale = z.scale
    BY <1>1 DEF Stage
  <2>2. CASE OwnsDown(z, f)
    <3>1. y = [held EXCEPT !.gesture = TRUE]
      BY <1>3, <2>1, <2>2 DEF ZoomDown, OwnsDown, Zoomed
    <3> HIDE DEF held
    <3>2. /\ y \in Stage /\ y.index = z.index /\ y.pending = z.pending
          /\ y.fingers = z.fingers \union {f}
      BY <2>1, <3>1 DEF Stage
    <3> QED
      BY <1>3, <2>2, <3>2 DEF Enabled
  <2>3. CASE ~OwnsDown(z, f)
    <3>1. y = held
      BY <1>3, <2>1, <2>3 DEF ZoomDown, OwnsDown, Zoomed
    <3>2. ~z.gesture
      <4> SUFFICES ASSUME z.fingers # {} PROVE FALSE
        BY DEF Calm
      <4>1. PICK g \in z.fingers : g # f
        OBVIOUS
      <4>2. IsFiniteSet(z.fingers \union {f})
        BY StageAssumption, FS_Subset DEF StageAssumption
      <4>3. Cardinality({g, f}) = 2
        <5>1. IsFiniteSet({g}) /\ Cardinality({g}) = 1
          BY FS_Singleton
        <5>2. Cardinality({g} \union {f}) = 2
          <6>1. f \notin {g}
            BY <4>1
          <6>2. Cardinality({g} \union {f}) = Cardinality({g}) + 1
            BY <5>1, <6>1, FS_AddElement
          <6> QED
            BY <5>1, <6>2
        <5>3. {g} \union {f} = {g, f}
          OBVIOUS
        <5> QED
          BY <5>2, <5>3
      <4>4. Cardinality({g, f}) <= Cardinality(z.fingers \union {f})
        BY <4>1, <4>2, FS_Subset
      <4>5. Cardinality(z.fingers \union {f}) >= 2
        BY <4>2, <4>3, <4>4, FS_CardinalityType
      <4> QED
        BY <1>3, <2>3, <4>5 DEF OwnsDown
    <3> HIDE DEF held
    <3>3. Calm(y) /\ ~y.gesture
      BY <2>1, <3>1, <3>2 DEF Calm
    <3> QED
      BY <2>1, <3>1, <3>3
  <2> QED
    BY <2>2, <2>3
<1> QED
  BY <1>2, <1>3

LEMMA ZoomUpStage ==
  ASSUME NEW z, Calm(z), NEW f, NEW y, y = ZoomUp(z, f)
  PROVE  /\ Calm(y) /\ y.index = z.index /\ y.pending = z.pending
         /\ y.fingers = z.fingers \ {f} /\ y.drag = z.drag /\ y.dx = z.dx
         /\ (y.gesture => z.gesture)
<1> DEFINE g == z.gesture /\ z.fingers \ {f} # {}
<1>1. z \in Stage
  BY DEF Calm
<1>2. y = [z EXCEPT !.fingers = z.fingers \ {f}, !.gesture = g]
  BY <1>1 DEF ZoomUp, Stage
<1>3. g \in BOOLEAN
  OBVIOUS
<1>4. g => z.gesture /\ z.fingers \ {f} # {}
  OBVIOUS
<1> HIDE DEF g
<1>5. /\ y \in Stage /\ y.index = z.index /\ y.pending = z.pending /\ y.dx = z.dx
      /\ y.fingers = z.fingers \ {f} /\ y.drag = z.drag /\ y.fallback = z.fallback
      /\ y.gesture = g
  BY <1>1, <1>2, <1>3 DEF Stage
<1>6. Calm(y)
  BY <1>4, <1>5 DEF Calm
<1> QED
  BY <1>4, <1>5, <1>6

-----------------------------------------------------------------------------
(* One lemma per action.                                                   *)

LEMMA DownStep ==
  ASSUME IInv, NEW f \in Fingers, NEW onControl \in BOOLEAN, HandlePointerDown(f, onControl)
  PROVE  IInv'
<1> DEFINE y == ZoomDown(s, f)
<1>1. /\ Calm(s) /\ s.fingers \subseteq Fingers /\ f \notin s.fingers
      /\ down' = down \union {f} /\ down' \subseteq Fingers
  BY DEF IInv, HandlePointerDown
<1>2. /\ y \in Stage /\ y.index = s.index /\ y.pending = s.pending
      /\ y.fingers \subseteq down'
      /\ y.gesture => y.fingers # {} /\ y.index \notin Videos
      /\ ~OwnsDown(s, f) => Calm(y) /\ ~y.gesture
  <2> HIDE DEF y
  <2> QED BY <1>1, ZoomDownStage DEF IInv, y
<1> HIDE DEF y
<1>3. CASE OwnsDown(s, f)
  <2>1. s' = CancelGesture(y) /\ expected' = s.index
    BY <1>3 DEF HandlePointerDown, Withdrawn, y
  <2>2. Calm(s') /\ s'.index = s.index /\ s'.pending = 0 /\ s'.fingers = y.fingers
    BY <1>2, <2>1, CancelGestureCalm
  <2>3. s'.index + s'.pending = expected'
    BY <1>1, <2>1, <2>2 DEF Calm, Stage
  <2> QED
    BY <1>1, <1>2, <2>2, <2>3 DEF IInv
<1>4. CASE ~OwnsDown(s, f)
  <2>1. s' = CarouselDown(y, onControl) /\ expected' = expected
    BY <1>4 DEF HandlePointerDown, y
  <2>2. Calm(s') /\ s'.fingers \subseteq y.fingers /\ s'.index + s'.pending = y.index + y.pending
    BY <1>2, <1>4, <2>1, CarouselDownCalm
  <2> QED
    BY <1>1, <1>2, <2>1, <2>2 DEF IInv
<1> QED
  BY <1>3, <1>4

LEMMA MoveStep ==
  ASSUME IInv, NEW f \in Fingers, NEW side \in {-1, 0, 1}, NEW scale \in 1 .. MaxScale,
         HandlePointerMove(f, side, scale)
  PROVE  IInv'
<1>1. Calm(s) /\ s \in Stage /\ down' = down
  BY DEF IInv, Calm, HandlePointerMove
<1>2. CASE OwnsMove(s, f)
  <2> DEFINE y == IF Pinching(s, f) THEN [s EXCEPT !.scale = scale] ELSE s
  <2>1. s' = CancelGesture(y) /\ expected' = s.index
    BY <1>2 DEF HandlePointerMove, Withdrawn
  <2>2. /\ y \in Stage /\ y.index = s.index /\ y.fingers = s.fingers /\ y.gesture = s.gesture
    BY <1>1 DEF Stage
  <2> HIDE DEF y
  <2>3. y.gesture => y.fingers # {} /\ y.index \notin Videos
    BY <1>1, <2>2 DEF Calm
  <2>4. Calm(s') /\ s'.index = s.index /\ s'.pending = 0 /\ s'.fingers = s.fingers
    BY <2>1, <2>2, <2>3, CancelGestureCalm
  <2>5. s'.index + s'.pending = expected'
    BY <1>1, <2>1, <2>4 DEF Stage
  <2> QED
    BY <1>1, <2>4, <2>5 DEF IInv
<1>3. CASE ~OwnsMove(s, f)
  <2>1. s' = CarouselMove(s, side) /\ expected' = expected
    BY <1>3 DEF HandlePointerMove
  <2>2. CASE ~s.drag
    BY <1>1, <2>1, <2>2 DEF CarouselMove, IInv
  <2>3. CASE s.drag
    <3>1. s' = [s EXCEPT !.dx = side]
      BY <2>1, <2>3 DEF CarouselMove
    <3>2. /\ s' \in Stage /\ s'.index = s.index /\ s'.pending = s.pending
          /\ s'.fingers = s.fingers /\ s'.fallback = s.fallback /\ s'.drag = s.drag
          /\ s'.gesture = s.gesture
      BY <1>1, <3>1 DEF Stage
    <3>3. Calm(s')
      BY <1>1, <2>3, <3>2 DEF Calm
    <3> QED
      BY <1>1, <2>1, <3>2, <3>3 DEF IInv
  <2> QED
    BY <2>2, <2>3
<1> QED
  BY <1>2, <1>3

LEMMA UpStep ==
  ASSUME IInv, NEW f \in Fingers, HandlePointerUp(f)
  PROVE  IInv'
<1> DEFINE y == ZoomUp(s, f)
<1>1. /\ Calm(s) /\ s \in Stage /\ down' = down \ {f} /\ down' \subseteq Fingers
  BY DEF IInv, Calm, HandlePointerUp
<1>2. /\ Calm(y) /\ y.index = s.index /\ y.pending = s.pending
      /\ y.fingers \subseteq down' /\ y.drag = s.drag /\ y.dx = s.dx
      /\ (y.gesture => s.gesture)
  <2>1. /\ Calm(y) /\ y.index = s.index /\ y.pending = s.pending
        /\ y.fingers = s.fingers \ {f} /\ y.drag = s.drag /\ y.dx = s.dx
        /\ (y.gesture => s.gesture)
    <3> HIDE DEF y
    <3> QED BY <1>1, ZoomUpStage DEF y
  <2> HIDE DEF y
  <2> QED
    BY <1>1, <2>1 DEF IInv
<1> HIDE DEF y
<1>3. CASE OwnsUp(s)
  <2>1. s' = CancelGesture(y) /\ expected' = s.index
    BY <1>3 DEF HandlePointerUp, Withdrawn, y
  <2>2. y \in Stage /\ (y.gesture => y.fingers # {} /\ y.index \notin Videos)
    BY <1>2 DEF Calm
  <2>3. Calm(s') /\ s'.index = s.index /\ s'.pending = 0 /\ s'.fingers = y.fingers
    BY <1>2, <2>1, <2>2, CancelGestureCalm
  <2>4. s'.index + s'.pending = expected'
    BY <1>1, <2>1, <2>3 DEF Stage
  <2> QED
    BY <1>1, <1>2, <2>3, <2>4 DEF IInv
<1>4. CASE ~OwnsUp(s)
  <2>1. /\ s' = CarouselUp(y)
        /\ IF s.drag /\ s.dx # 0 THEN Expect(-s.dx) ELSE expected' = expected
    BY <1>4 DEF HandlePointerUp, y
  <2>2. ~y.gesture
    BY <1>2, <1>4 DEF OwnsUp
  <2>3. /\ Calm(s') /\ s'.fingers = y.fingers
        /\ s'.index + s'.pending =
             IF y.drag /\ y.dx # 0 /\ y.index - y.dx \in 1 .. Count
             THEN y.index - y.dx ELSE y.index + y.pending
    BY <1>2, <2>1, <2>2, CarouselUpCalm
  <2>4. /\ s.index \in 1 .. Count /\ s.dx \in {-1, 0, 1} /\ s.index + s.pending = expected
        /\ Count \in Nat
    BY <1>1, StageAssumption DEF Stage, IInv, StageAssumption
  <2>5. s'.index + s'.pending = expected'
    <3>1. CASE s.drag /\ s.dx # 0
      <4>1. s.pending = 0 /\ expected = s.index
        BY <1>1, <2>4, <3>1 DEF Calm
      <4>2. expected' = IF s.index - s.dx \in 1 .. Count THEN s.index - s.dx ELSE s.index
        BY <2>1, <2>4, <3>1, <4>1 DEF Expect
      <4> QED
        BY <1>2, <2>3, <2>4, <3>1, <4>1, <4>2
    <3>2. CASE ~(s.drag /\ s.dx # 0)
      BY <1>2, <2>1, <2>3, <2>4, <3>2
    <3> QED
      BY <3>1, <3>2
  <2> QED
    BY <1>1, <1>2, <2>3, <2>5 DEF IInv
<1> QED
  BY <1>3, <1>4

LEMMA ArrowStep ==
  ASSUME IInv, NEW dir \in {-1, 1}, HandleArrow(dir)
  PROVE  IInv'
<1>1. /\ Calm(s) /\ s' = StepNow(s, dir) /\ down' = down /\ expected = s.index + s.pending
  BY DEF IInv, HandleArrow
<1>2. /\ Calm(s') /\ s'.fingers \subseteq s.fingers
      /\ s'.index + s'.pending = IF expected + dir \in 1 .. Count THEN expected + dir ELSE expected
  BY <1>1, StepNowCalm
<1>3. s'.index + s'.pending = expected'
  BY <1>2 DEF HandleArrow, Expect
<1> QED
  BY <1>1, <1>2, <1>3 DEF IInv

LEMMA ScaleStep ==
  ASSUME IInv, NEW scale \in 1 .. MaxScale, NEW reset \in BOOLEAN, SetScale(scale, reset)
  PROVE  IInv'
<1>1. Calm(s) /\ s \in Stage /\ down' = down /\ expected' = expected
  BY DEF IInv, Calm, SetScale
<1>2. CASE reset
  <2>1. s' = [s EXCEPT !.fingers = {}, !.gesture = FALSE, !.scale = 1]
    BY <1>2 DEF SetScale, ZoomReset
  <2>2. 1 \in 1 .. MaxScale
    BY StageAssumption DEF StageAssumption
  <2>3. /\ s' \in Stage /\ s'.index = s.index /\ s'.pending = s.pending /\ s'.dx = s.dx
        /\ s'.fingers = {} /\ s'.fallback = s.fallback /\ s'.drag = s.drag
        /\ s'.gesture = FALSE
    BY <1>1, <2>1, <2>2 DEF Stage
  <2>4. Calm(s')
    BY <1>1, <2>3 DEF Calm
  <2> QED
    BY <1>1, <2>3, <2>4 DEF IInv
<1>3. CASE ~reset
  <2>1. s' = [s EXCEPT !.scale = scale]
    BY <1>3 DEF SetScale
  <2>2. /\ s' \in Stage /\ s'.index = s.index /\ s'.pending = s.pending /\ s'.dx = s.dx
        /\ s'.fingers = s.fingers /\ s'.fallback = s.fallback /\ s'.drag = s.drag
        /\ s'.gesture = s.gesture
    BY <1>1, <2>1 DEF Stage
  <2>3. Calm(s')
    BY <1>1, <2>2 DEF Calm
  <2> QED
    BY <1>1, <2>2, <2>3 DEF IInv
<1> QED
  BY <1>2, <1>3

LEMMA SelectStep ==
  ASSUME IInv, NEW i \in 1 .. Count, AssetChanges(i)
  PROVE  IInv'
<1>1. Calm(s) /\ i # s.index /\ s' = GoToIndex(s, i) /\ expected' = i /\ down' = down
  BY DEF IInv, AssetChanges
<1>2. Calm(s') /\ s'.index = i /\ s'.pending = 0 /\ s'.fingers \subseteq s.fingers
  BY <1>1, GoToIndexCalm
<1>3. s'.index + s'.pending = expected'
  BY <1>1, <1>2
<1> QED
  BY <1>1, <1>2, <1>3 DEF IInv

\* The end of the slide, told by the browser or by the fallback.
LEMMA CommitStep ==
  ASSUME IInv, OnTransitionEnd \/ FallbackTimer
  PROVE  IInv'
<1>1. /\ Calm(s) /\ s' = CommitPendingStep(ClearTransitionFallback(s))
      /\ expected' = expected /\ down' = down
  BY DEF IInv, OnTransitionEnd, FallbackTimer
<1>2. /\ Calm(s') /\ s'.index = s.index + s.pending /\ s'.pending = 0
      /\ s'.fingers \subseteq s.fingers
  BY <1>1, CommitCalm
<1>3. s'.index + s'.pending = expected'
  BY <1>1, <1>2 DEF IInv, Calm, Stage
<1> QED
  BY <1>1, <1>2, <1>3 DEF IInv

\* A renewed list takes the zoom and its gesture away.
LEMMA RenewedStep ==
  ASSUME IInv, ListRenewed
  PROVE  IInv'
<1>1. /\ Calm(s) /\ s \in Stage /\ s' = ZoomReset(s) /\ expected' = expected /\ down' = down
  BY DEF IInv, Calm, ListRenewed
<1>2. 1 \in 1 .. MaxScale
  BY StageAssumption DEF StageAssumption
<1>3. /\ s' \in Stage /\ s'.index = s.index /\ s'.pending = s.pending
      /\ s'.fallback = s.fallback /\ s'.drag = s.drag /\ s'.dx = s.dx
      /\ s'.fingers = {} /\ s'.gesture = FALSE
  BY <1>1, <1>2 DEF ZoomReset, Stage
<1>4. Calm(s')
  BY <1>1, <1>3 DEF Calm
<1> QED
  BY <1>1, <1>3, <1>4 DEF IInv

LEMMA NextIInv == IInv /\ [Next]_vars => IInv'
<1> SUFFICES ASSUME IInv, [Next]_vars PROVE IInv'
  OBVIOUS
<1>1. CASE UNCHANGED vars
  BY <1>1 DEF vars, IInv
<1>2. CASE Next
  BY <1>2, DownStep, MoveStep, UpStep, ArrowStep, ScaleStep, SelectStep, CommitStep, RenewedStep
     DEF Next, StageMoves
<1> QED
  BY <1>1, <1>2

LEMMA IInvImplies == IInv => StageSound
<1> SUFFICES ASSUME IInv PROVE StageSound
  OBVIOUS
<1>1. Calm(s) /\ s \in Stage /\ s.index + s.pending = expected
  BY DEF IInv, Calm
<1>2. /\ s.index \in 1 .. Count /\ expected \in 1 .. Count /\ s.scale \in 1 .. MaxScale
      /\ s.pending \in {-1, 0, 1} /\ s.dx \in {-1, 0, 1}
      /\ s.anim \in BOOLEAN /\ s.drag \in BOOLEAN /\ s.fallback \in BOOLEAN
      /\ s.gesture \in BOOLEAN
  BY <1>1 DEF Calm, Stage
<1>3. TypeOK
  BY <1>1, <1>2 DEF TypeOK, Calm, IInv
<1>4. GestureOwnsStage /\ NoStepLost /\ TrackCentred
  BY <1>1 DEF GestureOwnsStage, NoStepLost, TrackCentred, Calm
<1> QED
  BY <1>3, <1>4 DEF StageSound

\* A pinch or a pan has the stage for itself, every step of the visitor arrives
\* and the track comes back to its place (the pointer handlers of
\* useViewerCarousel.ts and useViewerZoom.ts, as the viewer composes them).
THEOREM StageIsSound == Spec => []StageSound
<1>1. Init => IInv
  BY InitIInv
<1>2. IInv /\ [Next]_vars => IInv'
  BY NextIInv
<1>3. IInv => StageSound
  BY IInvImplies
<1> QED
  BY <1>1, <1>2, <1>3, PTL DEF Spec

-----------------------------------------------------------------------------
(* What the slide shows does not disturb the stage.                        *)

LEMMA MediaStepsStage == MediaNext => [Next]_vars
<1> SUFFICES ASSUME MediaNext PROVE [Next]_vars
  OBVIOUS
<1>1. CASE StageStep \/ RenewalStep
  BY <1>1 DEF StageStep, RenewalStep, Next
<1>2. CASE PhotoStep
  BY <1>2 DEF PhotoStep, Fetch, OnLoad, OnError, RetryTimer, vars
<1>3. CASE VideoStep
  BY <1>3 DEF VideoStep, LoadMetadata, TogglePlay, Playback, OnBarPointerUp, MediaEvent,
              OnBarPointerDown, OnBarPointerMove, OnVideo, vars
<1> QED
  BY <1>1, <1>2, <1>3 DEF MediaNext

\* The stage stays sound while photos and videos load, fail, are retried and
\* are replaced on its slide (imageLoader.ts and ViewerVideoLayer.tsx).
THEOREM StageIsSoundUnderMedia == MediaSpec => []StageSound
<1>1. MediaInit => IInv
  BY InitIInv DEF MediaInit
<1>2. IInv /\ [MediaNext]_<<vars, mediaVars>> => IInv'
  BY NextIInv, MediaStepsStage DEF vars
<1>3. IInv => StageSound
  BY IInvImplies
<1> QED
  BY <1>1, <1>2, <1>3, PTL DEF MediaSpec

-----------------------------------------------------------------------------
(* What the slide shows: its photo.                                        *)

Loader == [index : 0 .. 3, retry : BOOLEAN, timer : 0 .. 3, loaded : BOOLEAN]

\* A slide without a photo has no element; an element has the source of the attempt.
ElementInv ==
  /\ l \in Loader /\ l.index <= Len(Sizes(s)) /\ l.timer \in {0, l.index}
  /\ protected \in BOOLEAN /\ kept \in BOOLEAN
  /\ IsVideo(s) => l = FirstAttempt
  /\ IsVideo(s) \/ l.index = 0 => img = NoElement
  /\ ~IsVideo(s) /\ l.index # 0 =>
       img.src = SrcOf(l, s) /\ img.st \in {"loading", "ok", "broken"}
  /\ DOMAIN img = {"src", "st", "event"} /\ img.event \in {"none", "load", "error"}

\* A photo that came is shown or about to be; one that did not come has told so, is
\* about to be tried again or was left broken by a reset, and counts as tried.
OutcomeInv ==
  /\ img.event = "load" => img.st = "ok"
  /\ img.event = "error" => img.st = "broken"
  /\ l.loaded /\ ~IsVideo(s) => img.st = "ok"
  /\ img.st = "ok" => l.loaded \/ img.event = "load"
  /\ l.timer # 0 => img.st = "broken" /\ img.event = "none" /\ ~l.retry
  /\ img.st = "broken" => img.event = "error" \/ l.timer # 0 \/ kept
  /\ img.st = "broken" => img.src \in failures

\* A retry is of a size that failed.
LadderInv ==
  /\ NoSizeSkipped
  /\ ~IsVideo(s) /\ l.retry /\ l.index # 0 => SrcOf([l EXCEPT !.retry = FALSE], s) \in failures

PhotoInv == ElementInv /\ OutcomeInv /\ LadderInv

LEMMA SizesAre ==
  ASSUME NEW z
  PROVE  /\ Len(Sizes(z)) \in {2, 3}
         /\ \A i, j \in 1 .. Len(Sizes(z)) : Sizes(z)[i] = Sizes(z)[j] => i = j
<1>1. CASE Zoomed(z)
  <2>1. Sizes(z) = <<"fullsize", "preview", "thumbnail">>
    BY <1>1 DEF Sizes
  <2> QED
    BY <2>1
<1>2. CASE ~Zoomed(z)
  <2>1. Sizes(z) = <<"preview", "thumbnail">>
    BY <1>2 DEF Sizes
  <2> QED
    BY <2>1
<1> QED
  BY <1>1, <1>2

\* An attempt that goes on, or tries again, asks for something else.
LEMMA OtherSource ==
  ASSUME NEW z, NEW a, NEW b, b.index \in 1 .. Len(Sizes(z)), a.index \in 1 .. Len(Sizes(z)),
         a.index # b.index \/ a.retry # b.retry
  PROVE  SrcOf(a, z) # SrcOf(b, z)
<1>1. a.index # 0 /\ b.index # 0
  BY SizesAre
<1>2. /\ SrcOf(a, z) = [asset |-> z.index, size |-> Sizes(z)[a.index], retry |-> a.retry]
      /\ SrcOf(b, z) = [asset |-> z.index, size |-> Sizes(z)[b.index], retry |-> b.retry]
  BY <1>1 DEF SrcOf
<1>3. a.index # b.index => Sizes(z)[a.index] # Sizes(z)[b.index]
  BY SizesAre
<1> QED
  BY <1>2, <1>3

\* An attempt asks for something.
LEMMA RealSource ==
  ASSUME NEW z, NEW a, a.index = 1
  PROVE  SrcOf(a, z) # NoSrc
<1>1. SrcOf(a, z).size = Sizes(z)[1]
  BY DEF SrcOf
<1>2. Sizes(z)[1] # ""
  BY DEF Sizes
<1>3. NoSrc.size = ""
  BY DEF NoSrc
<1> QED
  BY <1>1, <1>2, <1>3

\* The element of an attempt that asks for something else starts to load.
LEMMA NewElement ==
  ASSUME NEW z, NEW a, ~IsVideo(z), a.index # 0, img.src # SrcOf(a, z) \/ protected
  PROVE  ElementFor(a, z) = [src |-> SrcOf(a, z), st |-> "loading", event |-> "none"]
  BY DEF ElementFor

LEMMA InitPhotoInv == MediaInit => PhotoInv
<1> SUFFICES ASSUME MediaInit PROVE PhotoInv
  OBVIOUS
<1>1. l = FirstAttempt /\ failures = {} /\ kept = FALSE
        /\ img = IF IsVideo(s) THEN NoElement
                 ELSE [src |-> SrcOf(l, s), st |-> "loading", event |-> "none"]
  BY DEF MediaInit
<1>2. protected \in BOOLEAN
  BY MediaAssumption DEF MediaInit
<1>3. kept \in BOOLEAN
  BY <1>1
<1>4. l \in Loader /\ l.index = 1 /\ l.timer = 0 /\ l.loaded = FALSE /\ l.retry = FALSE
  BY <1>1 DEF Loader, FirstAttempt
<1>5. 1 <= Len(Sizes(s))
  BY SizesAre
<1>6. LadderInv
  BY <1>4 DEF LadderInv, NoSizeSkipped
<1>7. CASE IsVideo(s)
  <2>1. /\ img = NoElement /\ img.st = "none" /\ img.event = "none"
        /\ DOMAIN img = {"src", "st", "event"}
    BY <1>1, <1>7 DEF NoElement
  <2>2. ElementInv
    BY <1>1, <1>2, <1>3, <1>4, <1>5, <1>7, <2>1 DEF ElementInv
  <2>3. OutcomeInv
    BY <1>4, <2>1 DEF OutcomeInv
  <2> QED
    BY <1>6, <2>2, <2>3 DEF PhotoInv
<1>8. CASE ~IsVideo(s)
  <2>1. /\ img.st = "loading" /\ img.event = "none" /\ img.src = SrcOf(l, s)
        /\ DOMAIN img = {"src", "st", "event"}
    BY <1>1, <1>8
  <2>2. ElementInv
    BY <1>2, <1>3, <1>4, <1>5, <1>8, <2>1 DEF ElementInv
  <2>3. OutcomeInv
    BY <1>4, <2>1 DEF OutcomeInv
  <2> QED
    BY <1>6, <2>2, <2>3 DEF PhotoInv
<1> QED
  BY <1>7, <1>8

\* What the loader does depends on the asset and the ladder alone.
LEMMA SameSlideKeeps ==
  ASSUME PhotoInv, UNCHANGED <<photoVars, protected>>,
         s'.index = s.index, Sizes(s') = Sizes(s)
  PROVE  PhotoInv'
<1>1. UNCHANGED <<l, img, failures, kept, protected>>
  BY DEF photoVars
<1>2. IsVideo(s') <=> IsVideo(s)
  BY DEF IsVideo
<1>3. \A a : SrcOf(a, s') = SrcOf(a, s)
  BY DEF SrcOf
<1>4. SrcOf(l, s)' = SrcOf(l, s)
        /\ SrcOf([l EXCEPT !.retry = FALSE], s)' = SrcOf([l EXCEPT !.retry = FALSE], s)
        /\ (IsVideo(s)' <=> IsVideo(s)) /\ Sizes(s)' = Sizes(s)
  BY <1>1, <1>2, <1>3 DEF SrcOf, Sizes, Zoomed, IsVideo
<1>5. ElementInv'
  BY <1>1, <1>4 DEF PhotoInv, ElementInv
<1>6. OutcomeInv'
  BY <1>1, <1>4 DEF PhotoInv, OutcomeInv
<1>7. LadderInv'
  BY <1>1, <1>4 DEF PhotoInv, LadderInv, NoSizeSkipped
<1> QED
  BY <1>5, <1>6, <1>7 DEF PhotoInv

\* A reset starts over, or finds an element with the source of the first attempt and
\* takes over whether it is complete.
LEMMA ResetKeeps ==
  ASSUME PhotoInv, ResetLoader(s'), protected' = protected
  PROVE  PhotoInv'
<1> DEFINE same == ~IsVideo(s') /\ ~protected /\ img.src = SrcOf(FirstAttempt, s')
<1>1. /\ l' = [FirstAttempt EXCEPT !.loaded = same /\ img.st = "ok"]
      /\ img' = ElementFor(FirstAttempt, s')
      /\ failures' = (IF same THEN failures \intersect {img.src} ELSE {})
      /\ kept' = same
  BY DEF ResetLoader
<1>2. /\ l'.index = 1 /\ l'.retry = FALSE /\ l'.timer = 0
      /\ l'.loaded = (same /\ img.st = "ok")
  BY <1>1 DEF FirstAttempt
<1>3. FirstAttempt.index = 1 /\ FirstAttempt.retry = FALSE
  BY DEF FirstAttempt
<1>4. SrcOf(l, s)' = SrcOf(FirstAttempt, s')
  BY <1>2, <1>3 DEF SrcOf
<1>5. 1 <= Len(Sizes(s))'
  BY SizesAre
<1>6. l' \in Loader /\ protected' \in BOOLEAN /\ kept' \in BOOLEAN
  <2> FirstAttempt \in Loader
    BY DEF Loader, FirstAttempt
  <2>1. /\ [FirstAttempt EXCEPT !.loaded = TRUE] \in Loader
        /\ [FirstAttempt EXCEPT !.loaded = FALSE] \in Loader
    BY DEF Loader
  <2>2. (same /\ img.st = "ok") = TRUE \/ (same /\ img.st = "ok") = FALSE
    OBVIOUS
  <2>3. l' \in Loader
    BY <1>1, <2>1, <2>2
  <2>4. protected' \in BOOLEAN
    BY DEF PhotoInv, ElementInv
  <2>5. kept' \in BOOLEAN
    BY <1>1
  <2> QED
    BY <2>3, <2>4, <2>5
<1>7. LadderInv'
  BY <1>2 DEF LadderInv, NoSizeSkipped
<1>8. CASE IsVideo(s')
  <2>1. ~same
    BY <1>8
  <2>2. l'.loaded = FALSE /\ l' = FirstAttempt
    BY <1>1, <1>2, <2>1 DEF FirstAttempt
  <2>3. img' = NoElement
    BY <1>1, <1>8 DEF ElementFor
  <2>4. img'.st = "none" /\ img'.event = "none" /\ DOMAIN img' = {"src", "st", "event"}
    BY <2>3 DEF NoElement
  <2>5. ElementInv'
    BY <1>2, <1>5, <1>6, <1>8, <2>2, <2>3, <2>4 DEF ElementInv
  <2>6. OutcomeInv'
    BY <1>2, <2>2, <2>4 DEF OutcomeInv
  <2> QED
    BY <1>7, <2>5, <2>6 DEF PhotoInv
<1>9. CASE ~IsVideo(s') /\ same
  <2>1. ~IsVideo(s') /\ ~protected /\ img.src = SrcOf(FirstAttempt, s')
    BY <1>9
  <2>2. img' = img
    BY <1>1, <1>3, <2>1 DEF ElementFor
  <2>3. kept' = TRUE /\ failures' = failures \intersect {img.src}
    BY <1>1, <1>9
  <2>4. l'.loaded = (img.st = "ok")
    BY <1>2, <1>9
  <2>5. img.src # NoSrc
    BY <1>3, <2>1, RealSource
  <2>6. ~IsVideo(s) /\ l.index # 0
    BY <2>5 DEF PhotoInv, ElementInv, NoElement
  <2>7. /\ img'.src = SrcOf(l, s)' /\ img'.st \in {"loading", "ok", "broken"}
        /\ DOMAIN img' = {"src", "st", "event"} /\ img'.event \in {"none", "load", "error"}
    BY <1>4, <2>1, <2>2, <2>6 DEF PhotoInv, ElementInv
  <2>8. ElementInv'
    BY <1>2, <1>5, <1>6, <1>9, <2>7 DEF ElementInv
  <2>9. /\ img.event = "load" => img.st = "ok"
        /\ img.event = "error" => img.st = "broken"
        /\ img.st = "broken" => img.src \in failures
    BY DEF PhotoInv, OutcomeInv
  <2>10. OutcomeInv'
    BY <1>2, <2>2, <2>3, <2>4, <2>9 DEF OutcomeInv
  <2> QED
    BY <1>7, <2>8, <2>10 DEF PhotoInv
<1>10. CASE ~IsVideo(s') /\ ~same
  <2>1. img' = [src |-> SrcOf(FirstAttempt, s'), st |-> "loading", event |-> "none"]
    BY <1>1, <1>3, <1>10, NewElement
  <2>2. /\ img'.src = SrcOf(l, s)' /\ img'.st = "loading" /\ img'.event = "none"
        /\ DOMAIN img' = {"src", "st", "event"}
    BY <1>4, <2>1
  <2>3. l'.loaded = FALSE
    BY <1>2, <1>10
  <2>4. ElementInv'
    BY <1>2, <1>5, <1>6, <1>10, <2>2 DEF ElementInv
  <2>5. OutcomeInv'
    BY <1>2, <2>2, <2>3 DEF OutcomeInv
  <2> QED
    BY <1>7, <2>4, <2>5 DEF PhotoInv
<1> QED
  BY <1>8, <1>9, <1>10

\* Where an element was asked for, the slide is of a photo.
LEMMA ElementOfPhoto ==
  ASSUME PhotoInv, img.st # "none"
  PROVE  ~IsVideo(s) /\ l.index # 0 /\ img.src = SrcOf(l, s) /\ l.index \in 1 .. Len(Sizes(s))
<1>1. ~IsVideo(s) /\ l.index # 0
  BY DEF PhotoInv, ElementInv, NoElement
<1> QED
  BY <1>1, SizesAre DEF PhotoInv, ElementInv, Loader

\* More failures leave the sizes that were given up given up.
LEMMA LadderGrows ==
  ASSUME LadderInv, failures \subseteq failures', s' = s,
         l \in Loader, l' \in Loader, l'.index = l.index, l'.retry = l.retry
  PROVE  LadderInv'
<1>1. /\ [l EXCEPT !.retry = FALSE]'.index = [l EXCEPT !.retry = FALSE].index
      /\ [l EXCEPT !.retry = FALSE]'.retry = [l EXCEPT !.retry = FALSE].retry
  BY DEF Loader
<1>2. SrcOf([l EXCEPT !.retry = FALSE], s)' = SrcOf([l EXCEPT !.retry = FALSE], s)
  BY <1>1 DEF SrcOf
<1> QED
  BY <1>2 DEF LadderInv, NoSizeSkipped, IsVideo

LEMMA FetchKeeps ==
  ASSUME NEW st \in {"ok", "broken"}, PhotoInv, Fetch(st)
  PROVE  PhotoInv'
<1> DEFINE e == IF st = "ok" THEN "load" ELSE "error"
<1>1. /\ img.st = "loading" /\ s' = s /\ l' = l /\ protected' = protected /\ kept' = kept
      /\ img' = [img EXCEPT !.st = st, !.event = e]
      /\ failures' = IF st = "ok" THEN failures ELSE failures \union {img.src}
  BY DEF Fetch, vars
<1>2. ~IsVideo(s) /\ l.index # 0 /\ img.src = SrcOf(l, s)
  BY <1>1, ElementOfPhoto
<1>3. SrcOf(l, s)' = SrcOf(l, s) /\ Sizes(s)' = Sizes(s) /\ ~IsVideo(s)'
  BY <1>1, <1>2
<1>4. /\ img'.st = st /\ img'.event = e /\ img'.src = img.src
      /\ DOMAIN img' = {"src", "st", "event"}
  BY <1>1 DEF PhotoInv, ElementInv
<1>5. ElementInv'
  BY <1>1, <1>2, <1>3, <1>4 DEF PhotoInv, ElementInv
<1>6. ~l.loaded /\ l.timer = 0
  BY <1>1, <1>2 DEF PhotoInv, OutcomeInv, ElementInv, Loader
<1>7. OutcomeInv'
  BY <1>1, <1>2, <1>4, <1>6 DEF OutcomeInv
<1>8. LadderInv'
  BY <1>1, LadderGrows DEF PhotoInv, ElementInv
<1> QED
  BY <1>5, <1>7, <1>8 DEF PhotoInv

LEMMA OnLoadKeeps == PhotoInv /\ OnLoad => PhotoInv'
<1> SUFFICES ASSUME PhotoInv, OnLoad PROVE PhotoInv'
  OBVIOUS
<1>1. /\ img.event = "load" /\ img' = [img EXCEPT !.event = "none"]
      /\ l' = [l EXCEPT !.loaded = TRUE]
      /\ UNCHANGED <<s, protected, failures, kept>>
  BY DEF OnLoad, vars
<1>2. img.st = "ok"
  BY <1>1 DEF PhotoInv, OutcomeInv
<1>3. ~IsVideo(s) /\ l.index # 0 /\ img.src = SrcOf(l, s)
  BY <1>2, ElementOfPhoto
<1>4. /\ l' \in Loader /\ l'.index = l.index /\ l'.retry = l.retry /\ l'.timer = l.timer
      /\ l'.loaded = TRUE
  BY <1>1 DEF PhotoInv, ElementInv, Loader
<1>5. /\ img'.st = "ok" /\ img'.event = "none" /\ img'.src = img.src
      /\ DOMAIN img' = {"src", "st", "event"}
  BY <1>1, <1>2 DEF PhotoInv, ElementInv
<1>6. SrcOf(l, s)' = SrcOf(l, s) /\ Sizes(s)' = Sizes(s) /\ ~IsVideo(s)'
  BY <1>1, <1>3, <1>4 DEF SrcOf
<1>7. ElementInv'
  BY <1>1, <1>3, <1>4, <1>5, <1>6 DEF PhotoInv, ElementInv
<1>8. OutcomeInv'
  BY <1>2, <1>4, <1>5 DEF PhotoInv, OutcomeInv
<1>9. LadderInv'
  BY <1>1, <1>4, LadderGrows DEF PhotoInv, ElementInv
<1> QED
  BY <1>7, <1>8, <1>9 DEF PhotoInv

\* Setting the fields of a loader.
LEMMA LoaderIndex ==
  ASSUME NEW a \in Loader, NEW i, i \in 0 .. 3
  PROVE  [a EXCEPT !.index = i] \in Loader /\ [a EXCEPT !.timer = i] \in Loader
  BY DEF Loader

LEMMA LoaderRetry ==
  ASSUME NEW a, a \in Loader
  PROVE  [a EXCEPT !.retry = TRUE] \in Loader /\ [a EXCEPT !.retry = FALSE] \in Loader
<1>1. [a EXCEPT !.retry = TRUE] \in Loader
  BY DEF Loader
<1>2. [a EXCEPT !.retry = FALSE] \in Loader
  BY DEF Loader
<1> QED
  BY <1>1, <1>2

\* The next attempt of a slide whose attempt failed.
LEMMA AttemptKeeps ==
  ASSUME PhotoInv, img.st = "broken",
         NEW a \in Loader, a.index <= Len(Sizes(s)), a.timer = 0, a.loaded = FALSE,
         a.index # l.index \/ a.retry # l.retry,
         Attempt(a), UNCHANGED <<s, protected, failures, kept>>, LadderInv'
  PROVE  PhotoInv'
<1>1. l' = a /\ img' = ElementFor(a, s)
  BY DEF Attempt
<1>2. ~IsVideo(s) /\ img.src = SrcOf(l, s) /\ l.index \in 1 .. Len(Sizes(s))
  BY ElementOfPhoto
<1>3. Sizes(s)' = Sizes(s) /\ ~IsVideo(s)' /\ SrcOf(l, s)' = SrcOf(a, s)
  BY <1>1, <1>2 DEF SrcOf
<1>4. CASE a.index = 0
  <2>1. img' = NoElement
    BY <1>1, <1>4 DEF ElementFor
  <2>2. img'.st = "none" /\ img'.event = "none" /\ DOMAIN img' = {"src", "st", "event"}
    BY <2>1 DEF NoElement
  <2>3. ElementInv'
    BY <1>1, <1>3, <1>4, <2>1, <2>2 DEF PhotoInv, ElementInv
  <2>4. OutcomeInv'
    BY <1>1, <2>2 DEF OutcomeInv
  <2> QED
    BY <2>3, <2>4 DEF PhotoInv
<1>5. CASE a.index # 0
  <2>1. a.index \in 1 .. Len(Sizes(s))
    BY <1>5, SizesAre DEF Loader
  <2>2. img.src # SrcOf(a, s)
    BY <1>2, <2>1, OtherSource
  <2>3. img' = [src |-> SrcOf(a, s), st |-> "loading", event |-> "none"]
    BY <1>1, <1>2, <1>5, <2>2, NewElement
  <2>4. /\ img'.st = "loading" /\ img'.event = "none" /\ img'.src = SrcOf(l, s)'
        /\ DOMAIN img' = {"src", "st", "event"}
    BY <1>3, <2>3
  <2>5. ElementInv'
    BY <1>1, <1>3, <1>5, <2>4 DEF PhotoInv, ElementInv
  <2>6. OutcomeInv'
    BY <1>1, <2>4 DEF OutcomeInv
  <2> QED
    BY <2>5, <2>6 DEF PhotoInv
<1> QED
  BY <1>4, <1>5

LEMMA RetryTimerKeeps == PhotoInv /\ RetryTimer => PhotoInv'
<1> SUFFICES ASSUME PhotoInv, RetryTimer PROVE PhotoInv'
  OBVIOUS
<1> DEFINE a == [l EXCEPT !.index = l.timer, !.retry = TRUE, !.timer = 0]
<1>1. l.timer # 0 /\ Attempt(a) /\ UNCHANGED <<s, protected, failures, kept>>
  BY DEF RetryTimer, vars
<1>2. img.st = "broken" /\ ~l.retry /\ l.timer = l.index /\ img.src \in failures
  BY <1>1 DEF PhotoInv, OutcomeInv, ElementInv
<1>3. ~IsVideo(s) /\ img.src = SrcOf(l, s) /\ l.index \in 1 .. Len(Sizes(s))
  BY <1>2, ElementOfPhoto
<1>4. l.loaded = FALSE
  BY <1>2, <1>3 DEF PhotoInv, OutcomeInv, ElementInv, Loader
<1>a. l \in Loader
  BY DEF PhotoInv, ElementInv
<1>5. a.index = l.index /\ a.retry = TRUE /\ a.timer = 0 /\ a.loaded = FALSE
  BY <1>2, <1>4, <1>a DEF Loader
<1>b. l.timer \in 0 .. 3
  BY <1>a DEF Loader
<1>6. a \in Loader
  <2>1. [l EXCEPT !.index = l.timer] \in Loader
    BY <1>a, <1>b, LoaderIndex
  <2>2. [l EXCEPT !.index = l.timer, !.retry = TRUE] \in Loader
    BY <2>1, LoaderRetry
  <2>3. 0 \in 0 .. 3
    OBVIOUS
  <2> QED
    BY <2>2, <2>3, LoaderIndex
<1>7. a.index <= Len(Sizes(s))
  BY <1>5 DEF PhotoInv, ElementInv
<1>8. l' = a
  BY <1>1 DEF Attempt
<1>9. SrcOf([l EXCEPT !.retry = FALSE], s)' = SrcOf(l, s)
  <2>1. [a EXCEPT !.retry = FALSE].index = l.index /\ [a EXCEPT !.retry = FALSE].retry = FALSE
    BY <1>5, <1>6 DEF Loader
  <2>2. l.retry = FALSE
    BY <1>2 DEF PhotoInv, ElementInv, Loader
  <2> QED
    BY <1>1, <1>8, <2>1, <2>2 DEF SrcOf
<1>10. LadderInv'
  BY <1>1, <1>2, <1>3, <1>5, <1>8, <1>9 DEF PhotoInv, LadderInv, NoSizeSkipped, IsVideo
<1>11. a.retry # l.retry
  BY <1>2, <1>5
<1> HIDE DEF a
<1> QED
  BY <1>1, <1>2, <1>5, <1>6, <1>7, <1>10, <1>11, AttemptKeeps

\* The size that failed, with the retry of it, is given up.
LEMMA GivenUp ==
  ASSUME PhotoInv, img.st = "broken", l.retry, NEW i \in 1 .. l.index, NEW retry \in BOOLEAN
  PROVE  [asset |-> s.index, size |-> Sizes(s)[i], retry |-> retry] \in failures
<1>1. ~IsVideo(s) /\ img.src = SrcOf(l, s) /\ l.index \in 1 .. Len(Sizes(s))
  BY ElementOfPhoto
<1>2. l \in Loader /\ l.index # 0 /\ l.retry = TRUE
  BY <1>1 DEF PhotoInv, ElementInv, Loader
<1>3. CASE i = l.index /\ retry = TRUE
  <2>1. SrcOf(l, s) = [asset |-> s.index, size |-> Sizes(s)[i], retry |-> retry]
    BY <1>2, <1>3 DEF SrcOf
  <2> QED
    BY <1>1, <2>1 DEF PhotoInv, OutcomeInv
<1>4. CASE i = l.index /\ retry = FALSE
  <2>1. [l EXCEPT !.retry = FALSE].index = i /\ [l EXCEPT !.retry = FALSE].retry = retry
    BY <1>2, <1>4 DEF Loader
  <2>2. SrcOf([l EXCEPT !.retry = FALSE], s)
          = [asset |-> s.index, size |-> Sizes(s)[i], retry |-> retry]
    BY <1>2, <1>4, <2>1 DEF SrcOf
  <2> QED
    BY <1>1, <1>2, <2>2 DEF PhotoInv, LadderInv
<1>5. CASE i # l.index
  <2>1. i \in 1 .. l.index - 1
    BY <1>1, <1>5
  <2> QED
    BY <1>1, <1>2, <2>1 DEF PhotoInv, LadderInv, NoSizeSkipped
<1> QED
  BY <1>3, <1>4, <1>5

LEMMA OnErrorKeeps == PhotoInv /\ OnError => PhotoInv'
<1> SUFFICES ASSUME PhotoInv, OnError PROVE PhotoInv'
  OBVIOUS
<1>1. img.event = "error" /\ UNCHANGED <<s, protected, failures, kept>>
  BY DEF OnError, vars
<1>2. img.st = "broken" /\ l.timer = 0
  BY <1>1 DEF PhotoInv, OutcomeInv
<1>3. ~IsVideo(s) /\ img.src = SrcOf(l, s) /\ l.index \in 1 .. Len(Sizes(s))
  BY <1>2, ElementOfPhoto
<1>4. l \in Loader
  BY DEF PhotoInv, ElementInv
<1>5. l.loaded = FALSE
  BY <1>2, <1>3, <1>4 DEF PhotoInv, OutcomeInv, Loader
<1>6. Len(Sizes(s)) \in {2, 3}
  BY SizesAre
<1>7. CASE ~l.retry
  <2>1. l' = [l EXCEPT !.timer = l.index] /\ img' = [img EXCEPT !.event = "none"]
    BY <1>2, <1>3, <1>7 DEF OnError
  <2>2. /\ img'.st = "broken" /\ img'.event = "none" /\ img'.src = img.src
        /\ DOMAIN img' = {"src", "st", "event"}
    BY <1>2, <2>1 DEF PhotoInv, ElementInv
  <2>3. l.index \in 0 .. 3
    BY <1>4 DEF Loader
  <2>4. /\ l' \in Loader /\ l'.index = l.index /\ l'.timer = l.index
        /\ l'.retry = l.retry /\ l'.loaded = l.loaded
    BY <1>4, <2>1, <2>3 DEF Loader
  <2>5. SrcOf(l, s)' = SrcOf(l, s) /\ Sizes(s)' = Sizes(s) /\ ~IsVideo(s)'
    BY <1>1, <1>3, <2>4 DEF SrcOf
  <2>6. ElementInv'
    BY <1>1, <1>3, <2>2, <2>4, <2>5 DEF PhotoInv, ElementInv
  <2>7. OutcomeInv'
    BY <1>1, <1>2, <1>3, <1>5, <1>7, <2>2, <2>4 DEF PhotoInv, OutcomeInv
  <2>8. LadderInv'
    BY <1>1, <1>4, <2>4, LadderGrows DEF PhotoInv
  <2> QED
    BY <2>6, <2>7, <2>8 DEF PhotoInv
<1>8. CASE l.retry /\ l.index < Len(Sizes(s))
  <2> DEFINE a == [l EXCEPT !.index = @ + 1, !.retry = FALSE]
  <2>1. Attempt(a)
    BY <1>2, <1>3, <1>8 DEF OnError
  <2>2. l.index \in 0 .. 3 /\ l.index + 1 \in 0 .. 3 /\ l.index + 1 <= Len(Sizes(s))
    <3>1. l.index \in 0 .. 3
      BY <1>4 DEF Loader
    <3>2. l.index < Len(Sizes(s))
      BY <1>8
    <3>3. \A i \in 0 .. 3 : \A n \in {2, 3} : i < n => i + 1 \in 0 .. 3 /\ i + 1 <= n
      OBVIOUS
    <3> QED
      BY <1>6, <3>1, <3>2, <3>3
  <2>3. a \in Loader
    <3>1. [l EXCEPT !.index = l.index + 1] \in Loader
      BY <1>4, <2>2, LoaderIndex
    <3> QED
      BY <3>1, LoaderRetry
  <2>4. a.index = l.index + 1 /\ a.retry = FALSE /\ a.timer = 0 /\ a.loaded = FALSE
    BY <1>2, <1>4, <1>5 DEF Loader
  <2>5. l' = a
    BY <2>1 DEF Attempt
  <2> HIDE DEF a
  <2>6. l'.index = l.index + 1 /\ l'.retry = FALSE
    BY <2>4, <2>5
  <2>7. \A i \in 1 .. l.index, retry \in BOOLEAN :
          [asset |-> s.index, size |-> Sizes(s)[i], retry |-> retry] \in failures
    BY <1>2, <1>8, GivenUp
  <2>8. LadderInv'
    BY <1>1, <1>3, <2>6, <2>7 DEF LadderInv, NoSizeSkipped
  <2>9. a.index <= Len(Sizes(s)) /\ a.index # l.index
    BY <2>2, <2>4
  <2> QED
    BY <1>1, <1>2, <2>1, <2>3, <2>4, <2>8, <2>9, AttemptKeeps
<1>9. CASE l.retry /\ ~(l.index < Len(Sizes(s)))
  <2> DEFINE a == [l EXCEPT !.index = 0, !.retry = FALSE]
  <2>1. Attempt(a)
    BY <1>2, <1>3, <1>9 DEF OnError
  <2>2. l.index = Len(Sizes(s))
    BY <1>3, <1>6, <1>9
  <2>3. a \in Loader
    <3>1. 0 \in 0 .. 3
      OBVIOUS
    <3>2. [l EXCEPT !.index = 0] \in Loader
      BY <1>4, <3>1, LoaderIndex
    <3> QED
      BY <3>2, LoaderRetry
  <2>4. a.index = 0 /\ a.retry = FALSE /\ a.timer = 0 /\ a.loaded = FALSE
    BY <1>2, <1>4, <1>5 DEF Loader
  <2>5. l' = a
    BY <2>1 DEF Attempt
  <2> HIDE DEF a
  <2>6. l'.index = 0 /\ l'.retry = FALSE
    BY <2>4, <2>5
  <2>7. \A i \in 1 .. Len(Sizes(s)), retry \in BOOLEAN :
          [asset |-> s.index, size |-> Sizes(s)[i], retry |-> retry] \in failures
    BY <1>2, <1>9, <2>2, GivenUp
  <2>8. LadderInv'
    BY <1>1, <2>6, <2>7 DEF LadderInv, NoSizeSkipped
  <2>9. a.index <= Len(Sizes(s)) /\ a.index # l.index
    BY <1>3, <1>6, <2>4
  <2> QED
    BY <1>1, <1>2, <2>1, <2>3, <2>4, <2>8, <2>9, AttemptKeeps
<1> QED
  BY <1>7, <1>8, <1>9

\* The stage resets the loader where the asset or the ladder changes, and the video
\* does not touch it.
LEMMA MediaStepsPhoto == PhotoInv /\ [MediaNext]_<<vars, mediaVars>> => PhotoInv'
<1> SUFFICES ASSUME PhotoInv, [MediaNext]_<<vars, mediaVars>> PROVE PhotoInv'
  OBVIOUS
<1>1. CASE StageStep
  <2>1. protected' = protected
    BY <1>1 DEF StageStep
  <2>2. CASE s'.index = s.index /\ Sizes(s') = Sizes(s)
    <3>1. UNCHANGED <<photoVars, protected>>
      BY <1>1, <2>2 DEF StageStep, photoVars
    <3> QED
      BY <2>2, <3>1, SameSlideKeeps
  <2>3. CASE ~(s'.index = s.index /\ Sizes(s') = Sizes(s))
    <3>1. ResetLoader(s')
      BY <1>1, <2>3 DEF StageStep
    <3> QED
      BY <2>1, <3>1, ResetKeeps
  <2> QED
    BY <2>2, <2>3
<1>2. CASE PhotoStep
  BY <1>2, FetchKeeps, OnLoadKeeps, OnErrorKeeps, RetryTimerKeeps DEF PhotoStep
<1>3. CASE RenewalStep
  BY <1>3, ResetKeeps DEF RenewalStep
<1>4. CASE VideoStep \/ UNCHANGED <<vars, mediaVars>>
  <2>1. UNCHANGED <<s, protected, photoVars>>
    BY <1>4 DEF VideoStep, LoadMetadata, TogglePlay, Playback, OnBarPointerUp, MediaEvent,
                OnBarPointerDown, OnBarPointerMove, OnVideo, vars, mediaVars, photoVars
  <2> QED
    BY <2>1, SameSlideKeeps
<1> QED
  BY <1>1, <1>2, <1>3, <1>4 DEF MediaNext

-----------------------------------------------------------------------------
(* What the slide shows: the controls of its video.                        *)

Events == {"play", "pause", "ended", "timeupdate"}
Controls == {"play", "pause", "ended"}

Video == [meta : BOOLEAN, paused : BOOLEAN, time : 0 .. End, playing : BOOLEAN,
          progress : 0 .. End, scrubbing : BOOLEAN, missed : BOOLEAN]

ClockInv ==
  /\ v \in Video /\ events \in Seq(Events)
  /\ ~v.meta => v.time = 0 /\ v.progress = 0

\* The last event that tells of playing tells what the element does; with none
\* waiting, the button does.
Told(q, plays, button) ==
  /\ \A i \in 1 .. Len(q) :
       q[i] \in Controls /\ (\A j \in i + 1 .. Len(q) : q[j] \notin Controls)
         => (q[i] = "play" <=> plays = TRUE)
  /\ (\A i \in 1 .. Len(q) : q[i] \notin Controls) => button = plays

PlayInv == Told(events, ~v.paused, v.playing)

Waits(event, q) == \E i \in 1 .. Len(q) : q[i] = event

\* An end that waits, with no news of the time behind it.
Overdue(q) ==
  \E i \in 1 .. Len(q) : q[i] = "ended" /\ \A j \in i + 1 .. Len(q) : q[j] # "timeupdate"

\* The bar is right, or an event that waits will put it right.
BarInv ==
  /\ v.meta => \/ v.progress = v.time \/ v.missed
               \/ v.progress = 0 /\ v.time = End
               \/ Waits("timeupdate", events)
  /\ Overdue(events) => v.time = End

VideoInv == ClockInv /\ PlayInv /\ BarInv

LEMMA Queued ==
  ASSUME NEW q \in Seq(Events), NEW a \in Events, NEW b \in Events, NEW c \in Events
  PROVE  /\ q \o <<a>> = Append(q, a)
         /\ q \o <<a, b>> = Append(Append(q, a), b)
         /\ q \o <<a, b, c>> = Append(Append(Append(q, a), b), c)
<1>1. q \o <<a>> = Append(q, a)
  OBVIOUS
<1>2. q \o <<a, b>> = Append(Append(q, a), b)
  OBVIOUS
<1>3. q \o <<a, b, c>> = Append(Append(Append(q, a), b), c)
  OBVIOUS
<1> QED
  BY <1>1, <1>2, <1>3

\* An event that joins the queue: what it tells, and what went before.
LEMMA ToldLater ==
  ASSUME NEW q \in Seq(Events), NEW plays \in BOOLEAN, NEW button \in BOOLEAN
  PROVE  /\ Told(q, plays, button) => Told(Append(q, "timeupdate"), plays, button)
         /\ Told(Append(q, "play"), TRUE, button)
         /\ \A e \in {"pause", "ended"} : Told(Append(q, e), FALSE, button)
<1>1. \A e : /\ Len(Append(q, e)) = Len(q) + 1 /\ Append(q, e)[Len(q) + 1] = e
             /\ \A i \in 1 .. Len(q) : Append(q, e)[i] = q[i]
  OBVIOUS
<1>2. Len(q) \in Nat
  OBVIOUS
<1>3. Told(q, plays, button) => Told(Append(q, "timeupdate"), plays, button)
  <2> DEFINE r == Append(q, "timeupdate")
  <2> SUFFICES ASSUME Told(q, plays, button) PROVE Told(r, plays, button)
    OBVIOUS
  <2>1. Len(r) = Len(q) + 1 /\ r[Len(q) + 1] = "timeupdate" /\ \A i \in 1 .. Len(q) : r[i] = q[i]
    BY <1>1
  <2> HIDE DEF r
  <2>2. ASSUME NEW i \in 1 .. Len(r), r[i] \in Controls,
               \A j \in i + 1 .. Len(r) : r[j] \notin Controls
        PROVE  r[i] = "play" <=> plays = TRUE
    <3>1. i \in 1 .. Len(q) /\ r[i] = q[i]
      BY <1>2, <2>1, <2>2 DEF Controls
    <3>2. \A j \in i + 1 .. Len(q) : q[j] \notin Controls
      BY <1>2, <2>1, <2>2, <3>1
    <3> QED
      BY <2>2, <3>1, <3>2 DEF Told
  <2>3. (\A i \in 1 .. Len(r) : r[i] \notin Controls) => button = plays
    BY <1>2, <2>1 DEF Told
  <2> QED
    BY <2>2, <2>3 DEF Told
<1>4. ASSUME NEW e \in Controls
      PROVE  Told(Append(q, e), e = "play", button)
  <2> DEFINE r == Append(q, e)
  <2>1. Len(r) = Len(q) + 1 /\ r[Len(q) + 1] = e
    BY <1>1
  <2> HIDE DEF r
  <2>2. ASSUME NEW i \in 1 .. Len(r), \A j \in i + 1 .. Len(r) : r[j] \notin Controls
        PROVE  r[i] = e
    BY <1>2, <1>4, <2>1, <2>2
  <2>3. ~ \A i \in 1 .. Len(r) : r[i] \notin Controls
    BY <1>2, <1>4, <2>1
  <2>4. Told(r, e = "play", button)
    BY <2>2, <2>3 DEF Told
  <2> QED
    BY <2>4 DEF r
<1>5. Told(Append(q, "play"), TRUE, button)
  BY <1>4 DEF Controls
<1>6. \A e \in {"pause", "ended"} : Told(Append(q, e), FALSE, button)
  BY <1>4 DEF Controls
<1> QED
  BY <1>3, <1>5, <1>6

\* An event that leaves the queue was the last to tell, or another one is.
LEMMA ToldNow ==
  ASSUME NEW q \in Seq(Events), q # <<>>, NEW plays \in BOOLEAN, NEW button \in BOOLEAN,
         Told(q, plays, button)
  PROVE  /\ Head(q) = "timeupdate" => Told(Tail(q), plays, button)
         /\ Head(q) = "play" => Told(Tail(q), plays, TRUE)
         /\ Head(q) \in {"pause", "ended"} => Told(Tail(q), plays, FALSE)
<1> DEFINE r == Tail(q)
<1>1. Len(q) \in Nat /\ Len(r) = Len(q) - 1 /\ Head(q) = q[1] /\ Len(q) # 0
        /\ \A i \in 1 .. Len(r) : r[i] = q[i + 1]
  OBVIOUS
<1> HIDE DEF r
<1>2. \A i \in 1 .. Len(q) : i # 1 => i - 1 \in 1 .. Len(r) /\ q[i] = r[i - 1]
  BY <1>1
<1>3. ASSUME NEW i \in 1 .. Len(r), r[i] \in Controls,
             \A j \in i + 1 .. Len(r) : r[j] \notin Controls
      PROVE  r[i] = "play" <=> plays = TRUE
  <2>1. i + 1 \in 1 .. Len(q) /\ q[i + 1] = r[i]
    BY <1>1
  <2>2. \A j \in i + 2 .. Len(q) : q[j] \notin Controls
    <3> SUFFICES ASSUME NEW j \in i + 2 .. Len(q) PROVE q[j] \notin Controls
      OBVIOUS
    <3>1. j \in 1 .. Len(q) /\ j # 1 /\ j - 1 \in i + 1 .. Len(r)
      BY <1>1
    <3> QED
      BY <1>2, <1>3, <3>1
  <2>3. (i + 1) + 1 = i + 2
    OBVIOUS
  <2> QED
    BY <1>3, <2>1, <2>2, <2>3 DEF Told
<1>4. ASSUME \A i \in 1 .. Len(r) : r[i] \notin Controls, q[1] \in Controls
      PROVE  q[1] = "play" <=> plays = TRUE
  <2>1. \A j \in 2 .. Len(q) : q[j] \notin Controls
    BY <1>1, <1>2, <1>4
  <2>2. 1 \in 1 .. Len(q) /\ 1 + 1 = 2
    BY <1>1
  <2> QED
    BY <1>4, <2>1, <2>2 DEF Told
<1>5. ASSUME \A i \in 1 .. Len(r) : r[i] \notin Controls, q[1] \notin Controls
      PROVE  button = plays
  <2>1. \A i \in 1 .. Len(q) : q[i] \notin Controls
    BY <1>2, <1>5
  <2> QED
    BY <2>1 DEF Told
<1>6. Head(q) = "timeupdate" => Told(r, plays, button)
  BY <1>1, <1>3, <1>5 DEF Told, Controls
<1>7. Head(q) = "play" => Told(r, plays, TRUE)
  BY <1>1, <1>3, <1>4 DEF Told, Controls
<1>8. Head(q) \in {"pause", "ended"} => Told(r, plays, FALSE)
  BY <1>1, <1>3, <1>4 DEF Told, Controls
<1> QED
  BY <1>6, <1>7, <1>8 DEF r

LEMMA WaitsLater ==
  ASSUME NEW q \in Seq(Events), NEW a \in Events, NEW e \in Events
  PROVE  /\ Waits(e, q) => Waits(e, Append(q, a))
         /\ Waits(e, Append(q, e))
<1>1. /\ Len(q) \in Nat /\ Len(Append(q, a)) = Len(q) + 1
      /\ Len(Append(q, e)) = Len(q) + 1 /\ Append(q, e)[Len(q) + 1] = e
      /\ \A i \in 1 .. Len(q) : Append(q, a)[i] = q[i]
  OBVIOUS
<1> QED
  BY <1>1 DEF Waits

LEMMA WaitsNow ==
  ASSUME NEW q \in Seq(Events), q # <<>>, NEW e \in Events, Waits(e, q), Head(q) # e
  PROVE  Waits(e, Tail(q))
<1>1. PICK i \in 1 .. Len(q) : q[i] = e
  BY DEF Waits
<1>2. i # 1
  BY <1>1
<1>3. i - 1 \in 1 .. Len(Tail(q)) /\ Tail(q)[i - 1] = q[i]
  BY <1>2
<1> QED
  BY <1>1, <1>3 DEF Waits

LEMMA OverdueLater ==
  ASSUME NEW q \in Seq(Events), NEW a \in Events, Overdue(Append(q, a))
  PROVE  a = "ended" \/ (Overdue(q) /\ a # "timeupdate")
<1>1. /\ Len(q) \in Nat /\ Len(Append(q, a)) = Len(q) + 1 /\ Append(q, a)[Len(q) + 1] = a
      /\ \A i \in 1 .. Len(q) : Append(q, a)[i] = q[i]
  OBVIOUS
<1> DEFINE r == Append(q, a)
<1> HIDE DEF r
<1>2. PICK i \in 1 .. Len(r) : r[i] = "ended" /\ \A j \in i + 1 .. Len(r) : r[j] # "timeupdate"
  BY DEF Overdue, r
<1>3. CASE i = Len(q) + 1
  BY <1>1, <1>2, <1>3 DEF r
<1>4. CASE i \in 1 .. Len(q)
  <2>1. /\ Len(q) + 1 \in i + 1 .. Len(r) /\ r[Len(q) + 1] = a /\ q[i] = r[i]
        /\ \A j \in i + 1 .. Len(q) : j \in i + 1 .. Len(r) /\ r[j] = q[j]
    BY <1>1, <1>4 DEF r
  <2> QED
    BY <1>2, <1>4, <2>1 DEF Overdue
<1> QED
  BY <1>1, <1>2, <1>3, <1>4 DEF r

LEMMA OverdueNow ==
  ASSUME NEW q \in Seq(Events), q # <<>>
  PROVE  /\ Overdue(Tail(q)) => Overdue(q)
         /\ Head(q) = "ended" => Overdue(q) \/ Waits("timeupdate", Tail(q))
<1> DEFINE r == Tail(q)
<1>1. Len(q) \in Nat /\ Len(r) = Len(q) - 1 /\ Head(q) = q[1] /\ Len(q) # 0
        /\ \A i \in 1 .. Len(r) : r[i] = q[i + 1]
  OBVIOUS
<1> HIDE DEF r
<1>2. ASSUME Overdue(r) PROVE Overdue(q)
  <2>1. PICK i \in 1 .. Len(r) :
          r[i] = "ended" /\ \A j \in i + 1 .. Len(r) : r[j] # "timeupdate"
    BY <1>2 DEF Overdue
  <2>2. i + 1 \in 1 .. Len(q) /\ q[i + 1] = "ended"
    BY <1>1, <2>1
  <2>3. \A j \in (i + 1) + 1 .. Len(q) : q[j] # "timeupdate"
    <3> SUFFICES ASSUME NEW j \in (i + 1) + 1 .. Len(q) PROVE q[j] # "timeupdate"
      OBVIOUS
    <3>1. j - 1 \in i + 1 .. Len(r) /\ r[j - 1] = q[j]
      BY <1>1
    <3> QED
      BY <2>1, <3>1
  <2> QED
    BY <2>2, <2>3 DEF Overdue
<1>3. ASSUME q[1] = "ended", ~Waits("timeupdate", r) PROVE Overdue(q)
  <2>1. \A j \in 1 + 1 .. Len(q) : q[j] # "timeupdate"
    <3> SUFFICES ASSUME NEW j \in 1 + 1 .. Len(q) PROVE q[j] # "timeupdate"
      OBVIOUS
    <3>1. j - 1 \in 1 .. Len(r) /\ r[j - 1] = q[j]
      BY <1>1
    <3> QED
      BY <1>3, <3>1 DEF Waits
  <2> QED
    BY <1>1, <1>3, <2>1 DEF Overdue
<1> QED
  BY <1>1, <1>2, <1>3 DEF r

\* News of the time at the end of the queue will put the bar right.
LEMMA NewsAtTheEnd ==
  ASSUME NEW q \in Seq(Events), events' = Append(q, "timeupdate") PROVE BarInv'
<1>1. Waits("timeupdate", events') /\ ~Overdue(events')
  BY WaitsLater, OverdueLater DEF Events
<1> QED
  BY <1>1 DEF BarInv

\* A fresh video says that it does not play, and is at its start.
LEMMA FreshIsSound == v = FreshVideo /\ events = <<>> => VideoInv
<1> SUFFICES ASSUME v = FreshVideo, events = <<>> PROVE VideoInv
  OBVIOUS
<1>1. /\ v.meta = FALSE /\ v.paused = TRUE /\ v.time = 0 /\ v.playing = FALSE /\ v.progress = 0
      /\ v.scrubbing = FALSE
  BY DEF FreshVideo
<1>2. v \in Video
  BY MediaAssumption DEF MediaAssumption, FreshVideo, Video
<1>3. ClockInv
  BY <1>1, <1>2 DEF ClockInv, Video
<1>4. Len(events) = 0
  OBVIOUS
<1>5. PlayInv
  <2>1. Told(events, FALSE, FALSE)
    BY <1>4 DEF Told
  <2>2. (~v.paused) = FALSE
    BY <1>1
  <2> QED
    BY <1>1, <2>1, <2>2 DEF PlayInv
<1>6. BarInv
  BY <1>1, <1>4 DEF BarInv, Overdue
<1> QED
  BY <1>3, <1>5, <1>6 DEF VideoInv

LEMMA FreshIsSoundNext == (v = FreshVideo /\ events = <<>> => VideoInv)'
  BY FreshIsSound, PTL

LEMMA LoadMetadataKeeps == VideoInv /\ LoadMetadata => VideoInv'
<1> SUFFICES ASSUME VideoInv, LoadMetadata PROVE VideoInv'
  OBVIOUS
<1>1. v' = [v EXCEPT !.meta = TRUE] /\ events' = events /\ ~v.meta
  BY DEF LoadMetadata
<1>2. v \in Video /\ v.time = 0 /\ v.progress = 0
  BY <1>1 DEF VideoInv, ClockInv, Video
<1>3. /\ v'.paused = v.paused /\ v'.time = v.time /\ v'.playing = v.playing
      /\ v'.progress = v.progress /\ v' \in Video /\ v'.meta
  BY <1>1, <1>2 DEF Video
<1>4. ClockInv'
  BY <1>1, <1>3 DEF VideoInv, ClockInv, Video
<1>5. PlayInv'
  BY <1>1, <1>3 DEF VideoInv, PlayInv
<1>6. BarInv'
  BY <1>1, <1>2, <1>3 DEF VideoInv, BarInv
<1> QED
  BY <1>4, <1>5, <1>6 DEF VideoInv

LEMMA TogglePlayKeeps == VideoInv /\ TogglePlay => VideoInv'
<1> SUFFICES ASSUME VideoInv, TogglePlay PROVE VideoInv'
  OBVIOUS
<1> DEFINE t == IF v.time = End THEN 0 ELSE v.time
<1>1. v \in Video /\ events \in Seq(Events) /\ Events = {"play", "pause", "ended", "timeupdate"}
  BY DEF VideoInv, ClockInv, Events
<1>2. Told(events, ~v.paused, v.playing)
  BY DEF VideoInv, PlayInv
<1>3. CASE v.paused
  <2>1. /\ v' = [v EXCEPT !.paused = FALSE, !.time = t]
        /\ events' = events \o IF v.time = End THEN <<"play", "timeupdate">> ELSE <<"play">>
    BY <1>3 DEF TogglePlay
  <2>2. t \in 0 .. End /\ (~v.meta => t = 0)
    BY <1>1, MediaAssumption DEF MediaAssumption, Video, VideoInv, ClockInv
  <2>3. /\ v' \in Video /\ v'.time = t /\ v'.paused = FALSE /\ v'.meta = v.meta
        /\ v'.progress = v.progress /\ v'.playing = v.playing /\ v'.missed = v.missed
    BY <1>1, <2>1, <2>2 DEF Video
  <2>4. \/ events' = Append(events, "play") /\ t = v.time
        \/ events' = Append(Append(events, "play"), "timeupdate")
    BY <1>1, <2>1, Queued DEF t
  <2>5. Append(events, "play") \in Seq(Events) /\ events' \in Seq(Events)
    BY <1>1, <2>4
  <2>6. v.playing \in BOOLEAN /\ (~v'.paused) = TRUE
    BY <1>1, <2>3 DEF Video
  <2>7. Told(Append(events, "play"), TRUE, v.playing)
    BY <1>1, <2>6, ToldLater
  <2>8. Told(Append(Append(events, "play"), "timeupdate"), TRUE, v.playing)
    BY <2>5, <2>6, <2>7, ToldLater
  <2>9. PlayInv'
    BY <2>3, <2>4, <2>6, <2>7, <2>8 DEF PlayInv
  <2>10. ClockInv'
    BY <2>2, <2>3, <2>5 DEF VideoInv, ClockInv
  <2>11. CASE events' = Append(events, "play") /\ t = v.time
    <3>1. Waits("timeupdate", events) => Waits("timeupdate", events')
      BY <1>1, <2>11, WaitsLater
    <3>2. Overdue(events') => Overdue(events)
      BY <1>1, <2>11, OverdueLater
    <3>3. BarInv'
      BY <2>3, <2>11, <3>1, <3>2 DEF VideoInv, BarInv
    <3> QED
      BY <2>9, <2>10, <3>3 DEF VideoInv
  <2>12. CASE events' = Append(Append(events, "play"), "timeupdate")
    <3>1. BarInv'
      BY <2>5, <2>12, NewsAtTheEnd
    <3> QED
      BY <2>9, <2>10, <3>1 DEF VideoInv
  <2> QED
    BY <2>4, <2>11, <2>12
<1>4. CASE ~v.paused
  <2>1. /\ v' = [v EXCEPT !.paused = TRUE]
        /\ events' = events \o <<"timeupdate", "pause">>
    BY <1>4 DEF TogglePlay
  <2>2. /\ v' \in Video /\ v'.time = v.time /\ v'.paused = TRUE /\ v'.meta = v.meta
        /\ v'.progress = v.progress /\ v'.playing = v.playing /\ v'.scrubbing = v.scrubbing
    BY <1>1, <2>1 DEF Video
  <2>3. events' = Append(Append(events, "timeupdate"), "pause")
    BY <1>1, <2>1, Queued
  <2>4. Append(events, "timeupdate") \in Seq(Events) /\ events' \in Seq(Events)
    BY <1>1, <2>3
  <2>5. v.playing \in BOOLEAN /\ (~v'.paused) = FALSE
    BY <1>1, <2>2 DEF Video
  <2>6. Told(events', FALSE, v.playing)
    BY <2>3, <2>4, <2>5, ToldLater
  <2>7. PlayInv'
    BY <2>2, <2>5, <2>6 DEF PlayInv
  <2>8. Waits("timeupdate", events') /\ (Overdue(events') => Overdue(events))
    BY <1>1, <2>3, <2>4, WaitsLater, OverdueLater
  <2>9. ClockInv'
    BY <2>2, <2>4 DEF VideoInv, ClockInv
  <2>10. BarInv'
    BY <2>2, <2>8 DEF VideoInv, BarInv
  <2> QED
    BY <2>7, <2>9, <2>10 DEF VideoInv
<1> QED
  BY <1>3, <1>4

LEMMA PlaybackKeeps == VideoInv /\ Playback => VideoInv'
<1> SUFFICES ASSUME VideoInv, Playback PROVE VideoInv'
  OBVIOUS
<1>1. /\ v \in Video /\ events \in Seq(Events)
      /\ Events = {"play", "pause", "ended", "timeupdate"}
  BY DEF VideoInv, ClockInv, Events
<1>2. Told(events, ~v.paused, v.playing) /\ v.playing \in BOOLEAN
  BY <1>1 DEF VideoInv, PlayInv, Video
<1>3. v.meta /\ ~v.paused /\ (~v.paused) = TRUE
  BY DEF Playback
<1>4. Append(events, "timeupdate") \in Seq(Events)
  BY <1>1
<1>5. CASE v.time + 1 < End
  <2>1. v' = [v EXCEPT !.time = v.time + 1] /\ events' = Append(events, "timeupdate")
    BY <1>5 DEF Playback
  <2>2. v.time + 1 \in 0 .. End
    BY <1>1, <1>5, MediaAssumption DEF MediaAssumption, Video
  <2>3. /\ v' \in Video /\ v'.paused = v.paused /\ v'.meta = v.meta
        /\ v'.playing = v.playing
    BY <1>1, <2>1, <2>2 DEF Video
  <2>4. Told(events', TRUE, v.playing)
    BY <1>1, <1>2, <1>3, <2>1, ToldLater
  <2>5. (~v'.paused) = TRUE
    BY <1>3, <2>3
  <2>6. PlayInv'
    BY <2>3, <2>4, <2>5 DEF PlayInv
  <2>7. BarInv'
    BY <1>1, <2>1, NewsAtTheEnd
  <2>8. ClockInv'
    BY <1>3, <1>4, <2>1, <2>3 DEF ClockInv
  <2> QED
    BY <2>6, <2>7, <2>8 DEF VideoInv
<1>6. CASE ~(v.time + 1 < End)
  <2>1. /\ v' = [v EXCEPT !.time = End, !.paused = TRUE]
        /\ events' = events \o <<"timeupdate", "pause", "ended">>
    BY <1>6 DEF Playback
  <2>2. End \in 0 .. End
    BY MediaAssumption DEF MediaAssumption
  <2>3. /\ v' \in Video /\ v'.paused = TRUE /\ v'.meta = v.meta
        /\ v'.playing = v.playing /\ v'.time = End
    BY <1>1, <2>1, <2>2 DEF Video
  <2>4. events' = Append(Append(Append(events, "timeupdate"), "pause"), "ended")
    BY <1>1, <2>1, Queued
  <2>5. Append(Append(events, "timeupdate"), "pause") \in Seq(Events) /\ events' \in Seq(Events)
    BY <1>1, <1>4, <2>4
  <2>6. Told(events', FALSE, v.playing)
    BY <1>2, <2>4, <2>5, ToldLater
  <2>7. (~v'.paused) = FALSE
    BY <2>3
  <2>8. PlayInv'
    BY <2>3, <2>6, <2>7 DEF PlayInv
  <2>9. Waits("timeupdate", events')
    BY <1>1, <1>4, <2>4, <2>5, WaitsLater
  <2>10. ClockInv' /\ BarInv'
    BY <1>3, <2>3, <2>5, <2>9 DEF ClockInv, BarInv
  <2> QED
    BY <2>8, <2>10 DEF VideoInv
<1> QED
  BY <1>5, <1>6

\* The bar sets the time and itself at once; what it has the element tell is no news.
LEMMA SeekKeeps ==
  ASSUME VideoInv, NEW p \in 0 .. End, NEW b \in BOOLEAN,
         v' = Seek([v EXCEPT !.scrubbing = b], p), events' = Sought
  PROVE  VideoInv'
<1> DEFINE w == [v EXCEPT !.scrubbing = b]
<1>1. /\ v \in Video /\ events \in Seq(Events)
      /\ Events = {"play", "pause", "ended", "timeupdate"}
  BY DEF VideoInv, ClockInv, Events
<1>2. /\ Told(events, ~v.paused, v.playing) /\ v.playing \in BOOLEAN
      /\ (~v.paused) \in BOOLEAN
  BY <1>1 DEF VideoInv, PlayInv, Video
<1>3. /\ w \in Video /\ w.paused = v.paused /\ w.meta = v.meta /\ w.playing = v.playing
      /\ w.time = v.time /\ w.progress = v.progress
  BY <1>1 DEF Video
<1>4. v' = IF w.meta THEN [w EXCEPT !.time = p, !.progress = p, !.missed = FALSE] ELSE w
  BY DEF Seek
<1> HIDE DEF w
<1>5. CASE v.meta
  <2>1. /\ v' = [w EXCEPT !.time = p, !.progress = p, !.missed = FALSE]
        /\ events' = Append(events, "timeupdate")
    BY <1>3, <1>4, <1>5 DEF Sought
  <2>2. /\ v' \in Video /\ v'.paused = v.paused /\ v'.meta = v.meta /\ v'.playing = v.playing
        /\ v'.time = p /\ v'.progress = p
    BY <1>3, <2>1 DEF Video
  <2>3. Told(events', ~v.paused, v.playing)
    BY <1>1, <1>2, <2>1, ToldLater
  <2>4. PlayInv'
    BY <2>2, <2>3 DEF PlayInv
  <2>5. events' \in Seq(Events)
    BY <1>1, <2>1
  <2>6. BarInv'
    BY <1>1, <2>1, NewsAtTheEnd
  <2>7. ClockInv'
    BY <1>5, <2>2, <2>5 DEF ClockInv
  <2> QED
    BY <2>4, <2>6, <2>7 DEF VideoInv
<1>6. CASE ~v.meta
  <2>1. v' = w /\ events' = events
    BY <1>3, <1>4, <1>6 DEF Sought
  <2>2. PlayInv'
    BY <1>2, <1>3, <2>1 DEF PlayInv
  <2>3. v.time = 0 /\ v.progress = 0
    BY <1>6 DEF VideoInv, ClockInv
  <2>4. ClockInv' /\ BarInv'
    BY <1>1, <1>3, <1>6, <2>1, <2>3 DEF VideoInv, ClockInv, BarInv
  <2> QED
    BY <2>2, <2>4 DEF VideoInv
<1> QED
  BY <1>5, <1>6

LEMMA BarKeeps ==
  ASSUME VideoInv, NEW p \in 0 .. End, OnBarPointerDown(p) \/ OnBarPointerMove(p)
  PROVE  VideoInv'
<1>1. v \in Video
  BY DEF VideoInv, ClockInv
<1>2. CASE OnBarPointerDown(p)
  <2>1. v' = Seek([v EXCEPT !.scrubbing = TRUE], p) /\ events' = Sought
    BY <1>2 DEF OnBarPointerDown
  <2> QED
    BY <2>1, SeekKeeps
<1>3. CASE OnBarPointerMove(p)
  <2>1. v' = Seek(v, p) /\ events' = Sought /\ v.scrubbing
    BY <1>3 DEF OnBarPointerMove
  <2>2. v.scrubbing = TRUE
    BY <1>1, <2>1 DEF Video
  <2>3. [v EXCEPT !.scrubbing = TRUE] = v
    BY <1>1, <2>2 DEF Video
  <2> QED
    BY <2>1, <2>3, SeekKeeps
<1> QED
  BY <1>2, <1>3

LEMMA OnBarPointerUpKeeps == VideoInv /\ OnBarPointerUp => VideoInv'
<1> SUFFICES ASSUME VideoInv, OnBarPointerUp PROVE VideoInv'
  OBVIOUS
<1>1. v \in Video
  BY DEF VideoInv, ClockInv
<1>2. v' = [v EXCEPT !.scrubbing = FALSE] /\ events' = events
  BY DEF OnBarPointerUp
<1>3. /\ v' \in Video /\ v'.paused = v.paused /\ v'.meta = v.meta /\ v'.playing = v.playing
      /\ v'.time = v.time /\ v'.progress = v.progress /\ v'.missed = v.missed
  BY <1>1, <1>2 DEF Video
<1>4. ClockInv' /\ PlayInv' /\ BarInv'
  BY <1>2, <1>3 DEF VideoInv, ClockInv, PlayInv, BarInv
<1> QED
  BY <1>4 DEF VideoInv

\* An event that is handled: the button follows it, the bar follows the time.
LEMMA MediaEventKeeps == VideoInv /\ MediaEvent => VideoInv'
<1> SUFFICES ASSUME VideoInv, MediaEvent PROVE VideoInv'
  OBVIOUS
<1>1. /\ v \in Video /\ events \in Seq(Events)
      /\ Events = {"play", "pause", "ended", "timeupdate"}
  BY DEF VideoInv, ClockInv, Events
<1>2. events # <<>> /\ events' = Tail(events) /\ v' = Handled(v, Head(events))
  BY DEF MediaEvent
<1>3. Head(events) \in Events /\ events' \in Seq(Events)
  BY <1>1, <1>2
<1>4. /\ Told(events, ~v.paused, v.playing) /\ v.playing \in BOOLEAN
      /\ (~v.paused) \in BOOLEAN
  BY <1>1 DEF VideoInv, PlayInv, Video
<1>5. /\ Head(events) = "timeupdate" => Told(events', ~v.paused, v.playing)
      /\ Head(events) = "play" => Told(events', ~v.paused, TRUE)
      /\ Head(events) \in {"pause", "ended"} => Told(events', ~v.paused, FALSE)
  BY <1>1, <1>2, <1>4, ToldNow
<1>6. /\ Waits("timeupdate", events) /\ Head(events) # "timeupdate"
           => Waits("timeupdate", events')
      /\ Overdue(events') => v.time = End
      /\ Head(events) = "ended" => v.time = End \/ Waits("timeupdate", events')
  BY <1>1, <1>2, WaitsNow, OverdueNow DEF VideoInv, BarInv
<1>7. CASE Head(events) = "play"
  <2>1. v' = [v EXCEPT !.playing = TRUE]
    BY <1>2, <1>7 DEF Handled
  <2>2. /\ v' \in Video /\ v'.paused = v.paused /\ v'.meta = v.meta /\ v'.playing = TRUE
        /\ v'.time = v.time /\ v'.progress = v.progress /\ v'.missed = v.missed
    BY <1>1, <2>1 DEF Video
  <2>3. PlayInv'
    BY <1>5, <1>7, <2>2 DEF PlayInv
  <2>4. ClockInv' /\ BarInv'
    BY <1>1, <1>3, <1>6, <1>7, <2>2 DEF VideoInv, ClockInv, BarInv
  <2> QED
    BY <2>3, <2>4 DEF VideoInv
<1>8. CASE Head(events) = "pause"
  <2>1. v' = [v EXCEPT !.playing = FALSE]
    BY <1>2, <1>8 DEF Handled
  <2>2. /\ v' \in Video /\ v'.paused = v.paused /\ v'.meta = v.meta /\ v'.playing = FALSE
        /\ v'.time = v.time /\ v'.progress = v.progress /\ v'.missed = v.missed
    BY <1>1, <2>1 DEF Video
  <2>3. PlayInv'
    BY <1>5, <1>8, <2>2 DEF PlayInv
  <2>4. ClockInv' /\ BarInv'
    BY <1>1, <1>3, <1>6, <1>8, <2>2 DEF VideoInv, ClockInv, BarInv
  <2> QED
    BY <2>3, <2>4 DEF VideoInv
<1>9. CASE Head(events) = "ended"
  <2>1. v' = [v EXCEPT !.playing = FALSE, !.progress = 0]
    BY <1>2, <1>9 DEF Handled
  <2>2. 0 \in 0 .. End
    BY MediaAssumption DEF MediaAssumption
  <2>3. /\ v' \in Video /\ v'.paused = v.paused /\ v'.meta = v.meta /\ v'.playing = FALSE
        /\ v'.time = v.time /\ v'.progress = 0
    BY <1>1, <2>1, <2>2 DEF Video
  <2>4. PlayInv'
    BY <1>5, <1>9, <2>3 DEF PlayInv
  <2>5. ClockInv' /\ BarInv'
    BY <1>3, <1>6, <1>9, <2>3 DEF VideoInv, ClockInv, BarInv
  <2> QED
    BY <2>4, <2>5 DEF VideoInv
<1>10. CASE Head(events) = "timeupdate"
  <2>1. v' = IF ~v.meta THEN v
             ELSE IF v.scrubbing THEN [v EXCEPT !.missed = TRUE]
             ELSE [v EXCEPT !.progress = v.time, !.missed = FALSE]
    BY <1>2, <1>10 DEF Handled
  <2>2. Told(events', ~v.paused, v.playing)
    BY <1>5, <1>10
  <2>3. v.time \in 0 .. End
    BY <1>1 DEF Video
  <2>4. /\ v' \in Video /\ v'.paused = v.paused /\ v'.meta = v.meta
        /\ v'.playing = v.playing /\ v'.time = v.time
        /\ v.meta => v'.missed \/ v'.progress = v.time
        /\ ~v.meta => v'.progress = v.progress
    BY <1>1, <2>1, <2>3 DEF Video
  <2>5. PlayInv'
    BY <2>2, <2>4 DEF PlayInv
  <2>6. ClockInv' /\ BarInv'
    BY <1>3, <1>6, <2>4 DEF VideoInv, ClockInv, BarInv
  <2> QED
    BY <2>5, <2>6 DEF VideoInv
<1> QED
  BY <1>1, <1>3, <1>7, <1>8, <1>9, <1>10

\* The effect that runs again says what a fresh video does, and tells the element.
LEMMA RenewVideoKeeps == VideoInv /\ RenewVideo => VideoInv'
<1> SUFFICES ASSUME VideoInv, RenewVideo PROVE VideoInv'
  OBVIOUS
<1>1. /\ v \in Video /\ events \in Seq(Events)
      /\ Events = {"play", "pause", "ended", "timeupdate"}
  BY DEF VideoInv, ClockInv, Events
<1>2. /\ v' = [v EXCEPT !.playing = FALSE, !.progress = 0, !.scrubbing = FALSE, !.missed = FALSE,
                        !.paused = TRUE, !.time = 0]
      /\ events' = events \o (IF v.paused THEN <<>> ELSE <<"timeupdate", "pause">>)
                          \o (IF v.meta THEN <<"timeupdate">> ELSE <<>>)
  BY DEF RenewVideo
<1>3. 0 \in 0 .. End
  BY MediaAssumption DEF MediaAssumption
<1>4. /\ v' \in Video /\ v'.paused = TRUE /\ v'.meta = v.meta /\ v'.playing = FALSE
      /\ v'.time = 0 /\ v'.progress = 0 /\ (~v'.paused) = FALSE
  BY <1>1, <1>2, <1>3 DEF Video
<1> DEFINE q == IF v.paused THEN events ELSE Append(Append(events, "timeupdate"), "pause")
<1>5. Append(events, "timeupdate") \in Seq(Events) /\ q \in Seq(Events)
  BY <1>1
<1>6. Told(q, FALSE, FALSE)
  <2>1. CASE v.paused
    <3>1. (~v.paused) = FALSE /\ v.playing \in BOOLEAN /\ q = events
      BY <1>1, <2>1 DEF Video
    <3>2. Told(events, FALSE, v.playing)
      BY <3>1 DEF VideoInv, PlayInv
    <3> QED
      BY <3>1, <3>2 DEF Told
  <2>2. CASE ~v.paused
    <3>1. q = Append(Append(events, "timeupdate"), "pause")
      BY <2>2
    <3> QED
      BY <1>5, <3>1, ToldLater
  <2> QED
    BY <2>1, <2>2
<1>7. Overdue(q) => Overdue(events)
  BY <1>1, <1>5, OverdueLater
<1>8. events' = IF v.meta THEN Append(q, "timeupdate") ELSE q
  <2>1. /\ events \o <<>> = events /\ q \o <<>> = q
        /\ q \o <<"timeupdate">> = Append(q, "timeupdate")
    BY <1>1, <1>5
  <2>2. events \o <<"timeupdate", "pause">> = Append(Append(events, "timeupdate"), "pause")
    BY <1>1, Queued
  <2>3. q = events \o (IF v.paused THEN <<>> ELSE <<"timeupdate", "pause">>)
    <3>1. CASE v.paused
      BY <2>1, <3>1
    <3>2. CASE ~v.paused
      BY <2>2, <3>2
    <3> QED
      BY <3>1, <3>2
  <2> HIDE DEF q
  <2>4. events' = q \o (IF v.meta THEN <<"timeupdate">> ELSE <<>>)
    BY <1>2, <2>3
  <2>5. CASE v.meta
    BY <2>1, <2>4, <2>5
  <2>6. CASE ~v.meta
    BY <2>1, <2>4, <2>6
  <2> QED
    BY <2>5, <2>6
<1> HIDE DEF q
<1>9. CASE v.meta
  <2>1. events' = Append(q, "timeupdate") /\ events' \in Seq(Events)
    BY <1>1, <1>5, <1>8, <1>9
  <2>2. PlayInv'
    <3>1. Told(events', FALSE, FALSE)
      BY <1>5, <1>6, <2>1, ToldLater
    <3> QED
      BY <1>4, <3>1 DEF PlayInv
  <2>3. BarInv'
    BY <1>5, <2>1, NewsAtTheEnd
  <2> QED
    BY <1>4, <2>1, <2>2, <2>3 DEF VideoInv, ClockInv
<1>10. CASE ~v.meta
  <2>1. events' = q /\ v.time = 0
    BY <1>8, <1>10 DEF VideoInv, ClockInv
  <2>2. PlayInv'
    BY <1>4, <1>6, <2>1 DEF PlayInv
  <2>3. BarInv'
    BY <1>4, <1>7, <1>10, <2>1 DEF VideoInv, BarInv
  <2> QED
    BY <1>4, <1>5, <2>1, <2>2, <2>3 DEF VideoInv, ClockInv
<1> QED
  BY <1>9, <1>10

LEMMA MediaStepsVideo == VideoInv /\ [MediaNext]_<<vars, mediaVars>> => VideoInv'
<1> SUFFICES ASSUME VideoInv, [MediaNext]_<<vars, mediaVars>> PROVE VideoInv'
  OBVIOUS
<1>1. UNCHANGED videoVars => VideoInv'
  BY DEF videoVars, VideoInv, ClockInv, PlayInv, BarInv
<1>2. CASE StageStep
  <2>1. CASE s'.index = s.index
    BY <1>1, <1>2, <2>1 DEF StageStep
  <2>2. CASE s'.index # s.index
    <3>1. v' = FreshVideo /\ events' = <<>>
      BY <1>2, <2>2 DEF StageStep, ResetVideo
    <3> QED
      BY <3>1, FreshIsSoundNext
  <2> QED
    BY <2>1, <2>2
<1>3. CASE PhotoStep \/ UNCHANGED <<vars, mediaVars>>
  <2>1. UNCHANGED videoVars
    BY <1>3 DEF PhotoStep, Fetch, OnLoad, OnError, RetryTimer, mediaVars, videoVars
  <2> QED
    BY <1>1, <2>1
<1>4. CASE VideoStep
  BY <1>4, LoadMetadataKeeps, TogglePlayKeeps, PlaybackKeeps, OnBarPointerUpKeeps,
     MediaEventKeeps, BarKeeps DEF VideoStep
<1>5. CASE RenewalStep
  BY <1>1, <1>5, RenewVideoKeeps DEF RenewalStep
<1> QED
  BY <1>2, <1>3, <1>4, <1>5 DEF MediaNext

-----------------------------------------------------------------------------
(* What the slide shows, together.                                         *)

\* The inductive invariant of the slide.
MediaInv == IInv /\ PhotoInv /\ VideoInv

LEMMA MediaInvHolds == MediaSpec => []MediaInv
<1>1. MediaInit => MediaInv
  BY InitIInv, InitPhotoInv, FreshIsSound DEF MediaInit, MediaInv
<1>2. MediaInv /\ [MediaNext]_<<vars, mediaVars>> => MediaInv'
  BY NextIInv, MediaStepsStage, MediaStepsPhoto, MediaStepsVideo DEF vars, MediaInv
<1> QED
  BY <1>1, <1>2, PTL DEF MediaSpec

LEMMA MediaInvPhoto == MediaInv => PhotoHonest
<1> SUFFICES ASSUME MediaInv PROVE PhotoHonest
  OBVIOUS
<1>1. PhotoInv /\ v \in Video
  BY DEF MediaInv, VideoInv, ClockInv
<1>2. l \in Loader
  BY <1>1 DEF PhotoInv, ElementInv
<1>3. img.st = "none" => img = NoElement
  BY <1>1, ElementOfPhoto DEF PhotoInv, ElementInv
<1>4. img = NoElement => img.src = NoSrc /\ img.st = "none" /\ img.event = "none"
  BY DEF NoElement
<1>5. IsVideo(s) \/ l.index = 0 => img = NoElement
  BY <1>1 DEF PhotoInv, ElementInv
<1>6. MediaTypeOK
  <2>1. l.index \in 0 .. Len(Sizes(s)) /\ l.timer \in {0, l.index}
    BY <1>1, <1>2, SizesAre DEF PhotoInv, ElementInv, Loader
  <2>2. {l.retry, l.loaded, protected, kept} \subseteq BOOLEAN
    <3>1. l.retry \in BOOLEAN /\ l.loaded \in BOOLEAN
      BY <1>2 DEF Loader
    <3>2. protected \in BOOLEAN /\ kept \in BOOLEAN
      BY <1>1 DEF PhotoInv, ElementInv
    <3> QED
      BY <3>1, <3>2
  <2>3. img.st \in {"none", "loading", "ok", "broken"}
    BY <1>1, <1>4, <1>5 DEF PhotoInv, ElementInv
  <2>4. img.event \in {"none", "load", "error"}
    BY <1>1 DEF PhotoInv, ElementInv
  <2>5. img.src = IF IsVideo(s) THEN NoSrc ELSE SrcOf(l, s)
    <3>1. l.index = 0 => SrcOf(l, s) = NoSrc
      BY DEF SrcOf
    <3> QED
      BY <1>1, <1>4, <1>5, <3>1 DEF PhotoInv, ElementInv
  <2>6. {v.time, v.progress} \subseteq 0 .. End
    BY <1>1 DEF Video
  <2>7. {v.meta, v.paused, v.playing} \subseteq BOOLEAN
    <3>1. v.meta \in BOOLEAN /\ v.paused \in BOOLEAN /\ v.playing \in BOOLEAN
      BY <1>1 DEF Video
    <3> QED
      BY <3>1
  <2> QED
    BY <2>1, <2>2, <2>3, <2>4, <2>5, <2>6, <2>7 DEF MediaTypeOK
<1>7. LoadedIsShown
  BY <1>1, ElementOfPhoto DEF PhotoInv, OutcomeInv, LoadedIsShown
<1>8. NoSizeSkipped
  BY <1>1 DEF PhotoInv, LadderInv
<1>9. PhotoSettledUnlessKept
  <2> SUFFICES ASSUME ~IsVideo(s), img.st # "loading", img.event = "none", l.timer = 0,
                      ~l.loaded, l.index # 0, ~kept
               PROVE  FALSE
    BY DEF PhotoSettledUnlessKept, PhotoSettled
  <2>1. img.st \in {"ok", "broken"}
    BY <1>1 DEF PhotoInv, ElementInv
  <2> QED
    BY <1>1, <2>1 DEF PhotoInv, OutcomeInv
<1> QED
  BY <1>6, <1>7, <1>8, <1>9 DEF PhotoHonest

LEMMA MediaInvVideo == MediaInv => VideoControlsTell
<1> SUFFICES ASSUME MediaInv, events = <<>> PROVE VideoControlsTell
  BY DEF VideoControlsTell
<1>1. Len(events) = 0
  OBVIOUS
<1>2. v.playing = ~v.paused
  BY <1>1 DEF MediaInv, VideoInv, PlayInv, Told
<1>3. v.meta => v.progress = v.time \/ v.missed \/ (v.progress = 0 /\ v.time = End)
  BY <1>1 DEF MediaInv, VideoInv, BarInv, Waits
<1> QED
  BY <1>2, <1>3 DEF VideoControlsTell

\* What a slide shows is of its photo, at the best size that could be loaded, or it says
\* that there is none, however loads, errors, retries, zooms and steps to other slides
\* fall together (imageLoader.ts, ProtectedImage.tsx).
THEOREM PhotosAreHonest == MediaSpec => []PhotoHonest
  BY MediaInvHolds, MediaInvPhoto, PTL

\* Once the element's events are handled, the button tells whether the video plays and
\* the bar of one that rests where it is, whatever was tapped, dragged, played and reset
\* before, and although the events of before a reset come after it; but for a bar that
\* was held when the time changed otherwise (ViewerVideoLayer.tsx).
THEOREM ControlsTell == MediaSpec => []VideoControlsTell
  BY MediaInvHolds, MediaInvVideo, PTL
=============================================================================
