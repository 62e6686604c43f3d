--------------------------- MODULE TimelineLayout ---------------------------
(***************************************************************************)
(* The geometry of the gallery (components/timeline/layout.ts) and the     *)
(* grouping it starts from (utils/dateUtils.ts).  Pixels are integers and  *)
(* ratios are tenths; a division rounds down where the code keeps a float. *)
(* An asset is a record [id, day, time, ratio, w, h, rotated], 0 where     *)
(* Immich sent nothing, its id its place in the list; rows and groups are  *)
(* numbered from 1.                                                        *)
(***************************************************************************)
EXTENDS Integers, SequencesExt

Asset == [id : Nat, day : Int, time : Int, ratio : Int, w : Nat, h : Nat, rotated : BOOLEAN]
LayoutMetrics == [rowHeight : Nat, gap : Nat, headerHeight : Nat, groupSpacing : Nat]

\* A finite set from its first to its last; ahead[x] is what comes before x.
Ranked(ahead) ==
  [n \in 1 .. Cardinality(DOMAIN ahead) |->
     CHOOSE x \in DOMAIN ahead : Cardinality(ahead[x]) = n - 1]

\* The newer of two assets of a day first, and as they were listed.
Newer(assets, i, j) ==
  assets[i].time > assets[j].time \/ (assets[i].time = assets[j].time /\ i < j)

Days(assets) ==
  LET days == {a.day : a \in Range(assets)}
  IN Ranked([d \in days |-> {e \in days : e > d}])

OfDay(assets, d) ==
  LET those == {i \in DOMAIN assets : assets[i].day = d}
  IN Ranked([i \in those |-> {j \in those : Newer(assets, j, i)}])

GroupAssetsByDate(assets) ==
  [g \in DOMAIN Days(assets) |->
     LET shown == OfDay(assets, Days(assets)[g])
     IN [date |-> Days(assets)[g], assets |-> [n \in DOMAIN shown |-> assets[shown[n]]]]]

\* Of a ratio above 0, though it may be too small for a tenth.
ClampRatio(r) == Max({4, Min({25, r})})

GetAspectRatio(a) ==
  IF a.ratio > 0 THEN ClampRatio(a.ratio)
  ELSE IF a.w = 0 \/ a.h = 0 THEN 10
  ELSE ClampRatio(IF a.rotated THEN (10 * a.h) \div a.w ELSE (10 * a.w) \div a.h)

-----------------------------------------------------------------------------
(* A group being laid out: the rows so far, the height reached, and the    *)
(* assets of the row that is not full yet.                                 *)

RatioUpTo(p) ==
  LET sum[i \in 0 .. Len(p)] == IF i = 0 THEN 0 ELSE sum[i - 1] + GetAspectRatio(p[i])
  IN sum
PendingRatio(p) == RatioUpTo(p)[Len(p)]

RowWidthAt(p, height, m) ==
  (PendingRatio(p) * height) \div 10 + m.gap * Max({0, Len(p) - 1})

\* The height at which the pending assets fill the container.
FitHeight(p, width, m) == (10 * (width - m.gap * (Len(p) - 1))) \div PendingRatio(p)

ItemsOf(p, height, m) ==
  [i \in DOMAIN p |->
     [id |-> p[i].id, left |-> (RatioUpTo(p)[i - 1] * height) \div 10 + m.gap * (i - 1),
      width |-> (GetAspectRatio(p[i]) * height) \div 10]]

\* The pending assets become a row of that height.
RowAdded(b, height, m) ==
  [rows |-> Append(b.rows, [kind |-> "assets", top |-> b.y, height |-> height,
                            items |-> ItemsOf(b.pending, height, m)]),
   y |-> b.y + height + m.gap, pending |-> <<>>]

Flush(b, justify, width, m) ==
  IF b.pending = <<>> THEN b
  ELSE RowAdded(b, Max({1, Min({FitHeight(b.pending, width, m)}
                                 \union IF justify THEN {} ELSE {m.rowHeight})}), m)

\* Mutated Place: a row is closed as soon as the next asset overflows it,
\* however empty it is.
PlaceEager(b, a, width, m) ==
  IF b.pending # <<>>
       /\ RowWidthAt(Append(b.pending, a), m.rowHeight, m) > width
    THEN [Flush(b, TRUE, width, m) EXCEPT !.pending = Append(@, a)]
    ELSE [b EXCEPT !.pending = Append(@, a)]

CloseIf(overflows, b, width, m) ==
  IF overflows \/ RowWidthAt(b.pending, m.rowHeight, m) >= width
  THEN Flush(b, TRUE, width, m) ELSE b

Place(b, a, width, m) ==
  LET with == [b EXCEPT !.pending = Append(@, a)]
      full == b.pending # <<>> /\ RowWidthAt(with.pending, m.rowHeight, m) > width
      short == 100 * RowWidthAt(b.pending, m.rowHeight, m) < 66 * width
  IN IF full /\ ~short
     THEN CloseIf(FALSE, [Flush(b, TRUE, width, m) EXCEPT !.pending = Append(@, a)], width, m)
     ELSE CloseIf(full, with, width, m)

Built(b, m) ==
  [rows |-> b.rows, bottom |-> IF b.rows = <<>> THEN b.y ELSE b.y - m.gap]

BuildGroupRows(group, width, y, m) ==
  LET after[n \in 0 .. Len(group.assets)] ==
        IF n = 0 THEN [rows |-> <<>>, y |-> y, pending |-> <<>>]
        ELSE Place(after[n - 1], group.assets[n], width, m)
  IN Built(Flush(after[Len(group.assets)], FALSE, width, m), m)

GroupAdded(l, date, top, built, m) ==
  [rows |-> Append(l.rows, [kind |-> "header", top |-> top, height |-> m.headerHeight,
                            items |-> <<>>]) \o built.rows,
   groups |-> Append(l.groups, [date |-> date, top |-> top, height |-> built.bottom - top]),
   totalHeight |-> built.bottom]

AddGroup(l, group, width, m) ==
  LET top == l.totalHeight + m.groupSpacing IN
  GroupAdded(l, group.date, top, BuildGroupRows(group, width, top + m.headerHeight, m), m)

EmptyLayout == [rows |-> <<>>, groups |-> <<>>, totalHeight |-> 0]

ComputeTimelineLayout(groups, width, m) ==
  LET after[n \in 0 .. Len(groups)] ==
        IF n = 0 \/ width <= 0 THEN EmptyLayout
        ELSE AddGroup(after[n - 1], groups[n], width, m)
  IN after[Len(groups)]

-----------------------------------------------------------------------------
(* Queries: binary searches over the sorted offsets, for the first or the  *)
(* last index from lo where test holds.                                    *)

Probe(side, test) ==
  [s \in [lo : Int, hi : Int, found : Int] |->
     LET mid == (s.lo + s.hi) \div 2
         on == (side = "last") <=> test[mid]
     IN IF s.lo > s.hi THEN s
        ELSE [lo |-> IF on THEN mid + 1 ELSE s.lo,
              hi |-> IF on THEN s.hi ELSE mid - 1,
              found |-> IF test[mid] THEN mid ELSE s.found]]

\* No search takes more probes than it has places to look at.
Search(side, test, lo, hi, found) ==
  LET after[k \in 0 .. hi] ==
        IF k = 0 THEN [lo |-> lo, hi |-> hi, found |-> found]
        ELSE Probe(side, test)[after[k - 1]]
  IN after[hi].found

EmptyRange == [start |-> 1, end |-> 0]

ComputeRowRange(l, top, bottom) ==
  LET rows == l.rows
      n == Len(rows)
      start == Search("first", [i \in DOMAIN rows |-> rows[i].top + rows[i].height > top],
                      1, n, n + 1)
      end == Search("last", [i \in DOMAIN rows |-> rows[i].top < bottom],
                    start, n, start - 1)
  IN IF bottom < top \/ end < start THEN EmptyRange
     ELSE [start |-> start, end |-> end]

FindGroupAt(l, y) ==
  l.groups[Search("last", [g \in DOMAIN l.groups |-> l.groups[g].top <= y],
                  1, Len(l.groups), 1)]

NoAnchor == [id |-> 0, offset |-> 0]

CaptureAnchor(l, top) ==
  LET range == ComputeRowRange(l, top, top + 1)
      below == {i \in range.start .. Len(l.rows) : l.rows[i].kind = "assets"}
      row == l.rows[Min(below)]
  IN IF range = EmptyRange \/ below = {} THEN NoAnchor
     ELSE [id |-> row.items[1].id, offset |-> top - row.top]

Holds(row, id) == \E i \in DOMAIN row.items : row.items[i].id = id

\* The rows where RestoreAnchor finds its asset, and the place it returns.
AnchorRows(l, anchor) == {i \in DOMAIN l.rows : Holds(l.rows[i], anchor.id)}
RestoreAnchor(l, anchor) == l.rows[Min(AnchorRows(l, anchor))].top + anchor.offset
=============================================================================
