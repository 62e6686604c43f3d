----------------------------- MODULE MCTimeline -----------------------------
(* Two albums of a few days, a viewport of two rows, two widths. *)
EXTENDS Timeline

MCAsset(id, day, time, ratio) ==
  [id |-> id, day |-> day, time |-> time, ratio |-> ratio, w |-> 0, h |-> 0,
   rotated |-> FALSE]
MCAlbums ==
  { << MCAsset(1, 1, 1, 10), MCAsset(2, 2, 3, 25), MCAsset(3, 2, 4, 10),
       [MCAsset(4, 2, 5, 0) EXCEPT !.w = 30, !.h = 20, !.rotated = TRUE],
       MCAsset(5, 3, 7, 4), MCAsset(6, 3, 9, 30), MCAsset(7, 3, 8, 0) >>,
    << MCAsset(1, 1, 4, 25), MCAsset(2, 1, 3, 4), MCAsset(3, 1, 2, 4),
       MCAsset(4, 1, 1, 25), MCAsset(5, 1, 0, 25) >> }
MCMetrics == [rowHeight |-> 10, gap |-> 1, headerHeight |-> 4, groupSpacing |-> 2]
=============================================================================
