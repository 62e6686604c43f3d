SPECIFICATION FairSpec
CONSTANTS
  Albums <- MCAlbums
  Widths = {24, 40}
  ViewportH = 12
  BoxTops = {0, 3}
  Metrics <- MCMetrics
  Positions = {0, 20, 46}
  GroupTopBias = 5
  BottomBias = 4
  MaxMoves = 3
INVARIANTS
  GallerySound
  FramesCatchUp
PROPERTIES
  LoadsAtRest
  LoadsCatchUp
CHECK_DEADLOCK FALSE
