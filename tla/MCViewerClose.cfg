SPECIFICATION ViewerSpec
CONSTANTS
  PhotoCount = 3
  MaxMoves = 6
PROPERTY CloseLandsOnGallery
CHECK_DEADLOCK FALSE
