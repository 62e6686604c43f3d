SPECIFICATION ViewerSpec
CONSTANTS
  PhotoCount = 2
  MaxMoves = 5
INVARIANTS
  HistoryMirrored
  OneNamedElement
PROPERTIES
  LatestUpdateWins
CHECK_DEADLOCK FALSE
