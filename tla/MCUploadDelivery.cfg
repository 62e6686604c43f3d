SPECIFICATION FairSpec
CONSTANTS
  Files = {1, 2}
  Contents = {"x", "y"}
  Selections <- MCSelections
  Held = {"x"}
  Alien = {"x"}
  MaxAttempts = 2
INVARIANTS
  DeliverySound
  LandsInAlbum
PROPERTIES
  DeliveryEnds
CHECK_DEADLOCK FALSE
