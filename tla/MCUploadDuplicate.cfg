SPECIFICATION Spec
CONSTANTS
  Files = {1, 2}
  Contents = {"x", "y"}
  Selections <- MCSelections
  Held = {}
  Alien = {}
  MaxAttempts = 2
INVARIANT DuplicateIsInAlbum
CHECK_DEADLOCK FALSE
