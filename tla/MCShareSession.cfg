SPECIFICATION FairSpec
CONSTANTS
  Keys = {"a", "b"}
  Locked = {"b"}
  Listings <- MCListings
  Day <- MCDay
  DetailDay = 9
  MaxMoves = 4
INVARIANTS
  AddressedShare
  GalleryAsListed
  StateOfShare
PROPERTIES
  LoadSettles
CHECK_DEADLOCK FALSE
