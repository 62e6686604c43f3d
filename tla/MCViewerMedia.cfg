SPECIFICATION FairMediaSpec
CONSTANTS
  Count = 4
  Videos = {3, 4}
  Fingers = {1, 2}
  MaxScale = 2
  Protected = {FALSE, TRUE}
  End = 2
  MaxEvents = 3
INVARIANTS
  StageSound
  PhotoHonest
  VideoControlsTell
PROPERTIES
  StepsEnd
CHECK_DEADLOCK FALSE
