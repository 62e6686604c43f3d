SPECIFICATION FairSpec
CONSTANTS
  MaxItems = 2
  Large <- MCTwoLarge
  MaxConcurrency = 2
  DropAfter = 2
  RecoverAfter = 2
  MaxAttempts = 2
  MaxLosses = 2
INVARIANTS
  PoolSound
  PumpSound
PROPERTIES
  ItemsKeepLifecycle
  DrainIsAnnounced
  EveryFileSettles
CHECK_DEADLOCK FALSE
