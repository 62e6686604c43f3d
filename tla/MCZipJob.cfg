SPECIFICATION FairSpec
CONSTANTS
  NAssets <- MCNAssets
  WorkerLimit <- MCWorkerLimit
  MaxAttempts <- MCMaxAttempts
INVARIANTS
  ReadyArchiveIsWhole
  RootCauseIsRecorded
  StagingSound
  NothingLeftBehind
PROPERTIES
  ImplementsLifecycle
  JobEnds
CHECK_DEADLOCK FALSE
