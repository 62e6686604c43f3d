SPECIFICATION FairSpec
CONSTANTS
  NAssets <- MCNAssets
  WorkerLimit <- MCWorkerLimit
  MaxAttempts <- MCMaxAttempts
PROPERTIES
  JobAlwaysSettles
CHECK_DEADLOCK FALSE
