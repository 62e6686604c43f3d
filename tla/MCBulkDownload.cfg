SPECIFICATION Spec
CONSTANTS
  c1 = c1
  c2 = c2
  j1 = j1
  j2 = j2
  s1 = s1
  s2 = s2
  NoJob = NoJob
  Clients <- MCClients
  Jobs <- MCJobs
  Shares <- MCShares
  Cap = 1
  MaxCrashes = 1
SYMMETRY Symmetry
INVARIANTS
  AdmissionSound
  ServedIsWhole
  DiskAccounted
PROPERTIES
  ToldReadyIsServed
  KeepsContract
CHECK_DEADLOCK FALSE
