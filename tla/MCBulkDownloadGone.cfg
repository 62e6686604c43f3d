SPECIFICATION FairSpec
CONSTANTS
  c1 = c1
  c2 = c2
  j1 = j1
  j2 = j2
  s1 = s1
  s2 = s2
  NoJob = NoJob
  Clients <- MCClients
  Jobs <- MCJobs
  Shares <- MCOneShare
  Cap = 1
  MaxCrashes = 0
PROPERTIES
  SettledJobsGo
CHECK_DEADLOCK FALSE
