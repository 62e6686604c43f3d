SPECIFICATION LimiterSpec
CONSTANTS
  r1 = r1
  r2 = r2
  r3 = r3
  a = a
  NoVisitor = NoVisitor
  IPs <- MCIPs
  Requests <- MCRequests
  Rate = 2
  Window = 2
  MaxTime = 7
  MaxVisitors = 2
SYMMETRY Symmetry
INVARIANTS
  TokensSound
  TwiceTheRate
CHECK_DEADLOCK FALSE
