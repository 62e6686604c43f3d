SPECIFICATION Spec
CONSTANTS
  r1 = r1
  r2 = r2
  p1 = p1
  p2 = p2
  None = None
  Requests <- MCRequests
  Passwords <- MCPasswords
  Sent <- MCSent
  VerdictTTL = 1
  NegativeTTL = 1
  TokenTTL = 2
  Horizon = 5
  MaxChanges = 1
  MaxFailures = 1
SYMMETRY Symmetry
INVARIANTS
  AnswersFollowImmich
CHECK_DEADLOCK FALSE
