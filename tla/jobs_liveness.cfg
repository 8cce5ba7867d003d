SPECIFICATION FairSpec
CONSTANTS
  Pids = {p1, p2}
  NoPid = NoPid
  ErrCap = 3
  ReadMax = 2
  MaxErr = 2
  MaxLaunch = 3
  ForkMayFail = TRUE
PROPERTY JobReaped
PROPERTY CommandReturns
