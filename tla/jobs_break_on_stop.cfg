SPECIFICATION Spec
CONSTANTS
  Pids = {p1, p2, p3}
  NoPid = NoPid
  ErrCap = 3
  ReadMax = 2
  MaxErr = 4
  MaxLaunch = 3
  ForkMayFail = FALSE
SYMMETRY Symmetry
INVARIANT BreaksOnlyWhenDead
