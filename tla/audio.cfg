SPECIFICATION FairSpec
CONSTANTS
  Requests = {r1, r2}
  Boot = Boot
  Slices = 2
  TextCap = 1
  None = None
  TtsMayFail = TRUE
CHECK_DEADLOCK FALSE
INVARIANT TypeOK
INVARIANT NoBacklog
INVARIANT RingCloses
PROPERTY UninterruptedIsHeard
