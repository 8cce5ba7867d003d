SPECIFICATION FairSpec
CONSTANTS
  Shells = {s1, s2}
  None = None
  Old = Old
CHECK_DEADLOCK FALSE
INVARIANT TypeOK
INVARIANT OneDaemon
INVARIANT BothSocketsKept
PROPERTY SomebodyServes
PROPERTY AskReturns
