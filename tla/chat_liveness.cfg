SPECIFICATION FairSpec
CONSTANTS
  Shells = {s1, s2}
  TaskCap = 1
  TokenCap = 1
  SockCap = 1
  MaxRequests = 2
  MaxRounds = 2
  MaxChunks = 2
  Modes = {"chat"}
  InOrder = FALSE
  MayPanic = TRUE
  MayInterrupt = TRUE
VIEW Present
CHECK_DEADLOCK FALSE
PROPERTY Answered
