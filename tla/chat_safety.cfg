SPECIFICATION Spec
CONSTANTS
  Shells = {s1, s2}
  TaskCap = 1
  TokenCap = 1
  SockCap = 1
  MaxRequests = 2
  MaxRounds = 2
  MaxChunks = 4
  Modes = {"chat"}
  InOrder = TRUE
  MayPanic = TRUE
  MayInterrupt = TRUE
CHECK_DEADLOCK FALSE
VIEW Watched
SYMMETRY Symmetry
INVARIANT TypeOK
INVARIANT NoCircularWait
INVARIANT AnswerShape
INVARIANT ChatShellsKnown
PROPERTY ModelKeptForChat
PROPERTY ServesAsPromised
