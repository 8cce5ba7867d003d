SPECIFICATION Spec
CONSTANTS
  Sessions = {s1, s2}
  Commands = {"make", "cd"}
  ReadOnly = {}
  Untracked = {"cd"}
  Outcomes = {"ok", "err", "killed", "stopped", "none"}
  MaxCommands = 3
  MaxTime = 2
  MaxLives = 2
  InOrder = FALSE
  Spaced = FALSE
  MayDrop = TRUE
  SaveMayFail = TRUE
CHECK_DEADLOCK FALSE
SYMMETRY Symmetry
INVARIANT TypeOK
INVARIANT PromotedOncePerLife
INVARIANT RulesFollowTheClock
INVARIANT RulesRestOnFacts
