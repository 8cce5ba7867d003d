SPECIFICATION FairSpec
CONSTANTS
  Sessions = {s1}
  Commands = {"make", "cc", "ls"}
  ReadOnly = {"ls"}
  Untracked = {}
  Outcomes = {"ok", "err", "killed"}
  MaxCommands = 3
  MaxTime = 3
  MaxLives = 2
  InOrder = TRUE
  Spaced = TRUE
  MayDrop = TRUE
  SaveMayFail = FALSE
CHECK_DEADLOCK FALSE
INVARIANT RulesPairNeighbours
PROPERTY FixLearned
