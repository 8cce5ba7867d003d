SPECIFICATION Spec
CONSTANTS
  Chars <- Letters
  Keys = {"l", " "}
  Words <- Commands
  Listing <- Tree
  Stray <- Stop
  None = None
  history_size = 2
  MaxLine = 3
  MaxEntered = 1
  MaxLines = 3
CHECK_DEADLOCK FALSE
INVARIANT TypeOK
INVARIANT ScreenShowsLine
INVARIANT GhostFits
INVARIANT ArrowsRecall
