SPECIFICATION Spec
CONSTANTS
  Shells = {s1, s2}
  Children = {c1, c2}
  Words = {"exit", "ls", "find", "make", "run it"}
  Exit = "exit"
  Long = {"find", "make", "run it"}
  Spaced = {"run it"}
  Junk = "junk"
  Defaults <- ExitFirst
  NoFile = NoFile
  Capacity = 3
  MaxStarts = 3
  MaxUses = 4
CHECK_DEADLOCK FALSE
SYMMETRY Symmetry
INVARIANT TypeOK
INVARIANT CountsKept
INVARIANT EachOnce
