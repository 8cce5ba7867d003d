SPECIFICATION Spec
CONSTANTS
  Strings <- AllStrings
  Tables <- OldTables
  Rules <- Learned
  Dirs <- Places
  Cwd <- Home
  Contains <- Alike
  Similarities <- Near
  NaN = NaN
  None = None
  Limit = 3
  Keep = 2
  MaxRows = 4
INVARIANT TypeOK
INVARIANT NothingLost
INVARIANT RulesAtHome
