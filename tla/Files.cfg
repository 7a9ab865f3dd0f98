SPECIFICATION Spec
CONSTANTS
  MaxLines = 4
  Block = 2
  MaxFailures = 3
  Files = {f1, f2}
  Dot = Dot
  DotDot = DotDot
  Linkers = {r1, r2}
  OldLinks = {0, 9}
  OldTimes <- MCTimes
  MaxTime = 1
  MaxNumber = 11
  SymlinkNumbers = {1}
  MaxChanges = 1
  MaxEntries = 5
  RunsToSort = 1
  Modes <- MCModes
CHECK_DEADLOCK FALSE
INVARIANTS
  TypeOK
  AnsweredInOrder AnsweredOnce
  LinksNumbered Listed PermissionsTellTheMode
PROPERTY EquationsEnd
