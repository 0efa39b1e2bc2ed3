SPECIFICATION FairSpec
CONSTANTS
  f1 = f1
  f2 = f2
  Path = {f1, f2}
  Script <- Scripts
  Overlap <- Itself
  None = None
  Cap = 2
  MaxBlocks = 3
  MaxAttempts = 2
CHECK_DEADLOCK FALSE
INVARIANTS TypeOK ConflictsApart AnsweredOnce ContextInOrder
PROPERTIES ConflictsInOrder RunsOnce AbortEnds NobodyForgotten
