SPECIFICATION FairSpec
CONSTANTS
  c1 = c1
  c2 = c2
  Caller = {c1, c2}
  MaxCommits = 2
  MaxRounds = 2
  MaxLives = 3
  MaxAccepts = 4
  MaxFaults = 1
CHECK_DEADLOCK FALSE
INVARIANTS TypeOK SettledIsDurable DrainedOrDegraded
PROPERTIES NeverBackwards GetsThere
