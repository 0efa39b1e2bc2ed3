SPECIFICATION FairSpec
CONSTANTS
  p1 = p1
  p2 = p2
  m1 = m1
  m2 = m2
  m3 = m3
  Proc = {p1, p2}
  Mutation = {m1, m2, m3}
  By <- Three
  FailOpen = TRUE
  Batching = TRUE
  None = None
  MaxFaults = 1
  Watcher = {p1}
  MaxSubs = 1
CHECK_DEADLOCK FALSE
PROPERTIES KeepsWhatItTold NeverOldAfterNew LanesGoOn CatchesUp
