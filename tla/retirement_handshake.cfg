SPECIFICATION FairSpec
CONSTANTS
  MaxParks = 2
  MaxRunners = 3
  MaxWords = 2
  MaxCrashes = 2
  MaxTimeouts = 1
CHECK_DEADLOCK FALSE
INVARIANTS TypeOK CommittedIsIntended CommittedNotRespawned
PROPERTIES ParkedOrLeaving LifeSpec CommittedParks
