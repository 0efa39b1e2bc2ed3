SPECIFICATION FairSpec
CONSTANTS
  a1 = a1
  a2 = a2
  a3 = a3
  main = main
  daemon = daemon
  successor = successor
  session = session
  service = service
  Absent = Absent
  Junk = Junk
  Actor = {a1, a2, a3}
  Proc = {main, daemon, successor}
  Owner = {session, service}
  ProcOf <- Procs
  OwnerOf <- Owners
  MaxClaims = 2
  MaxCrashes = 2
  MaxFaults = 1
CHECK_DEADLOCK FALSE
INVARIANTS TypeOK ExclusiveUnlessOutdated
PROPERTIES StaleGivesWay
