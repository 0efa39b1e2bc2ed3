SPECIFICATION FairSpec
CONSTANTS
  a1 = a1
  a2 = a2
  a3 = a3
  main = main
  daemon = daemon
  successor = successor
  session = session
  service = service
  Absent = Absent
  Junk = Junk
  Actor = {a1, a2}
  Proc = {main, daemon}
  Owner = {session, service}
  ProcOf <- TwoProcs
  OwnerOf <- TwoOwners
  MaxClaims = 3
  MaxCrashes = 0
  MaxFaults = 0
CHECK_DEADLOCK FALSE
PROPERTIES NeverStolen
