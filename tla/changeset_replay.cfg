SPECIFICATION FairSpec
CONSTANTS
  a1 = a1
  a2 = a2
  a3 = a3
  main = main
  daemon = daemon
  session = session
  NoPlan = NoPlan
  Dead = Dead
  Absent = "absent"
  Content <- Contents
  Actor = {a1}
  Proc = {main}
  Owner = {session}
  ProcOf <- OneProcess
  OwnerOf <- OneOwner
  File = {1,2}
  InitDisk <- Disk2
  Plan <- Plans2
  EditorContent = {}
  MaxOps = 5
  MaxCrashes = 0
  MaxFaults = 0
  MaxEdits = 0
  EditorInWindow = FALSE
  VerdictFails = FALSE
  KeepTerminal = 2
  KeepBundles = 8
CHECK_DEADLOCK FALSE
PROPERTIES ReportedMeansPlanned
