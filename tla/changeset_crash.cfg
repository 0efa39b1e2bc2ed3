SPECIFICATION FairSpec
CONSTANTS
  a1 = a1
  a2 = a2
  a3 = a3
  main = main
  daemon = daemon
  session = session
  NoPlan = NoPlan
  Dead = Dead
  Absent = "absent"
  Content <- Contents
  Actor = {a1}
  Proc = {main}
  Owner = {session}
  ProcOf <- OneProcess
  OwnerOf <- OneOwner
  File = {1,2,3}
  InitDisk <- Disk3
  Plan <- Plans3
  EditorContent = {}
  MaxOps = 4
  MaxCrashes = 3
  MaxFaults = 2
  MaxEdits = 0
  EditorInWindow = FALSE
  VerdictFails = FALSE
  KeepTerminal = 3
  KeepBundles = 0
CHECK_DEADLOCK FALSE
INVARIANTS TypeOK BundleCovers
PROPERTIES ReportedMeansPlanned SettledStays InterruptedSettles ImplementsAtomic
