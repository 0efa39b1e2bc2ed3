SPECIFICATION Spec
CONSTANTS
  a1 = a1
  a2 = a2
  a3 = a3
  main = main
  daemon = daemon
  session = session
  NoPlan = NoPlan
  Dead = Dead
  Absent = "absent"
  Content <- Contents
  Actor = {a1,a2,a3}
  Proc = {main,daemon}
  Owner = {session}
  ProcOf <- Mixed
  OwnerOf <- OneOwner
  File = {1,2}
  InitDisk <- Disk2
  Plan <- Plans2
  EditorContent = {"x"}
  MaxOps = 2
  MaxCrashes = 1
  MaxFaults = 1
  MaxEdits = 1
  EditorInWindow = FALSE
  VerdictFails = TRUE
  KeepTerminal = 20
  KeepBundles = 8
CHECK_DEADLOCK FALSE
INVARIANTS RecordFollowsRun RecoveryLeavesLiveRuns PathsExclusive NoCircularWait
PROPERTIES RunKeepsLaterBytes 
