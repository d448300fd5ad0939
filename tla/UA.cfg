SPECIFICATION FairSpec
CONSTANTS
  r1 = r1
  r2 = r2
  r3 = r3
  NChunks = 2
  Requests = {r1, r2, r3}
  Clients = {"page", "parallel"}
  NetFails = TRUE
  MaxCrashes = 1
  MaxFaults = 1
CHECK_DEADLOCK FALSE
INVARIANTS
  PageAssemblesOnce
  PageAckedIsKept
  PageNeverDamaged
  LastCountAssembles

  
