SPECIFICATION Spec
CONSTANTS
  v1 = v1
  v2 = v2
  w1 = w1
  w2 = w2
  NoJob = NoJob
  Videos = {v1, v2}
  Jobs = {v1, v2}
  VideoOf <- Identity2
  Workers = {w1, w2}
  QueueCap = 1
  Profiles = 1
  Deletable = {v1}
  MediaFails = FALSE
  MayHang = FALSE
  MaxFaults = 1
  MaxRuns = 2
SYMMETRY Symmetry
CHECK_DEADLOCK FALSE
INVARIANTS
  TypeOK
  SingleDelivery
  QueuedIsDelivered
  RunningIsHeld
  NeverWithoutCopy
  ReadyIsComplete
  CompletedIsReady
PROPERTIES
  IsLifecycle
