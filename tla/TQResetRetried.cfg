SPECIFICATION FairSpec
CONSTANTS
  v1 = v1
  v2 = v2
  w1 = w1
  w2 = w2
  NoJob = NoJob
  Videos = {v1}
  Jobs = {v1}
  VideoOf <- Identity1
  Workers = {w1}
  QueueCap = 1
  Profiles = 1
  Deletable = {}
  MediaFails = FALSE
  MayHang = FALSE
  MaxFaults = 0
  MaxRuns = 2
CHECK_DEADLOCK FALSE
PROPERTIES
  ResetIsRetried
