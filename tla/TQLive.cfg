SPECIFICATION FairSpec
CONSTANTS
  v1 = v1
  v2 = v2
  w1 = w1
  w2 = w2
  NoJob = NoJob
  Videos = {v1, v2}
  Jobs = {v1, v2}
  VideoOf <- Identity2
  Workers = {w1}
  QueueCap = 1
  Profiles = 2
  Deletable = {}
  MediaFails = TRUE
  MayHang = TRUE
  MaxFaults = 0
  MaxRuns = 2
CHECK_DEADLOCK FALSE
PROPERTIES
  EveryJobIsTaken
  EveryJobEnds
