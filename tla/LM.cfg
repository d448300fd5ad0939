SPECIFICATION FairSpec
CONSTANTS
  s1 = s1
  s2 = s2
  a1 = a1
  a2 = a2
  Watchdog = Watchdog
  Main = Main
  NoStream = NoStream
  Streams = {s1}
  ApiCalls = {a1}
  Recorded = {s1}
  MaxStreams = 1
  Watching = TRUE
  MayStop = TRUE
  MayDie = TRUE
  MaxFaults = 1
CHECK_DEADLOCK FALSE
INVARIANTS
  NoStrayProcess
  CloseIsFinal
  OnceRecordedIsFinal
  OnceGaugeCounts
PROPERTIES
  ClosedIsRecorded
