SPECIFICATION Spec
CONSTANTS
  v1 = v1
  Sessions = {s1, s2}
  VideoOf <- OneVideo
  Streams = {d1}
  SessionLife = 2
  EventWindow = 2
  Buffer = 1
  MaxEvents = 2
  MaxTime = 3
  MaxFailures = 1
  HistoryLimit = 1
  MaxAlerts = 3
  MaxChanges = 1
SYMMETRY Sym
CHECK_DEADLOCK FALSE
INVARIANTS
  EmptyTitleIsFetched
  SendsOnlyToOpen
  HistoryAgrees
PROPERTIES
  PruneChangesNothing
