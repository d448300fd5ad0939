SPECIFICATION Spec
CONSTANTS
  p1 = p1
  p2 = p2
  Viewers = {v1, v2}
  Posters = {p1, p2}
  Posts <- OnePage
  MaxSubscribers = 2
  Buffer = 1
  HistoryLimit = 2
  HistoryMayFail = FALSE
  MaxConns = 1
CHECK_DEADLOCK FALSE
INVARIANTS
  AllSubscribersGetIt
