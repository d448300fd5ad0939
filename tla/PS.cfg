SPECIFICATION Spec
CONSTANTS
  c1 = c1
  Clients = {c1}
  Limit = 2
  Window = 1
  MaxTime = 4
  Sessions = {s1}
  ClientOf <- ClientOfDef
  TokenLife = 4
  Debounce = 2
  ActiveFor = 4
  Goroutines = {g1, g2}
  MaxFaults = 1
  MaxRestarts = 1
SYMMETRY Symmetry
CHECK_DEADLOCK FALSE
INVARIANTS
  AtMostTwice
  WatchingIsCounted
PROPERTIES
  IsFixedWindow
