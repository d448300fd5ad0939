SPECIFICATION Spec
CONSTANTS
  u1 = u1
  u2 = u2
  u3 = u3
  d1 = d1
  d2 = d2
  d3 = d3
  Uploads = {u1, u2, u3}
  Size <- Sizes
  Quota = 3
  Deletes = {d1, d2}
  Habits = {"tabs", "early", "twice"}
  MaxCrashes = 1
  MaxFaults = 1
SYMMETRY Symmetry
CHECK_DEADLOCK FALSE
INVARIANTS
  CarefulQuota
  CarefulAccount
  NeverUndercharged
