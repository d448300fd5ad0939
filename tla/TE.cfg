SPECIFICATION FairSpec
CONSTANTS
  Flights = {f1, f2}
  MaxRecorded = 3
  MaxBreaks = 1
  MaxFaults = 1
CHECK_DEADLOCK FALSE
INVARIANTS
  NoEventVanishes
  TwiceOnlyIfResent
PROPERTIES
  EveryEventSettles
