SPECIFICATION FairSpec
CONSTANTS
  Callers = {c1}
  Stoppers = {s1}
  MaxStarts = 1
  MaxStops = 1
  Retain = TRUE
  Pinned = FALSE
  IdleReaper = FALSE
  Overlap = TRUE
  Faults = {}
  None = None
PROPERTY StopIsFinal
CHECK_DEADLOCK FALSE
