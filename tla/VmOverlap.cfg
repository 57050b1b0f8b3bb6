SPECIFICATION FairSpec
CONSTANTS
  Callers = {c1, c2}
  Stoppers = {s1, s2}
  MaxStarts = 1
  MaxStops = 2
  Retain = TRUE
  Pinned = TRUE
  IdleReaper = FALSE
  Overlap = TRUE
  Faults = {"disk"}
  None = None
INVARIANT TypeOK
INVARIANT OneShotRelaunch
INVARIANT NeverResurrected
INVARIANT NoQemuOutlivesItsBoot
PROPERTY StopSettlesEventually
PROPERTY AbandonedBootEnds
CHECK_DEADLOCK FALSE
