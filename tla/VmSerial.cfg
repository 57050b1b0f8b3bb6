SPECIFICATION Spec
CONSTANTS
  Callers = {c1}
  Stoppers = {s1}
  MaxStarts = 2
  MaxStops = 3
  Retain = FALSE
  Pinned = FALSE
  IdleReaper = TRUE
  Overlap = FALSE
  Faults = {"ladder", "disk"}
  None = None
INVARIANT GuestsAccountedFor
PROPERTY ImplementsLifecycle
CHECK_DEADLOCK FALSE
