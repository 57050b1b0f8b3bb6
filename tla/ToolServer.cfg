SPECIFICATION ToolSpec
CONSTANTS
  MaxBytes = 2
  MaxLines = 2
  ChunkSizes = {1, 3}
  MaxOut = 10
  SearchLines = 3
  SearchLimits = {0, 1, 2}
  SearchBytes = 3
  Rows = {"1", "2", "3"}
  ReadBytes = 2
  ReadLines = 2
  PageFile = 6
  EditFile = 3
  MaxSessions = 3
  MaxCalls = 2
  ResponseCap = 1
CHECK_DEADLOCK FALSE
INVARIANT BashShowsTheTail
INVARIANT FullOutputIsKept
INVARIANT NothingIsDroppedSilently
INVARIANT ReadPagesCoverTheFile
INVARIANT EditsAreSimultaneous
INVARIANT RunsInTheReadySession
