SPECIFICATION FairSpec
CONSTANTS
  Users = {u1}
  Stoppers = {s1}
  ConnectAttempts = 2
  MaxCommands = 2
  MaxNoise = 1
  Noise = {"stray", "garbage"}
  Faults = {"stuck"}
  None = None
INVARIANT StreamIsReadRight
INVARIANT NoChildLeftBehind
PROPERTY EverythingSettles
