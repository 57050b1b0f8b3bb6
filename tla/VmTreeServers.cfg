SPECIFICATION Spec
CONSTANTS
  Policies = {"pinned", "retain", "discard"}
  Commands = {"install", "reset"}
  MaxDir = 2
  MaxVm = 2
  MaxGolden = 3
  BuildReady = FALSE
  KeepGoldens = 2
  None = None
INVARIANT TypeOK
INVARIANT FreshSessionKeepsItsDir
INVARIANT SweepReapsOrphans
PROPERTY RetainedSurvivesServers
