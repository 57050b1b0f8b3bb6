SPECIFICATION Spec
CONSTANTS
  Policies = {"pinned"}
  Commands = {"provision", "snapshot", "gc"}
  MaxDir = 1
  MaxVm = 2
  MaxGolden = 3
  BuildReady = TRUE
  KeepGoldens = 1
  None = None
INVARIANT ManifestSealsGolden
INVARIANT OverlayHasGolden
