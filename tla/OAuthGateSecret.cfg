SPECIFICATION Spec
CONSTANTS
  Dynamic = {d1}
  Manual = {m1}
  Confidential = {m1}
  CodeClients = {d1}
  OwnLogin = {}
  Clis = {cli}
  Slots = {r1, r2}
  MaxCodes = 1
  MaxRefresh = 1
  MaxMints = 2
  MaxTries = 2
  MaxCli = 1
  MaxRestarts = 1
  Faults = {"disk"}
  Null = Null
CHECK_DEADLOCK FALSE
INVARIANT GrantVerifiesAtTheGate
