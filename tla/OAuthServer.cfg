SPECIFICATION Spec
CONSTANTS
  Dynamic = {d1}
  Manual = {m1}
  Confidential = {d1}
  CodeClients = {d1, m1}
  OwnLogin = {m1}
  Clis = {cli}
  Slots = {r1, r2}
  MaxCodes = 1
  MaxRefresh = 3
  MaxMints = 2
  MaxTries = 2
  MaxCli = 2
  MaxRestarts = 1
  Faults = {"disk"}
  Null = Null
CHECK_DEADLOCK FALSE
INVARIANT CodeBuysOnce
INVARIANT OneLiveRefresh
INVARIANT RegistrationsFollowLogins
