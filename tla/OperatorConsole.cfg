SPECIFICATION ConsoleSpec
CONSTANTS
  MaxServers = 2
  Forwarding = {1}
  Sandboxed = {2}
  Clients = {1, 2}
  RingCap = 2
  HighWater = 2
  MaxEvents = 3
  MaxVmLines = 1
  MaxLives = 2
  Channels = {"pub"}
  PublicChannels = {"pub"}
  MaxActions = 2
  MaxImages = 1
  MaxClients = 1
  MaxChannels = 1
  Users = {"ann", "bob"}
  Agents = {"claude"}
  MaxBuilds = 2
  MaxEdits = 1
  Writers = {w1, w2}
  Entries = {"a", "b"}
  MaxCommands = 2
  Seconds = {1, 2}
  MaxSaves = 2
  MaxTurns = 3
  MaxSetups = 1
  ChannelIds = {"a", "b"}
  MaxChannelEdits = 2
  MaxSweeps = 2
CHECK_DEADLOCK FALSE
 
INVARIANT SpawnedServersAreEnded
INVARIANT FeedIsComplete
INVARIANT ConnectedSeesLatestVm
INVARIANT ServerRunsSavedModeAndChannel
INVARIANT KeysComeBack
INVARIANT NoGuestOutlivesTheCommand
INVARIANT DocumentsStayWhole
INVARIANT SavesLoadBack
INVARIANT SavesChangeOneField
INVARIANT DoctorForetells
PROPERTY HostExposureIsConfirmed
PROPERTY ServerStaysAuthoritative
