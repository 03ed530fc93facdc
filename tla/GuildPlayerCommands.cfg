SPECIFICATION MCSpec
CONSTANTS
    Users = {u1}
    MaxQueueTracks = 2
    Duration = 3
    FiveSeconds = 2
    VoiceTries = 1
    ProviderTries = 2
    NetworkTries = 1
    HistoryLimit = 2
    Local = {2}
    Scenarios = {
      {"play", "stop", "leave", "crash", "clear"},
      {"play", "stop", "leave", "voice", "redial"},
      {"play", "stop", "leave", "close", "redial"},
      {"play", "remove", "move", "shuffle", "jump", "replay", "previous", "loop", "skip"},
      {"play", "clear", "store", "crash"},
      {"play", "voice", "redial", "network", "pause"},
      {"play", "voice", "redial", "provider"},
      {"play", "provider", "network", "stream", "fail", "pause"},
      {"play", "voice", "redial", "crash"},
      {"play", "network", "pause", "crash"}}
    Crowded = {
      {"play", "voice", "redial", "provider"},
      {"play", "voice", "redial", "crash"},
      {"play", "network", "pause", "crash"}}
    MaxTracks = 3
    MaxBatch = 2
    MaxGeneration = 3
    MaxSessions = 2
    MaxIncidents = 1
    MaxFailures = 1
    MaxRestarts = 1
INVARIANTS
  NoResurrection
  VoiceOpen
  Capacity
  SnapshotFaithful
  NoLostWakeup
PROPERTIES
  NothingLost
  ProgressKept
