SPECIFICATION MCFairSpec
CONSTANTS
    Users = {u1}
    MaxQueueTracks = 1
    Duration = 2
    FiveSeconds = 1
    VoiceTries = 1
    ProviderTries = 1
    NetworkTries = 1
    HistoryLimit = 1
    Local = {}
    Scenarios = {
      {"play", "stop", "voice", "network", "provider", "close"},
      {"play", "provider", "pause", "close"},
      {"play", "network", "voice", "pause"}}
    Crowded = {
      {"play", "stop", "voice", "network", "provider", "close"},
      {"play", "provider", "pause", "close"},
      {"play", "network", "voice", "pause"}}
    MaxTracks = 1
    MaxBatch = 1
    MaxGeneration = 2
    MaxSessions = 1
    MaxIncidents = 1
    MaxFailures = 1
    MaxRestarts = 0
PROPERTIES
    HeadIsPlayed
    CloseEnds
