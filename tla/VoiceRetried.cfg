SPECIFICATION MCFairSpec
CONSTANTS
    Users = {u1}
    MaxQueueTracks = 1
    Duration = 3
    FiveSeconds = 2
    VoiceTries = 1
    ProviderTries = 1
    NetworkTries = 1
    HistoryLimit = 1
    Local = {}
    Scenarios = {{"play", "voice", "redial", "pause"}}
    Crowded = {{"play", "voice", "redial", "pause"}}
    MaxTracks = 1
    MaxBatch = 1
    MaxGeneration = 2
    MaxSessions = 1
    MaxIncidents = 1
    MaxFailures = 1
    MaxRestarts = 0
PROPERTIES
    VoiceRetried
