SPECIFICATION GuildSpec
CONSTANTS
  Callers = {g1, g2}
  Concurrency = 1
  Trials = 1
  OperatorRearms = FALSE
  MaxEpoch = 2
  MaxFailures = 3
  Stops = TRUE
  StaleReads = TRUE
  MaxIncidents = 1
SYMMETRY GuildSymmetry
INVARIANTS
  SoundUnderStops
PROPERTIES
  ResetOnlyByNewMedia
CHECK_DEADLOCK FALSE
