SPECIFICATION GuildFairSpec
CONSTANTS
  Callers = {g1, g2}
  Concurrency = 1
  Trials = 2
  OperatorRearms = FALSE
  MaxEpoch = 1
  MaxFailures = 3
  Stops = FALSE
  StaleReads = FALSE
  MaxIncidents = 1
INVARIANTS
  TrialAccounted
PROPERTIES
  GuildRecovers
CHECK_DEADLOCK FALSE
