SPECIFICATION GuildSpec
CONSTANTS
    Callers = {g1, g2}
    Concurrency = 1
    Trials = 2
    OperatorRearms = FALSE
    MaxEpoch = 2
    MaxFailures = 3
    Stops = TRUE
    StaleReads = FALSE
    MaxIncidents = 1
SYMMETRY GuildSymmetry
INVARIANTS
    CanceledTrialRefunded
CHECK_DEADLOCK FALSE
