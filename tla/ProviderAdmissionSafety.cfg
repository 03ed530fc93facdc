SPECIFICATION Spec
CONSTANTS
    Callers = {c1, c2, c3}
    Concurrency = 2
    Trials = 2
    OperatorRearms = TRUE
    MaxEpoch = 2
    MaxFailures = 3
SYMMETRY CallerSymmetry
INVARIANTS
  StatusHonest
  TrialHasOneOwner
  BudgetHonoured
  SlotsAccounted
  ParkedForCause
PROPERTIES
  GateIsBreaker
