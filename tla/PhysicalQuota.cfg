SPECIFICATION MCSpec
CONSTANTS
  Limits = {3, 7}
  Default = 7
  StateBlocks = 1
  AllocationReserve = 1
  MaxFile <- MCMaxFile
  MaxEpisode = 2
VIEW MCView
INVARIANTS
  QuotaSound
PROPERTIES
  CheckpointStaysFunded
  DurableLedger
