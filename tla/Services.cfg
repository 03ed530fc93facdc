SPECIFICATION MCServicesSpec
CONSTANTS
  Buffer = 2
  batchLimit = 2
  Room = 2
  MaxRecords = 4
  Duration = 2
  MaxFrames = 2
  IdleTicks = 1
  Conns = {1, 2, 3}
  Grace = 1
  UnhealthyLimit = 1
  Channels = {1, 2}
  QueueLimit = 2
  MaxSequence = 2
  MaxEpoch = 1
  Requests = {r1, r2, r3}
  r1 = r1
  r2 = r2
  r3 = r3
  Routes = {"a"}
  routeOf <- MCRoute
  MaxBuckets = 2
  TextBudget = 18
  ComponentBudget = 11
  RowSizes = {1, 3}
  MaxRows = 6
  Replies = {1, 2, 3}
  PublicMax = 1
  EmbedMax = 2
  PageSize = 2
  PoolSize = 2
  Uris = 4
  MaxTotal = 4
  MaxRevisions = 1
  MaxFaults = 1
INVARIANTS
  LogSound
  StreamSound
  VoiceSound
  GatewaySound
  ChannelAccepted
  LimiterSound
  LayoutSound
  OneLiveDelivery
  PlaylistExact
PROPERTIES
  PauseIsNotStall
  GraceIsWhole
  EveryWaitEnds
CHECK_DEADLOCK FALSE
