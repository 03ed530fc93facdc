SPECIFICATION CollectionSpec
CONSTANTS
  Tracks = 3
  CollectionWorkers = 2
  CollectionPrefetch = 2
  Horizon = 2
  Unknown = {3}
  Live = {1}
  MaxIncidents = 1
  MaxEdits = 2
PROPERTY IncidentKeepsQueue
CHECK_DEADLOCK FALSE
