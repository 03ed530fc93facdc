SPECIFICATION MCSpec
CONSTANTS
  First = {"f1"}
  Background = {"b1", "b2"}
  Direct = {"d1"}
  keyOf <- MCKey
  All = 2
  Prefetch = 1
  searchCacheLimit = 1
  MaxFlights = 2
  Groups = {{"f1", "b1", "b2"}, {"f1", "b1", "d1"}}
INVARIANTS
  MatchSound
PROPERTIES
  MatchEnds
