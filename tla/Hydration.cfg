CONSTANTS
  Keys = {k1, k2, k3}
  Slots = {s1, s2}
  NoKey = NoKey
  MaxEnqueues = 4
SPECIFICATION FairSpec
INVARIANTS NoDoubleFetch NothingForgotten
PROPERTIES EveryKeyFetched ShutdownEnds
CHECK_DEADLOCK FALSE
