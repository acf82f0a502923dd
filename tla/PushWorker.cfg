CONSTANTS
  Paths = {p1, p2}
  NoRow = NoRow
  NoJob = NoJob
  MaxAttempts = 2
  MaxEdits = 2
  MaxStarts = 2
  Outcomes = {"ok", "transient", "fatal"}
  Stops = {"unmount", "crash"}
SPECIFICATION FairSpec
INVARIANTS TypeOK JobOwnsRow LatestRetained DrainedInOrder
PROPERTIES Implements EveryEditSettles ShutdownEnds
CHECK_DEADLOCK FALSE
