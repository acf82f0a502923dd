CONSTANTS
  Paths = {p1}
  NoRow = NoRow
  NoJob = NoJob
  MaxAttempts = 2
  MaxEdits = 1
  MaxStarts = 1
  Outcomes = {"ok", "transient"}
  Stops = {"unmount"}
SPECIFICATION Spec
INVARIANT FlushLeavesNoneInFlight
CHECK_DEADLOCK FALSE
