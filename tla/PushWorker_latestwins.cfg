CONSTANTS
  Paths = {p1}
  NoRow = NoRow
  NoJob = NoJob
  MaxAttempts = 2
  MaxEdits = 3
  MaxStarts = 1
  Outcomes = {"ok", "transient"}
  Stops = {}
SPECIFICATION Spec
INVARIANT DrainedIsLatest
