CONSTANTS
  Paths = {p1}
  NoRow = NoRow
  NoJob = NoJob
  MaxAttempts = 2
  MaxEdits = 1
  MaxStarts = 2
  Outcomes = {"ok", "transient"}
  Stops = {"crash"}
SPECIFICATION FairSpec
PROPERTY RowsResume
CHECK_DEADLOCK FALSE
