CONSTANTS
  Paths = {p1}
  NoRow = NoRow
  NoJob = NoJob
  MaxAttempts = 2
  MaxEdits = 2
  MaxStarts = 1
  Outcomes = {"ok", "fatal"}
  Stops = {}
SPECIFICATION Spec
PROPERTY EditIsPushable
