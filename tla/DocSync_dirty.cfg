CONSTANTS
  Docs = {d1}
  NoRow = NoRow
  NoDoc = NoDoc
  MaxAttempts = 1
  MaxEvents = 2
  Granule = 1
  Outcomes = {"ok"}
SPECIFICATION Spec
PROPERTY PullSparesEdits
