CONSTANTS
  Docs = {d1, d2}
  NoRow = NoRow
  NoDoc = NoDoc
  MaxAttempts = 1
  MaxEvents = 3
  Granule = 4
  Outcomes = {"ok"}
SPECIFICATION Spec
SYMMETRY Symmetry
INVARIANT NothingMissed
