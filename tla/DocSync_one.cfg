CONSTANTS
  Docs = {d1}
  NoRow = NoRow
  NoDoc = NoDoc
  MaxAttempts = 1
  MaxEvents = 3
  Granule = 2
  Outcomes = {"ok", "transient", "fatal"}
SPECIFICATION FairSpec
INVARIANTS TypeOK EditTracked DirtyIsJustified
PROPERTY Converges
