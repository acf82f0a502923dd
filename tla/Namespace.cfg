SPECIFICATION Spec
CONSTANTS
  a = a
  Private = P
  Names = {a}
  Docs <- MCDocs
  MaxIno = 5
  CacheMax = 0
  MaxLinks = 2
  MaxRows = 1
  MaxRequests = 3
  NoRow = NoRow
  NoEntry = NoEntry
INVARIANTS TypeOK LinksCounted PathsAgree DeleteSpares
CHECK_DEADLOCK FALSE
