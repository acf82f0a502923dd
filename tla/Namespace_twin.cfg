SPECIFICATION Spec
CONSTANTS
  a = a
  Private = P
  Names = {a}
  Docs <- MCDocs
  MaxIno = 4
  CacheMax = 2
  MaxLinks = 2
  MaxRows = 1
  MaxRequests = 4
  NoRow = NoRow
  NoEntry = NoEntry
CHECK_DEADLOCK FALSE
INVARIANT OnePathOneFile
