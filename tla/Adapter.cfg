CONSTANTS
  i1 = i1
  Backends = {"fuse", "nfs"}
  Inodes = {i1}
  MaxFh = 2
  MaxChanges = 1
  NameCount = 3
  MaxEntry = 3
  MaxReturns = 1
  MaxReply = 2
  NoFile = NoFile
SPECIFICATION Spec
INVARIANTS TypeOK QueuedAtRest ListingKeepsPlace
PROPERTY ListingEnds
CHECK_DEADLOCK FALSE
