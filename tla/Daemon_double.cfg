CONSTANTS
  Tags = {"a", "b--"}
  Names <- MCNames
  Delim <- MCDelim
  Mounts = {m1, m2}
  NoOne = NoOne
  NoTag = NoTag
SPECIFICATION Spec
INVARIANT OneDaemon
