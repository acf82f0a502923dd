CONSTANTS
  Names = {a, b}
  Keep = Keep
  Callers = {c1}
  Nothing = Nothing
  MaxIno = 5
  MaxLinks = 2
SPECIFICATION Spec
SYMMETRY Symmetry
INVARIANTS TypeOK LinksCounted NothingLeaks
CHECK_DEADLOCK FALSE
