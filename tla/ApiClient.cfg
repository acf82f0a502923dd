CONSTANTS
  Reqs = {r1, r2}
  MaxRetries = 2
SPECIFICATION FairSpec
INVARIANTS DeleteSettles OnceUnlessLost
PROPERTIES ImplementsPromise NoLateWrite Answered
CHECK_DEADLOCK FALSE
