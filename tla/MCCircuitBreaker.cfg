SPECIFICATION FairSpec
CONSTANTS
  Calls = {a, b, c}
  Threshold = 2
  MaxAttempts = 2
INVARIANTS TypeOK BreakerConsistent
PROPERTY RefusalEnds
