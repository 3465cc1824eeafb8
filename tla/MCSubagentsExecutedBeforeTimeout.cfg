SPECIFICATION Spec
CONSTANTS
  Tasks = {t1, t2}
  Workers = 1
  Timeout = 2
  PollLimit = 4
SYMMETRY Symmetry
INVARIANT ExecutedBeforeTimeout
CHECK_DEADLOCK FALSE
