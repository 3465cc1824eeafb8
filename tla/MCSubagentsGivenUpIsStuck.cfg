SPECIFICATION Spec
CONSTANTS
  Tasks = {t1, t2, t3}
  Workers = 1
  Timeout = 2
  PollLimit = 3
SYMMETRY Symmetry
PROPERTY GivenUpIsStuck
CHECK_DEADLOCK FALSE
