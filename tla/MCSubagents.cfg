SPECIFICATION FairSpec
CONSTANTS
  Tasks = {t1, t2}
  Workers = 1
  Timeout = 2
  PollLimit = 4
INVARIANTS TypeOK VerdictIsTrue GivesUpOnlyOnQueued
PROPERTIES FinalUnlessExpired EveryTaskEnds
CHECK_DEADLOCK FALSE
