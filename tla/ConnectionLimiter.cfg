\* Five reconnects to one endpoint, two slots.
CONSTANTS
  Callers = {c1, c2, c3, c4, c5}
  Limit = 2
SPECIFICATION FairSpec
INVARIANTS NoLostWakeup
PROPERTIES Served PoolSpec
CHECK_DEADLOCK FALSE
