\* A profile with a jump host; three generations of one session id.
CONSTANTS
  MaxGen = 3
  HasJump = TRUE
  SeveralWindows = TRUE
SPECIFICATION FairSpec
INVARIANTS TypeOK SettledReleases RegisteredIsCurrent ClosedTabStaysClosed
PROPERTIES EveryAttemptSettles NoStaleNotice
CHECK_DEADLOCK FALSE
