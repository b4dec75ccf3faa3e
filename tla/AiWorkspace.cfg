\* Two windows, the first with terminal tabs too; one agent PTY at a time.
CONSTANTS
  w1 = w1
  w2 = w2
  p1 = p1
  Windows = {w1, w2}
  MaxAttempts = 3
  Tabs = {w1}
  Ptys = {p1}
  PtyLimit = 2
SPECIFICATION AllFairSpec
INVARIANTS TypeOK EntriesAreLive ClosedWindowsOwnNothing ShellsEndWithSession DisposedHoldsNone
PROPERTIES StaleNeverCompletes OpensSettle
CHECK_DEADLOCK FALSE
