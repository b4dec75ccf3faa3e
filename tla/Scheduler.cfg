\* One plan over several slots; a write may fail, the process may crash.
CONSTANTS
  Plans = {daily}
  Calendar = {daily}
  KeptRuns = 1
  MaxRuns = 3
  MaxNow = 2
  MaxMoves = 1
  MaxFailures = 1
  MaxCrashes = 1
SPECIFICATION FairSpec
INVARIANTS TypeOK SlotOnce NoStaleSpinner RemovedStaysRemoved
PROPERTIES SendingIsSent OutcomeIsFinal QuietAfterDispose OverdueRuns
CHECK_DEADLOCK FALSE
