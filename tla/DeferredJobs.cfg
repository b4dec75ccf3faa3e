\* Two scheduled commands, of which one at a time waits, and one quit or crash.
CONSTANTS
  Jobs = {j1, j2}
  MaxScheduled = 1
  MaxQuits = 1
SPECIFICATION FairSpec
INVARIANTS TypeOK BegunOnce ToldOnce EndIsTold StoreAgrees CancelledByHand
PROPERTIES EveryJobEnds
CHECK_DEADLOCK FALSE
