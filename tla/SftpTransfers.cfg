\* Two transfers in one or two drops, a reconnect, and a limit that changes.
CONSTANTS
  Count = 2
  Modes = {"direct", "rename", "ask", "tree"}
  Batches = {1, 2}
  Limits = {0, 2}
  MaxConns = 2
SPECIFICATION Spec
INVARIANTS TypeOK PromptsAreLive ClaimsAreReleased NothingStuck
PROPERTIES CancelledNeverRuns
CHECK_DEADLOCK FALSE
