\* Three uploads of one name that rename or overwrite, also across a reconnect.
CONSTANTS
  Count = 3
  Modes = {"rename", "overwrite"}
  Batches = {1}
  Limits = {3}
  MaxConns = 2
SPECIFICATION Spec
PROPERTIES RenameNeverShares
CHECK_DEADLOCK FALSE
