\* A window is closed while the command of a job runs.
CONSTANTS
  Jobs = {j1}
  MaxScheduled = 2
  MaxQuits = 1
SPECIFICATION Spec
PROPERTIES WithoutWindowWritten
CHECK_DEADLOCK FALSE
