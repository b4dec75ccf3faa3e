\* One window with an AI entry and terminal tabs of the same connection.
CONSTANTS
  w1 = w1
  Windows = {w1}
  MaxAttempts = 3
  Tabs = {w1}
SPECIFICATION Spec
INVARIANT TabsAreIndependent
CHECK_DEADLOCK FALSE
