\* A profile with a jump host: a dropped jump connection of a live session.
CONSTANTS
  MaxGen = 1
  HasJump = TRUE
  SeveralWindows = FALSE
SPECIFICATION Spec
INVARIANTS DropIsTold
CHECK_DEADLOCK FALSE
