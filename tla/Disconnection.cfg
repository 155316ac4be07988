\* The end of the screen, with a user who toggles the frame counter until the end.
SPECIFICATION Spec
CONSTANTS
  MaxToggles = 4
INVARIANTS
  InterruptedAtJoin
\* A screen that is destroyed, and nothing follows.
CHECK_DEADLOCK FALSE
