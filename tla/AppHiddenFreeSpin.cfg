\* The free spin after a page hidden during the presentation before it.
SPECIFICATION Spec
CONSTANTS
  MaxRounds = 3
  Scenarios <- HiddenOnce
INVARIANTS FreeSpinArmed
CHECK_DEADLOCK FALSE
