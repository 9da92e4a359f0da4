SPECIFICATION Spec
CONSTANTS
  Nr_Of_Entries = 1
  Block_Size = 2
  Partial_Transfer = TRUE
INVARIANT NoProgramError
CHECK_DEADLOCK FALSE
