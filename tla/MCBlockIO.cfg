SPECIFICATION Spec
CONSTANTS
  Nr_Of_Entries = 2
  Block_Size = 3
  Partial_Transfer = TRUE
INVARIANTS TypeOK WholeBlock RaisedOnlyOnRetry
CHECK_DEADLOCK FALSE
