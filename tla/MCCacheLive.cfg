SPECIFICATION FairSpec
CONSTANTS
  a = a
  b = b
  PBA <- MCPBA
  Data <- MCOneDatum
  Nr_Of_Jobs = 2
  Nr_Of_Slots = 2
  Nr_Of_Entries = 1
PROPERTY SyncTerminates
CHECK_DEADLOCK FALSE
